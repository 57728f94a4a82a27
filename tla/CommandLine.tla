------------------------------ MODULE CommandLine ------------------------------
(***************************************************************************)
(* p2's main(): what the options of mps make of the simulation's           *)
(* properties.  argv is a sequence of options with their arguments read    *)
(* already.  The argument of -i stands for what the file holds: the number *)
(* of bursts it lists.  The times of -r and the output options are left    *)
(* out; every option comes with all its arguments.                         *)
(***************************************************************************)
EXTENDS Integers, Sequences
LOCAL INSTANCE SequencesExt

Option(name, args) == [flag |-> name, arg |-> args]

NoSuchFile == -1   \* the argument of -i when there is no such file

Defaults ==
  [N |-> 2, Q |-> 20, PC |-> 10, sap |-> "M", qs |-> "RM", alg |-> "RR",
   infile |-> NoSuchFile, iSpecified |-> FALSE, rSpecified |-> FALSE]

\* One turn of the loop over argv: an option replaces what came before it.
Replace(p, o) ==
  CASE o.flag = "-n" -> [p EXCEPT !.N = o.arg[1]]
    [] o.flag = "-a" -> [p EXCEPT !.sap = o.arg[1], !.qs = o.arg[2]]
    [] o.flag = "-s" -> [p EXCEPT !.alg = o.arg[1], !.Q = o.arg[2]]
    [] o.flag = "-i" -> [p EXCEPT !.infile = o.arg[1], !.iSpecified = TRUE]
    [] o.flag = "-r" -> [p EXCEPT !.PC = o.arg[1], !.rSpecified = TRUE]
    [] OTHER         -> p

Algorithms == {"FCFS", "SJF", "RR"}

\* A word that names no value leaves the field as malloc() left it, which may be none
\* of the values (schedule() takes any approach but SINGLE for MULTI), except that
\* every queue selection but RM and LM is NA.
Approach(word)  == CASE word = "M" -> {"MULTI"} [] word = "S" -> {"SINGLE"}
                     [] OTHER      -> {"MULTI", "SINGLE"}
Algorithm(word) == IF word \in Algorithms THEN {word} ELSE Algorithms \cup {"OTHER"}
Selection(word) == IF word \in {"RM", "LM"} THEN word ELSE "NA"

\* -r overrules -i, and without either the bursts are random.
Source(p) ==
  IF p.rSpecified \/ ~p.iSpecified THEN "RANDOM"
  ELSE IF p.infile = NoSuchFile THEN "MISSING" ELSE "FILE"

\* The properties schedule() is called with: several where a field is left over.
SchedPropsOf(argv) ==
  LET p == FoldLeft(Replace, Defaults, argv)
  IN  {[N |-> p.N, Q |-> p.Q, sap |-> s, qs |-> Selection(p.qs), alg |-> a, source |-> Source(p),
        PC |-> CASE Source(p) = "FILE" -> p.infile [] Source(p) = "MISSING" -> 0 [] OTHER -> p.PC] :
         s \in Approach(p.sap), a \in Algorithm(p.alg)}
===============================================================================
