--------------------------------- MODULE MCTopK ---------------------------------
(* Small data sets for p1. *)
EXTENDS TopKPrograms

\* Three words, one of them in upper and in lower case.
MCToken     == {1, 2, 3, 13}
MCuppercase == [k \in MCToken |-> k % 10]

Files ==
  {NoFile, <<>>, <<1>>, <<3, 1>>, <<13, 2, 3>>, <<2, 2, 1, 3>>, <<3, 1, 13, 1, 2, 1>>}
MCInputs == [Child -> Files]

WithTwo  == {[c \in Child |-> <<1, 2, 1>>]}

Both == {"proc", "thread"}
Proc == {"proc"}
===============================================================================
