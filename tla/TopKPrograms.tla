------------------------------ MODULE TopKPrograms ------------------------------
(***************************************************************************)
(* p1's two programs.  In proctopk.c a child process per file copies the K *)
(* most frequent words of its file into shared memory, behind an offset    *)
(* that all children read and advance; the parent waits for the children   *)
(* and merges what it finds.  In threadtopk.c a thread per file stores its *)
(* words in an array of its own, and main() joins it before it starts the  *)
(* next one.                                                               *)
(*                                                                         *)
(* Shared memory is counted in cells of 4 bytes: a word takes 16 of them   *)
(* and its count one, and each access of a child to it is one step.        *)
(***************************************************************************)
EXTENDS TopK

CONSTANTS N,          \* the number of files, and of children
          K,
          Token,      \* what the files are made of,
          uppercase,  \* and the word that each token counts as
          NoFile,     \* in place of the contents: the file does not exist
          Inputs,     \* the data sets
          Programs,   \* which of "proc" and "thread" may run
          Huge        \* what four letters of a word are as an int

Child == 1 .. N
Word  == {uppercase[k] : k \in Token}

ASSUME TopKAssumption ==
  /\ N \in Nat \ {0} /\ K \in Nat \ {0}
  /\ Word \subseteq Nat \ {Empty}
  /\ NoFile \notin Seq(Token)
  /\ Inputs \subseteq [Child -> Seq(Token) \cup {NoFile}]
  /\ Programs \subseteq {"proc", "thread"}
  /\ Huge \in Nat

VARIABLES program, files,
          offset,   \* the int at the start of the shared memory
          memory,   \* the cells behind it
          child,    \* each child process, or thread
          parent,   \* the main program: "wait", "done" or "crashed"
          lines,    \* the output file
          overlap   \* has a child copied while another did?

tvars == <<program, files, offset, memory, child, parent, lines, overlap>>

MAX_STR == 16    \* cells, for 64 bytes
Slot    == MAX_STR + 1
Size    == [word |-> MAX_STR, count |-> 1]

Unwritten == <<"zero">>

TInit ==
  /\ program \in Programs /\ files \in Inputs
  /\ offset = 0
  /\ memory = [a \in 0 .. N*K*Slot - 1 |-> Unwritten]
  /\ child = [c \in Child |-> [pc |-> "start", res |-> <<>>, i |-> 1, field |-> "word",
                               cur |-> 0, read |-> 0]]
  /\ parent = "wait" /\ lines = <<>>
  /\ overlap = FALSE

-------------------------------------------------------------------------------
(* What a child does with its file *)

Counted(f) == insertAll([k \in DOMAIN f |-> Entry(uppercase[f[k]], 1)])

Readable(c) == files[c] # NoFile /\ files[c] # <<>>

\* A child process whose file is missing returns, and one whose file has no words
\* crashes: neither writes anything.
Start(c) ==
  /\ program = "proc" /\ child[c].pc = "start"
  /\ child' = [child EXCEPT ![c] =
                 IF Readable(c) THEN [@ EXCEPT !.pc = "locate",
                                               !.res = topKFrequent(Counted(files[c]), K)]
                                ELSE [@ EXCEPT !.pc = "ended"]]
  /\ UNCHANGED <<program, files, offset, memory, parent, lines, overlap>>

Copying(c) == child[c].pc \in {"copy", "load", "store"}

\* Slip: every child starts at the front.
Locate_Front(c) ==
  /\ child[c].pc = "locate"
  /\ child' = [child EXCEPT ![c].pc = "copy", ![c].cur = 0]
  /\ overlap' = (overlap \/ \E d \in Child : Copying(d))
  /\ UNCHANGED <<program, files, offset, memory, parent, lines>>

Locate(c) ==
  /\ child[c].pc = "locate"
  /\ child' = [child EXCEPT ![c].pc = "copy", ![c].cur = offset]
  /\ overlap' = (overlap \/ \E d \in Child : Copying(d))
  /\ UNCHANGED <<program, files, offset, memory, parent, lines>>

\* The memcpy() of a word or of its count.  What follows the word itself in its
\* 16 cells is what follows it on the heap.
Copy(c) ==
  LET e   == child[c].res[child[c].i]
      cur == child[c].cur
  IN  /\ child[c].pc = "copy"
      /\ memory' = [a \in DOMAIN memory |->
                      IF child[c].field = "count"
                        THEN IF a = cur + MAX_STR THEN <<"count", e.freq>> ELSE memory[a]
                      ELSE IF a = cur THEN <<"letters", e.word>>
                      ELSE IF a > cur /\ a < cur + MAX_STR THEN <<"heap">>
                      ELSE memory[a]]
      /\ child' = [child EXCEPT ![c].pc = "load"]
      /\ UNCHANGED <<program, files, offset, parent, lines, overlap>>

\* "*((int *)mptr) += ..." is a load and a store.
Load(c) ==
  /\ child[c].pc = "load"
  /\ child' = [child EXCEPT ![c].pc = "store", ![c].read = offset]
  /\ UNCHANGED <<program, files, offset, memory, parent, lines, overlap>>

\* What follows the store: the count after the word, the next slot, or the end.
Advanced(s) ==
  IF s.field = "word" THEN [s EXCEPT !.pc = "copy", !.field = "count"]
  ELSE [s EXCEPT !.pc = IF s.i = Len(s.res) THEN "ended" ELSE "copy",
                 !.i = @ + 1, !.field = "word", !.cur = @ + Slot]

\* Slip: a whole slot is added for the word, and again for the count.
Store_SlotTwice(c) ==
  /\ child[c].pc = "store"
  /\ offset' = child[c].read + Slot
  /\ child' = [child EXCEPT ![c] = Advanced(@)]
  /\ UNCHANGED <<program, files, memory, parent, lines, overlap>>

Store(c) ==
  /\ child[c].pc = "store"
  /\ offset' = child[c].read + Size[child[c].field]
  /\ child' = [child EXCEPT ![c] = Advanced(@)]
  /\ UNCHANGED <<program, files, memory, parent, lines, overlap>>

\* A thread works alone.  Without words it crashes the program; without a file it
\* leaves the size of its result as malloc() did, 0 or a number that crashes main().
Worker(c) ==
  /\ program = "thread" /\ parent = "wait" /\ child[c].pc = "start"
  /\ \A d \in Child : d < c => child[d].pc = "ended"
  /\ child' = [child EXCEPT ![c].pc = "ended",
                            ![c].res = IF Readable(c) THEN topKFrequent(Counted(files[c]), K)
                                                      ELSE <<>>]
  /\ parent' \in IF files[c] = <<>> THEN {"crashed"}
                 ELSE IF files[c] = NoFile THEN {"wait", "crashed"} ELSE {"wait"}
  /\ UNCHANGED <<program, files, offset, memory, lines, overlap>>

-------------------------------------------------------------------------------
(* What the parent makes of it *)

\* The slot at cell a, if heap cells hold (the letters of) other and its count.
SlotAt(a, other, otherCount) ==
  Entry(CASE memory[a] = Unwritten -> Empty
          [] memory[a][1] = "letters" -> memory[a][2]
          [] OTHER -> other,
        CASE memory[a + MAX_STR] = Unwritten -> 0
          [] memory[a + MAX_STR][1] = "count" -> memory[a + MAX_STR][2]
          [] memory[a + MAX_STR][1] = "letters" -> Huge
          [] OTHER -> otherCount)

\* All words or counts that were torn show as one garbled word, or as none.
Garbled == -1

Slots ==
  {[k \in 1 .. N*K |-> SlotAt((k-1) * Slot, other, otherCount)] :
     other \in {Empty, Garbled}, otherCount \in {0, Huge}}

\* The threads' results one after the other.
Results ==
  LET all[c \in 0 .. N] == IF c = 0 THEN <<>> ELSE all[c-1] \o child[c].res
  IN  all[N]

\* The parent has waited for, or joined, all children.  An empty list crashes it.
Merge ==
  /\ parent = "wait"
  /\ \A c \in Child : child[c].pc = "ended"
  /\ \E entries \in IF program = "proc" THEN Slots ELSE {Results} :
       LET merged == insertAll(entries)
       IN  IF merged = <<>>
             THEN parent' = "crashed" /\ lines' = lines
             ELSE parent' = "done" /\ lines' = topKFrequent(merged, K)
  /\ UNCHANGED <<program, files, offset, memory, child, overlap>>

ChildStep(c) == Start(c) \/ Locate(c) \/ Copy(c) \/ Load(c) \/ Store(c) \/ Worker(c)

Exited == parent # "wait" /\ UNCHANGED tvars

TNext == Merge \/ (\E c \in Child : ChildStep(c)) \/ Exited

TSpec == TInit /\ [][TNext]_tvars

-------------------------------------------------------------------------------
(* Properties *)

\* How often a word is in a file.
Occurs(f, w) ==
  IF f = NoFile THEN 0 ELSE Cardinality({k \in DOMAIN f : uppercase[f[k]] = w})

SumOver(f) == LET sum[c \in 0 .. N] == IF c = 0 THEN 0 ELSE sum[c-1] + f[c] IN sum[N]

\* The counts in the whole data set, and those that are left when only the K best
\* words of each file are counted.
InAll == [w \in Word |-> SumOver([c \in Child |-> Occurs(files[c], w)])]

InBest ==
  LET count(c) == [w \in Word |-> Occurs(files[c], w)]
  IN  [w \in Word |-> SumOver([c \in Child |->
                                 IF w \in Best(count(c), K) THEN count(c)[w] ELSE 0])]

Printed == [n \in {m \in DOMAIN lines : lines[m].word # Empty} |-> lines[n]]

\* Whatever order the children take, if no two copy at the same time then the parent
\* finds all their words at the slots it reads: what is printed is the sum of the
\* children's results.  So it is for threads, always.
PrintedIsSum == parent = "done" /\ ~overlap => Shows(Printed, InBest, K)

\* However the children race, updates of the offset are only lost, never added: no
\* child writes behind the slots that the parent reads, and the segment holds.
WithinSlots ==
  \A c \in Child : Copying(c) =>
    child[c].cur + Slot * (Len(child[c].res) - child[c].i + 1) <= N*K*Slot

\* "an application that will find the K most frequently occurring words [...] in a
\* given input data set" (src/README.md:5-6).
FindsTopK == parent = "done" => Shows(lines, InAll, K)
===============================================================================
