-------------------------------- MODULE Banker --------------------------------
(***************************************************************************)
(* The arithmetic of p3's resource manager (rm.c): vectors of resource     *)
(* counts, the reduction loop that is_state_safe() and rm_detection() both *)
(* run over the allocation matrix, and the two reference notions the loop  *)
(* is measured against: a set of threads none of which can ever finish,    *)
(* and the total a set of threads holds.                                   *)
(***************************************************************************)
EXTENDS Integers, FiniteSets

CONSTANTS N,    \* number of threads registered with rm_init()
          M     \* number of resource types

ASSUME SizeAssumption == N \in Nat \ {0} /\ M \in Nat \ {0}

Thread == 0 .. N-1
Res    == 0 .. M-1

\* An int array of M counts, as the callers of the library build them.
Vector == [Res -> Nat]
Zero   == [r \in Res |-> 0]

Plus(a, b)  == [r \in Res |-> a[r] + b[r]]
Minus(a, b) == [r \in Res |-> a[r] - b[r]]

arrLessThan(a, b) == \A r \in Res : a[r] <= b[r]

-------------------------------------------------------------------------------
(***************************************************************************)
(* The loop "find an unfinished i whose row fits in work, add its          *)
(* allocation to work, mark it finished, start over".  run[k] is the state *)
(* after k rounds; a round that finds no row leaves it alone (the break),  *)
(* and N rounds exhaust the threads.                                       *)
(***************************************************************************)
FirstOf(S) == CHOOSE x \in S : \A y \in S : x <= y

\* A slip this loop invites: the scan starts at 1 and never offers thread 0.
Fitting_SkipsFirst(s, demand) ==
  {i \in Thread \ s.finish : i > 0 /\ arrLessThan(demand[i], s.work)}

Fitting(s, demand) ==
  {i \in Thread \ s.finish : arrLessThan(demand[i], s.work)}

Round(s, alloc, demand) ==
  IF Fitting(s, demand) = {} THEN s
  ELSE LET x == FirstOf(Fitting(s, demand))
       IN  [work |-> Plus(s.work, alloc[x]), finish |-> s.finish \cup {x}]

\* What the loop works on: the counts it may hand out, and whom it has finished.
State == [work : [Res -> Int], finish : SUBSET Thread]

Rounds(work, alloc, demand) ==
  LET body == [s \in State |-> Round(s, alloc, demand)]
      run[k \in 0 .. N] ==
        IF k = 0 THEN [work |-> work, finish |-> {}] ELSE body[run[k-1]]
  IN  run

Finished(work, alloc, demand) == Rounds(work, alloc, demand)[N].finish

-------------------------------------------------------------------------------
(***************************************************************************)
(* Reference notions, not code.                                            *)
(***************************************************************************)

\* The sum of v[0], ..., v[N-1], by running totals.
Total(v) ==
  LET sum[n \in 0 .. N] == IF n = 0 THEN 0 ELSE sum[n-1] + v[n-1]
  IN  sum[N]

\* How many instances of r the threads of D hold together.
Held(alloc, D, r) ==
  Total([i \in Thread |-> IF i \in D THEN alloc[i][r] ELSE 0])

\* No thread of D can have its demand met even if all the others finish and
\* return what they hold.
Hopeless(work, alloc, demand, D) ==
  \A i \in D : \E r \in Res :
    demand[i][r] > work[r] + Held(alloc, Thread \ D, r)

\* The state is safe: every non-empty set of threads has one that can finish
\* once the threads outside the set have.
Safe(work, alloc, demand) ==
  \A D \in SUBSET Thread : D # {} => ~Hopeless(work, alloc, demand, D)
===============================================================================
