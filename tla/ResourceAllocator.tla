--------------------------- MODULE ResourceAllocator ---------------------------
(***************************************************************************)
(* What p3's library promises its threads, without its matrices, waiting   *)
(* lists, mutex or reduction loop: a thread may claim as long as it holds  *)
(* nothing, instances are granted within claims and within what exists,    *)
(* with avoidance only if everybody can still be served, and are returned. *)
(***************************************************************************)
EXTENDS Banker

CONSTANT Capacity   \* instances of each resource type

VARIABLES avoid,    \* 1 if deadlocks are to be avoided
          held,     \* what each thread has been granted
          claimed   \* the most it may hold

avars == <<avoid, held, claimed>>

Init ==
  /\ avoid \in {0, 1}
  /\ held = [t \in Thread |-> Zero]
  /\ claimed = [t \in Thread |-> Zero]

\* Nothing is promised to two threads.
Fits == \A r \in Res : Held(held, Thread, r) <= Capacity[r]

\* However few threads are left, one of them can be given all it may still ask
\* for, if the others have returned everything.
EverybodyCanFinish ==
  \A D \in SUBSET Thread : D # {} =>
    \E i \in D : \A r \in Res : claimed[i][r] - held[i][r] <= Capacity[r] - Held(held, D, r)

OnlyRow(t, old, new) == \A u \in Thread \ {t} : new[u] = old[u]

Claim(t) ==
  /\ held[t] = Zero
  /\ claimed' \in [Thread -> Vector] /\ OnlyRow(t, claimed, claimed')
  /\ arrLessThan(claimed'[t], Capacity)
  /\ UNCHANGED held

Grant(t) ==
  /\ held' \in [Thread -> Vector] /\ OnlyRow(t, held, held')
  /\ arrLessThan(held[t], held'[t])
  /\ arrLessThan(held'[t], claimed[t])
  /\ Fits'
  /\ avoid = 1 => EverybodyCanFinish'
  /\ UNCHANGED claimed

Return(t) ==
  /\ held' \in [Thread -> Vector] /\ OnlyRow(t, held, held')
  /\ arrLessThan(held'[t], held[t])
  /\ UNCHANGED claimed

Next == /\ \E t \in Thread : Claim(t) \/ Grant(t) \/ Return(t)
        /\ UNCHANGED avoid

Spec == Init /\ [][Next]_avars
===============================================================================
