---------------------------- MODULE MarkedSequence ----------------------------
(***************************************************************************)
(* A ready queue of p2 as its callers see it: a sequence of pids that an   *)
(* end marker, once it is queued, always closes.                           *)
(***************************************************************************)
EXTENDS Integers, Sequences

CONSTANT Pid        \* the pids of the bursts, which count from 1

ASSUME PidAssumption == Pid \subseteq Nat \ {0}

Marker == -1        \* the pid of the dummy item that ends a queue

Item == Pid \cup {Marker}

Items(q) == {q[k] : k \in DOMAIN q}

Closed(q) == q # <<>> /\ q[Len(q)] = Marker

\* Slip: the marker loses its place at the end.
Enqueued_AfterMarker(q, b) == Append(q, b)

\* Bursts go in at the end, but before the marker.
Enqueued(q, b) ==
  IF Closed(q) THEN SubSeq(q, 1, Len(q)-1) \o <<b, Marker>> ELSE Append(q, b)

\* q without its k-th item.
Without(q, k) == SubSeq(q, 1, k-1) \o SubSeq(q, k+1, Len(q))
===============================================================================
