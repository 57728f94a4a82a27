------------------------------- MODULE ReadyList -------------------------------
(***************************************************************************)
(* What readyqueue.h promises the callers of p2's ready queue: bursts are  *)
(* enqueued at the end, in front of the marker, and leave from the front   *)
(* or by pid, as does the marker; a queue without one can be sorted by     *)
(* pid.                                                                    *)
(***************************************************************************)
EXTENDS MarkedSequence

VARIABLE list

LInit == list = <<>>

LEnqueue == \E b \in Item \ Items(list) : list' = Enqueued(list, b)

LDequeue == list # <<>> /\ list' = Without(list, 1)

LDequeueAt == \E k \in DOMAIN list : list' = Without(list, k)

LSort ==
  /\ ~Closed(list)
  /\ list' \in [DOMAIN list -> Items(list)]
  /\ \A k, l \in DOMAIN list : k < l => list'[k] < list'[l]

LNext == LEnqueue \/ LDequeue \/ LDequeueAt \/ LSort

LSpec == LInit /\ [][LNext]_list
===============================================================================
