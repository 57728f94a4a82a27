------------------------------- MODULE BurstPool -------------------------------
(***************************************************************************)
(* What p2's simulation promises of the bursts it is given: each becomes   *)
(* ready, runs on one CPU at a time, may go back to the ready queue, and   *)
(* finishes once.                                                          *)
(***************************************************************************)
CONSTANTS Pid, Cpu

VARIABLE place   \* of each burst: new, ready, finished or the CPU it runs on

New      == <<"new">>
Ready    == <<"ready">>
Finished == <<"finished">>

PInit == place = [b \in Pid |-> New]

Move(b, from, to) == place[b] \in from /\ \E p \in to : place' = [place EXCEPT ![b] = p]

PNext ==
  \E b \in Pid :
    \/ Move(b, {New}, {Ready})
    \/ Move(b, {Ready}, {c \in Cpu : \A other \in Pid : place[other] # c})
    \/ Move(b, Cpu, {Ready, Finished})

PSpec == PInit /\ [][PNext]_place
===============================================================================
