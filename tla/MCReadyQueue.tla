----------------------------- MODULE MCReadyQueue -----------------------------
(* Four bursts and the marker, on as many addresses. *)
EXTENDS ReadyQueue
MCPid    == 1 .. 4
MCNode   == 1 .. 5
MCNULL   == 0
MCLength == [b \in MCPid \cup {-1} |-> IF b = -1 THEN 0 ELSE 2^b]
===============================================================================
