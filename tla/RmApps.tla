-------------------------------- MODULE RmApps --------------------------------
(***************************************************************************)
(* The two programs that use the library: app.c and myapp.c.  Each starts  *)
(* its threads, and main() polls rm_detection() a number of times, then    *)
(* joins the threads and exits, which ends the process.                    *)
(*                                                                         *)
(* A thread function is a list of calls; whatever a call returns the       *)
(* thread goes on with the next one.  sleep() only delays, so it is left   *)
(* out: every interleaving is considered.                                  *)
(***************************************************************************)
EXTENDS RmDetection

CONSTANTS Program,     \* the calls of each thread, in order
          Polls,      \* how often main() polls
          JoinAlways   \* does main() join after it has seen a deadlock?

\* The calls are those of the library, and pass it the arrays it may be passed.
Op == {"claim", "request", "release", "end"}

ASSUME ProgramAssumption ==
  /\ Program \in [Thread -> Seq([op : Op, arr : Vector])]
  /\ \A t \in Thread : \A k \in 1 .. Len(Program[t]) :
       /\ Program[t][k].op = "claim" => Program[t][k].arr \in Claims
       /\ Program[t][k].op \in {"request", "release"} => Program[t][k].arr \in Requests
  /\ Polls \in Nat
  /\ JoinAlways \in BOOLEAN

VARIABLES ip,    \* the index of each thread's next, or current, call
          main   \* main(): where it is, rounds done, last result, thread to join

avars == <<vars, dvars, ip, main>>

claims(v)   == [op |-> "claim", arr |-> v]
request(v)  == [op |-> "request", arr |-> v]
release(v)  == [op |-> "release", arr |-> v]
threadEnded == [op |-> "end", arr |-> Zero]

\* app.c: two threads and one resource type with 8 instances.
V1(a) == [r \in Res |-> a]

threadfunc1 ==
  <<claims(V1(8)), request(V1(5)), request(V1(3)),
    release(V1(5)), release(V1(3)), threadEnded>>
threadfunc2 ==
  <<claims(V1(8)), request(V1(2)), request(V1(4)),
    release(V1(2)), release(V1(4)), threadEnded>>

\* myapp.c: three threads and five resource types.
V5(a, b, c, d, e) == [r \in Res |-> <<a, b, c, d, e>>[r+1]]

worker(r1, r2, r3) ==
  <<claims(V5(7, 2, 6, 1, 1)), request(r1), request(r2), request(r3),
    release(r1), release(r2), release(r3), threadEnded>>

worker1 == worker(V5(2, 2, 3, 1, 1), V5(1, 0, 2, 0, 0), V5(0, 0, 1, 1, 1))
worker2 == worker(V5(2, 0, 0, 0, 0), V5(2, 0, 2, 0, 0), V5(0, 0, 0, 1, 1))
worker3 == worker(V5(3, 0, 3, 0, 0), V5(0, 0, 1, 0, 0), V5(2, 0, 0, 1, 1))

AInit ==
  /\ DInit
  /\ ip = [t \in Thread |-> 1]
  /\ main = [pc |-> "poll", count |-> 0, ret |-> 0, join |-> 0]

-------------------------------------------------------------------------------
\* The thread's next call, once the one before has returned.
Current(t, op) ==
  /\ ip[t] <= Len(Program[t])
  /\ Program[t][ip[t]].op = op
  /\ ~Writing(t)

Arr(t) == Program[t][ip[t]].arr

\* A call that has returned leaves the thread idle, or ended.
Calls(t) ==
  /\ main.pc # "exit"
  /\ \/ Current(t, "claim") /\ (ClaimRejected(t, Arr(t)) \/ ClaimAccepted(t, Arr(t)))
                            /\ UNCHANGED dvars
     \/ ClaimColumn(t) /\ UNCHANGED dvars
     \/ Current(t, "request") /\ Ask(t, Arr(t))
     \/ AskAgain(t)
     \/ Current(t, "release") /\ GiveBack(t, Arr(t))
     \/ Current(t, "end") /\ ThreadEnded(t) /\ UNCHANGED dvars
  /\ ip' = IF pc'[t] \in {"idle", "ended"} THEN [ip EXCEPT ![t] = @ + 1] ELSE ip
  /\ UNCHANGED <<DA, main>>

Spurious(t) ==
  /\ main.pc # "exit"
  /\ SpuriousWakeup(t)
  /\ UNCHANGED <<DA, dvars, ip, main>>

\* A main() that never polls leaves nobody to read between two writes.
Writes ==
  /\ main.pc # "exit"
  /\ IF Polls > 0 THEN Write ELSE WriteAll
  /\ UNCHANGED <<ip, main>>

MainPolls(tcount) ==
  /\ main.pc = "poll" /\ main.count < Polls
  /\ CalledWith(tcount) \/ ReadAvailable \/ Compare \/ AddRow
  /\ UNCHANGED <<ip, main>>

MainPolled ==
  /\ main.pc = "poll"
  /\ Returned
  /\ main' = [main EXCEPT !.count = @ + 1, !.ret = Cardinality(Reported)]
  /\ UNCHANGED ip

MainStopsPolling ==
  /\ main.pc = "poll" /\ main.count = Polls
  /\ main' = [main EXCEPT !.pc = IF JoinAlways \/ main.ret = 0 THEN "join" ELSE "exit"]
  /\ UNCHANGED <<vars, dvars, ip>>

MainJoins ==
  /\ main.pc = "join" /\ main.join < N
  /\ pc[main.join] = "ended"
  /\ main' = [main EXCEPT !.join = @ + 1, !.pc = IF main.join = N-1 THEN "exit" ELSE @]
  /\ UNCHANGED <<vars, dvars, ip>>

Active == Cardinality({t \in Thread : pc[t] # "ended"})

MainPolling == MainPolls(Active) \/ MainPolled
Main        == MainStopsPolling \/ MainJoins

Threads == Writes \/ \E t \in Thread : Calls(t) \/ Spurious(t)

PollingNext == MainPolling \/ Main \/ Threads
PollingSpec == AInit /\ [][PollingNext]_avars

-------------------------------------------------------------------------------
(* Properties *)

\* A thread ends only when its program has run to its last call, and by then it
\* has returned what it was granted, although no result is ever checked.
NothingLeftBehind ==
  \A t \in Thread : ip[t] = Len(Program[t]) /\ pc[t] = "idle" => allocation[t] = Zero

\* With avoidance main() sees no deadlock: "Should not happen", says myapp.c:223
\* of the branch that reports one.
ShouldNotHappen == DA = 1 => main.ret = 0
===============================================================================
