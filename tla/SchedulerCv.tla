------------------------------ MODULE SchedulerCv ------------------------------
(***************************************************************************)
(* The simulator with sched_cv.c in place of sched.c: a CPU that finds its *)
(* queue empty sleeps on the queue's condition variable.  It does so       *)
(* without having locked the mutex, and a CPU that need not sleep never    *)
(* locks it at all, yet both unlock it when they have taken a burst.  So   *)
(* the mutex does not keep main and the CPUs apart, and a call of          *)
(* enqueue() or dequeue() takes two steps here: it starts and it ends.     *)
(*                                                                         *)
(* pthread_cond_wait() and pthread_mutex_unlock() on a mutex the caller    *)
(* does not hold are undefined; the default mutex of the build has no      *)
(* owner, so that both set it free, whoever holds it.                      *)
(*                                                                         *)
(* Where the program has gone wrong for good the model stops: two threads  *)
(* change one list at the same time ("overlap"), the NULL that dequeue()   *)
(* returns for an empty list is used ("empty"), or the end marker is taken *)
(* for a burst ("marker").  A CPU's second look at the head, which sched.c *)
(* makes under the mutex, is here made without it, and takes the steps of  *)
(* the first.                                                              *)
(***************************************************************************)
EXTENDS Scheduler

VARIABLES mutex,    \* is each queue's mutex locked?
          at,       \* where each CPU is between the steps of sched.c
          mainAt,   \* where main is in its lock, enqueue, unlock and signal
          fault     \* how the program has gone wrong

cvars == <<svars, mutex, at, mainAt, fault>>

CInit ==
  /\ SInit
  /\ mutex = [i \in QueueIdx |-> FALSE]
  /\ at = [c \in Cpu |-> "out"]
  /\ mainAt = [pc |-> "out", queue |-> 0]
  /\ fault = "none"

\* Who is inside a list, changing it.
CpusInside(i) == {c \in Cpu : at[c] = "inside" /\ queue(c) = i}
MainInside(i) == mainAt.pc = "inside" /\ mainAt.queue = i
Inside(i)     == CpusInside(i) # {} \/ MainInside(i)

\* A thread starts to change list i.
Enter(i) == fault' = IF Inside(i) THEN "overlap" ELSE fault

Set(i, locked) == mutex' = [mutex EXCEPT ![i] = locked]

-------------------------------------------------------------------------------
(* main: every enqueue is locked and unlocked, and a burst of a file signalled *)

Putting ==
  \/ main.pc = "produce" /\ main.nextPid <= schedProps.PC /\ schedProps.qs # "LM"
  \/ main.pc = "scan" /\ main.idx = queuesSize
  \/ main.pc = "close"

Target == CASE main.pc = "scan" -> main.shortest
            [] main.pc = "produce" /\ schedProps.qs = "NA" -> 0
            [] OTHER -> main.idx

MainLocks ==
  /\ mainAt.pc = "out" /\ Putting
  /\ ~mutex[Target]
  /\ Set(Target, TRUE)
  /\ mainAt' = [pc |-> "inside", queue |-> Target]
  /\ Enter(Target)
  /\ UNCHANGED <<svars, at>>

MainPuts ==
  /\ mainAt.pc = "inside"
  /\ Produce \/ PutShortest \/ Close
  /\ mainAt' = [mainAt EXCEPT !.pc = "unlock"]
  /\ UNCHANGED <<schedProps, mutex, at, fault>>

\* Neither a marker nor a burst of the random source is signalled.
Signals == schedProps.source = "FILE" /\ main.pc = "produce"

\* Slip: no burst is signalled.
MainUnlocks_NoSignal ==
  /\ mainAt.pc = "unlock"
  /\ Set(mainAt.queue, FALSE)
  /\ mainAt' = [mainAt EXCEPT !.pc = "out"]
  /\ UNCHANGED <<svars, at, fault>>

MainUnlocks ==
  /\ mainAt.pc = "unlock"
  /\ Set(mainAt.queue, FALSE)
  /\ mainAt' = [mainAt EXCEPT !.pc = IF Signals THEN "signal" ELSE "out"]
  /\ UNCHANGED <<svars, at, fault>>

Sleepers(i) == {c \in Cpu : at[c] = "asleep" /\ queue(c) = i}

MainSignals ==
  /\ mainAt.pc = "signal"
  /\ IF Sleepers(mainAt.queue) = {}
       THEN UNCHANGED at
       ELSE \E c \in Sleepers(mainAt.queue) : at' = [at EXCEPT ![c] = "woken"]
  /\ mainAt' = [mainAt EXCEPT !.pc = "out"]
  /\ UNCHANGED <<svars, mutex, fault>>

\* What main does without any lock.
MainGoesOn ==
  /\ mainAt.pc = "out"
  /\ \/ Produce /\ schedProps.qs = "LM"
     \/ Compare \/ Note \/ ProducedAll
     \/ Join /\ \A c \in Cpu : at[c] = "out"
  /\ UNCHANGED <<schedProps, mutex, at, mainAt, fault>>

\* Nothing has gone wrong so far.
Sound == fault = "none" /\ ~Crashed

MainLock == Sound /\ MainLocks

MainStep ==
  /\ Sound
  /\ MainPuts \/ MainUnlocks \/ MainSignals \/ MainGoesOn

-------------------------------------------------------------------------------
(* The CPU threads: cpu() *)

Go(c, to) == at' = [at EXCEPT ![c] = to]

\* A look at the head, at the top of the loop or behind the check of the size.  Only
\* behind that is the mutex unlocked when it ends the loop.
LookAtHead(c) ==
  /\ at[c] \in {"out", "sized"}
  /\ TestHead(c) \/ ReadHead(c) \/ ReadPid(c)
  /\ IF at[c] = "sized" /\ cpu'[c].pc = "stopped" THEN Go(c, "unlock") ELSE UNCHANGED at
  /\ UNCHANGED <<schedProps, mutex, mainAt, fault>>

Again(c) == cpu' = [cpu EXCEPT ![c].pc = "loop"] /\ Waiting

\* The size, which may or may not count what is being changed just now.
CheckSize(c) ==
  /\ cpu[c].pc = "wait" /\ at[c] = "out"
  /\ \E empty \in {queues[queue(c)] = <<>>} \cup (IF Inside(queue(c)) THEN BOOLEAN ELSE {}) :
       IF empty THEN Go(c, "drowsy") /\ UNCHANGED svars
                ELSE Go(c, "sized") /\ Again(c) /\ UNCHANGED schedProps
  /\ UNCHANGED <<mutex, mainAt, fault>>

\* pthread_cond_wait(): the mutex is set free, whoever holds it ...
Sleep(c) ==
  /\ at[c] = "drowsy"
  /\ Go(c, "asleep")
  /\ Set(queue(c), FALSE)
  /\ UNCHANGED <<svars, mainAt, fault>>

SpuriousWakeup(c) ==
  /\ at[c] = "asleep"
  /\ Go(c, "woken")
  /\ UNCHANGED <<svars, mutex, mainAt, fault>>

\* Slip: "if" in place of "while" around pthread_cond_wait().
Relock_NoRecheck(c) ==
  /\ at[c] = "woken"
  /\ ~mutex[queue(c)]
  /\ Go(c, "sized") /\ Again(c)
  /\ Set(queue(c), TRUE)
  /\ UNCHANGED <<schedProps, mainAt, fault>>

\* ... and locked before the call returns and the size is looked at again.
Relock(c) ==
  /\ at[c] = "woken"
  /\ ~mutex[queue(c)]
  /\ Go(c, "out")
  /\ Set(queue(c), TRUE)
  /\ UNCHANGED <<svars, mainAt, fault>>

\* dequeue() or dequeue_at() starts; dequeue() does not refuse the marker.
StartTake(c) ==
  LET q == queues[queue(c)]
  IN  /\ at[c] = "sized" /\ cpu[c].pc = "wait" /\ schedProps.alg # "OTHER"
      /\ Go(c, "inside")
      /\ fault' = IF Inside(queue(c)) THEN "overlap"
                  ELSE IF q = <<>> THEN "empty"
                  ELSE IF q[1] = Marker THEN "marker"
                  ELSE fault
      /\ UNCHANGED <<svars, mutex, mainAt>>

\* With no algorithm the CPU takes nothing, over and over.
TakeNothing(c) ==
  /\ at[c] = "sized" /\ cpu[c].pc = "wait" /\ schedProps.alg = "OTHER"
  /\ Go(c, "out") /\ Again(c)
  /\ UNCHANGED <<schedProps, mutex, mainAt, fault>>

EndTake(c) ==
  /\ at[c] = "inside"
  /\ Take(c)
  /\ Go(c, "unlock")
  /\ UNCHANGED <<schedProps, mutex, mainAt, fault>>

\* The mutex is unlocked, whoever has locked it.
Unlock(c) ==
  /\ at[c] = "unlock"
  /\ Go(c, "out")
  /\ Set(queue(c), FALSE)
  /\ UNCHANGED <<svars, mainAt, fault>>

\* RR returns a burst under the mutex, and signals nobody.
LockToRequeue(c) ==
  /\ at[c] = "out" /\ cpu[c].pc = "run" /\ Unfinished(cpu[c].burst)
  /\ ~mutex[queue(c)]
  /\ Set(queue(c), TRUE)
  /\ Go(c, "inside")
  /\ Enter(queue(c))
  /\ UNCHANGED <<svars, mainAt>>

EndRequeue(c) ==
  /\ at[c] = "inside"
  /\ Requeue(c)
  /\ Go(c, "unlock")
  /\ UNCHANGED <<schedProps, mutex, mainAt, fault>>

FinishBurst(c) ==
  /\ at[c] = "out"
  /\ Finish(c)
  /\ UNCHANGED <<schedProps, mutex, at, mainAt, fault>>

CpuLocks(c) == c \in Cpu /\ Sound /\ (Relock(c) \/ LockToRequeue(c))

CpuRuns(c) ==
  /\ c \in Cpu /\ Sound
  /\ \/ LookAtHead(c) \/ CheckSize(c) \/ Sleep(c) \/ StartTake(c) \/ TakeNothing(c)
     \/ EndTake(c) \/ Unlock(c) \/ EndRequeue(c) \/ FinishBurst(c)

CpuWakes(c) == Sound /\ SpuriousWakeup(c)

-------------------------------------------------------------------------------
\* The program has ended, or nothing can be said of it any more.
Over == main.pc = "end" \/ ~Sound

CNext ==
  \/ MainLock \/ MainStep
  \/ \E c \in Cpu : CpuLocks(c) \/ CpuRuns(c) \/ CpuWakes(c)
  \/ Over /\ UNCHANGED cvars

\* Every thread runs, and a mutex that is free again and again is got in the end.
CFairness ==
  /\ WF_cvars(MainStep) /\ SF_cvars(MainLock)
  /\ \A c \in Cpus : WF_cvars(CpuRuns(c)) /\ SF_cvars(CpuLocks(c))

CSpec == CInit /\ [][CNext]_cvars /\ CFairness

-------------------------------------------------------------------------------
(* Properties *)

CTypeOK ==
  /\ STypeOK
  /\ mutex \in [QueueIdx -> BOOLEAN]
  /\ at \in [Cpu -> {"out", "sized", "drowsy", "asleep", "woken", "inside", "unlock"}]
  /\ mainAt \in [pc : {"out", "inside", "unlock", "signal"}, queue : QueueIdx]
  /\ fault \in {"none", "overlap", "empty", "marker"}

Asleep(c) == c \in Cpu /\ at[c] = "asleep"

\* A program that does not go wrong ends, or hangs in main's joins for one reason:
\* the marker, which nobody signals, was queued over a sleeping CPU.  Without its
\* input file (sched_cv.c:364) or an algorithm it hangs in any case.
HangsOnlyAsleep ==
  /\ ~NeverEnds =>
       <>(\/ Over
          \/ main.pc = "join" /\ \E c \in Cpu : Asleep(c) /\ Closed(queues[queue(c)]))
  /\ NeverEnds => []~(main.pc = "end")

\* In turn, main will still put a burst into queue i.
StillToCome(i) ==
  /\ schedProps.source = "FILE" /\ schedProps.qs = "RM"
  /\ main.pc = "produce" /\ mainAt.pc = "out"
  /\ main.nextPid + ((i - main.idx) % queuesSize) <= schedProps.PC

\* A signal lost between the look at the size and the wait delays the CPU only till
\* the next burst for its queue.
NextBurstWakes ==
  \A c \in Cpus :
    Asleep(c) /\ StillToCome(queue(c)) ~> Over \/ ~Asleep(c)

\* A CPU with a queue of its own never finds it empty once it has seen a head, or a
\* size above 0.
OwnQueueNotEmpty == schedProps.sap = "MULTI" => fault # "empty" /\ ~Crashed
===============================================================================
