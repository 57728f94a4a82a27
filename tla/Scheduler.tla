------------------------------- MODULE Scheduler -------------------------------
(***************************************************************************)
(* p2's simulator, sched.c: the main thread produces bursts into one ready *)
(* queue or one per CPU, closes every queue with a marker and joins the    *)
(* CPU threads, which take bursts from their queue and "run" them.         *)
(*                                                                         *)
(* What is done under a queue's mutex is one step.  Two things are done    *)
(* without it, and every read of theirs is a step: a CPU's look at the     *)
(* head of its queue (is there one?  the pointer again, then the node),    *)
(* because another CPU may take the last burst, or free the node, in       *)
(* between; and main's scan for the least loaded queue, which reads a load *)
(* to compare it and once more to note it.  usleep() only delays, so it is *)
(* left out.  A CPU that follows a NULL or a freed pointer may end the     *)
(* process: "crashed".                                                     *)
(***************************************************************************)
EXTENDS MarkedSequence, FiniteSets

CONSTANTS Props,      \* the SchedProps records the command line may ask for
          BurstLengths,       \* L1 .. L2, or the lengths a file lists
          InterarrivalTimes,  \* T1 .. T2
          Garbage             \* what malloc() may leave in a queueLoad

\* PC counts the bursts of either source, and "MISSING" is -i with a file that does
\* not exist.  The algorithm is "OTHER" where malloc() left a value that is none of
\* the three.  The times are the same for all runs here.
SchedProps ==
  [N : Nat \ {0}, Q : Nat, PC : Nat, alg : {"FCFS", "SJF", "RR", "OTHER"},
   sap : {"MULTI", "SINGLE"},
   qs : {"RM", "LM", "NA"}, source : {"FILE", "RANDOM", "MISSING"}]

ASSUME SchedulerAssumption ==
  /\ Props \subseteq SchedProps
  /\ \A p \in Props : 1 .. p.PC \subseteq Pid /\ (p.alg = "RR" => p.Q > 0)
  /\ BurstLengths \subseteq Nat /\ InterarrivalTimes \subseteq Nat
  /\ Garbage \subseteq Int /\ Garbage # {}

VARIABLES schedProps,     \* what the command line asked for
          queues,         \* each ready queue, a sequence of pids
          queueLoad,      \* each queue's queueLoad
          burstLength,    \* of each burst produced so far
          remainingTime,  \* of each burst produced so far
          finishedQueue,  \* the finished bursts, in order
          cpu,            \* each CPU thread: where it is, its burst, the head it saw
          main            \* the producer: where it is, its locals, and in seen, which
                          \* only properties read, the loads its scan came across

svars == <<schedProps, queues, queueLoad, burstLength, remainingTime, finishedQueue,
           cpu, main>>

Cpus       == UNION {0 .. p.N-1 : p \in Props}
Cpu        == 0 .. schedProps.N-1
queuesSize == IF schedProps.sap = "SINGLE" THEN 1 ELSE schedProps.N
QueueIdx   == 0 .. queuesSize-1
queue(c)   == IF schedProps.sap = "SINGLE" THEN 0 ELSE c

None  == 0     \* no burst, or a NULL head
Stale == -2    \* a head pointer whose node has been freed

Unseen == [i \in QueueIdx |-> 0]

SInit ==
  /\ schedProps \in Props
  /\ queues = [i \in QueueIdx |-> <<>>]
  /\ queueLoad \in [QueueIdx -> Garbage]
  /\ burstLength = [b \in Pid |-> 0]
  /\ remainingTime = [b \in Pid |-> 0]
  /\ finishedQueue = <<>>
  /\ cpu = [c \in Cpu |-> [pc |-> "loop", burst |-> None, head |-> None]]
  /\ main = [pc |-> IF schedProps.source = "MISSING" THEN "join" ELSE "produce",
             nextPid |-> 1, idx |-> 0, shortest |-> 0, load |-> 0, seen |-> Unseen]

\* A CPU holds queue i's mutex for good: it waits for it a second time.
Locked(i) == \E c \in Cpu : queue(c) = i /\ cpu[c].pc = "stuck"

\* The process is gone.
Crashed == \E c \in Cpu : cpu[c].pc = "crashed"

-------------------------------------------------------------------------------
(* The producer: parse_and_enqueue() and sched_random() *)

\* sched_random() draws a length with the parameters of the interarrival times.
Lengths == IF schedProps.source = "RANDOM" THEN InterarrivalTimes ELSE BurstLengths

\* An item goes into queue i, under its mutex.
Put(i, b, length) ==
  /\ ~Locked(i)
  /\ queues' = [queues EXCEPT ![i] = Enqueued(@, b)]
  /\ queueLoad' = [queueLoad EXCEPT ![i] = @ + length]

\* A new burst: for RM and NA straight into its queue, for LM after a scan.
Produce ==
  /\ main.pc = "produce" /\ main.nextPid <= schedProps.PC
  /\ \E l \in Lengths :
       /\ burstLength' = [burstLength EXCEPT ![main.nextPid] = l]
       /\ remainingTime' = [remainingTime EXCEPT ![main.nextPid] = l]
       /\ IF schedProps.qs = "LM"
            THEN /\ main' = [main EXCEPT !.pc = "scan", !.shortest = 0, !.load = queueLoad[0],
                               !.idx = IF schedProps.source = "RANDOM" THEN 1 ELSE 0,
                               !.seen[0] = queueLoad[0]]
                 /\ UNCHANGED <<queues, queueLoad>>
            ELSE /\ Put(IF schedProps.qs = "RM" THEN main.idx ELSE 0, main.nextPid, l)
                 /\ main' = [main EXCEPT !.nextPid = @ + 1,
                               !.idx = IF schedProps.qs = "RM" THEN (@ + 1) % queuesSize ELSE @]
  /\ UNCHANGED <<finishedQueue, cpu>>

\* Slip: either source compares sizes.
Compare_BySize ==
  LET i == main.idx
  IN  /\ main.pc = "scan" /\ i < queuesSize
      /\ main' = [main EXCEPT !.pc = IF Len(queues[i]) < main.load THEN "note" ELSE @,
                    !.idx = IF Len(queues[i]) < main.load THEN @ ELSE i+1,
                    !.seen[i] = queueLoad[i]]
      /\ UNCHANGED <<queues, queueLoad, burstLength, remainingTime, finishedQueue, cpu>>

\* A turn of the scan compares the queue's load, or for the random source its size.
Compare ==
  LET i       == main.idx
      smaller == (IF schedProps.source = "RANDOM" THEN Len(queues[i]) ELSE queueLoad[i])
                   < main.load
  IN  /\ main.pc = "scan" /\ i < queuesSize
      /\ main' = [main EXCEPT !.pc = IF smaller THEN "note" ELSE @,
                    !.idx = IF smaller THEN @ ELSE i+1,
                    !.seen[i] = queueLoad[i]]
      /\ UNCHANGED <<queues, queueLoad, burstLength, remainingTime, finishedQueue, cpu>>

\* A smaller one is noted, with the load the queue has by now.
Note ==
  LET i == main.idx
  IN  /\ main.pc = "note"
      /\ main' = [main EXCEPT !.pc = "scan", !.idx = i+1, !.shortest = i,
                    !.load = queueLoad[i], !.seen[i] = queueLoad[i]]
      /\ UNCHANGED <<queues, queueLoad, burstLength, remainingTime, finishedQueue, cpu>>

PutShortest ==
  /\ main.pc = "scan" /\ main.idx = queuesSize
  /\ Put(main.shortest, main.nextPid, burstLength[main.nextPid])
  /\ main' = [main EXCEPT !.pc = "produce", !.nextPid = @ + 1, !.idx = 0, !.shortest = 0,
                !.load = 0, !.seen = Unseen]
  /\ UNCHANGED <<burstLength, remainingTime, finishedQueue, cpu>>

ProducedAll ==
  /\ main.pc = "produce" /\ main.nextPid = schedProps.PC + 1
  /\ main' = [main EXCEPT !.pc = "close", !.idx = 0]
  /\ UNCHANGED <<queues, queueLoad, burstLength, remainingTime, finishedQueue, cpu>>

\* A marker at the end of every queue.
Close ==
  /\ main.pc = "close"
  /\ Put(main.idx, Marker, 0)
  /\ main' = IF main.idx = queuesSize-1 THEN [main EXCEPT !.pc = "join"]
                                        ELSE [main EXCEPT !.idx = @ + 1]
  /\ UNCHANGED <<burstLength, remainingTime, finishedQueue, cpu>>

\* All CPU threads joined.  What follows only frees and prints.
Join ==
  /\ main.pc = "join"
  /\ \A c \in Cpu : cpu[c].pc = "stopped"
  /\ main' = [main EXCEPT !.pc = "end"]
  /\ UNCHANGED <<queues, queueLoad, burstLength, remainingTime, finishedQueue, cpu>>

Main ==
  /\ ~Crashed
  /\ Produce \/ Compare \/ Note \/ PutShortest \/ ProducedAll \/ Close \/ Join
  /\ UNCHANGED schedProps

-------------------------------------------------------------------------------
(* The CPU threads: cpu() *)

Waiting == UNCHANGED <<queues, queueLoad, burstLength, remainingTime, finishedQueue, main>>

\* Slip: an empty queue is taken for a finished one.
TestHead_EmptyIsEnd(c) ==
  /\ cpu[c].pc = "loop"
  /\ cpu' = [cpu EXCEPT ![c].pc = IF queues[queue(c)] = <<>> THEN "stopped" ELSE "test"]
  /\ Waiting

\* Without the mutex: is the head pointer NULL? ...
TestHead(c) ==
  /\ cpu[c].pc = "loop"
  /\ cpu' = [cpu EXCEPT ![c].pc = IF queues[queue(c)] = <<>> THEN "wait" ELSE "test"]
  /\ Waiting

\* ... it is read again, and may be NULL by now ...
ReadHead(c) ==
  LET q == queues[queue(c)]
  IN  /\ cpu[c].pc = "test"
      /\ cpu' = [cpu EXCEPT ![c] = IF q = <<>> THEN [@ EXCEPT !.pc = "crashed"]
                                               ELSE [@ EXCEPT !.pc = "peek", !.head = q[1]]]
      /\ Waiting

\* ... and then the pid of its node.  Of a node that is freed by now anything is
\* read, or nothing can be.
ReadPid(c) ==
  /\ cpu[c].pc = "peek"
  /\ \E pc \in CASE cpu[c].head = Stale  -> {"stopped", "wait", "crashed"}
               [] cpu[c].head = Marker -> {"stopped"}
               [] OTHER                -> {"wait"} :
       cpu' = [cpu EXCEPT ![c].pc = pc, ![c].head = None]
  /\ Waiting

\* The CPU gets its queue's mutex.
GetsMutex(c) == cpu[c].pc = "wait" /\ ~Locked(queue(c))

StopAtMarker(c) ==
  /\ GetsMutex(c)
  /\ queues[queue(c)] # <<>> /\ queues[queue(c)][1] = Marker
  /\ cpu' = [cpu EXCEPT ![c].pc = "stopped"]
  /\ Waiting

\* An empty queue is looked at again and again.
Poll(c) ==
  /\ GetsMutex(c) /\ queues[queue(c)] = <<>>
  /\ UNCHANGED cpu /\ Waiting

\* With no algorithm the CPU takes nothing and gets back to the top of its loop with
\* the mutex locked, which it then waits for, like whoever else needs it.
Stick(c) ==
  /\ GetsMutex(c) /\ schedProps.alg = "OTHER"
  /\ queues[queue(c)] # <<>> /\ queues[queue(c)][1] # Marker
  /\ cpu' = [cpu EXCEPT ![c].pc = "stuck"]
  /\ Waiting

Stuck(c) == cpu[c].pc = "stuck" /\ UNCHANGED cpu /\ Waiting

\* SJF's loop over the queue: the first burst of least remaining time.
Shortest(q) ==
  CHOOSE k \in DOMAIN q :
    /\ q[k] # Marker
    /\ \A l \in DOMAIN q :
         q[l] # Marker => /\ remainingTime[q[k]] <= remainingTime[q[l]]
                          /\ l < k => remainingTime[q[k]] < remainingTime[q[l]]

Picked(q) == IF schedProps.alg = "SJF" THEN Shortest(q) ELSE 1

\* Slip: SJF looks for the shortest burst but dequeues the first.
Take_DequeuesHead(c) ==
  LET q == queues[queue(c)]
      b == q[Picked(q)]
  IN  /\ GetsMutex(c) /\ schedProps.alg # "OTHER"
      /\ q # <<>> /\ q[1] # Marker
      /\ queues' = [queues EXCEPT ![queue(c)] = Tail(q)]
      /\ queueLoad' = [queueLoad EXCEPT ![queue(c)] = @ - burstLength[b]]
      /\ cpu' = [cpu EXCEPT ![c] = [pc |-> "run", burst |-> b, head |-> None]]
      /\ UNCHANGED <<burstLength, remainingTime, finishedQueue, main>>

\* The burst's node is freed, also for those who have just read its address.
Take(c) ==
  LET q == queues[queue(c)]
      b == q[Picked(q)]
  IN  /\ GetsMutex(c) /\ schedProps.alg # "OTHER"
      /\ q # <<>> /\ q[1] # Marker
      /\ queues' = [queues EXCEPT ![queue(c)] = Without(q, Picked(q))]
      /\ queueLoad' = [queueLoad EXCEPT ![queue(c)] = @ - burstLength[b]]
      /\ cpu' = [d \in Cpu |->
                   IF d = c THEN [pc |-> "run", burst |-> b, head |-> None]
                   ELSE IF cpu[d].head = b /\ queue(d) = queue(c)
                     THEN [cpu[d] EXCEPT !.head = Stale]
                   ELSE cpu[d]]
      /\ UNCHANGED <<burstLength, remainingTime, finishedQueue, main>>

Idle(c) == cpu' = [cpu EXCEPT ![c].pc = "loop", ![c].burst = None]

\* Slip: RR always returns a burst.
Unfinished_Always(b) == schedProps.alg = "RR"

Unfinished(b) == schedProps.alg = "RR" /\ remainingTime[b] > schedProps.Q

\* Slip: only the time left is added back to the load.
Requeue_CountsRemaining(c) ==
  LET b == cpu[c].burst
  IN  /\ cpu[c].pc = "run" /\ Unfinished(b)
      /\ remainingTime' = [remainingTime EXCEPT ![b] = @ - schedProps.Q]
      /\ Put(queue(c), b, remainingTime[b] - schedProps.Q)
      /\ Idle(c)
      /\ UNCHANGED <<burstLength, finishedQueue, main>>

\* Slip: the quantum is not taken off.
Requeue_TimeKept(c) ==
  LET b == cpu[c].burst
  IN  /\ cpu[c].pc = "run" /\ Unfinished(b)
      /\ Put(queue(c), b, burstLength[b])
      /\ Idle(c)
      /\ UNCHANGED <<burstLength, remainingTime, finishedQueue, main>>

\* Slip: a burst that outlasts the quantum is dropped.
Requeue_Lost(c) ==
  LET b == cpu[c].burst
  IN  /\ cpu[c].pc = "run" /\ Unfinished(b)
      /\ remainingTime' = [remainingTime EXCEPT ![b] = @ - schedProps.Q]
      /\ Idle(c)
      /\ UNCHANGED <<queues, queueLoad, burstLength, finishedQueue, main>>

\* A burst that outlasts the quantum goes back to the queue, and counts in full.
Requeue(c) ==
  LET b == cpu[c].burst
  IN  /\ cpu[c].pc = "run" /\ Unfinished(b)
      /\ remainingTime' = [remainingTime EXCEPT ![b] = @ - schedProps.Q]
      /\ Put(queue(c), b, burstLength[b])
      /\ Idle(c)
      /\ UNCHANGED <<burstLength, finishedQueue, main>>

Finish(c) ==
  LET b == cpu[c].burst
  IN  /\ cpu[c].pc = "run" /\ ~Unfinished(b)
      /\ remainingTime' = [remainingTime EXCEPT ![b] = 0]
      /\ finishedQueue' = Enqueued(finishedQueue, b)
      /\ Idle(c)
      /\ UNCHANGED <<queues, queueLoad, burstLength, main>>

CpuStep(c) ==
  /\ c \in Cpu /\ ~Crashed
  /\ \/ TestHead(c) \/ ReadHead(c) \/ ReadPid(c) \/ StopAtMarker(c) \/ Poll(c)
     \/ Take(c) \/ Requeue(c) \/ Finish(c) \/ Stick(c) \/ Stuck(c)
  /\ UNCHANGED schedProps

-------------------------------------------------------------------------------
Ended == (main.pc = "end" \/ Crashed) /\ UNCHANGED svars

SNext == Main \/ (\E c \in Cpu : CpuStep(c)) \/ Ended

\* The operating system runs every thread.
SFairness == WF_svars(Main) /\ \A c \in Cpus : WF_svars(CpuStep(c))

SSpec == SInit /\ [][SNext]_svars /\ SFairness

-------------------------------------------------------------------------------
(* Properties *)

CpuState == [pc : {"loop", "test", "peek", "wait", "run", "stopped", "stuck", "crashed"},
             burst : Pid \cup {None}, head : Item \cup {None, Stale}]

STypeOK ==
  /\ schedProps \in SchedProps
  /\ queues \in [QueueIdx -> Seq(Item)]
  /\ queueLoad \in [QueueIdx -> Int]
  /\ burstLength \in [Pid -> Nat]
  /\ remainingTime \in [Pid -> Nat]
  /\ finishedQueue \in Seq(Pid)
  /\ cpu \in [Cpu -> CpuState]
  /\ main \in [pc : {"produce", "scan", "note", "close", "join", "end"},
              nextPid : 1 .. schedProps.PC+1, idx : 0 .. queuesSize, shortest : QueueIdx,
              load : Int, seen : [QueueIdx -> Int]]

Places(b) ==
  (UNION {{<<"queue", i, k>> : k \in {k \in DOMAIN queues[i] : queues[i][k] = b}} :
                  i \in QueueIdx})
    \cup {<<"cpu", c>> : c \in {c \in Cpu : cpu[c].burst = b}}
    \cup {<<"finished", k>> : k \in {k \in DOMAIN finishedQueue : finishedQueue[k] = b}}

\* No burst is lost or run twice at once: from its production on a burst is in
\* exactly one place, once, although CPUs that share a queue take, return and
\* finish bursts in any order.
OnePlace ==
  \A b \in Pid : Cardinality(Places(b)) = IF b < main.nextPid THEN 1 ELSE 0

Produced == main.pc \in {"join", "end"} /\ schedProps.source # "MISSING"

\* A marker closes each queue for good: it is there once main has produced
\* everything, and whatever RR puts back afterwards stays in front of it.
MarkersClose ==
  \A i \in QueueIdx :
    /\ \A k \in DOMAIN queues[i] : queues[i][k] = Marker => k = Len(queues[i])
    /\ Produced => Closed(queues[i])

\* The sum of the lengths of the bursts in queue i.
LoadOf(i) ==
  LET sum[k \in 0 .. Len(queues[i])] ==
        IF k = 0 THEN 0
        ELSE sum[k-1] + IF queues[i][k] = Marker THEN 0 ELSE burstLength[queues[i][k]]
  IN  sum[Len(queues[i])]

\* queueLoad never drifts from what it sums, however often RR returns a burst: it
\* stays off by what malloc() left there, which nothing ever sets (sched.c:247).
LoadIsSum == \A i \in QueueIdx : \E left \in Garbage : queueLoad[i] = LoadOf(i) + left

\* No queue is deserted: while it holds a burst, or is not yet closed, one of its
\* CPU threads has not stopped, even if others stopped over a stale head.
QueueServed ==
  ~Crashed => \A i \in QueueIdx :
    queues[i] # <<Marker>> => \E c \in Cpu : queue(c) = i /\ cpu[c].pc # "stopped"

\* When main has joined the CPUs every burst has run to its end, and each queue
\* holds the marker that schedule() frees through its head.
AllDoneAtEnd ==
  main.pc = "end" =>
    /\ \A i \in QueueIdx : queues[i] = <<Marker>>
    /\ Items(finishedQueue) = 1 .. schedProps.PC
    /\ \A b \in Pid : remainingTime[b] = 0

\* Every burst goes through the life the simulation promises it.
place == [b \in Pid |->
            IF b \in Items(finishedQueue) THEN <<"finished">>
            ELSE IF \E c \in Cpu : cpu[c].burst = b
              THEN <<"cpu", CHOOSE c \in Cpu : cpu[c].burst = b>>
            ELSE IF \E i \in QueueIdx : b \in Items(queues[i]) THEN <<"ready">>
            ELSE <<"new">>]

Pool == INSTANCE BurstPool
          WITH Cpu <- {<<"cpu", c>> : c \in Cpus}

ImplementsBurstPool == Pool!PSpec

\* Without its input file no queue is ever closed (sched.c:370), and without an
\* algorithm nothing is ever taken (mps.c:119).
NeverEnds ==
  schedProps.source = "MISSING" \/ (schedProps.alg = "OTHER" /\ schedProps.PC > 0)

Shared == schedProps.sap = "SINGLE" /\ schedProps.N > 1

\* All CPU threads stop and main gets past its joins, or the process crashes, which
\* CPU threads with a queue of their own never make it.  The two kinds of command
\* line above hang, all others do not.
EverythingEnds ==
  /\ ~NeverEnds => <>(main.pc = "end" \/ (Shared /\ Crashed))
  /\ NeverEnds => []~(main.pc = "end" \/ Crashed)

\* "Place a flag here to stop the thread when the queue is empty and parsing is
\* done" (sched.c:30): a thread stops only over a queue with nothing but a marker.
StopsWhenDone ==
  [][\A c \in Cpu : cpu[c].pc # "stopped" /\ cpu'[c].pc = "stopped"
       => queues[queue(c)] = <<Marker>>]_svars

\* The queue a burst is about to go to has no more load than any queue had when the
\* scan looked at it, and less than those before it.
TakesLeast ==
  \A i \in QueueIdx :
    /\ queueLoad[main.shortest] <= main.seen[i]
    /\ i < main.shortest => queueLoad[main.shortest] < main.seen[i]

AllScanned == main.pc = "scan" /\ main.idx = queuesSize

\* "Least load => min(sum of burst lengths) & min(id) for ties" (sched.h:38).
LeastLoad == AllScanned => TakesLeast

\* It is so for a file, although CPUs take bursts while main reads every load up to
\* twice, unless RR returns a burst between the two reads.
LeastLoadOfFile == schedProps.source = "FILE" /\ schedProps.alg # "RR" => LeastLoad
===============================================================================
