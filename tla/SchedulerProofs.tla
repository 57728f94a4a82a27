---------------------------- MODULE SchedulerProofs ----------------------------
(***************************************************************************)
(* p2's simulation for every command line, workload and number of CPUs:    *)
(* the types of its state, that markers close the queues for good, that no *)
(* queue is deserted although CPUs read heads others have freed, that each *)
(* burst is in one place and finishes, and what is true of the loads and   *)
(* of the scan for the least of them.                                      *)
(***************************************************************************)
EXTENDS Scheduler, MarkedSequenceProofs, FiniteSetTheorems

-------------------------------------------------------------------------------
(* Types *)

TypeInv ==
  /\ STypeOK
  /\ schedProps \in Props
  /\ main.pc \in {"produce", "close"} => main.idx \in QueueIdx
  /\ main.pc \in {"scan", "note"} => main.nextPid <= schedProps.PC
  /\ main.pc = "note" => main.idx \in QueueIdx
  /\ \A c \in Cpu : cpu[c].pc = "run" => cpu[c].burst \in Pid /\ cpu[c].head = None

\* Which queues the marker closes, by where main is.
Shape ==
  /\ \A i \in QueueIdx : MarkerLast(queues[i])
  /\ main.pc \in {"produce", "scan", "note"} => \A i \in QueueIdx : ~Closed(queues[i])
  /\ main.pc = "close" => \A i \in QueueIdx : Closed(queues[i]) <=> i < main.idx
  /\ Produced => \A i \in QueueIdx : Closed(queues[i])

LEMMA Sizes ==
  ASSUME schedProps \in Props
  PROVE  /\ schedProps \in SchedProps
         /\ queuesSize \in Nat \ {0}
         /\ QueueIdx = 0 .. queuesSize-1 /\ 0 \in QueueIdx
         /\ \A c \in Cpu : queue(c) \in QueueIdx
         /\ \A i \in QueueIdx : \E c \in Cpu : queue(c) = i
         /\ \A n \in 1 .. schedProps.PC : n \in Pid
         /\ Lengths \subseteq Nat /\ Lengths \subseteq Int
BY SchedulerAssumption DEF SchedProps, queuesSize, QueueIdx, queue, Cpu, Lengths

\* A burst goes into one queue and opens or closes none.
LEMMA PutBurst ==
  ASSUME TypeInv, Shape, NEW i \in QueueIdx, NEW b \in Pid, NEW l \in Int, Put(i, b, l)
  PROVE  /\ queues' \in [QueueIdx -> Seq(Item)]
         /\ queueLoad' \in [QueueIdx -> Int]
         /\ \A j \in QueueIdx : MarkerLast(queues'[j])
         /\ \A j \in QueueIdx : Closed(queues'[j]) <=> Closed(queues[j])
         /\ \A j \in QueueIdx : j # i => queues'[j] = queues[j]
<1>1. queues \in [QueueIdx -> Seq(Item)] /\ queueLoad \in [QueueIdx -> Int]
  BY DEF TypeInv, STypeOK
<1>2. /\ Enqueued(queues[i], b) \in Seq(Item)
      /\ MarkerLast(Enqueued(queues[i], b))
      /\ Closed(Enqueued(queues[i], b)) <=> Closed(queues[i])
  BY <1>1, EnqueuedKeeps DEF Shape
<1>3. /\ queues' = [queues EXCEPT ![i] = Enqueued(queues[i], b)]
      /\ queueLoad' = [queueLoad EXCEPT ![i] = queueLoad[i] + l]
  BY DEF Put
<1> QED
  BY <1>1, <1>2, <1>3 DEF Shape

\* SJF's choice, and the others': a burst of the queue.
LEMMA PickedBurst ==
  ASSUME TypeInv, NEW q \in Seq(Item), q # <<>>, q[1] # Marker, MarkerLast(q)
  PROVE  Picked(q) \in DOMAIN q /\ q[Picked(q)] \in Pid
<1>1. PICK n \in Nat \ {0} : n = Len(q) /\ DOMAIN q = 1 .. n
  BY EmptySeq, LenProperties
<1>2. \A k \in 1 .. n : q[k] # Marker => q[k] \in Pid
  BY <1>1, ElementOfSeq DEF Item
<1>3. 1 \in 1 .. n
  BY <1>1
<1>4. CASE schedProps.alg # "SJF"
  BY <1>1, <1>2, <1>3, <1>4 DEF Picked
<1>5. CASE schedProps.alg = "SJF"
  <2>1. remainingTime \in [Pid -> Nat]
    BY DEF TypeInv, STypeOK
  <2> DEFINE Bursts == {k \in 1 .. n : q[k] # Marker}
             Times  == {remainingTime[q[k]] : k \in Bursts}
  <2>2. Times \in SUBSET Nat /\ Times # {}
    BY <1>2, <1>3, <2>1
  <2>3. PICK time \in Times : \A t \in Times : time <= t
    BY <2>2, Least
  <2> DEFINE Candidates == {k \in Bursts : remainingTime[q[k]] = time}
  <2>4. Candidates \in SUBSET Nat /\ Candidates # {}
    BY <2>3
  <2>5. PICK k \in Candidates : \A l \in Candidates : k <= l
    BY <2>4, Least
  <2>6. \A l \in Bursts : remainingTime[q[k]] <= remainingTime[q[l]]
    BY <2>3, <2>5
  <2>7. ASSUME NEW l \in Bursts, l < k PROVE remainingTime[q[k]] < remainingTime[q[l]]
    <3>1. l \notin Candidates
      BY <2>5, <2>7
    <3>2. remainingTime[q[l]] # time /\ remainingTime[q[k]] = time
      BY <3>1, <2>5
    <3>3. remainingTime[q[l]] \in Nat /\ remainingTime[q[k]] \in Nat
      BY <1>2, <2>1, <2>5
    <3> QED
      BY <3>2, <3>3, <2>6
  <2> DEFINE Is(j) == /\ q[j] # Marker
                      /\ \A l \in DOMAIN q :
                           q[l] # Marker => /\ remainingTime[q[j]] <= remainingTime[q[l]]
                                            /\ l < j => remainingTime[q[j]] < remainingTime[q[l]]
  <2>8. k \in DOMAIN q /\ Is(k)
    BY <1>1, <2>5, <2>6, <2>7
  <2>9. Shortest(q) = CHOOSE j \in DOMAIN q : Is(j)
    BY DEF Shortest
  <2> HIDE DEF Is
  <2>10. Shortest(q) \in DOMAIN q /\ Is(Shortest(q))
    BY <2>8, <2>9
  <2> QED
    BY <1>1, <1>2, <1>5, <2>10 DEF Picked, Is
<1> QED
  BY <1>4, <1>5

-------------------------------------------------------------------------------
(* Every step keeps the types and the shape *)

MInv == TypeInv /\ Shape

\* Nothing that the shape of the queues depends on changes in a step of a CPU that
\* leaves the queues alone.
LEMMA CpuWaits ==
  ASSUME MInv, NEW c \in Cpu, NEW state \in CpuState, state.pc # "run",
         cpu' = [cpu EXCEPT ![c] = state], Waiting, UNCHANGED schedProps
  PROVE  MInv'
<1>1. Cpu' = Cpu /\ queuesSize' = queuesSize /\ QueueIdx' = QueueIdx
  BY DEF Cpu, queuesSize, QueueIdx
<1>2. UNCHANGED <<queues, queueLoad, burstLength, remainingTime, finishedQueue, main>>
  BY DEF Waiting
<1>3. cpu \in [Cpu -> CpuState]
  BY DEF MInv, TypeInv, STypeOK
<1>4. /\ cpu' \in [Cpu -> CpuState]
      /\ \A d \in Cpu : cpu'[d] = IF d = c THEN state ELSE cpu[d]
  BY <1>3
<1>5. TypeInv'
  BY <1>1, <1>2, <1>4 DEF MInv, TypeInv, STypeOK
<1>6. Shape'
  BY <1>1, <1>2 DEF MInv, Shape, Produced
<1> QED
  BY <1>5, <1>6 DEF MInv

\* Where main is.
MainState ==
  [pc : {"produce", "scan", "note", "close", "join", "end"}, nextPid : 1 .. schedProps.PC+1,
   idx : 0 .. queuesSize, shortest : QueueIdx, load : Int, seen : [QueueIdx -> Int]]

LEMMA MInvInit == SInit => MInv
<1> SUFFICES ASSUME SInit PROVE MInv
  OBVIOUS
<1>1. schedProps \in Props
  BY DEF SInit
<1>2. /\ schedProps \in SchedProps
      /\ queuesSize \in Nat \ {0}
      /\ 0 \in QueueIdx /\ 0 \in 0 .. queuesSize
  BY <1>1, Sizes
<1>3. queues \in [QueueIdx -> Seq(Item)] /\ \A i \in QueueIdx : queues[i] = <<>>
  BY DEF SInit
<1>4. \A i \in QueueIdx : MarkerLast(queues[i]) /\ ~Closed(queues[i])
  BY <1>3 DEF MarkerLast, Closed
<1>5. queueLoad \in [QueueIdx -> Int]
  BY SchedulerAssumption DEF SInit
<1>6. cpu \in [Cpu -> CpuState] /\ \A c \in Cpu : cpu[c].pc = "loop"
  BY DEF SInit, CpuState
<1>7. main \in MainState
  <2>1. 1 \in 1 .. schedProps.PC+1
    BY <1>2 DEF SchedProps
  <2>2. Unseen \in [QueueIdx -> Int]
    BY DEF Unseen
  <2>3. main = [pc |-> IF schedProps.source = "MISSING" THEN "join" ELSE "produce",
                nextPid |-> 1, idx |-> 0, shortest |-> 0, load |-> 0, seen |-> Unseen]
    BY DEF SInit
  <2> QED
    BY <1>2, <2>1, <2>2, <2>3 DEF MainState
<1>8. finishedQueue \in Seq(Pid) /\ burstLength \in [Pid -> Nat] /\ remainingTime \in [Pid -> Nat]
  BY DEF SInit
<1>9. /\ main.pc = "produce" => main.idx = 0
      /\ main.pc \in {"produce", "join"}
      /\ main.pc = "join" => schedProps.source = "MISSING"
  BY DEF SInit
<1>10. STypeOK
  BY <1>2, <1>3, <1>5, <1>6, <1>7, <1>8 DEF STypeOK, MainState
<1>11. TypeInv
  BY <1>1, <1>2, <1>6, <1>9, <1>10 DEF TypeInv
<1>12. Shape
  BY <1>4, <1>9 DEF Shape, Produced
<1> QED
  BY <1>11, <1>12 DEF MInv

\* What a step of main must show.
LEMMA MainKeeps ==
  ASSUME MInv, UNCHANGED <<schedProps, cpu, finishedQueue>>,
         queues' \in [QueueIdx -> Seq(Item)], queueLoad' \in [QueueIdx -> Int],
         burstLength' \in [Pid -> Nat], remainingTime' \in [Pid -> Nat],
         main' \in MainState,
         main'.pc \in {"produce", "close"} => main'.idx \in QueueIdx,
         main'.pc \in {"scan", "note"} => main'.nextPid <= schedProps.PC,
         main'.pc = "note" => main'.idx \in QueueIdx,
         \A i \in QueueIdx : MarkerLast(queues'[i]),
         main'.pc \in {"produce", "scan", "note"} => \A i \in QueueIdx : ~Closed(queues'[i]),
         main'.pc = "close" => \A i \in QueueIdx : Closed(queues'[i]) <=> i < main'.idx,
         main'.pc \in {"join", "end"} /\ schedProps.source # "MISSING" =>
           \A i \in QueueIdx : Closed(queues'[i])
  PROVE  MInv'
<1>1. Cpu' = Cpu /\ queuesSize' = queuesSize /\ QueueIdx' = QueueIdx
  BY DEF Cpu, queuesSize, QueueIdx
<1>2. TypeInv'
  BY <1>1 DEF MInv, TypeInv, STypeOK, MainState
<1>3. Shape'
  BY <1>1 DEF Shape, Produced
<1> QED
  BY <1>2, <1>3 DEF MInv

LEMMA MInvMain == MInv /\ Main => MInv'
<1> SUFFICES ASSUME MInv, Main PROVE MInv'
  OBVIOUS
<1>1. schedProps \in Props /\ UNCHANGED schedProps
  BY DEF MInv, TypeInv, Main
<1>2. /\ schedProps \in SchedProps /\ queuesSize \in Nat \ {0}
      /\ QueueIdx = 0 .. queuesSize-1 /\ 0 \in QueueIdx
      /\ \A n \in 1 .. schedProps.PC : n \in Pid
      /\ Lengths \subseteq Nat
  BY <1>1, Sizes
<1>3. /\ queues \in [QueueIdx -> Seq(Item)] /\ queueLoad \in [QueueIdx -> Int]
      /\ burstLength \in [Pid -> Nat] /\ remainingTime \in [Pid -> Nat]
      /\ main \in MainState
      /\ \A i \in QueueIdx : MarkerLast(queues[i])
  BY DEF MInv, TypeInv, Shape, STypeOK, MainState
<1>4. schedProps.PC \in Nat
  BY <1>2 DEF SchedProps
<1>5. CASE Produce
  <2>1. main.pc = "produce" /\ main.nextPid \in 1 .. schedProps.PC /\ main.nextPid \in Pid
    BY <1>2, <1>3, <1>4, <1>5 DEF Produce, MainState
  <2>2. main.idx \in QueueIdx /\ \A i \in QueueIdx : ~Closed(queues[i])
    BY <2>1 DEF MInv, TypeInv, Shape
  <2>3. PICK l \in Lengths :
           /\ burstLength' = [burstLength EXCEPT ![main.nextPid] = l]
           /\ remainingTime' = [remainingTime EXCEPT ![main.nextPid] = l]
           /\ IF schedProps.qs = "LM"
                THEN /\ main' = [main EXCEPT !.pc = "scan", !.shortest = 0,
                                   !.load = queueLoad[0],
                                   !.idx = IF schedProps.source = "RANDOM" THEN 1 ELSE 0,
                                   !.seen[0] = queueLoad[0]]
                     /\ UNCHANGED <<queues, queueLoad>>
                ELSE /\ Put(IF schedProps.qs = "RM" THEN main.idx ELSE 0, main.nextPid, l)
                     /\ main' = [main EXCEPT !.nextPid = main.nextPid + 1,
                                   !.idx = IF schedProps.qs = "RM" THEN (main.idx + 1) % queuesSize
                                                                   ELSE main.idx]
    BY <1>5 DEF Produce
  <2>4. l \in Nat /\ UNCHANGED <<finishedQueue, cpu>>
    BY <1>2, <1>5 DEF Produce
  <2>5. burstLength' \in [Pid -> Nat] /\ remainingTime' \in [Pid -> Nat]
    BY <1>3, <2>3, <2>4
  <2>6. CASE schedProps.qs = "LM"
    <3>1. main' \in MainState /\ main'.pc = "scan" /\ main'.nextPid = main.nextPid
      <4>1. PICK first \in 0 .. queuesSize : first = IF schedProps.source = "RANDOM" THEN 1 ELSE 0
        BY <1>2
      <4>2. PICK load \in Int : load = queueLoad[0]
        BY <1>2, <1>3
      <4>3. main' = [main EXCEPT !.pc = "scan", !.shortest = 0, !.load = load, !.idx = first,
                       !.seen[0] = load]
        BY <2>3, <2>6, <4>1, <4>2
      <4> QED
        BY <1>2, <1>3, <4>3 DEF MainState
    <3>2. queues' = queues /\ queueLoad' = queueLoad
      BY <2>3, <2>6
    <3> QED
      BY <1>1, <1>3, <2>1, <2>2, <2>4, <2>5, <3>1, <3>2, MainKeeps
  <2>7. CASE schedProps.qs # "LM"
    <3>1. PICK i \in QueueIdx : i = IF schedProps.qs = "RM" THEN main.idx ELSE 0
      BY <1>2, <2>2
    <3>2. Put(i, main.nextPid, l)
      BY <2>3, <2>7, <3>1
    <3>3. PICK next \in QueueIdx :
            next = IF schedProps.qs = "RM" THEN (main.idx + 1) % queuesSize ELSE main.idx
      <4>1. (main.idx + 1) % queuesSize \in 0 .. queuesSize-1
        BY <1>2, <2>2
      <4> QED
        BY <4>1, <1>2, <2>2
    <3>4. /\ main' \in MainState
          /\ main'.pc = "produce" /\ main'.idx = next
      <4>1. main.nextPid + 1 \in 1 .. schedProps.PC+1 /\ next \in 0 .. queuesSize
        BY <1>2, <1>4, <2>1
      <4>2. main' = [main EXCEPT !.nextPid = main.nextPid + 1, !.idx = next]
        BY <2>3, <2>7, <3>3
      <4> QED
        BY <1>3, <2>1, <4>1, <4>2 DEF MainState
    <3>5. /\ queues' \in [QueueIdx -> Seq(Item)] /\ queueLoad' \in [QueueIdx -> Int]
          /\ \A j \in QueueIdx : MarkerLast(queues'[j])
          /\ \A j \in QueueIdx : Closed(queues'[j]) <=> Closed(queues[j])
      <4>1. l \in Int /\ TypeInv /\ Shape
        BY <2>4 DEF MInv
      <4> QED
        BY <2>1, <3>2, <4>1, PutBurst
    <3> QED
      BY <1>1, <2>2, <2>4, <2>5, <3>4, <3>5, MainKeeps
  <2> QED
    BY <2>6, <2>7
<1>6. CASE Compare \/ Note
  <2>1. /\ main.pc \in {"scan", "note"} /\ main.idx \in QueueIdx
        /\ main.idx + 1 \in 0 .. queuesSize
        /\ UNCHANGED <<queues, queueLoad, burstLength, remainingTime, finishedQueue, cpu>>
    <3>1. CASE Compare
      BY <1>2, <1>3, <3>1 DEF Compare, MainState
    <3>2. CASE Note
      BY <1>2, <1>3, <3>2 DEF Note, MainState, MInv, TypeInv
    <3> QED
      BY <1>6, <3>1, <3>2
  <2>2. PICK load \in Int : load = queueLoad[main.idx]
    BY <1>3, <2>1
  <2>3. \/ main' = [main EXCEPT !.pc = "note", !.idx = main.idx, !.seen[main.idx] = load]
        \/ main' = [main EXCEPT !.pc = "scan", !.idx = main.idx+1, !.seen[main.idx] = load]
        \/ main' = [main EXCEPT !.pc = "scan", !.idx = main.idx+1, !.shortest = main.idx,
                      !.load = load, !.seen[main.idx] = load]
    <3>1. CASE Compare
      BY <2>2, <3>1 DEF Compare
    <3>2. CASE Note
      BY <2>2, <3>2 DEF Note
    <3> QED
      BY <1>6, <3>1, <3>2
  <2>4. /\ main' \in MainState /\ main'.nextPid = main.nextPid
        /\ main'.pc \in {"scan", "note"} /\ (main'.pc = "note" => main'.idx \in QueueIdx)
    <3>1. PICK seen \in [QueueIdx -> Int] : seen = [main.seen EXCEPT ![main.idx] = load]
      BY <1>3 DEF MainState
    <3>2. CASE main' = [main EXCEPT !.pc = "note", !.idx = main.idx, !.seen = seen]
      BY <1>3, <2>1, <3>2 DEF MainState
    <3>3. CASE main' = [main EXCEPT !.pc = "scan", !.idx = main.idx+1, !.seen = seen]
      BY <1>3, <2>1, <3>3 DEF MainState
    <3>4. CASE main' = [main EXCEPT !.pc = "scan", !.idx = main.idx+1, !.shortest = main.idx,
                          !.load = load, !.seen = seen]
      BY <1>3, <2>1, <3>4 DEF MainState
    <3> QED
      BY <2>3, <3>1, <3>2, <3>3, <3>4
  <2>5. main.nextPid <= schedProps.PC /\ \A i \in QueueIdx : ~Closed(queues[i])
    BY <2>1 DEF MInv, TypeInv, Shape
  <2> QED
    BY <1>1, <1>3, <2>1, <2>4, <2>5, MainKeeps
<1>7. CASE PutShortest
  <2>1. /\ main.pc = "scan"
        /\ Put(main.shortest, main.nextPid, burstLength[main.nextPid])
        /\ main' = [main EXCEPT !.pc = "produce", !.nextPid = main.nextPid + 1, !.idx = 0,
                      !.shortest = 0, !.load = 0, !.seen = Unseen]
        /\ UNCHANGED <<burstLength, remainingTime, finishedQueue, cpu>>
    BY <1>7 DEF PutShortest
  <2>2. /\ main.nextPid \in 1 .. schedProps.PC /\ main.shortest \in QueueIdx
        /\ \A i \in QueueIdx : ~Closed(queues[i])
    BY <1>3, <1>4, <2>1 DEF MInv, TypeInv, Shape, MainState
  <2>3. main.nextPid \in Pid /\ burstLength[main.nextPid] \in Int /\ TypeInv /\ Shape
    BY <1>2, <1>3, <2>2 DEF MInv
  <2>4. /\ queues' \in [QueueIdx -> Seq(Item)] /\ queueLoad' \in [QueueIdx -> Int]
        /\ \A j \in QueueIdx : MarkerLast(queues'[j])
        /\ \A j \in QueueIdx : Closed(queues'[j]) <=> Closed(queues[j])
    BY <2>1, <2>2, <2>3, PutBurst
  <2>5. main' \in MainState /\ main'.pc = "produce" /\ main'.idx = 0
    <3>1. main.nextPid + 1 \in 1 .. schedProps.PC+1 /\ 0 \in 0 .. queuesSize
      BY <1>2, <1>4, <2>2
    <3>2. PICK unseen \in [QueueIdx -> Int] : unseen = Unseen
      <4>1. Unseen \in [QueueIdx -> Int]
        BY DEF Unseen
      <4> QED
        BY <4>1
    <3>3. PICK next \in 1 .. schedProps.PC+1 : next = main.nextPid + 1
      BY <3>1
    <3>4. main' = [main EXCEPT !.pc = "produce", !.nextPid = next, !.idx = 0,
                     !.shortest = 0, !.load = 0, !.seen = unseen]
      BY <2>1, <3>2, <3>3
    <3>5. main' = [pc |-> "produce", nextPid |-> next, idx |-> 0, shortest |-> 0,
                   load |-> 0, seen |-> unseen]
      BY <1>3, <3>4 DEF MainState
    <3>6. 0 \in 0 .. queuesSize /\ 0 \in QueueIdx /\ 0 \in Int
      BY <1>2
    <3> QED
      BY <3>5, <3>6 DEF MainState
  <2> QED
    BY <1>1, <1>2, <1>3, <2>1, <2>2, <2>4, <2>5, MainKeeps
<1>8. CASE ProducedAll
  <2>1. /\ main.pc = "produce"
        /\ main' = [main EXCEPT !.pc = "close", !.idx = 0]
        /\ UNCHANGED <<queues, queueLoad, burstLength, remainingTime, finishedQueue, cpu>>
    BY <1>8 DEF ProducedAll
  <2>2. main' \in MainState /\ main'.pc = "close" /\ main'.idx = 0
    <3>1. 0 \in 0 .. queuesSize
      BY <1>2
    <3> QED
      BY <1>3, <2>1, <3>1 DEF MainState
  <2>3. \A i \in QueueIdx : ~Closed(queues[i]) /\ ~(i < 0)
    BY <1>2, <2>1 DEF MInv, Shape
  <2> QED
    BY <1>1, <1>2, <1>3, <2>1, <2>2, <2>3, MainKeeps
<1>9. CASE Close
  <2>1. /\ main.pc = "close"
        /\ Put(main.idx, Marker, 0)
        /\ main' = IF main.idx = queuesSize-1 THEN [main EXCEPT !.pc = "join"]
                                              ELSE [main EXCEPT !.idx = main.idx + 1]
        /\ UNCHANGED <<burstLength, remainingTime, finishedQueue, cpu>>
    BY <1>9 DEF Close
  <2>2. main.idx \in QueueIdx /\ \A i \in QueueIdx : Closed(queues[i]) <=> i < main.idx
    BY <2>1 DEF MInv, TypeInv, Shape
  <2>3. ~Closed(queues[main.idx])
    BY <1>2, <2>2
  <2>4. /\ Enqueued(queues[main.idx], Marker) \in Seq(Item)
        /\ MarkerLast(Enqueued(queues[main.idx], Marker))
        /\ Closed(Enqueued(queues[main.idx], Marker))
    BY <1>3, <2>2, <2>3, MarkerCloses
  <2>5. /\ queues' = [queues EXCEPT ![main.idx] = Enqueued(queues[main.idx], Marker)]
        /\ queueLoad' = [queueLoad EXCEPT ![main.idx] = queueLoad[main.idx] + 0]
    BY <2>1 DEF Put
  <2>6. queues' \in [QueueIdx -> Seq(Item)] /\ queueLoad' \in [QueueIdx -> Int]
    BY <1>3, <2>2, <2>4, <2>5
  <2>7. /\ \A i \in QueueIdx : MarkerLast(queues'[i])
        /\ \A i \in QueueIdx : Closed(queues'[i]) <=> i < main.idx + 1
    <3>1. \A i \in QueueIdx : queues'[i] = IF i = main.idx THEN Enqueued(queues[main.idx], Marker)
                                                         ELSE queues[i]
      BY <1>3, <2>2, <2>5
    <3>2. \A i \in QueueIdx : MarkerLast(queues'[i])
      BY <1>3, <2>4, <3>1
    <3>3. \A i \in QueueIdx : Closed(queues'[i]) <=> i = main.idx \/ i < main.idx
      BY <2>2, <2>4, <3>1
    <3>4. \A i \in QueueIdx : i = main.idx \/ i < main.idx <=> i < main.idx + 1
      BY <1>2, <2>2
    <3> QED
      BY <3>2, <3>3, <3>4
  <2>8. CASE main.idx = queuesSize-1
    <3>1. main' \in MainState /\ main'.pc = "join"
      BY <1>3, <2>1, <2>8 DEF MainState
    <3>2. \A i \in QueueIdx : Closed(queues'[i])
      BY <1>2, <2>2, <2>7, <2>8
    <3> QED
      BY <1>1, <1>3, <2>1, <2>6, <2>7, <3>1, <3>2, MainKeeps
  <2>9. CASE main.idx # queuesSize-1
    <3>1. /\ main' \in MainState /\ main'.pc = "close"
          /\ main'.idx = main.idx + 1 /\ main.idx + 1 \in QueueIdx
      <4>1. main.idx + 1 \in QueueIdx /\ main.idx + 1 \in 0 .. queuesSize
        BY <1>2, <2>2, <2>9
      <4>2. main' = [main EXCEPT !.idx = main.idx + 1]
        BY <2>1, <2>9
      <4> QED
        BY <1>3, <2>1, <4>1, <4>2 DEF MainState
    <3> QED
      BY <1>1, <1>3, <2>1, <2>6, <2>7, <3>1, MainKeeps
  <2> QED
    BY <2>8, <2>9
<1>10. CASE Join
  <2>1. /\ main.pc = "join" /\ main' = [main EXCEPT !.pc = "end"]
        /\ UNCHANGED <<queues, queueLoad, burstLength, remainingTime, finishedQueue, cpu>>
    BY <1>10 DEF Join
  <2>2. main' \in MainState /\ main'.pc = "end"
    BY <1>3, <2>1 DEF MainState
  <2>3. schedProps.source # "MISSING" => \A i \in QueueIdx : Closed(queues[i])
    BY <2>1 DEF MInv, Shape, Produced
  <2> QED
    BY <1>1, <1>3, <2>1, <2>2, <2>3, MainKeeps
<1> QED
  BY <1>5, <1>6, <1>7, <1>8, <1>9, <1>10 DEF Main

\* What a step of a CPU must show when it has the burst, or the queue, in hand.
LEMMA CpuKeeps ==
  ASSUME MInv, UNCHANGED <<schedProps, burstLength, main>>,
         queues' \in [QueueIdx -> Seq(Item)], queueLoad' \in [QueueIdx -> Int],
         remainingTime' \in [Pid -> Nat], finishedQueue' \in Seq(Pid),
         cpu' \in [Cpu -> CpuState],
         \A c \in Cpu : cpu'[c].pc = "run" => cpu'[c].burst \in Pid /\ cpu'[c].head = None,
         \A i \in QueueIdx : MarkerLast(queues'[i]),
         \A i \in QueueIdx : Closed(queues'[i]) <=> Closed(queues[i])
  PROVE  MInv'
<1>1. Cpu' = Cpu /\ queuesSize' = queuesSize /\ QueueIdx' = QueueIdx
  BY DEF Cpu, queuesSize, QueueIdx
<1>2. TypeInv'
  BY <1>1 DEF MInv, TypeInv, STypeOK
<1>3. Shape'
  BY <1>1 DEF MInv, Shape, Produced
<1> QED
  BY <1>2, <1>3 DEF MInv

\* Bursts finish in a queue that is never closed.
LEMMA FinishedBurst ==
  ASSUME NEW q \in Seq(Pid), NEW b \in Pid
  PROVE  Enqueued(q, b) \in Seq(Pid)
<1>1. ~Closed(q)
  <2> SUFFICES ASSUME q # <<>> PROVE q[Len(q)] # Marker
    BY DEF Closed
  <2>1. Len(q) \in 1 .. Len(q)
    BY EmptySeq
  <2> QED
    BY <2>1, ElementOfSeq, MarkerIsNoPid
<1> QED
  BY <1>1, EnqueuedOpen

\* A CPU looks at its queue, or waits, and moves no burst.
Looks(c) ==
  \/ TestHead(c) \/ ReadHead(c) \/ ReadPid(c) \/ StopAtMarker(c) \/ Poll(c)
  \/ Stick(c) \/ Stuck(c)

LEMMA Looking ==
  ASSUME MInv, NEW c \in Cpu, Looks(c)
  PROVE  /\ Waiting /\ cpu[c].pc \notin {"run", "stopped"}
         /\ \E state \in CpuState : /\ state.pc # "run" /\ state.burst = cpu[c].burst
                                    /\ cpu' = [cpu EXCEPT ![c] = state]
<1>1. cpu \in [Cpu -> CpuState] /\ cpu[c] \in CpuState
  BY DEF MInv, TypeInv, STypeOK
<1>2. queues[queue(c)] \in Seq(Item)
  <2>1. queue(c) \in QueueIdx
    BY Sizes DEF MInv, TypeInv
  <2> QED
    BY <2>1 DEF MInv, TypeInv, STypeOK
<1>3. ASSUME Waiting, cpu[c].pc \notin {"run", "stopped"}, NEW state \in CpuState,
             state.pc # "run", state.burst = cpu[c].burst, cpu' = [cpu EXCEPT ![c] = state]
      PROVE  /\ Waiting /\ cpu[c].pc \notin {"run", "stopped"}
             /\ \E st \in CpuState : /\ st.pc # "run" /\ st.burst = cpu[c].burst
                                     /\ cpu' = [cpu EXCEPT ![c] = st]
  BY <1>3
<1>4. ASSUME NEW pc \in {"wait", "test", "stopped", "stuck"}, cpu[c].pc \in {"loop", "wait"},
             cpu' = [cpu EXCEPT ![c].pc = pc], Waiting
      PROVE  /\ Waiting /\ cpu[c].pc \notin {"run", "stopped"}
             /\ \E st \in CpuState : /\ st.pc # "run" /\ st.burst = cpu[c].burst
                                     /\ cpu' = [cpu EXCEPT ![c] = st]
  <2>1. PICK state : state = [cpu[c] EXCEPT !.pc = pc]
    OBVIOUS
  <2>2. state \in CpuState /\ state.pc # "run" /\ state.burst = cpu[c].burst
    BY <1>1, <2>1 DEF CpuState
  <2> QED
    BY <1>3, <1>4, <2>1, <2>2
<1>5. CASE TestHead(c)
  BY <1>4, <1>5 DEF TestHead
<1>6. CASE ReadHead(c)
  <2>1. PICK state : /\ state = IF queues[queue(c)] = <<>>
                                  THEN [cpu[c] EXCEPT !.pc = "crashed"]
                                  ELSE [cpu[c] EXCEPT !.pc = "peek", !.head = queues[queue(c)][1]]
                     /\ cpu' = [cpu EXCEPT ![c] = state] /\ Waiting /\ cpu[c].pc = "test"
    BY <1>6 DEF ReadHead
  <2>2. queues[queue(c)] # <<>> => queues[queue(c)][1] \in Item
    BY <1>2, EmptySeq, ElementOfSeq
  <2>3. state \in CpuState /\ state.pc # "run" /\ state.burst = cpu[c].burst
    BY <1>1, <2>1, <2>2 DEF CpuState
  <2> QED
    BY <1>3, <2>1, <2>3
<1>7. CASE ReadPid(c)
  <2>1. PICK pc \in {"stopped", "wait", "crashed"} :
          cpu' = [cpu EXCEPT ![c].pc = pc, ![c].head = None]
    <3>1. CASE cpu[c].head = Stale
      BY <1>7, <3>1 DEF ReadPid
    <3>2. CASE cpu[c].head # Stale /\ cpu[c].head = Marker
      BY <1>7, <3>2 DEF ReadPid
    <3>3. CASE cpu[c].head # Stale /\ cpu[c].head # Marker
      BY <1>7, <3>3 DEF ReadPid
    <3> QED
      BY <3>1, <3>2, <3>3
  <2>2. PICK state : state = [[cpu[c] EXCEPT !.pc = pc] EXCEPT !.head = None]
    OBVIOUS
  <2>3. state \in CpuState /\ state.pc # "run" /\ state.burst = cpu[c].burst
    BY <1>1, <2>2 DEF CpuState
  <2>4. cpu' = [cpu EXCEPT ![c] = state]
    BY <1>1, <2>1, <2>2
  <2> QED
    BY <1>3, <1>7, <2>3, <2>4 DEF ReadPid
<1>8. CASE StopAtMarker(c)
  BY <1>4, <1>8 DEF StopAtMarker, GetsMutex
<1>9. CASE Stick(c)
  BY <1>4, <1>9 DEF Stick, GetsMutex
<1>10. CASE Poll(c) \/ Stuck(c)
  <2>1. /\ Waiting /\ cpu[c].pc \in {"wait", "stuck"}
        /\ cpu' = [cpu EXCEPT ![c] = cpu[c]]
    BY <1>1, <1>10 DEF Poll, Stuck, GetsMutex
  <2> QED
    BY <1>1, <1>3, <2>1
<1> QED
  BY <1>5, <1>6, <1>7, <1>8, <1>9, <1>10 DEF Looks

\* What the others see of it.
LEMMA LookingOn ==
  ASSUME MInv, NEW c \in Cpu, Looks(c)
  PROVE  /\ Waiting /\ cpu[c].pc \notin {"run", "stopped"} /\ cpu'[c].pc # "run"
         /\ cpu'[c].burst = cpu[c].burst
         /\ \A d \in Cpu : d # c => cpu'[d] = cpu[d]
<1>1. PICK state \in CpuState : /\ state.pc # "run" /\ state.burst = cpu[c].burst
                                /\ cpu' = [cpu EXCEPT ![c] = state]
  BY Looking
<1>2. cpu \in [Cpu -> CpuState]
  BY DEF MInv, TypeInv, STypeOK
<1> QED
  BY <1>1, <1>2, Looking

LEMMA MInvCpu ==
  ASSUME NEW c, MInv, CpuStep(c)
  PROVE  MInv'
<1>1. /\ c \in Cpu /\ UNCHANGED schedProps /\ schedProps \in Props
      /\ TypeInv /\ Shape
  BY DEF CpuStep, MInv, TypeInv
<1>2. /\ schedProps \in SchedProps
      /\ queue(c) \in QueueIdx
  BY <1>1, Sizes
<1>3. /\ queues \in [QueueIdx -> Seq(Item)] /\ queueLoad \in [QueueIdx -> Int]
      /\ burstLength \in [Pid -> Nat] /\ remainingTime \in [Pid -> Nat]
      /\ finishedQueue \in Seq(Pid)
      /\ cpu \in [Cpu -> CpuState]
      /\ \A i \in QueueIdx : MarkerLast(queues[i])
      /\ \A d \in Cpu : cpu[d].pc = "run" => cpu[d].burst \in Pid /\ cpu[d].head = None
  BY <1>1 DEF TypeInv, Shape, STypeOK
<1> PICK q : q = queues[queue(c)]
  OBVIOUS
<1>4. q \in Seq(Item) /\ MarkerLast(q)
  BY <1>2, <1>3
<1>5. CASE Looks(c)
  <2>1. PICK state \in CpuState : state.pc # "run" /\ cpu' = [cpu EXCEPT ![c] = state]
    BY <1>1, <1>5, Looking
  <2>2. Waiting
    BY <1>1, <1>5, Looking
  <2> QED
    BY <1>1, <2>1, <2>2, CpuWaits
<1>6. CASE Take(c)
  <2>1. q # <<>> /\ q[1] # Marker
    BY <1>6 DEF Take
  <2>2. PICK j \in DOMAIN q : j = Picked(q) /\ q[j] \in Pid
    BY <1>1, <1>4, <2>1, PickedBurst
  <2>3. PICK b \in Pid : b = q[j]
    BY <2>2
  <2>4. /\ queues' = [queues EXCEPT ![queue(c)] = Without(q, j)]
        /\ queueLoad' = [queueLoad EXCEPT ![queue(c)] = queueLoad[queue(c)] - burstLength[b]]
        /\ cpu' = [d \in Cpu |->
                     IF d = c THEN [pc |-> "run", burst |-> b, head |-> None]
                     ELSE IF cpu[d].head = b /\ queue(d) = queue(c)
                       THEN [cpu[d] EXCEPT !.head = Stale]
                     ELSE cpu[d]]
        /\ UNCHANGED <<burstLength, remainingTime, finishedQueue, main>>
    BY <1>6, <2>2, <2>3 DEF Take
  <2>5. /\ Without(q, j) \in Seq(Item)
        /\ MarkerLast(Without(q, j))
        /\ Closed(Without(q, j)) <=> Closed(q)
    BY <1>4, <2>2, WithoutKeeps, MarkerIsNoPid
  <2>6. queues' \in [QueueIdx -> Seq(Item)] /\ queueLoad' \in [QueueIdx -> Int]
    BY <1>2, <1>3, <2>3, <2>4, <2>5
  <2>7. /\ \A i \in QueueIdx : MarkerLast(queues'[i])
        /\ \A i \in QueueIdx : Closed(queues'[i]) <=> Closed(queues[i])
    BY <1>2, <1>3, <2>4, <2>5
  <2>8. cpu' \in [Cpu -> CpuState]
    BY <1>3, <2>3, <2>4, ZenonT(60) DEF CpuState
  <2>9. \A d \in Cpu : cpu'[d].pc = "run" => cpu'[d].burst \in Pid /\ cpu'[d].head = None
    <3> SUFFICES ASSUME NEW d \in Cpu, cpu'[d].pc = "run"
                 PROVE  cpu'[d].burst \in Pid /\ cpu'[d].head = None
      OBVIOUS
    <3>1. CASE d = c
      BY <2>3, <2>4, <3>1
    <3>2. CASE d # c
      <4>1. cpu[d] \in CpuState /\ cpu[d].pc = "run"
        BY <1>3, <2>4, <3>2 DEF CpuState
      <4>2. cpu[d].burst \in Pid /\ cpu[d].head = None
        BY <1>3, <4>1
      <4>3. b # None
        BY PidAssumption DEF None
      <4> QED
        BY <2>4, <3>2, <4>2, <4>3
    <3> QED
      BY <3>1, <3>2
  <2> QED
    BY <1>1, <1>3, <2>4, <2>6, <2>7, <2>8, <2>9, CpuKeeps
<1>7. CASE Requeue(c)
  <2>1. PICK b \in Pid : b = cpu[c].burst
    BY <1>1, <1>3, <1>7 DEF Requeue
  <2>2. /\ remainingTime[b] > schedProps.Q
        /\ remainingTime' = [remainingTime EXCEPT ![b] = remainingTime[b] - schedProps.Q]
        /\ Put(queue(c), b, burstLength[b])
        /\ cpu' = [cpu EXCEPT ![c].pc = "loop", ![c].burst = None]
        /\ UNCHANGED <<burstLength, finishedQueue, main>>
    BY <1>7, <2>1 DEF Requeue, Unfinished, Idle
  <2>3. schedProps.Q \in Nat
    BY <1>2 DEF SchedProps
  <2>4. remainingTime' \in [Pid -> Nat]
    <3>1. remainingTime[b] - schedProps.Q \in Nat
      BY <1>3, <2>2, <2>3
    <3> QED
      BY <1>3, <2>2, <3>1
  <2>5. burstLength[b] \in Int
    BY <1>3
  <2>6. /\ queues' \in [QueueIdx -> Seq(Item)] /\ queueLoad' \in [QueueIdx -> Int]
        /\ \A i \in QueueIdx : MarkerLast(queues'[i])
        /\ \A i \in QueueIdx : Closed(queues'[i]) <=> Closed(queues[i])
    BY <1>1, <1>2, <2>2, <2>5, PutBurst
  <2>7. /\ cpu' \in [Cpu -> CpuState]
        /\ \A d \in Cpu : d # c => cpu'[d] = cpu[d]
        /\ cpu'[c].pc = "loop"
    BY <1>1, <1>3, <2>2 DEF CpuState
  <2>8. \A d \in Cpu : cpu'[d].pc = "run" => cpu'[d].burst \in Pid /\ cpu'[d].head = None
    BY <1>3, <2>7
  <2> QED
    BY <1>1, <1>3, <2>2, <2>4, <2>6, <2>7, <2>8, CpuKeeps
<1>8. CASE Finish(c)
  <2>1. PICK b \in Pid : b = cpu[c].burst
    BY <1>1, <1>3, <1>8 DEF Finish
  <2>2. /\ remainingTime' = [remainingTime EXCEPT ![b] = 0]
        /\ finishedQueue' = Enqueued(finishedQueue, b)
        /\ cpu' = [cpu EXCEPT ![c].pc = "loop", ![c].burst = None]
        /\ UNCHANGED <<queues, queueLoad, burstLength, main>>
    BY <1>8, <2>1 DEF Finish, Idle
  <2>3. remainingTime' \in [Pid -> Nat] /\ finishedQueue' \in Seq(Pid)
    BY <1>3, <2>2, FinishedBurst
  <2>4. /\ cpu' \in [Cpu -> CpuState]
        /\ \A d \in Cpu : d # c => cpu'[d] = cpu[d]
        /\ cpu'[c].pc = "loop"
    BY <1>1, <1>3, <2>2 DEF CpuState
  <2>5. \A d \in Cpu : cpu'[d].pc = "run" => cpu'[d].burst \in Pid /\ cpu'[d].head = None
    BY <1>3, <2>4
  <2> QED
    BY <1>1, <1>3, <2>2, <2>3, <2>4, <2>5, CpuKeeps
<1> QED
  BY <1>5, <1>6, <1>7, <1>8 DEF CpuStep, Looks

LEMMA MInvStep == MInv /\ [SNext]_svars => MInv'
<1> SUFFICES ASSUME MInv, [SNext]_svars PROVE MInv'
  OBVIOUS
<1>1. CASE Main
  BY <1>1, MInvMain
<1>2. ASSUME NEW c \in Cpu, CpuStep(c) PROVE MInv'
  BY <1>2, MInvCpu
<1>3. CASE UNCHANGED svars
  BY <1>3 DEF svars, MInv, TypeInv, Shape, STypeOK, Cpu, QueueIdx, queuesSize, Produced
<1> QED
  BY <1>1, <1>2, <1>3 DEF SNext, Ended

\* What a run of the simulation is, whatever its fairness.
Steps == SInit /\ [][SNext]_svars

LEMMA SpecSteps == SSpec => Steps
BY DEF SSpec, Steps

LEMMA MInvAlways == Steps => []MInv
BY MInvInit, MInvStep, PTL DEF Steps

\* Every step leaves every variable in its type: no burst, queue or CPU that is
\* not there is ever named, and no remaining time falls below 0.
THEOREM TypesKept == SSpec => []STypeOK
<1>1. MInv => STypeOK
  BY DEF MInv, TypeInv
<1> QED
  BY <1>1, SpecSteps, MInvAlways, PTL

\* Once main has produced everything a marker closes each queue, and what RR puts
\* back afterwards stays in front of it.
THEOREM MarkersStay == SSpec => []MarkersClose
<1>1. MInv => MarkersClose
  BY DEF MInv, Shape, MarkersClose, MarkerLast
<1> QED
  BY <1>1, SpecSteps, MInvAlways, PTL

-------------------------------------------------------------------------------
(* No queue is deserted *)

\* A CPU that will look at its queue again before it may stop: neither the node
\* of the marker nor a freed one is what it is about to read.
Serves(c, i) == /\ queue(c) = i /\ cpu[c].pc # "stopped"
                /\ cpu[c].head \notin {Stale, Marker}

Served == \A i \in QueueIdx : queues[i] # <<Marker>> => \E c \in Cpu : Serves(c, i)

LEMMA MarkerAlone ==
  ASSUME NEW q \in Seq(Item), MarkerLast(q), q # <<>>, q[1] = Marker
  PROVE  q = <<Marker>>
<1>1. Len(q) \in Nat \ {0} /\ DOMAIN q = 1 .. Len(q)
  BY EmptySeq, LenProperties
<1>2. Len(q) = 1
  BY <1>1 DEF MarkerLast
<1>3. <<Marker>> \in Seq(Item) /\ Len(<<Marker>>) = 1 /\ <<Marker>>[1] = Marker
  BY MarkerIsNoPid
<1>4. \A k \in 1 .. Len(q) : q[k] = <<Marker>>[k]
  BY <1>2, <1>3
<1> QED
  BY <1>2, <1>3, <1>4, SeqEqual

LEMMA OpenIsNotMarker == \A q : ~Closed(q) => q # <<Marker>>
BY DEF Closed

\* main closes and fills queues that are open, and leaves the CPUs alone.
LEMMA ServedMain ==
  ASSUME MInv, Served, Main
  PROVE  Served'
<1>1. /\ UNCHANGED <<schedProps, cpu>> /\ schedProps \in Props
      /\ queuesSize \in Nat \ {0} /\ QueueIdx = 0 .. queuesSize-1 /\ 0 \in QueueIdx
  BY Sizes DEF Main, MInv, TypeInv, Produce, Compare, Note, PutShortest, ProducedAll, Close, Join
<1>2. QueueIdx' = QueueIdx /\ Cpu' = Cpu /\ \A c : queue(c)' = queue(c)
  BY <1>1 DEF QueueIdx, queuesSize, Cpu, queue
<1>3. ASSUME NEW i \in QueueIdx, queues[i] # <<Marker>>
      PROVE  (\E c \in Cpu : Serves(c, i))'
  BY <1>1, <1>2, <1>3 DEF Served, Serves
<1>4. ASSUME NEW i \in QueueIdx, queues[i] = <<Marker>> PROVE queues'[i] = queues[i]
  <2>1. Closed(queues[i])
    BY <1>4, OpenIsNotMarker DEF Closed
  <2>2. CASE main.pc \in {"produce", "scan", "note"}
    BY <2>1, <2>2 DEF MInv, Shape
  <2>3. CASE main.pc \notin {"produce", "scan", "note"} /\ UNCHANGED queues
    BY <2>3
  <2>4. CASE Close
    <3>1. main.pc = "close" /\ main.idx # i
      BY <2>1, <2>4, <1>1 DEF Close, MInv, Shape
    <3>2. queues' = [queues EXCEPT ![main.idx] = Enqueued(queues[main.idx], Marker)]
      BY <2>4 DEF Close, Put
    <3>3. queues \in [QueueIdx -> Seq(Item)]
      BY DEF MInv, TypeInv, STypeOK
    <3> QED
      BY <3>1, <3>2, <3>3
  <2> QED
    BY <2>2, <2>3, <2>4 DEF Main, Produce, Compare, Note, PutShortest, ProducedAll, Join
<1> QED
  BY <1>2, <1>3, <1>4 DEF Served

\* A step of CPU c after which c serves its queue, and which takes no other queue's
\* head away.
LEMMA ServedBy ==
  ASSUME MInv, Served, UNCHANGED schedProps, NEW c \in Cpu,
         \A i \in QueueIdx : i # queue(c) => queues'[i] = queues[i],
         \A d \in Cpu : queue(d) # queue(c) => cpu'[d] = cpu[d],
         cpu'[c].pc # "stopped", cpu'[c].head \notin {Stale, Marker}
  PROVE  Served'
<1>1. QueueIdx' = QueueIdx /\ Cpu' = Cpu /\ \A d : queue(d)' = queue(d)
  BY DEF QueueIdx, queuesSize, Cpu, queue
<1>2. ASSUME NEW i \in QueueIdx, i # queue(c), queues'[i] # <<Marker>>
      PROVE  (\E d \in Cpu : Serves(d, i))'
  BY <1>1, <1>2 DEF Served, Serves
<1>3. ASSUME NEW i \in QueueIdx, i = queue(c)
      PROVE  (\E d \in Cpu : Serves(d, i))'
  BY <1>1, <1>3 DEF Serves
<1> QED
  BY <1>1, <1>2, <1>3 DEF Served

\* A step of CPU c that changes no queue and either c did not serve its queue
\* before, or does so still, or the marker is alone in it.
LEMMA ServedStill ==
  ASSUME MInv, Served, UNCHANGED <<schedProps, queues>>, NEW c \in Cpu,
         \A d \in Cpu : d # c => cpu'[d] = cpu[d],
         \/ cpu[c].head \in {Stale, Marker}
         \/ cpu'[c].pc # "stopped" /\ cpu'[c].head \notin {Stale, Marker}
         \/ queues[queue(c)] = <<Marker>>
  PROVE  Served'
<1>1. QueueIdx' = QueueIdx /\ Cpu' = Cpu /\ \A d : queue(d)' = queue(d)
  BY DEF QueueIdx, queuesSize, Cpu, queue
<1> SUFFICES ASSUME NEW i \in QueueIdx, queues[i] # <<Marker>>
             PROVE  (\E d \in Cpu : Serves(d, i))'
  BY <1>1 DEF Served
<1>2. PICK d \in Cpu : Serves(d, i)
  BY DEF Served
<1>3. CASE d # c
  BY <1>1, <1>2, <1>3 DEF Serves
<1>4. CASE d = c
  BY <1>1, <1>2, <1>4 DEF Serves
<1> QED
  BY <1>3, <1>4

LEMMA ServedCpu ==
  ASSUME NEW c, MInv, Served, CpuStep(c)
  PROVE  Served'
<1>1. /\ c \in Cpu /\ UNCHANGED schedProps
      /\ queue(c) \in QueueIdx
      /\ queues \in [QueueIdx -> Seq(Item)] /\ cpu \in [Cpu -> CpuState]
      /\ \A i \in QueueIdx : MarkerLast(queues[i])
      /\ cpu[c].pc = "run" => cpu[c].head = None
  BY Sizes DEF CpuStep, MInv, TypeInv, Shape, STypeOK
<1>2. queues[queue(c)] \in Seq(Item) /\ MarkerLast(queues[queue(c)])
  BY <1>1
<1>3. None \notin {Stale, Marker}
  BY DEF None, Stale, Marker
<1>4. CASE Looks(c) /\ ~ReadHead(c) /\ ~ReadPid(c) /\ ~StopAtMarker(c)
  <2>1. cpu[c] \in CpuState /\ cpu[c].pc # "stopped" /\ UNCHANGED <<schedProps, queues>>
    BY <1>1, <1>4, LookingOn DEF Waiting
  <2>2. \A d \in Cpu : d # c => cpu'[d] = cpu[d]
    BY <1>1, <1>4, LookingOn
  <2>3. cpu'[c].pc # "stopped" /\ cpu'[c].head = cpu[c].head
    <3>1. CASE TestHead(c) \/ Stick(c)
      BY <1>1, <2>1, <3>1 DEF TestHead, Stick, CpuState
    <3>2. CASE Poll(c) \/ Stuck(c)
      BY <2>1, <3>2 DEF Poll, Stuck
    <3> QED
      BY <1>4, <3>1, <3>2 DEF Looks
  <2> QED
    BY <1>1, <2>1, <2>2, <2>3, ServedStill
<1>5. CASE ReadHead(c)
  <2>1. /\ \A d \in Cpu : d # c => cpu'[d] = cpu[d]
        /\ cpu'[c] = IF queues[queue(c)] = <<>> THEN [cpu[c] EXCEPT !.pc = "crashed"]
                      ELSE [cpu[c] EXCEPT !.pc = "peek", !.head = queues[queue(c)][1]]
        /\ UNCHANGED <<schedProps, queues>>
    BY <1>1, <1>5 DEF ReadHead, Waiting
  <2>2. CASE queues[queue(c)] # <<>> /\ queues[queue(c)][1] = Marker
    BY <1>1, <1>2, <2>1, <2>2, MarkerAlone, ServedStill
  <2>3. CASE queues[queue(c)] # <<>> /\ queues[queue(c)][1] # Marker
    <3>1. cpu[c] \in CpuState
      BY <1>1
    <3>2. queues[queue(c)][1] \in Pid
      BY <1>2, <2>3, EmptySeq, ElementOfSeq DEF Item
    <3>3. cpu'[c].pc = "peek" /\ cpu'[c].head \in Pid
      BY <2>1, <2>3, <3>1, <3>2 DEF CpuState
    <3>4. cpu'[c].head \notin {Stale, Marker}
      BY <3>3, PidAssumption DEF Stale, Marker
    <3> QED
      BY <1>1, <2>1, <3>3, <3>4, ServedStill
  <2>4. CASE queues[queue(c)] = <<>>
    <3>1. cpu[c] \in CpuState
      BY <1>1
    <3>2. cpu'[c].pc = "crashed" /\ cpu'[c].head = cpu[c].head
      BY <2>1, <2>4, <3>1 DEF CpuState
    <3> QED
      BY <1>1, <2>1, <3>2, ServedStill
  <2> QED
    BY <2>2, <2>3, <2>4
<1>6. CASE ReadPid(c)
  <2>1. /\ \A d \in Cpu : d # c => cpu'[d] = cpu[d]
        /\ UNCHANGED <<schedProps, queues>>
    BY <1>1, <1>6 DEF ReadPid, Waiting
  <2>2. CASE cpu[c].head \in {Stale, Marker}
    BY <1>1, <2>1, <2>2, ServedStill
  <2>3. CASE cpu[c].head \notin {Stale, Marker}
    <3>1. cpu'[c].pc = "wait" /\ cpu'[c].head = None
      <4>1. cpu[c].head # Stale /\ cpu[c].head # Marker /\ cpu[c] \in CpuState
        BY <1>1, <2>3
      <4>2. cpu' = [cpu EXCEPT ![c].pc = "wait", ![c].head = None]
        BY <1>6, <4>1 DEF ReadPid
      <4> QED
        BY <1>1, <4>1, <4>2 DEF CpuState
    <3> QED
      BY <1>1, <1>3, <2>1, <3>1, ServedStill
  <2> QED
    BY <2>2, <2>3
<1>7. CASE StopAtMarker(c)
  <2>1. /\ \A d \in Cpu : d # c => cpu'[d] = cpu[d]
        /\ queues[queue(c)] # <<>> /\ queues[queue(c)][1] = Marker
        /\ UNCHANGED <<schedProps, queues>>
    BY <1>1, <1>7 DEF StopAtMarker, Waiting
  <2> QED
    BY <1>1, <1>2, <2>1, MarkerAlone, ServedStill
<1>8. CASE Take(c)
  <2>1. /\ cpu'[c].pc = "run" /\ cpu'[c].head = None
        /\ \A d \in Cpu : queue(d) # queue(c) => cpu'[d] = cpu[d]
        /\ \A i \in QueueIdx : i # queue(c) => queues'[i] = queues[i]
    BY <1>1, <1>8 DEF Take
  <2> QED
    BY <1>1, <1>3, <2>1, ServedBy
<1>9. CASE Requeue(c)
  <2>1. /\ cpu[c].pc = "run" /\ cpu[c] \in CpuState
        /\ cpu' = [cpu EXCEPT ![c].pc = "loop", ![c].burst = None]
        /\ \A i \in QueueIdx : i # queue(c) => queues'[i] = queues[i]
    BY <1>1, <1>9 DEF Requeue, Idle, Put
  <2>2. /\ cpu'[c].pc = "loop" /\ cpu'[c].head = None
        /\ \A d \in Cpu : queue(d) # queue(c) => cpu'[d] = cpu[d]
    BY <1>1, <2>1 DEF CpuState
  <2> QED
    BY <1>1, <1>3, <2>1, <2>2, ServedBy
<1>10. CASE Finish(c)
  <2>1. /\ cpu[c].pc = "run" /\ cpu[c] \in CpuState
        /\ cpu' = [cpu EXCEPT ![c].pc = "loop", ![c].burst = None]
        /\ UNCHANGED queues
    BY <1>1, <1>10 DEF Finish, Idle
  <2>2. /\ cpu'[c].pc = "loop" /\ cpu'[c].head = None
        /\ \A d \in Cpu : queue(d) # queue(c) => cpu'[d] = cpu[d]
    BY <1>1, <2>1 DEF CpuState
  <2> QED
    BY <1>1, <1>3, <2>1, <2>2, ServedBy
<1> QED
  BY <1>4, <1>5, <1>6, <1>7, <1>8, <1>9, <1>10 DEF CpuStep, Looks

LEMMA ServedInit == SInit => Served
<1> SUFFICES ASSUME SInit, NEW i \in QueueIdx PROVE \E c \in Cpu : Serves(c, i)
  BY DEF Served
<1>1. PICK c \in Cpu : queue(c) = i
  BY Sizes DEF SInit
<1>2. cpu[c].pc = "loop" /\ cpu[c].head = None
  BY DEF SInit
<1> QED
  BY <1>1, <1>2 DEF Serves, None, Stale, Marker

LEMMA ServedStep == MInv /\ Served /\ [SNext]_svars => Served'
<1> SUFFICES ASSUME MInv, Served, [SNext]_svars PROVE Served'
  OBVIOUS
<1>1. CASE Main
  BY <1>1, ServedMain
<1>2. ASSUME NEW c \in Cpu, CpuStep(c) PROVE Served'
  BY <1>2, ServedCpu
<1>3. CASE UNCHANGED svars
  BY <1>3 DEF svars, Served, Serves, queue, Cpu, QueueIdx, queuesSize
<1> QED
  BY <1>1, <1>2, <1>3 DEF SNext, Ended

LEMMA ServedAlways == Steps => []Served
BY MInvAlways, ServedInit, ServedStep, PTL DEF Steps

LEMMA ServedMeans == Served => QueueServed
BY DEF Served, Serves, QueueServed

\* While a queue holds a burst, or is not yet closed, one of its CPU threads has
\* not stopped, although others may have stopped over heads freed under their eyes.
THEOREM QueuesAreServed == SSpec => []QueueServed
BY SpecSteps, ServedMeans, ServedAlways, PTL

-------------------------------------------------------------------------------
(* All work is done when main ends *)

\* The bursts that main has queued so far, and where they may be.
Given == 1 .. main.nextPid-1

Runs(b)   == \E c \in Cpu : cpu[c].pc = "run" /\ cpu[c].burst = b
Queued(b) == \E i \in QueueIdx : b \in Items(queues[i])
There(b)  == b \in Items(finishedQueue) \/ Runs(b) \/ Queued(b)

DoneInv ==
  /\ \A b \in Pid : b \in Given <=> There(b)
  /\ \A b \in Pid : b \in Items(finishedQueue) => remainingTime[b] = 0
  /\ \A b \in Pid \ Given :
       remainingTime[b] = 0 \/ (main.pc \in {"scan", "note"} /\ b = main.nextPid)
  /\ main.pc \in {"close", "join", "end"} /\ schedProps.source # "MISSING" =>
       main.nextPid = schedProps.PC+1
  /\ main.pc = "end" => \A c \in Cpu : cpu[c].pc = "stopped"
  /\ schedProps.source = "MISSING" =>
       /\ main.pc \in {"join", "end"} /\ main.nextPid = 1
       /\ \A i \in QueueIdx : queues[i] = <<>>

LEMMA DoneInit == SInit => DoneInv
<1> SUFFICES ASSUME SInit PROVE DoneInv
  OBVIOUS
<1>1. /\ \A i \in QueueIdx : queues[i] = <<>>
      /\ finishedQueue = <<>>
      /\ \A c \in Cpu : cpu[c].pc = "loop"
      /\ \A b \in Pid : remainingTime[b] = 0
      /\ main.pc = IF schedProps.source = "MISSING" THEN "join" ELSE "produce"
      /\ main.nextPid = 1
  BY DEF SInit
<1>2. Items(<<>>) = {}
  BY DEF Items
<1>3. Given = {}
  BY <1>1 DEF Given
<1> QED
  BY <1>1, <1>2, <1>3 DEF DoneInv, There, Runs, Queued

\* A burst put into a queue is added to what is queued.
LEMMA PutItems ==
  ASSUME MInv, UNCHANGED schedProps, NEW i \in QueueIdx, NEW b \in Item, NEW l, Put(i, b, l),
         Closed(queues[i]) => b \in Pid
  PROVE  \A x : Queued(x)' <=> Queued(x) \/ x = b
<1>1. QueueIdx' = QueueIdx
  BY DEF QueueIdx, queuesSize
<1>2. queues \in [QueueIdx -> Seq(Item)]
  BY DEF MInv, TypeInv, STypeOK
<1>3. Items(Enqueued(queues[i], b)) = Items(queues[i]) \cup {b}
  BY <1>2, EnqueuedItems
<1>4. queues' = [queues EXCEPT ![i] = Enqueued(queues[i], b)]
  BY DEF Put
<1>5. \A j \in QueueIdx : Items(queues'[j]) = IF j = i THEN Items(queues[i]) \cup {b} ELSE Items(queues[j])
  BY <1>2, <1>3, <1>4
<1> QED
  BY <1>1, <1>5 DEF Queued

LEMMA DoneMain ==
  ASSUME MInv, DoneInv, Main
  PROVE  DoneInv'
<1>1. /\ schedProps \in Props /\ UNCHANGED <<schedProps, cpu, finishedQueue>>
      /\ QueueIdx' = QueueIdx /\ Cpu' = Cpu
      /\ \A b : Runs(b)' <=> Runs(b)
  BY DEF MInv, TypeInv, Main, Produce, Compare, Note, PutShortest, ProducedAll, Close, Join,
         QueueIdx, queuesSize, Cpu, Runs
<1>2. /\ queuesSize \in Nat \ {0} /\ QueueIdx = 0 .. queuesSize-1
      /\ 0 \in QueueIdx /\ \A n \in 1 .. schedProps.PC : n \in Pid
  BY <1>1, Sizes
<1>3. /\ main \in MainState /\ main.nextPid \in Nat
      /\ remainingTime \in [Pid -> Nat] /\ Pid \subseteq Nat \ {0}
      /\ schedProps.PC \in Nat
  BY PidAssumption, SchedulerAssumption DEF MInv, TypeInv, STypeOK, MainState, SchedProps
<1>4. main.pc \in {"produce", "scan", "note", "close"} => schedProps.source # "MISSING"
  BY DEF DoneInv
<1>5. ASSUME \A b \in Pid : Queued(b)' <=> Queued(b), UNCHANGED remainingTime,
             main'.nextPid = main.nextPid,
             main.pc \in {"scan", "note"} => main'.pc \in {"scan", "note"},
             main'.pc \in {"close", "join", "end"} /\ schedProps.source # "MISSING" =>
               main.nextPid = schedProps.PC+1,
             main'.pc = "end" => \A c \in Cpu : cpu[c].pc = "stopped",
             schedProps.source = "MISSING" => main'.pc \in {"join", "end"} /\ UNCHANGED queues
      PROVE  DoneInv'
  BY <1>1, <1>5 DEF DoneInv, There, Given
<1>6. ASSUME NEW i \in QueueIdx, NEW l, Put(i, main.nextPid, l),
             main.nextPid \in Pid, main.pc \in {"produce", "scan", "note"},
             main'.pc = "produce", main'.nextPid = main.nextPid + 1,
             \A b \in Pid : b # main.nextPid => remainingTime'[b] = remainingTime[b]
      PROVE  DoneInv'
  <2>1. main.nextPid \in Item
    BY <1>6, MarkerIsNoPid
  <2>2. \A b : Queued(b)' <=> Queued(b) \/ b = main.nextPid
    BY <1>1, <1>6, <2>1, PutItems
  <2>3. \A b \in Pid : b \in Given' <=> b \in Given \/ b = main.nextPid
    BY <1>3, <1>6 DEF Given
  <2>4. \A b \in Pid : b \in Items(finishedQueue) => b # main.nextPid
    BY <1>3 DEF DoneInv, There, Given
  <2> QED
    BY <1>1, <1>4, <1>6, <2>2, <2>3, <2>4 DEF DoneInv, There
<1>7. CASE Produce
  <2>1. main.pc = "produce" /\ main.nextPid \in 1 .. schedProps.PC /\ main.nextPid \in Pid
    BY <1>2, <1>3, <1>7 DEF Produce, MainState
  <2>2. PICK l \in Lengths :
           /\ remainingTime' = [remainingTime EXCEPT ![main.nextPid] = l]
           /\ IF schedProps.qs = "LM"
                THEN /\ main' = [main EXCEPT !.pc = "scan", !.shortest = 0,
                                   !.load = queueLoad[0],
                                   !.idx = IF schedProps.source = "RANDOM" THEN 1 ELSE 0,
                                   !.seen[0] = queueLoad[0]]
                     /\ UNCHANGED <<queues, queueLoad>>
                ELSE /\ Put(IF schedProps.qs = "RM" THEN main.idx ELSE 0, main.nextPid, l)
                     /\ main' = [main EXCEPT !.nextPid = main.nextPid + 1,
                                   !.idx = IF schedProps.qs = "RM" THEN (main.idx + 1) % queuesSize
                                                                   ELSE main.idx]
    BY <1>7 DEF Produce
  <2>3. \A b \in Pid : b # main.nextPid => remainingTime'[b] = remainingTime[b]
    BY <1>3, <2>2
  <2>4. CASE schedProps.qs = "LM"
    <3>1. /\ main'.pc = "scan" /\ main'.nextPid = main.nextPid
          /\ UNCHANGED queues
      BY <1>3, <2>2, <2>4 DEF MainState
    <3>2. \A b : Queued(b)' <=> Queued(b)
      BY <1>1, <3>1 DEF Queued
    <3>3. \A b \in Pid : b \in Items(finishedQueue) => b # main.nextPid
      BY <1>3 DEF DoneInv, There, Given
    <3> QED
      BY <1>1, <1>4, <2>1, <2>3, <3>1, <3>2, <3>3 DEF DoneInv, There, Given
  <2>5. CASE schedProps.qs # "LM"
    <3>1. PICK i \in QueueIdx : i = IF schedProps.qs = "RM" THEN main.idx ELSE 0
      BY <1>2, <2>1 DEF MInv, TypeInv
    <3>2. Put(i, main.nextPid, l)
      BY <2>2, <2>5, <3>1
    <3>3. main'.pc = "produce" /\ main'.nextPid = main.nextPid + 1
      BY <1>3, <2>1, <2>2, <2>5 DEF MainState
    <3> QED
      BY <1>6, <2>1, <2>3, <3>2, <3>3
  <2> QED
    BY <2>4, <2>5
<1>8. CASE Compare \/ Note
  <2>1. /\ main.pc \in {"scan", "note"} /\ main'.pc \in {"scan", "note"}
        /\ main'.nextPid = main.nextPid
        /\ UNCHANGED <<queues, remainingTime>>
    BY <1>3, <1>8 DEF Compare, Note, MainState
  <2>2. \A b : Queued(b)' <=> Queued(b)
    BY <1>1, <2>1 DEF Queued
  <2> QED
    BY <1>4, <1>5, <2>1, <2>2
<1>9. CASE PutShortest
  <2>1. /\ main.pc = "scan" /\ UNCHANGED remainingTime
        /\ Put(main.shortest, main.nextPid, burstLength[main.nextPid])
        /\ main' = [main EXCEPT !.pc = "produce", !.nextPid = main.nextPid + 1, !.idx = 0,
                      !.shortest = 0, !.load = 0, !.seen = Unseen]
    BY <1>9 DEF PutShortest
  <2>2. main.nextPid \in 1 .. schedProps.PC /\ main.shortest \in QueueIdx
    BY <1>3, <2>1 DEF MInv, TypeInv, MainState
  <2>3. main'.pc = "produce" /\ main'.nextPid = main.nextPid + 1
    BY <1>3, <2>1 DEF MainState
  <2> QED
    BY <1>2, <1>6, <2>1, <2>2, <2>3
<1>10. CASE ProducedAll
  <2>1. /\ main.pc = "produce" /\ main.nextPid = schedProps.PC + 1
        /\ main'.pc = "close" /\ main'.nextPid = main.nextPid
        /\ UNCHANGED <<queues, remainingTime>>
    BY <1>3, <1>10 DEF ProducedAll, MainState
  <2>2. \A b : Queued(b)' <=> Queued(b)
    BY <1>1, <2>1 DEF Queued
  <2> QED
    BY <1>4, <1>5, <2>1, <2>2
<1>11. CASE Close
  <2>1. /\ main.pc = "close" /\ main'.pc \in {"close", "join"} /\ main'.nextPid = main.nextPid
        /\ Put(main.idx, Marker, 0) /\ UNCHANGED remainingTime
    BY <1>3, <1>11 DEF Close, MainState
  <2>2. main.idx \in QueueIdx /\ ~Closed(queues[main.idx])
    BY <1>2, <2>1 DEF MInv, TypeInv, Shape
  <2>3. \A b \in Pid : Queued(b)' <=> Queued(b)
    BY <1>1, <2>1, <2>2, PutItems, MarkerIsNoPid
  <2>4. schedProps.source # "MISSING" /\ main.nextPid = schedProps.PC + 1
    BY <1>4, <2>1 DEF DoneInv
  <2> QED
    BY <1>5, <2>1, <2>3, <2>4
<1>12. CASE Join
  <2>1. /\ main.pc = "join" /\ main'.pc = "end" /\ main'.nextPid = main.nextPid
        /\ \A c \in Cpu : cpu[c].pc = "stopped"
        /\ UNCHANGED <<queues, remainingTime>>
    BY <1>3, <1>12 DEF Join, MainState
  <2>2. \A b : Queued(b)' <=> Queued(b)
    BY <1>1, <2>1 DEF Queued
  <2>3. schedProps.source # "MISSING" => main.nextPid = schedProps.PC + 1
    BY <2>1 DEF DoneInv
  <2> QED
    BY <1>5, <2>1, <2>2, <2>3
<1> QED
  BY <1>7, <1>8, <1>9, <1>10, <1>11, <1>12 DEF Main

\* A CPU's step that moves a burst, or moves none.
LEMMA DoneMoves ==
  ASSUME MInv, DoneInv, NEW c \in Cpu, UNCHANGED <<schedProps, main>>, cpu[c].pc # "stopped",
         \A b \in Pid : There(b)' <=> There(b),
         \A b \in Pid : remainingTime'[b] = remainingTime[b] \/ b \in Given,
         \A b \in Pid : b \in Items(finishedQueue') => remainingTime'[b] = 0,
         schedProps.source = "MISSING" => UNCHANGED queues
  PROVE  DoneInv'
<1>1. QueueIdx' = QueueIdx /\ Cpu' = Cpu /\ Given' = Given
  BY DEF QueueIdx, queuesSize, Cpu, Given
<1>2. main.pc # "end"
  BY DEF DoneInv
<1> QED
  BY <1>1, <1>2 DEF DoneInv

\* A CPU without a burst moves on.
LEMMA DoneWaits ==
  ASSUME MInv, DoneInv, NEW c \in Cpu, Waiting, UNCHANGED schedProps,
         \A d \in Cpu : d # c => cpu'[d] = cpu[d],
         cpu[c].pc \notin {"run", "stopped"}, cpu'[c].pc # "run"
  PROVE  DoneInv'
<1>1. Cpu' = Cpu /\ QueueIdx' = QueueIdx
  BY DEF Cpu, QueueIdx, queuesSize
<1>2. \A b : (Runs(b)' <=> Runs(b)) /\ (Queued(b)' <=> Queued(b))
  BY <1>1 DEF Waiting, Runs, Queued
<1>3. UNCHANGED <<queues, remainingTime, finishedQueue, main>>
  BY DEF Waiting
<1>4. \A b \in Pid : There(b)' <=> There(b)
  BY <1>2, <1>3 DEF There
<1>5. \A b \in Pid : b \in Items(finishedQueue') => remainingTime'[b] = 0
  BY <1>3 DEF DoneInv
<1> QED
  BY <1>3, <1>4, <1>5, DoneMoves

LEMMA DoneCpu ==
  ASSUME NEW c, MInv, DoneInv, CpuStep(c)
  PROVE  DoneInv'
<1>1. /\ c \in Cpu /\ UNCHANGED <<schedProps, main>> /\ schedProps \in Props
      /\ queue(c) \in QueueIdx
      /\ QueueIdx' = QueueIdx /\ Cpu' = Cpu
  BY Sizes DEF CpuStep, MInv, TypeInv, QueueIdx, queuesSize, Cpu,
     TestHead, ReadHead, ReadPid, StopAtMarker, Poll, Stick, Stuck, Take, Requeue, Finish, Waiting
<1>2. /\ queues \in [QueueIdx -> Seq(Item)] /\ cpu \in [Cpu -> CpuState]
      /\ remainingTime \in [Pid -> Nat] /\ finishedQueue \in Seq(Pid)
      /\ \A i \in QueueIdx : MarkerLast(queues[i])
      /\ \A d \in Cpu : cpu[d].pc = "run" => cpu[d].burst \in Pid
      /\ schedProps.Q \in Nat
  BY SchedulerAssumption DEF MInv, TypeInv, Shape, STypeOK, SchedProps
<1>3. cpu[c] \in CpuState
  BY <1>1, <1>2
<1>4. CASE Looks(c)
  BY <1>1, <1>4, LookingOn, DoneWaits
<1>5. CASE Take(c)
  <2> PICK q : q = queues[queue(c)]
    OBVIOUS
  <2>1. cpu[c].pc = "wait" /\ q # <<>> /\ q[1] # Marker /\ q \in Seq(Item) /\ MarkerLast(q)
    BY <1>1, <1>2, <1>5 DEF Take, GetsMutex
  <2>2. PICK j \in DOMAIN q : j = Picked(q) /\ q[j] \in Pid
    BY <2>1, PickedBurst DEF MInv
  <2>3. PICK b \in Pid : b = q[j]
    BY <2>2
  <2>4. /\ queues' = [queues EXCEPT ![queue(c)] = Without(q, j)]
        /\ cpu' = [d \in Cpu |->
                     IF d = c THEN [pc |-> "run", burst |-> b, head |-> None]
                     ELSE IF cpu[d].head = b /\ queue(d) = queue(c)
                       THEN [cpu[d] EXCEPT !.head = Stale]
                     ELSE cpu[d]]
        /\ UNCHANGED <<remainingTime, finishedQueue>>
    BY <1>5, <2>2, <2>3 DEF Take
  <2>5. \A i \in QueueIdx : queues'[i] = IF i = queue(c) THEN Without(q, j) ELSE queues[i]
    BY <1>1, <1>2, <2>4
  <2>6. /\ Items(Without(q, j)) \subseteq Items(q)
        /\ Items(q) \subseteq Items(Without(q, j)) \cup {b}
        /\ b \in Items(q)
    <3>1. b \in Items(q)
      BY <2>2, <2>3 DEF Items
    <3> QED
      BY <2>1, <2>2, <2>3, <3>1, WithoutItems
  <2>7. \A x : Queued(x)' \/ x = b <=> Queued(x)
    BY <1>1, <2>5, <2>6 DEF Queued
  <2>8. /\ cpu'[c].pc = "run" /\ cpu'[c].burst = b
        /\ \A d \in Cpu : d # c => cpu'[d].pc = cpu[d].pc /\ cpu'[d].burst = cpu[d].burst
    BY <1>1, <1>2, <2>4 DEF CpuState
  <2>9. \A x : Runs(x)' <=> Runs(x) \/ x = b
    BY <1>1, <2>1, <2>8 DEF Runs
  <2>10. \A x \in Pid : There(x)' <=> There(x)
    BY <2>4, <2>7, <2>9 DEF There
  <2>11. \A x \in Pid : x \in Items(finishedQueue') => remainingTime'[x] = 0
    BY <2>4 DEF DoneInv
  <2>12. schedProps.source # "MISSING"
    BY <1>1, <2>1 DEF DoneInv
  <2> QED
    BY <1>1, <2>1, <2>4, <2>10, <2>11, <2>12, DoneMoves
<1>6. CASE Requeue(c)
  <2>1. PICK b \in Pid : b = cpu[c].burst
    BY <1>1, <1>2, <1>6 DEF Requeue
  <2>2. /\ cpu[c].pc = "run"
        /\ remainingTime[b] > schedProps.Q
        /\ remainingTime' = [remainingTime EXCEPT ![b] = remainingTime[b] - schedProps.Q]
        /\ Put(queue(c), b, burstLength[b])
        /\ cpu' = [cpu EXCEPT ![c].pc = "loop", ![c].burst = None]
        /\ UNCHANGED finishedQueue
    BY <1>6, <2>1 DEF Requeue, Unfinished, Idle
  <2>3. /\ cpu'[c].pc = "loop"
        /\ \A d \in Cpu : d # c => cpu'[d] = cpu[d]
    BY <1>1, <1>2, <1>3, <2>2 DEF CpuState
  <2>4. \A x : Queued(x)' <=> Queued(x) \/ x = b
    BY <1>1, <2>1, <2>2, PutItems, MarkerIsNoPid
  <2>5. \A x : Runs(x)' \/ x = b <=> Runs(x) \/ x = b
    BY <1>1, <2>1, <2>2, <2>3 DEF Runs
  <2>6. Runs(b)
    BY <1>1, <2>1, <2>2 DEF Runs
  <2>7. \A x \in Pid : There(x)' <=> There(x)
    BY <2>2, <2>4, <2>5, <2>6 DEF There
  <2>8. b \in Given /\ b \notin Items(finishedQueue)
    <3>1. b \in Given
      BY <2>6 DEF DoneInv, There
    <3>2. remainingTime[b] # 0
      BY <1>2, <2>2
    <3> QED
      BY <3>1, <3>2 DEF DoneInv
  <2>9. \A x \in Pid : x # b => remainingTime'[x] = remainingTime[x]
    BY <1>2, <2>2
  <2>10. \A x \in Pid : x \in Items(finishedQueue') => remainingTime'[x] = 0
    BY <2>2, <2>8, <2>9 DEF DoneInv
  <2>11. schedProps.source # "MISSING"
    BY <2>8 DEF DoneInv, Given
  <2> QED
    BY <1>1, <2>2, <2>7, <2>8, <2>9, <2>10, <2>11, DoneMoves
<1>7. CASE Finish(c)
  <2>1. PICK b \in Pid : b = cpu[c].burst
    BY <1>1, <1>2, <1>7 DEF Finish
  <2>2. /\ cpu[c].pc = "run"
        /\ remainingTime' = [remainingTime EXCEPT ![b] = 0]
        /\ finishedQueue' = Enqueued(finishedQueue, b)
        /\ cpu' = [cpu EXCEPT ![c].pc = "loop", ![c].burst = None]
        /\ UNCHANGED queues
    BY <1>7, <2>1 DEF Finish, Idle
  <2>3. /\ cpu'[c].pc = "loop"
        /\ \A d \in Cpu : d # c => cpu'[d] = cpu[d]
    BY <1>1, <1>2, <1>3, <2>2 DEF CpuState
  <2>4. Items(finishedQueue') = Items(finishedQueue) \cup {b}
    <3>1. finishedQueue \in Seq(Item) /\ b \in Item
      BY <1>2, MarkerIsNoPid, SeqMonotonic
    <3> QED
      BY <2>2, <3>1, EnqueuedItems
  <2>5. \A x : (Runs(x)' \/ x = b <=> Runs(x) \/ x = b) /\ (Queued(x)' <=> Queued(x))
    BY <1>1, <2>1, <2>2, <2>3 DEF Runs, Queued
  <2>6. Runs(b)
    BY <1>1, <2>1, <2>2 DEF Runs
  <2>7. \A x \in Pid : There(x)' <=> There(x)
    BY <2>4, <2>5, <2>6 DEF There
  <2>8. b \in Given
    BY <2>6 DEF DoneInv, There
  <2>9. /\ \A x \in Pid : x # b => remainingTime'[x] = remainingTime[x]
        /\ remainingTime'[b] = 0
    BY <1>2, <2>2
  <2>10. \A x \in Pid : x \in Items(finishedQueue') => remainingTime'[x] = 0
    BY <2>4, <2>9 DEF DoneInv
  <2> QED
    BY <1>1, <2>2, <2>7, <2>8, <2>9, <2>10, DoneMoves
<1> QED
  BY <1>4, <1>5, <1>6, <1>7 DEF CpuStep, Looks

LEMMA DoneStep == MInv /\ DoneInv /\ [SNext]_svars => DoneInv'
<1> SUFFICES ASSUME MInv, DoneInv, [SNext]_svars PROVE DoneInv'
  OBVIOUS
<1>1. CASE Main
  BY <1>1, DoneMain
<1>2. ASSUME NEW c \in Cpu, CpuStep(c) PROVE DoneInv'
  BY <1>2, DoneCpu
<1>3. CASE UNCHANGED svars
  BY <1>3 DEF svars, DoneInv, There, Runs, Queued, Given, Cpu, QueueIdx, queuesSize
<1> QED
  BY <1>1, <1>2, <1>3 DEF SNext, Ended

LEMMA DoneAlways == Steps => []DoneInv
BY MInvAlways, DoneInit, DoneStep, PTL DEF Steps

LEMMA DoneMeans == MInv /\ Served /\ DoneInv => AllDoneAtEnd
<1>1. ASSUME MInv, Served, DoneInv, main.pc = "end"
      PROVE  /\ \A i \in QueueIdx : queues[i] = <<Marker>>
             /\ Items(finishedQueue) = 1 .. schedProps.PC
             /\ \A b \in Pid : remainingTime[b] = 0
  <2>1. \A c \in Cpu : cpu[c].pc = "stopped"
    BY <1>1 DEF DoneInv
  <2>2. \A i \in QueueIdx : queues[i] = <<Marker>>
    BY <1>1, <2>1 DEF Served, Serves
  <2>3. schedProps \in Props /\ 0 \in QueueIdx /\ \A n \in 1 .. schedProps.PC : n \in Pid
    BY <1>1, Sizes DEF MInv, TypeInv
  <2>4. schedProps.source # "MISSING"
    <3>1. queues[0] # <<>>
      BY <2>2, <2>3, SMTT(40)
    <3> QED
      BY <1>1, <2>3, <3>1 DEF DoneInv
  <2>5. Given = 1 .. schedProps.PC
    <3>1. main.nextPid = schedProps.PC + 1 /\ schedProps.PC \in Nat
      BY <1>1, <2>3, <2>4, SchedulerAssumption DEF DoneInv, SchedProps
    <3> QED
      BY <3>1 DEF Given
  <2>6. \A b \in Pid : ~Runs(b) /\ ~Queued(b)
    <3>1. Items(<<Marker>>) = {Marker}
      BY DEF Items
    <3> QED
      BY <2>1, <2>2, <3>1, MarkerIsNoPid DEF Runs, Queued
  <2>7. \A b \in Pid : b \in Items(finishedQueue) <=> b \in Given
    BY <1>1, <2>6 DEF DoneInv, There
  <2>8. Items(finishedQueue) \subseteq Pid
    <3>1. finishedQueue \in Seq(Pid)
      BY <1>1 DEF MInv, TypeInv, STypeOK
    <3> QED
      BY <3>1, LenProperties, ElementOfSeq DEF Items
  <2>9. Items(finishedQueue) = 1 .. schedProps.PC
    BY <2>3, <2>5, <2>7, <2>8
  <2>10. \A b \in Pid : remainingTime[b] = 0
    BY <1>1, <2>7 DEF DoneInv
  <2> QED
    BY <2>2, <2>9, <2>10
<1> QED
  BY <1>1 DEF AllDoneAtEnd

\* When main has joined the CPU threads every burst has run to its end, and each
\* queue holds the marker that schedule() frees through its head, and nothing else.
THEOREM WorkIsDone == SSpec => []AllDoneAtEnd
BY SpecSteps, MInvAlways, ServedAlways, DoneAlways, DoneMeans, PTL

-------------------------------------------------------------------------------
(* No burst is in two places *)

\* Each burst is in one place at most: once in one queue, or on one CPU, or once
\* among the finished.
Apart ==
  /\ \A i \in QueueIdx : OnceIn(queues[i])
  /\ OnceIn(finishedQueue)
  /\ \A c \in Cpu : cpu[c].burst \in Pid <=> cpu[c].pc = "run"
  /\ \A b \in Pid :
       /\ \A i, j \in QueueIdx : b \in Items(queues[i]) /\ b \in Items(queues[j]) => i = j
       /\ \A c, d \in Cpu : cpu[c].burst = b /\ cpu[d].burst = b => c = d
       /\ Runs(b) => b \notin Items(finishedQueue)
       /\ Queued(b) => ~Runs(b) /\ b \notin Items(finishedQueue)

LEMMA ApartInit == SInit => Apart
<1> SUFFICES ASSUME SInit PROVE Apart
  OBVIOUS
<1>1. /\ \A i \in QueueIdx : queues[i] = <<>>
      /\ finishedQueue = <<>>
      /\ \A c \in Cpu : cpu[c].pc = "loop" /\ cpu[c].burst = None
  BY DEF SInit
<1>2. Items(<<>>) = {} /\ OnceIn(<<>>)
  BY DEF Items, OnceIn
<1>3. None \notin Pid
  BY PidAssumption DEF None
<1> QED
  BY <1>1, <1>2, <1>3 DEF Apart, Runs, Queued

\* What a Put does to the queues.
LEMMA PutOnce ==
  ASSUME MInv, Apart, NEW i \in QueueIdx, NEW b \in Item, NEW l, Put(i, b, l),
         Closed(queues[i]) => b \in Pid, b \notin Items(queues[i])
  PROVE  /\ \A j \in QueueIdx : OnceIn(queues'[j])
         /\ \A j \in QueueIdx :
              Items(queues'[j]) = IF j = i THEN Items(queues[i]) \cup {b} ELSE Items(queues[j])
<1>1. queues \in [QueueIdx -> Seq(Item)]
  BY DEF MInv, TypeInv, STypeOK
<1>2. /\ Items(Enqueued(queues[i], b)) = Items(queues[i]) \cup {b}
      /\ OnceIn(Enqueued(queues[i], b))
  BY <1>1, EnqueuedItems, EnqueuedOnce DEF Apart
<1>3. \A j \in QueueIdx : queues'[j] = IF j = i THEN Enqueued(queues[i], b) ELSE queues[j]
  BY <1>1 DEF Put
<1> QED
  BY <1>2, <1>3 DEF Apart

\* main puts a burst that is nowhere yet into a queue, or a marker.
LEMMA ApartPut ==
  ASSUME MInv, Apart, UNCHANGED <<schedProps, cpu, finishedQueue>>,
         NEW i \in QueueIdx, NEW b \in Item, NEW l, Put(i, b, l),
         Closed(queues[i]) => b \in Pid, b \notin Items(queues[i]),
         b \in Pid => ~There(b)
  PROVE  Apart'
<1>1. QueueIdx' = QueueIdx /\ Cpu' = Cpu /\ \A x : Runs(x)' <=> Runs(x)
  BY DEF QueueIdx, queuesSize, Cpu, Runs
<1>2. /\ \A j \in QueueIdx : OnceIn(queues'[j])
      /\ \A j \in QueueIdx :
           Items(queues'[j]) = IF j = i THEN Items(queues[i]) \cup {b} ELSE Items(queues[j])
  BY PutOnce
<1>3. \A x \in Pid : \A j, k \in QueueIdx :
        x \in Items(queues'[j]) /\ x \in Items(queues'[k]) => j = k
  BY <1>2 DEF Apart, There, Queued
<1>4. \A x : Queued(x)' <=> Queued(x) \/ x = b
  BY <1>1, <1>2 DEF Queued
<1>5. \A x \in Pid : Queued(x)' => ~Runs(x)' /\ x \notin Items(finishedQueue')
  BY <1>1, <1>4 DEF Apart, There
<1> QED
  BY <1>1, <1>2, <1>3, <1>5 DEF Apart

LEMMA ApartMain ==
  ASSUME MInv, DoneInv, Apart, Main
  PROVE  Apart'
<1>1. /\ schedProps \in Props /\ UNCHANGED <<schedProps, cpu, finishedQueue>>
      /\ main \in MainState
  BY DEF MInv, TypeInv, STypeOK, Main, Produce, Compare, Note, PutShortest, ProducedAll, Close, Join,
         MainState
<1>2. /\ queuesSize \in Nat \ {0} /\ QueueIdx = 0 .. queuesSize-1
      /\ 0 \in QueueIdx /\ \A n \in 1 .. schedProps.PC : n \in Pid
  BY <1>1, Sizes
<1>3. CASE UNCHANGED queues
  BY <1>1, <1>3 DEF Apart, Runs, Queued, QueueIdx, queuesSize, Cpu
<1>4. ASSUME NEW i \in QueueIdx, NEW l, Put(i, main.nextPid, l), main.nextPid \in Pid
      PROVE  Apart'
  <2>1. main.nextPid \in Item
    BY <1>4, MarkerIsNoPid
  <2>2. main.nextPid \in Nat
    BY <1>4, PidAssumption
  <2>3. ~There(main.nextPid)
    BY <1>4, <2>2 DEF DoneInv, Given
  <2>4. main.nextPid \notin Items(queues[i])
    BY <2>3 DEF There, Queued
  <2> QED
    BY <1>1, <1>4, <2>1, <2>3, <2>4, ApartPut
<1>5. CASE Produce
  <2>1. main.pc = "produce" /\ main.nextPid \in 1 .. schedProps.PC
    BY <1>1, <1>5 DEF Produce, MainState
  <2>2. main.nextPid \in Pid /\ main.idx \in QueueIdx
    BY <1>2, <2>1 DEF MInv, TypeInv
  <2>3. CASE schedProps.qs = "LM"
    BY <1>3, <1>5, <2>3 DEF Produce
  <2>4. CASE schedProps.qs # "LM"
    <3>1. PICK i \in QueueIdx : i = IF schedProps.qs = "RM" THEN main.idx ELSE 0
      BY <1>2, <2>2
    <3>2. \E l \in Lengths : Put(i, main.nextPid, l)
      BY <1>5, <2>4, <3>1 DEF Produce
    <3> QED
      BY <1>4, <2>2, <3>2
  <2> QED
    BY <2>3, <2>4
<1>6. CASE PutShortest
  <2>1. main.pc = "scan" /\ Put(main.shortest, main.nextPid, burstLength[main.nextPid])
    BY <1>6 DEF PutShortest
  <2>2. main.nextPid \in 1 .. schedProps.PC /\ main.shortest \in QueueIdx
    BY <1>1, <2>1 DEF MInv, TypeInv, MainState
  <2> QED
    BY <1>2, <1>4, <2>1, <2>2
<1>7. CASE Close
  <2>1. main.pc = "close" /\ Put(main.idx, Marker, 0)
    BY <1>7 DEF Close
  <2>2. main.idx \in QueueIdx /\ ~Closed(queues[main.idx])
    BY <1>2, <2>1 DEF MInv, TypeInv, Shape
  <2>3. queues[main.idx] \in Seq(Item) /\ MarkerLast(queues[main.idx])
    BY <2>2 DEF MInv, TypeInv, Shape, STypeOK
  <2>4. Marker \notin Items(queues[main.idx])
    <3>1. PICK n \in Nat : n = Len(queues[main.idx]) /\ DOMAIN queues[main.idx] = 1 .. n
      BY <2>3, LenProperties
    <3> SUFFICES ASSUME NEW k \in 1 .. n, queues[main.idx][k] = Marker PROVE FALSE
      BY <3>1 DEF Items
    <3>2. k = n /\ queues[main.idx] # <<>>
      BY <2>3, <3>1 DEF MarkerLast
    <3> QED
      BY <2>2, <3>1, <3>2 DEF Closed
  <2>5. Marker \in Item /\ Marker \notin Pid
    BY MarkerIsNoPid
  <2> QED
    BY <1>1, <2>1, <2>2, <2>4, <2>5, ApartPut
<1>8. CASE Compare \/ Note \/ ProducedAll \/ Join
  BY <1>3, <1>8 DEF Compare, Note, ProducedAll, Join
<1> QED
  BY <1>5, <1>6, <1>7, <1>8 DEF Main

\* A CPU without a burst moves on.
LEMMA ApartWaits ==
  ASSUME Apart, NEW c \in Cpu, Waiting, UNCHANGED schedProps,
         \A d \in Cpu : d # c => cpu'[d] = cpu[d],
         cpu[c].pc # "run", cpu'[c].pc # "run", cpu'[c].burst \in {cpu[c].burst, None}
  PROVE  Apart'
<1>1. QueueIdx' = QueueIdx /\ Cpu' = Cpu /\ UNCHANGED <<queues, finishedQueue>>
  BY DEF QueueIdx, queuesSize, Cpu, Waiting
<1>2. cpu[c].burst \notin Pid /\ cpu'[c].burst \notin Pid
  BY PidAssumption DEF Apart, None
<1>3. \A x \in Pid : (Runs(x)' <=> Runs(x)) /\ (Queued(x)' <=> Queued(x))
  BY <1>1, <1>2 DEF Runs, Queued
<1>4. \A d \in Cpu : cpu'[d].burst \in Pid <=> cpu'[d].pc = "run"
  BY <1>2 DEF Apart
<1>5. \A x \in Pid : \A d, e \in Cpu : cpu'[d].burst = x /\ cpu'[e].burst = x => d = e
  BY <1>2 DEF Apart
<1> QED
  BY <1>1, <1>3, <1>4, <1>5 DEF Apart

\* A CPU gives its burst away.
LEMMA ApartGives ==
  ASSUME Apart, NEW c \in Cpu, UNCHANGED schedProps, cpu[c].pc = "run",
         \A d \in Cpu : d # c => cpu'[d] = cpu[d],
         cpu'[c].pc = "loop", cpu'[c].burst = None
  PROVE  /\ \A d \in Cpu : cpu'[d].burst \in Pid <=> cpu'[d].pc = "run"
         /\ \A x \in Pid : \A d, e \in Cpu : cpu'[d].burst = x /\ cpu'[e].burst = x => d = e
         /\ \A x \in Pid : Runs(x)' <=> Runs(x) /\ x # cpu[c].burst
<1>1. Cpu' = Cpu
  BY DEF Cpu
<1>2. None \notin Pid
  BY PidAssumption DEF None
<1>3. \A d \in Cpu : d # c /\ cpu[d].burst \in Pid => cpu[d].burst # cpu[c].burst
  BY DEF Apart
<1>4. \A x \in Pid : Runs(x)' <=> Runs(x) /\ x # cpu[c].burst
  <2> SUFFICES ASSUME NEW x \in Pid PROVE Runs(x)' <=> Runs(x) /\ x # cpu[c].burst
    OBVIOUS
  <2>1. Runs(x)' => Runs(x) /\ x # cpu[c].burst
    BY <1>1, <1>2, <1>3 DEF Runs
  <2>2. Runs(x) /\ x # cpu[c].burst => Runs(x)'
    BY <1>1 DEF Runs
  <2> QED
    BY <2>1, <2>2
<1> QED
  BY <1>2, <1>4 DEF Apart

LEMMA ApartCpu ==
  ASSUME NEW c, MInv, Apart, CpuStep(c)
  PROVE  Apart'
<1>1. /\ c \in Cpu /\ UNCHANGED schedProps /\ schedProps \in Props
      /\ queue(c) \in QueueIdx
      /\ QueueIdx' = QueueIdx /\ Cpu' = Cpu
  BY Sizes DEF CpuStep, MInv, TypeInv, QueueIdx, queuesSize, Cpu
<1>2. /\ queues \in [QueueIdx -> Seq(Item)] /\ cpu \in [Cpu -> CpuState]
      /\ finishedQueue \in Seq(Pid)
      /\ \A i \in QueueIdx : MarkerLast(queues[i])
      /\ \A d \in Cpu : cpu[d].pc = "run" => cpu[d].burst \in Pid
  BY DEF MInv, TypeInv, Shape, STypeOK
<1>3. cpu[c] \in CpuState /\ \A d \in Cpu : cpu[d] \in CpuState
  BY <1>1, <1>2
<1>4. CASE Looks(c)
  BY <1>1, <1>4, LookingOn, ApartWaits
<1>5. CASE Take(c)
  <2> PICK q : q = queues[queue(c)]
    OBVIOUS
  <2>1. cpu[c].pc = "wait" /\ q # <<>> /\ q[1] # Marker /\ q \in Seq(Item) /\ MarkerLast(q)
    BY <1>1, <1>2, <1>5 DEF Take, GetsMutex
  <2>2. PICK j \in DOMAIN q : j = Picked(q) /\ q[j] \in Pid
    BY <2>1, PickedBurst DEF MInv
  <2>3. PICK b \in Pid : b = q[j]
    BY <2>2
  <2>4. /\ queues' = [queues EXCEPT ![queue(c)] = Without(q, j)]
        /\ cpu' = [d \in Cpu |->
                     IF d = c THEN [pc |-> "run", burst |-> b, head |-> None]
                     ELSE IF cpu[d].head = b /\ queue(d) = queue(c)
                       THEN [cpu[d] EXCEPT !.head = Stale]
                     ELSE cpu[d]]
        /\ UNCHANGED finishedQueue
    BY <1>5, <2>2, <2>3 DEF Take
  <2>5. OnceIn(Without(q, j)) /\ Items(Without(q, j)) = Items(q) \ {b}
    BY <1>1, <2>1, <2>2, <2>3, WithoutOnce DEF Apart
  <2>6. /\ \A i \in QueueIdx : OnceIn(queues'[i])
        /\ \A i \in QueueIdx :
             Items(queues'[i]) = IF i = queue(c) THEN Items(q) \ {b} ELSE Items(queues[i])
    BY <1>1, <1>2, <2>4, <2>5 DEF Apart
  <2>7. b \in Items(queues[queue(c)]) /\ Queued(b)
    BY <1>1, <2>2, <2>3 DEF Items, Queued
  <2>8. /\ cpu'[c].pc = "run" /\ cpu'[c].burst = b
        /\ \A d \in Cpu : d # c => cpu'[d].pc = cpu[d].pc /\ cpu'[d].burst = cpu[d].burst
    BY <1>1, <1>3, <2>4 DEF CpuState
  <2>9. ~Runs(b) /\ b \notin Items(finishedQueue)
    BY <2>7 DEF Apart
  <2>10. \A d \in Cpu : cpu[d].burst # b
    BY <2>9 DEF Runs, Apart
  <2>11. /\ \A d \in Cpu : cpu'[d].burst \in Pid <=> cpu'[d].pc = "run"
         /\ \A x \in Pid : \A d, e \in Cpu : cpu'[d].burst = x /\ cpu'[e].burst = x => d = e
    BY <2>8, <2>10 DEF Apart
  <2>12. \A x \in Pid : \A i, k \in QueueIdx :
           x \in Items(queues'[i]) /\ x \in Items(queues'[k]) => i = k
    BY <2>6 DEF Apart
  <2>13. \A x \in Pid : Runs(x)' <=> Runs(x) \/ x = b
    BY <1>1, <2>1, <2>8 DEF Runs
  <2>14. \A x \in Pid : Queued(x)' <=> Queued(x) /\ x # b
    <3>1. \A i \in QueueIdx : i # queue(c) => b \notin Items(queues[i])
      BY <1>1, <2>7 DEF Apart
    <3> QED
      BY <1>1, <2>6, <3>1 DEF Queued
  <2> QED
    BY <1>1, <2>4, <2>6, <2>9, <2>11, <2>12, <2>13, <2>14 DEF Apart
<1>6. CASE Requeue(c)
  <2>1. PICK b \in Pid : b = cpu[c].burst
    BY <1>1, <1>2, <1>6 DEF Requeue
  <2>2. /\ cpu[c].pc = "run"
        /\ Put(queue(c), b, burstLength[b])
        /\ cpu' = [cpu EXCEPT ![c].pc = "loop", ![c].burst = None]
        /\ UNCHANGED finishedQueue
    BY <1>6, <2>1 DEF Requeue, Idle
  <2>3. /\ cpu'[c].pc = "loop" /\ cpu'[c].burst = None
        /\ \A d \in Cpu : d # c => cpu'[d] = cpu[d]
    BY <1>1, <1>2, <1>3, <2>2 DEF CpuState
  <2>4. Runs(b) /\ ~Queued(b) /\ b \notin Items(finishedQueue)
    BY <1>1, <2>1, <2>2 DEF Runs, Apart
  <2>5. \A i \in QueueIdx : b \notin Items(queues[i])
    BY <2>4 DEF Queued
  <2>6. /\ \A j \in QueueIdx : OnceIn(queues'[j])
        /\ \A j \in QueueIdx :
             Items(queues'[j]) = IF j = queue(c) THEN Items(queues[queue(c)]) \cup {b}
                                                 ELSE Items(queues[j])
    BY <1>1, <2>1, <2>2, <2>5, PutOnce, MarkerIsNoPid
  <2>7. /\ \A d \in Cpu : cpu'[d].burst \in Pid <=> cpu'[d].pc = "run"
        /\ \A x \in Pid : \A d, e \in Cpu : cpu'[d].burst = x /\ cpu'[e].burst = x => d = e
        /\ \A x \in Pid : Runs(x)' <=> Runs(x) /\ x # b
    BY <1>1, <2>1, <2>2, <2>3, ApartGives
  <2>8. \A x \in Pid : Queued(x)' <=> Queued(x) \/ x = b
    BY <1>1, <2>6 DEF Queued
  <2>9. \A x \in Pid : \A i, k \in QueueIdx :
          x \in Items(queues'[i]) /\ x \in Items(queues'[k]) => i = k
    BY <2>5, <2>6 DEF Apart
  <2> QED
    BY <1>1, <2>2, <2>4, <2>6, <2>7, <2>8, <2>9 DEF Apart
<1>7. CASE Finish(c)
  <2>1. PICK b \in Pid : b = cpu[c].burst
    BY <1>1, <1>2, <1>7 DEF Finish
  <2>2. /\ cpu[c].pc = "run"
        /\ finishedQueue' = Enqueued(finishedQueue, b)
        /\ cpu' = [cpu EXCEPT ![c].pc = "loop", ![c].burst = None]
        /\ UNCHANGED queues
    BY <1>7, <2>1 DEF Finish, Idle
  <2>3. /\ cpu'[c].pc = "loop" /\ cpu'[c].burst = None
        /\ \A d \in Cpu : d # c => cpu'[d] = cpu[d]
    BY <1>1, <1>2, <1>3, <2>2 DEF CpuState
  <2>4. Runs(b) /\ ~Queued(b) /\ b \notin Items(finishedQueue)
    BY <1>1, <2>1, <2>2 DEF Runs, Apart
  <2>5. Items(finishedQueue') = Items(finishedQueue) \cup {b} /\ OnceIn(finishedQueue')
    <3>1. finishedQueue \in Seq(Item) /\ b \in Item
      BY <1>2, MarkerIsNoPid, SeqMonotonic
    <3> QED
      BY <2>2, <2>4, <3>1, EnqueuedItems, EnqueuedOnce DEF Apart
  <2>6. /\ \A d \in Cpu : cpu'[d].burst \in Pid <=> cpu'[d].pc = "run"
        /\ \A x \in Pid : \A d, e \in Cpu : cpu'[d].burst = x /\ cpu'[e].burst = x => d = e
        /\ \A x \in Pid : Runs(x)' <=> Runs(x) /\ x # b
    BY <1>1, <2>1, <2>2, <2>3, ApartGives
  <2>7. \A x \in Pid : Queued(x)' <=> Queued(x)
    BY <1>1, <2>2 DEF Queued
  <2>8. /\ \A i \in QueueIdx : OnceIn(queues'[i])
        /\ \A x \in Pid : \A i, j \in QueueIdx :
             x \in Items(queues'[i]) /\ x \in Items(queues'[j]) => i = j
    BY <2>2 DEF Apart
  <2>9. ASSUME NEW x \in Pid
        PROVE  /\ Runs(x)' => x \notin Items(finishedQueue')
               /\ Queued(x)' => ~Runs(x)' /\ x \notin Items(finishedQueue')
    BY <2>4, <2>5, <2>6, <2>7 DEF Apart
  <2> QED
    BY <1>1, <2>5, <2>6, <2>8, <2>9 DEF Apart
<1> QED
  BY <1>4, <1>5, <1>6, <1>7 DEF CpuStep, Looks

LEMMA ApartStep == MInv /\ DoneInv /\ Apart /\ [SNext]_svars => Apart'
<1> SUFFICES ASSUME MInv, DoneInv, Apart, [SNext]_svars PROVE Apart'
  OBVIOUS
<1>1. CASE Main
  BY <1>1, ApartMain
<1>2. ASSUME NEW c \in Cpu, CpuStep(c) PROVE Apart'
  BY <1>2, ApartCpu
<1>3. CASE UNCHANGED svars
  BY <1>3 DEF svars, Apart, Runs, Queued, Cpu, QueueIdx, queuesSize
<1> QED
  BY <1>1, <1>2, <1>3 DEF SNext, Ended

LEMMA PlaceOf ==
  ASSUME NEW b, NEW p
  PROVE  p \in Places(b) <=>
           \/ \E i \in QueueIdx : \E k \in DOMAIN queues[i] :
                queues[i][k] = b /\ p = <<"queue", i, k>>
           \/ \E c \in Cpu : cpu[c].burst = b /\ p = <<"cpu", c>>
           \/ \E k \in DOMAIN finishedQueue : finishedQueue[k] = b /\ p = <<"finished", k>>
BY DEF Places

LEMMA OneAtMost ==
  ASSUME Apart, NEW b \in Pid, NEW p \in Places(b), NEW r \in Places(b)
  PROVE  p = r
<1> DEFINE InQueue(x)  == \E i \in QueueIdx : \E k \in DOMAIN queues[i] :
                            queues[i][k] = b /\ x = <<"queue", i, k>>
           OnCpu(x)    == \E c \in Cpu : cpu[c].burst = b /\ x = <<"cpu", c>>
           Is_Done(x)  == \E k \in DOMAIN finishedQueue :
                            finishedQueue[k] = b /\ x = <<"finished", k>>
<1>1. ASSUME NEW x \in Places(b) PROVE InQueue(x) \/ OnCpu(x) \/ Is_Done(x)
  BY PlaceOf
<1>2. \A x : InQueue(x) => Queued(b)
  BY DEF Queued, Items
<1>3. \A x : OnCpu(x) => Runs(b)
  BY DEF Runs, Apart
<1>4. \A x : Is_Done(x) => b \in Items(finishedQueue)
  BY DEF Items
<1>5. /\ Runs(b) => b \notin Items(finishedQueue)
      /\ Queued(b) => ~Runs(b) /\ b \notin Items(finishedQueue)
  BY DEF Apart
<1>6. CASE InQueue(p) /\ InQueue(r)
  <2>i. PICK i \in QueueIdx :
          \E k \in DOMAIN queues[i] : queues[i][k] = b /\ p = <<"queue", i, k>>
    BY <1>6
  <2>1. PICK k \in DOMAIN queues[i] : queues[i][k] = b /\ p = <<"queue", i, k>>
    BY <2>i
  <2>j. PICK j \in QueueIdx :
          \E l \in DOMAIN queues[j] : queues[j][l] = b /\ r = <<"queue", j, l>>
    BY <1>6
  <2>2. PICK l \in DOMAIN queues[j] : queues[j][l] = b /\ r = <<"queue", j, l>>
    BY <2>j
  <2>3. b \in Items(queues[i]) /\ b \in Items(queues[j])
    BY <2>1, <2>2 DEF Items
  <2>4. i = j
    BY <2>3 DEF Apart
  <2>5. k = l
    BY <2>1, <2>2, <2>4 DEF Apart, OnceIn
  <2> QED
    BY <2>1, <2>2, <2>4, <2>5
<1>7. CASE OnCpu(p) /\ OnCpu(r)
  BY <1>7 DEF Apart
<1>8. CASE Is_Done(p) /\ Is_Done(r)
  BY <1>8 DEF Apart, OnceIn
<1> HIDE DEF InQueue, OnCpu, Is_Done
<1> QED
  BY <1>1, <1>2, <1>3, <1>4, <1>5, <1>6, <1>7, <1>8

LEMMA ApartAlways == Steps => [](MInv /\ DoneInv /\ Apart)
BY MInvAlways, DoneAlways, ApartInit, ApartStep, PTL DEF Steps

LEMMA OnePlaceMeans == MInv /\ DoneInv /\ Apart => OnePlace
<1>1. ASSUME MInv, DoneInv, Apart, NEW b \in Pid
      PROVE  Cardinality(Places(b)) = IF b < main.nextPid THEN 1 ELSE 0
  <2>1. b \in Given <=> b < main.nextPid
    <3>1. main.nextPid \in Int /\ b \in Nat \ {0}
      BY <1>1, PidAssumption DEF MInv, TypeInv, STypeOK
    <3> QED
      BY <3>1 DEF Given
  <2>2. There(b) <=> \E p : p \in Places(b)
    <3>1. There(b) => \E p : p \in Places(b)
      BY PlaceOf DEF There, Runs, Queued, Items
    <3>2. ASSUME NEW p \in Places(b) PROVE There(b)
      BY <1>1, PlaceOf DEF There, Runs, Queued, Items, Apart
    <3> QED
      BY <3>1, <3>2
  <2>3. CASE b \in Given
    <3>1. PICK p : p \in Places(b)
      BY <1>1, <2>2, <2>3 DEF DoneInv
    <3>2. Places(b) = {p}
      BY <1>1, <3>1, OneAtMost
    <3> QED
      BY <2>1, <2>3, <3>2, FS_Singleton
  <2>4. CASE b \notin Given
    <3>1. Places(b) = {}
      BY <1>1, <2>2, <2>4 DEF DoneInv
    <3> QED
      BY <2>1, <2>4, <3>1, FS_EmptySet
  <2> QED
    BY <2>3, <2>4
<1> QED
  BY <1>1 DEF OnePlace

\* From its production on a burst is in exactly one place, once: no CPU loses it or
\* takes it from under another, however many share a queue.
THEOREM EachInOnePlace == SSpec => []OnePlace
BY SpecSteps, OnePlaceMeans, ApartAlways, PTL

-------------------------------------------------------------------------------
(* The simulation keeps what BurstPool promises each burst *)

\* The place of a burst can be read off the one queue, CPU or list that has it.
PlaceRead ==
  \A b \in Pid :
    /\ b \in Items(finishedQueue) => place[b] = <<"finished">>
    /\ \A c \in Cpu : cpu[c].burst = b => place[b] = <<"cpu", c>>
    /\ Queued(b) => place[b] = <<"ready">>
    /\ ~There(b) => place[b] = <<"new">>

LEMMA PlaceReads == Apart => PlaceRead
<1> SUFFICES ASSUME Apart, NEW b \in Pid
             PROVE  /\ b \in Items(finishedQueue) => place[b] = <<"finished">>
                    /\ \A c \in Cpu : cpu[c].burst = b => place[b] = <<"cpu", c>>
                    /\ Queued(b) => place[b] = <<"ready">>
                    /\ ~There(b) => place[b] = <<"new">>
  BY DEF PlaceRead
<1>1. place[b] = IF b \in Items(finishedQueue) THEN <<"finished">>
                 ELSE IF \E c \in Cpu : cpu[c].burst = b
                   THEN <<"cpu", CHOOSE c \in Cpu : cpu[c].burst = b>>
                 ELSE IF \E i \in QueueIdx : b \in Items(queues[i]) THEN <<"ready">>
                 ELSE <<"new">>
  BY DEF place
<1>2. (\E c \in Cpu : cpu[c].burst = b) <=> Runs(b)
  BY DEF Runs, Apart
<1>3. ASSUME NEW c \in Cpu, cpu[c].burst = b PROVE place[b] = <<"cpu", c>>
  <2>1. (CHOOSE d \in Cpu : cpu[d].burst = b) = c
    BY <1>3 DEF Apart
  <2>2. b \notin Items(finishedQueue)
    BY <1>2, <1>3 DEF Apart
  <2> QED
    BY <1>1, <1>3, <2>1, <2>2
<1>4. Queued(b) <=> \E i \in QueueIdx : b \in Items(queues[i])
  BY DEF Queued
<1>5. Queued(b) => ~Runs(b) /\ b \notin Items(finishedQueue)
  BY DEF Apart
<1>6. There(b) <=> b \in Items(finishedQueue) \/ Runs(b) \/ Queued(b)
  BY DEF There
<1> QED
  BY <1>1, <1>2, <1>3, <1>4, <1>5, <1>6

\* Where nothing has moved, nothing changes.
LEMMA PlaceKept ==
  ASSUME Apart, Apart', UNCHANGED schedProps, NEW b \in Pid,
         b \in Items(finishedQueue') <=> b \in Items(finishedQueue),
         Queued(b)' <=> Queued(b),
         \A c \in Cpu : cpu'[c].burst = b <=> cpu[c].burst = b
  PROVE  place'[b] = place[b]
<1>1. PlaceRead /\ PlaceRead'
  BY PlaceReads, PTL
<1>2. Cpu' = Cpu
  BY DEF Cpu
<1>3. /\ b \in Items(finishedQueue) => place[b] = <<"finished">>
      /\ \A c \in Cpu : cpu[c].burst = b => place[b] = <<"cpu", c>>
      /\ Queued(b) => place[b] = <<"ready">>
      /\ ~There(b) => place[b] = <<"new">>
  BY <1>1 DEF PlaceRead
<1>4. /\ b \in Items(finishedQueue') => place'[b] = <<"finished">>
      /\ \A c \in Cpu : cpu'[c].burst = b => place'[b] = <<"cpu", c>>
      /\ Queued(b)' => place'[b] = <<"ready">>
      /\ ~There(b)' => place'[b] = <<"new">>
  BY <1>1, <1>2 DEF PlaceRead
<1>5. /\ (There(b) <=> b \in Items(finishedQueue) \/ (\E c \in Cpu : cpu[c].burst = b) \/ Queued(b))
      /\ (There(b)' <=> b \in Items(finishedQueue') \/ (\E c \in Cpu : cpu'[c].burst = b) \/ Queued(b)')
  BY <1>2 DEF There, Runs, Apart
<1> QED
  BY <1>3, <1>4, <1>5

LEMMA OneMoves ==
  ASSUME NEW b \in Pid, NEW p, place'[b] = p,
         \A x \in Pid : x # b => place'[x] = place[x]
  PROVE  place' = [place EXCEPT ![b] = p]
<1>1. place = [x \in Pid |-> place[x]] /\ place' = [x \in Pid |-> place'[x]]
  BY DEF place
<1> HIDE DEF place
<1> QED
  BY <1>1

LEMMA PoolInit == SInit => Pool!PInit
<1> SUFFICES ASSUME SInit PROVE Pool!PInit
  OBVIOUS
<1>1. Apart /\ DoneInv
  BY ApartInit, DoneInit
<1>2. \A b \in Pid : ~There(b)
  <2>1. Given = {}
    BY DEF SInit, Given
  <2> QED
    BY <1>1, <2>1 DEF DoneInv
<1>3. \A b \in Pid : place[b] = <<"new">>
  BY <1>1, <1>2, PlaceReads DEF PlaceRead
<1>4. place = [x \in Pid |-> place[x]]
  BY DEF place
<1> HIDE DEF place
<1> QED
  BY <1>3, <1>4 DEF Pool!PInit, Pool!New

\* A burst moves, and no other.
LEMMA PoolMoves ==
  ASSUME NEW b \in Pid, \A x \in Pid : x # b => place'[x] = place[x],
         \/ place[b] = <<"new">> /\ place'[b] = <<"ready">>
         \/ place[b] = <<"ready">> /\ \E c \in Cpus : /\ place'[b] = <<"cpu", c>>
                                                      /\ \A x \in Pid : place[x] # <<"cpu", c>>
         \/ (\E c \in Cpus : place[b] = <<"cpu", c>>) /\ place'[b] \in {<<"ready">>, <<"finished">>}
  PROVE  Pool!PNext
<1>1. place' = [place EXCEPT ![b] = place'[b]]
  BY OneMoves
<1> HIDE DEF place
<1>2. CASE place[b] = <<"new">> /\ place'[b] = <<"ready">>
  <2>1. Pool!Move(b, {Pool!New}, {Pool!Ready})
    BY <1>1, <1>2 DEF Pool!Move, Pool!New, Pool!Ready
  <2> QED
    BY <2>1 DEF Pool!PNext
<1>3. ASSUME place[b] = <<"ready">>, NEW c \in Cpus, place'[b] = <<"cpu", c>>,
             \A x \in Pid : place[x] # <<"cpu", c>>
      PROVE  Pool!PNext
  <2>1. <<"cpu", c>> \in {d \in {<<"cpu", e>> : e \in Cpus} : \A other \in Pid : place[other] # d}
    BY <1>3
  <2>2. Pool!Move(b, {Pool!Ready}, {d \in {<<"cpu", e>> : e \in Cpus} :
                                      \A other \in Pid : place[other] # d})
    BY <1>1, <1>3, <2>1 DEF Pool!Move, Pool!Ready
  <2> QED
    BY <2>2 DEF Pool!PNext
<1>4. CASE (\E c \in Cpus : place[b] = <<"cpu", c>>) /\ place'[b] \in {<<"ready">>, <<"finished">>}
  <2>1. Pool!Move(b, {<<"cpu", e>> : e \in Cpus}, {Pool!Ready, Pool!Finished})
    BY <1>1, <1>4 DEF Pool!Move, Pool!Ready, Pool!Finished
  <2> QED
    BY <2>1 DEF Pool!PNext
<1> QED
  BY <1>2, <1>3, <1>4

LEMMA PoolMain ==
  ASSUME MInv, DoneInv, Apart, Apart', Main
  PROVE  Pool!PNext \/ UNCHANGED place
<1>1. /\ schedProps \in Props /\ UNCHANGED <<schedProps, cpu, finishedQueue>>
      /\ main \in MainState /\ QueueIdx' = QueueIdx
  BY DEF MInv, TypeInv, STypeOK, Main, Produce, Compare, Note, PutShortest, ProducedAll, Close, Join,
         MainState, QueueIdx, queuesSize
<1>2. /\ queuesSize \in Nat \ {0} /\ QueueIdx = 0 .. queuesSize-1
      /\ 0 \in QueueIdx /\ \A n \in 1 .. schedProps.PC : n \in Pid
  BY <1>1, Sizes
<1>3. ASSUME \A x \in Pid : Queued(x)' <=> Queued(x) PROVE UNCHANGED place
  <2>1. \A x \in Pid : place'[x] = place[x]
    BY <1>1, <1>3, PlaceKept
  <2>2. place = [x \in Pid |-> place[x]] /\ place' = [x \in Pid |-> place'[x]]
    BY DEF place
  <2> HIDE DEF place
  <2> QED
    BY <2>1, <2>2
<1>4. ASSUME NEW i \in QueueIdx, NEW l, Put(i, main.nextPid, l), main.nextPid \in Pid
      PROVE  Pool!PNext
  <2>1. main.nextPid \in Item
    BY <1>4, MarkerIsNoPid
  <2>2. main.nextPid \in Nat
    BY <1>4, PidAssumption
  <2>3. ~There(main.nextPid)
    BY <1>4, <2>2 DEF DoneInv, Given
  <2>4. \A x : Queued(x)' <=> Queued(x) \/ x = main.nextPid
    BY <1>1, <1>4, <2>1, PutItems
  <2>5. \A x \in Pid : x # main.nextPid => place'[x] = place[x]
    BY <1>1, <2>4, PlaceKept
  <2>6. PlaceRead /\ PlaceRead'
    BY PlaceReads, PTL
  <2>7. place[main.nextPid] = <<"new">>
    BY <1>4, <2>3, <2>6 DEF PlaceRead
  <2>8. place'[main.nextPid] = <<"ready">>
    <3>1. \A x \in Pid : Queued(x)' => place'[x] = <<"ready">>
      BY <2>6 DEF PlaceRead
    <3> QED
      BY <1>4, <2>4, <3>1
  <2> QED
    BY <1>4, <2>5, <2>7, <2>8, PoolMoves
<1>5. CASE UNCHANGED queues
  <2>1. \A x \in Pid : Queued(x)' <=> Queued(x)
    BY <1>1, <1>5 DEF Queued
  <2> QED
    BY <1>3, <2>1
<1>6. CASE Produce
  <2>1. main.pc = "produce" /\ main.nextPid \in 1 .. schedProps.PC
    BY <1>1, <1>6 DEF Produce, MainState
  <2>2. main.nextPid \in Pid /\ main.idx \in QueueIdx
    BY <1>2, <2>1 DEF MInv, TypeInv
  <2>3. CASE schedProps.qs = "LM"
    BY <1>5, <1>6, <2>3 DEF Produce
  <2>4. CASE schedProps.qs # "LM"
    <3>1. PICK i \in QueueIdx : i = IF schedProps.qs = "RM" THEN main.idx ELSE 0
      BY <1>2, <2>2
    <3>2. \E l \in Lengths : Put(i, main.nextPid, l)
      BY <1>6, <2>4, <3>1 DEF Produce
    <3> QED
      BY <1>4, <2>2, <3>2
  <2> QED
    BY <2>3, <2>4
<1>7. CASE PutShortest
  <2>1. main.pc = "scan" /\ Put(main.shortest, main.nextPid, burstLength[main.nextPid])
    BY <1>7 DEF PutShortest
  <2>2. main.nextPid \in 1 .. schedProps.PC /\ main.shortest \in QueueIdx
    BY <1>1, <2>1 DEF MInv, TypeInv, MainState
  <2> QED
    BY <1>2, <1>4, <2>1, <2>2
<1>8. CASE Close
  <2>1. main.pc = "close" /\ Put(main.idx, Marker, 0)
    BY <1>8 DEF Close
  <2>2. main.idx \in QueueIdx /\ ~Closed(queues[main.idx])
    BY <1>2, <2>1 DEF MInv, TypeInv, Shape
  <2>3. \A x \in Pid : Queued(x)' <=> Queued(x)
    BY <1>1, <2>1, <2>2, PutItems, MarkerIsNoPid
  <2> QED
    BY <1>3, <2>3
<1>9. CASE Compare \/ Note \/ ProducedAll \/ Join
  BY <1>5, <1>9 DEF Compare, Note, ProducedAll, Join
<1> QED
  BY <1>6, <1>7, <1>8, <1>9 DEF Main

LEMMA PoolCpu ==
  ASSUME NEW c, MInv, Apart, Apart', CpuStep(c)
  PROVE  Pool!PNext \/ UNCHANGED place
<1>1. /\ c \in Cpu /\ UNCHANGED schedProps /\ schedProps \in Props
      /\ queue(c) \in QueueIdx
      /\ QueueIdx' = QueueIdx /\ Cpu' = Cpu /\ Cpu \subseteq Cpus
  BY Sizes DEF CpuStep, MInv, TypeInv, QueueIdx, queuesSize, Cpu, Cpus
<1>2. /\ queues \in [QueueIdx -> Seq(Item)] /\ cpu \in [Cpu -> CpuState]
      /\ finishedQueue \in Seq(Pid)
      /\ \A i \in QueueIdx : MarkerLast(queues[i])
      /\ \A d \in Cpu : cpu[d].pc = "run" => cpu[d].burst \in Pid
  BY DEF MInv, TypeInv, Shape, STypeOK
<1>3. cpu[c] \in CpuState /\ \A d \in Cpu : cpu[d] \in CpuState
  BY <1>1, <1>2
<1>4. PlaceRead /\ PlaceRead'
  BY PlaceReads, PTL
<1>5. \A d \in Cpu : cpu[d].burst \in Pid <=> cpu[d].pc = "run"
  BY DEF Apart
<1>6. \A d \in Cpu : cpu'[d].burst \in Pid <=> cpu'[d].pc = "run"
  BY <1>1 DEF Apart
<1>7. CASE Looks(c)
  <2>1. /\ Waiting /\ cpu[c].pc # "run" /\ cpu'[c].pc # "run"
        /\ \A d \in Cpu : d # c => cpu'[d] = cpu[d]
    BY <1>1, <1>7, LookingOn
  <2>2. \A x \in Pid : \A d \in Cpu : cpu'[d].burst = x <=> cpu[d].burst = x
    BY <1>1, <1>5, <1>6, <2>1
  <2>3. UNCHANGED finishedQueue /\ \A x \in Pid : Queued(x)' <=> Queued(x)
    BY <1>1, <2>1 DEF Queued, Waiting
  <2>4. \A x \in Pid : place'[x] = place[x]
    BY <1>1, <2>2, <2>3, PlaceKept
  <2>5. place = [x \in Pid |-> place[x]] /\ place' = [x \in Pid |-> place'[x]]
    BY DEF place
  <2> HIDE DEF place
  <2> QED
    BY <2>4, <2>5
<1>8. CASE Take(c)
  <2> PICK q : q = queues[queue(c)]
    OBVIOUS
  <2>1. cpu[c].pc = "wait" /\ q # <<>> /\ q[1] # Marker /\ q \in Seq(Item) /\ MarkerLast(q)
    BY <1>1, <1>2, <1>8 DEF Take, GetsMutex
  <2>2. PICK j \in DOMAIN q : j = Picked(q) /\ q[j] \in Pid
    BY <2>1, PickedBurst DEF MInv
  <2>3. PICK b \in Pid : b = q[j]
    BY <2>2
  <2>4. /\ queues' = [queues EXCEPT ![queue(c)] = Without(q, j)]
        /\ cpu' = [d \in Cpu |->
                     IF d = c THEN [pc |-> "run", burst |-> b, head |-> None]
                     ELSE IF cpu[d].head = b /\ queue(d) = queue(c)
                       THEN [cpu[d] EXCEPT !.head = Stale]
                     ELSE cpu[d]]
        /\ UNCHANGED finishedQueue
    BY <1>8, <2>2, <2>3 DEF Take
  <2>5. Items(Without(q, j)) = Items(q) \ {b}
    BY <1>1, <2>1, <2>2, <2>3, WithoutOnce DEF Apart
  <2>6. \A i \in QueueIdx :
          Items(queues'[i]) = IF i = queue(c) THEN Items(q) \ {b} ELSE Items(queues[i])
    BY <1>1, <1>2, <2>4, <2>5
  <2>7. Queued(b)
    BY <1>1, <2>2, <2>3 DEF Items, Queued
  <2>8. /\ cpu'[c].burst = b
        /\ \A d \in Cpu : d # c => cpu'[d].burst = cpu[d].burst
    BY <1>1, <1>3, <2>4 DEF CpuState
  <2>9. \A x \in Pid : x # b => (Queued(x)' <=> Queued(x))
    BY <1>1, <2>6 DEF Queued
  <2>10. \A x \in Pid : x # b => \A d \in Cpu : cpu'[d].burst = x <=> cpu[d].burst = x
    BY <1>1, <1>5, <2>1, <2>8
  <2>11. \A x \in Pid : x # b => place'[x] = place[x]
    BY <1>1, <2>4, <2>9, <2>10, PlaceKept
  <2>12. place[b] = <<"ready">> /\ place'[b] = <<"cpu", c>>
    BY <1>1, <1>4, <2>7, <2>8 DEF PlaceRead
  <2>13. \A x \in Pid : place[x] # <<"cpu", c>>
    <3> SUFFICES ASSUME NEW x \in Pid PROVE place[x] # <<"cpu", c>>
      OBVIOUS
    <3>1. cpu[c].burst # x
      BY <1>1, <1>5, <2>1
    <3>2. \/ place[x] \in {<<"finished">>, <<"ready">>, <<"new">>}
          \/ \E d \in Cpu : cpu[d].burst = x /\ place[x] = <<"cpu", d>>
      BY <1>4 DEF PlaceRead, There, Runs
    <3> QED
      BY <3>1, <3>2
  <2> QED
    BY <1>1, <2>11, <2>12, <2>13, PoolMoves
<1>9. CASE Requeue(c)
  <2>1. PICK b \in Pid : b = cpu[c].burst
    BY <1>1, <1>2, <1>9 DEF Requeue
  <2>2. /\ cpu[c].pc = "run"
        /\ Put(queue(c), b, burstLength[b])
        /\ cpu' = [cpu EXCEPT ![c].pc = "loop", ![c].burst = None]
        /\ UNCHANGED finishedQueue
    BY <1>9, <2>1 DEF Requeue, Idle
  <2>3. /\ cpu'[c].pc = "loop"
        /\ \A d \in Cpu : d # c => cpu'[d] = cpu[d]
    BY <1>1, <1>2, <1>3, <2>2 DEF CpuState
  <2>4. \A x : Queued(x)' <=> Queued(x) \/ x = b
    BY <1>1, <2>1, <2>2, PutItems, MarkerIsNoPid
  <2>5. \A x \in Pid : x # b => \A d \in Cpu : cpu'[d].burst = x <=> cpu[d].burst = x
    BY <1>1, <1>6, <2>1, <2>3
  <2>6. \A x \in Pid : x # b => place'[x] = place[x]
    BY <1>1, <2>2, <2>4, <2>5, PlaceKept
  <2>7. place[b] = <<"cpu", c>>
    BY <1>1, <1>4, <2>1 DEF PlaceRead
  <2>8. place'[b] = <<"ready">>
    <3>1. \A x \in Pid : Queued(x)' => place'[x] = <<"ready">>
      BY <1>4 DEF PlaceRead
    <3> QED
      BY <2>4, <3>1
  <2> QED
    BY <1>1, <2>6, <2>7, <2>8, PoolMoves
<1>10. CASE Finish(c)
  <2>1. PICK b \in Pid : b = cpu[c].burst
    BY <1>1, <1>2, <1>10 DEF Finish
  <2>2. /\ cpu[c].pc = "run"
        /\ finishedQueue' = Enqueued(finishedQueue, b)
        /\ cpu' = [cpu EXCEPT ![c].pc = "loop", ![c].burst = None]
        /\ UNCHANGED queues
    BY <1>10, <2>1 DEF Finish, Idle
  <2>3. /\ cpu'[c].pc = "loop"
        /\ \A d \in Cpu : d # c => cpu'[d] = cpu[d]
    BY <1>1, <1>2, <1>3, <2>2 DEF CpuState
  <2>4. Items(finishedQueue') = Items(finishedQueue) \cup {b}
    <3>1. finishedQueue \in Seq(Item) /\ b \in Item
      BY <1>2, MarkerIsNoPid, SeqMonotonic
    <3> QED
      BY <2>2, <3>1, EnqueuedItems
  <2>5. \A x \in Pid : Queued(x)' <=> Queued(x)
    BY <1>1, <2>2 DEF Queued
  <2>6. \A x \in Pid : x # b => \A d \in Cpu : cpu'[d].burst = x <=> cpu[d].burst = x
    BY <1>1, <1>6, <2>1, <2>3
  <2>7. \A x \in Pid : x # b => place'[x] = place[x]
    BY <1>1, <2>4, <2>5, <2>6, PlaceKept
  <2>8. place[b] = <<"cpu", c>>
    BY <1>1, <1>4, <2>1 DEF PlaceRead
  <2>9. place'[b] = <<"finished">>
    <3>1. \A x \in Pid : x \in Items(finishedQueue') => place'[x] = <<"finished">>
      BY <1>4 DEF PlaceRead
    <3> QED
      BY <2>4, <3>1
  <2> QED
    BY <1>1, <2>7, <2>8, <2>9, PoolMoves
<1> QED
  BY <1>7, <1>8, <1>9, <1>10 DEF CpuStep, Looks

LEMMA PoolStep ==
  MInv /\ DoneInv /\ Apart /\ Apart' /\ [SNext]_svars => [Pool!PNext]_place
<1> SUFFICES ASSUME MInv, DoneInv, Apart, Apart', [SNext]_svars
             PROVE  Pool!PNext \/ UNCHANGED place
  OBVIOUS
<1>1. CASE Main
  BY <1>1, PoolMain
<1>2. ASSUME NEW c \in Cpu, CpuStep(c) PROVE Pool!PNext \/ UNCHANGED place
  BY <1>2, PoolCpu
<1>3. CASE UNCHANGED svars
  BY <1>3 DEF svars, place, Cpu, QueueIdx, queuesSize
<1> QED
  BY <1>1, <1>2, <1>3 DEF SNext, Ended

\* Every burst becomes ready, runs on one CPU at a time, perhaps in several turns, and
\* finishes once: what the simulation does to bursts is what BurstPool allows.
THEOREM ImplementsPool == SSpec => ImplementsBurstPool
<1>1. SSpec => Steps
  BY SpecSteps
<1>2. Steps => Pool!PInit /\ [][Pool!PNext]_place
  BY ApartAlways, PoolInit, PoolStep, PTL DEF Steps
<1> QED
  BY <1>1, <1>2, PTL DEF ImplementsBurstPool, Pool!PSpec

-------------------------------------------------------------------------------
(* What a queueLoad sums *)

\* The recursive definition of LoadOf has a solution: the running totals.
LEMMA LoadDefined ==
  ASSUME NEW i \in QueueIdx, queues[i] \in Seq(Item), burstLength \in [Pid -> Nat]
  PROVE  SumsTo(queues[i], burstLength, LoadOf(i))
<1> PICK q : q = queues[i]
  OBVIOUS
<1>n. PICK n \in Nat : n = Len(q) /\ \A k \in 1 .. n : q[k] \in Item
  BY LenProperties, ElementOfSeq
<1>w. \A k \in 1 .. n : Weight(burstLength, q[k]) \in Int
  BY <1>n, WeightType
<1> DEFINE W(k) == IF q[k] = Marker THEN 0 ELSE burstLength[q[k]]
<1>v. \A k \in 1 .. n : W(k) \in Int /\ W(k) = Weight(burstLength, q[k])
  BY <1>w DEF Weight
<1> HIDE DEF W
<1> DEFINE Upto(m, s) ==
             /\ s \in [0 .. m -> Int]
             /\ s = [k \in 0 .. m |-> IF k = 0 THEN 0 ELSE s[k-1] + W(k)]
           Ok == {m \in 0 .. n : \E s : Upto(m, s)}
<1>1. 0 \in Ok
  <2>1. Upto(0, [k \in 0 .. 0 |-> 0])
    OBVIOUS
  <2> HIDE DEF Upto
  <2> QED
    BY <2>1, <1>n
<1>2. ASSUME NEW m \in 0 .. n, m < n, m \in Ok
      PROVE  m+1 \in Ok
  <2>1. PICK s : Upto(m, s)
    BY <1>2
  <2> DEFINE t == [k \in 0 .. m+1 |-> IF k = m+1 THEN s[m] + W(m+1) ELSE s[k]]
  <2>2. s[m] + W(m+1) \in Int
    BY <2>1, <1>2, <1>v
  <2>3. t \in [0 .. m+1 -> Int]
    BY <2>1, <2>2
  <2>4. \A k \in 0 .. m+1 : t[k] = IF k = 0 THEN 0 ELSE t[k-1] + W(k)
    <3> SUFFICES ASSUME NEW k \in 0 .. m+1
                 PROVE  t[k] = IF k = 0 THEN 0 ELSE t[k-1] + W(k)
      OBVIOUS
    <3>1. CASE k = m+1
      BY <3>1
    <3>2. CASE k # m+1
      <4>1. k \in 0 .. m
        BY <3>2
      <4>2. s[k] = IF k = 0 THEN 0 ELSE s[k-1] + W(k)
        BY <2>1, <4>1
      <4> QED
        BY <3>2, <4>1, <4>2
    <3> QED
      BY <3>1, <3>2
  <2>5. Upto(m+1, t)
    BY <2>3, <2>4
  <2> HIDE DEF Upto, t
  <2>6. m+1 \in 0 .. n
    BY <1>2
  <2> QED
    BY <2>5, <2>6
<1>3. n \in Ok
  <2> HIDE DEF Ok
  <2>1. \A m \in 0 .. n : m < n /\ m \in Ok => m+1 \in Ok
    BY <1>2
  <2>2. \A m \in 0 .. n : m \in Ok
    BY <1>1, <2>1, CountUp
  <2> QED
    BY <2>2
<1> DEFINE Sum(s) == s = [k \in 0 .. n |-> IF k = 0 THEN 0 ELSE s[k-1] + W(k)]
           total == CHOOSE s : Sum(s)
<1>4. PICK w : Upto(n, w)
  BY <1>3
<1>5. Sum(total)
  BY <1>4
<1>6. LoadOf(i) = total[n]
  BY <1>n DEF LoadOf, W
<1>7. /\ total \in [0 .. n -> Int] /\ total[0] = 0
      /\ \A k \in 1 .. n : total[k] = total[k-1] + W(k)
  <2> HIDE DEF total
  <2>1. \A k \in 0 .. n : total[k] = IF k = 0 THEN 0 ELSE total[k-1] + W(k)
    BY <1>5
  <2>2. total[0] = 0
    BY <2>1
  <2>3. \A k \in 1 .. n : total[k] = total[k-1] + W(k)
    BY <2>1
  <2> DEFINE Int0 == {k \in 0 .. n : total[k] \in Int}
  <2>4. 0 \in Int0
    BY <2>2
  <2>5. ASSUME NEW k \in 0 .. n, k < n, k \in Int0 PROVE k+1 \in Int0
    <3>1. k+1 \in 1 .. n /\ (k+1)-1 = k /\ k+1 \in 0 .. n
      BY <2>5
    <3>2. total[k+1] = total[k] + W(k+1)
      BY <2>3, <3>1
    <3> QED
      BY <2>5, <3>1, <3>2, <1>v
  <2>6. \A k \in 0 .. n : k \in Int0
    <3> HIDE DEF Int0
    <3> QED
      BY <2>4, <2>5, CountUp
  <2> QED
    BY <1>5, <2>2, <2>3, <2>6
<1> HIDE DEF total
<1>8. Loads(total, q, burstLength)
  BY <1>7, <1>n, <1>v DEF Loads
<1> QED
  BY <1>6, <1>8, <1>n DEF SumsTo

-------------------------------------------------------------------------------
(* A queueLoad is the sum of the lengths in its queue *)

\* A load is that sum and what malloc() left.
SumsOff(q, lengths, load) == \E left \in Garbage : SumsTo(q, lengths, load - left)

LoadsRight == \A i \in QueueIdx : SumsOff(queues[i], burstLength, queueLoad[i])

LEMMA OffSame ==
  ASSUME NEW q \in Seq(Item), NEW length, NEW other, NEW load, SumsOff(q, length, load),
         \A b \in Items(q) : Weight(length, b) = Weight(other, b)
  PROVE  SumsOff(q, other, load)
<1>1. PICK left \in Garbage : SumsTo(q, length, load - left)
  BY DEF SumsOff
<1>2. SumsTo(q, other, load - left)
  BY <1>1, SumsSame
<1> QED
  BY <1>2 DEF SumsOff

LEMMA OffEnqueued ==
  ASSUME NEW length \in [Pid -> Nat], NEW q \in Seq(Item), NEW b \in Item,
         Closed(q) => b \in Pid, NEW load \in Int, SumsOff(q, length, load)
  PROVE  SumsOff(Enqueued(q, b), length, load + Weight(length, b))
<1>1. PICK left \in Garbage : SumsTo(q, length, load - left)
  BY DEF SumsOff
<1>2. left \in Int /\ Weight(length, b) \in Int
  BY SchedulerAssumption, WeightType
<1>3. SumsTo(Enqueued(q, b), length, (load - left) + Weight(length, b))
  BY <1>1, SumsEnqueued
<1>4. PICK w \in Int : w = Weight(length, b)
  BY <1>2
<1>5. (load - left) + w = (load + w) - left
  BY <1>2
<1>6. SumsTo(Enqueued(q, b), length, (load + w) - left)
  BY <1>3, <1>4, <1>5
<1> QED
  BY <1>4, <1>6 DEF SumsOff

LEMMA OffWithout ==
  ASSUME NEW length \in [Pid -> Nat], NEW q \in Seq(Item), NEW j \in DOMAIN q,
         q[j] \in Item, NEW load \in Int, SumsOff(q, length, load)
  PROVE  SumsOff(Without(q, j), length, load - Weight(length, q[j]))
<1>1. PICK left \in Garbage : SumsTo(q, length, load - left)
  BY DEF SumsOff
<1>2. left \in Int /\ Weight(length, q[j]) \in Int
  BY SchedulerAssumption, WeightType
<1>3. SumsTo(Without(q, j), length, (load - left) - Weight(length, q[j]))
  BY <1>1, SumsWithout
<1>4. PICK w \in Int : w = Weight(length, q[j])
  BY <1>2
<1>5. (load - left) - w = (load - w) - left
  BY <1>2
<1>6. SumsTo(Without(q, j), length, (load - w) - left)
  BY <1>3, <1>4, <1>5
<1> QED
  BY <1>4, <1>6 DEF SumsOff

LEMMA LoadInit == SInit => LoadsRight
<1> SUFFICES ASSUME SInit, NEW i \in QueueIdx
             PROVE  SumsOff(queues[i], burstLength, queueLoad[i])
  BY DEF LoadsRight
<1>1. queues[i] = <<>> /\ queueLoad[i] \in Garbage /\ queueLoad[i] \in Int
  BY SchedulerAssumption DEF SInit
<1>2. Loads([k \in 0 .. 0 |-> 0], <<>>, burstLength)
  BY DEF Loads
<1>3. SumsTo(<<>>, burstLength, 0)
  BY <1>2 DEF SumsTo
<1>4. queueLoad[i] - queueLoad[i] = 0
  BY <1>1
<1>5. SumsTo(<<>>, burstLength, queueLoad[i] - queueLoad[i])
  BY <1>3, <1>4
<1> QED
  BY <1>1, <1>5 DEF SumsOff

\* A burst is put into a queue with its length, or a marker with 0.
LEMMA LoadPut ==
  ASSUME MInv, LoadsRight, UNCHANGED schedProps,
         NEW i \in QueueIdx, NEW b \in Item, NEW l, Put(i, b, l),
         Closed(queues[i]) => b \in Pid,
         burstLength' \in [Pid -> Nat], l = Weight(burstLength', b),
         \A j \in QueueIdx : \A x \in Items(queues[j]) :
           Weight(burstLength, x) = Weight(burstLength', x)
  PROVE  LoadsRight'
<1>1. QueueIdx' = QueueIdx
  BY DEF QueueIdx, queuesSize
<1>2. queues \in [QueueIdx -> Seq(Item)] /\ queueLoad \in [QueueIdx -> Int]
  BY DEF MInv, TypeInv, STypeOK
<1>3. \A j \in QueueIdx : /\ queues[j] \in Seq(Item)
                          /\ SumsOff(queues[j], burstLength', queueLoad[j])
  BY <1>2, OffSame DEF LoadsRight
<1>4. SumsOff(Enqueued(queues[i], b), burstLength', queueLoad[i] + l)
  <2>1. queues[i] \in Seq(Item) /\ queueLoad[i] \in Int
    BY <1>2
  <2>2. SumsOff(queues[i], burstLength', queueLoad[i])
    BY <1>3
  <2> QED
    BY <2>1, <2>2, OffEnqueued
<1>5. \A j \in QueueIdx :
        /\ queues'[j] = IF j = i THEN Enqueued(queues[i], b) ELSE queues[j]
        /\ queueLoad'[j] = IF j = i THEN queueLoad[i] + l ELSE queueLoad[j]
  BY <1>2 DEF Put
<1>6. \A j \in QueueIdx : SumsOff(queues'[j], burstLength', queueLoad'[j])
  BY <1>3, <1>4, <1>5
<1> QED
  BY <1>1, <1>6 DEF LoadsRight

LEMMA LoadMain ==
  ASSUME MInv, MInv', DoneInv, LoadsRight, Main
  PROVE  LoadsRight'
<1>1. /\ schedProps \in Props /\ UNCHANGED schedProps
      /\ main \in MainState /\ QueueIdx' = QueueIdx
      /\ queues \in [QueueIdx -> Seq(Item)]
      /\ burstLength \in [Pid -> Nat] /\ burstLength' \in [Pid -> Nat]
  BY DEF MInv, TypeInv, STypeOK, Main, MainState, QueueIdx, queuesSize
<1>2. /\ queuesSize \in Nat \ {0} /\ QueueIdx = 0 .. queuesSize-1
      /\ 0 \in QueueIdx /\ \A n \in 1 .. schedProps.PC : n \in Pid
  BY <1>1, Sizes
<1>3. CASE UNCHANGED <<queues, queueLoad, burstLength>>
  BY <1>1, <1>3 DEF LoadsRight
<1>4. CASE Produce
  <2>1. main.pc = "produce" /\ main.nextPid \in 1 .. schedProps.PC
    BY <1>1, <1>4 DEF Produce, MainState
  <2>2. main.nextPid \in Pid /\ main.idx \in QueueIdx
    BY <1>2, <2>1 DEF MInv, TypeInv
  <2>3. main.nextPid \notin Given
    BY <2>1 DEF Given
  <2>4. \A j \in QueueIdx : main.nextPid \notin Items(queues[j])
    BY <2>2, <2>3 DEF DoneInv, There, Queued
  <2>5. PICK l \in Lengths :
          /\ burstLength' = [burstLength EXCEPT ![main.nextPid] = l]
          /\ IF schedProps.qs = "LM"
               THEN UNCHANGED <<queues, queueLoad>>
               ELSE Put(IF schedProps.qs = "RM" THEN main.idx ELSE 0, main.nextPid, l)
    BY <1>4 DEF Produce
  <2>6. \A j \in QueueIdx : \A x \in Items(queues[j]) :
          Weight(burstLength, x) = Weight(burstLength', x)
    <3> SUFFICES ASSUME NEW j \in QueueIdx, NEW x \in Items(queues[j])
                 PROVE  Weight(burstLength, x) = Weight(burstLength', x)
      OBVIOUS
    <3>1. x # main.nextPid /\ x \in Item
      BY <1>1, <2>4, ElementOfSeq, LenProperties DEF Items
    <3> QED
      BY <1>1, <2>5, <3>1 DEF Weight, Item
  <2>7. CASE schedProps.qs = "LM"
    <3>1. \A j \in QueueIdx : SumsOff(queues[j], burstLength', queueLoad[j])
      BY <1>1, <2>6, OffSame DEF LoadsRight
    <3> QED
      BY <1>1, <2>5, <2>7, <3>1 DEF LoadsRight
  <2>8. CASE schedProps.qs # "LM"
    <3>1. PICK i \in QueueIdx : i = IF schedProps.qs = "RM" THEN main.idx ELSE 0
      BY <1>2, <2>2
    <3>2. Put(i, main.nextPid, l)
      BY <2>5, <2>8, <3>1
    <3>3. l = Weight(burstLength', main.nextPid) /\ main.nextPid \in Item
      BY <1>1, <2>2, <2>5, MarkerIsNoPid DEF Weight
    <3> QED
      BY <1>1, <2>2, <2>6, <3>2, <3>3, LoadPut
  <2> QED
    BY <2>7, <2>8
<1>5. CASE PutShortest
  <2>1. /\ main.pc = "scan" /\ UNCHANGED burstLength
        /\ Put(main.shortest, main.nextPid, burstLength[main.nextPid])
    BY <1>5 DEF PutShortest
  <2>2. main.nextPid \in 1 .. schedProps.PC /\ main.shortest \in QueueIdx
    BY <1>1, <2>1 DEF MInv, TypeInv, MainState
  <2>3. main.nextPid \in Pid /\ main.nextPid \in Item
    BY <1>2, <2>2, MarkerIsNoPid
  <2>4. burstLength[main.nextPid] = Weight(burstLength', main.nextPid)
    BY <2>1, <2>3, MarkerIsNoPid DEF Weight
  <2> QED
    BY <1>1, <2>1, <2>2, <2>3, <2>4, LoadPut
<1>6. CASE Close
  <2>1. main.pc = "close" /\ Put(main.idx, Marker, 0) /\ UNCHANGED burstLength
    BY <1>6 DEF Close
  <2>2. main.idx \in QueueIdx /\ ~Closed(queues[main.idx])
    BY <1>2, <2>1 DEF MInv, TypeInv, Shape
  <2>3. 0 = Weight(burstLength', Marker) /\ Marker \in Item
    BY MarkerIsNoPid DEF Weight
  <2> QED
    BY <1>1, <2>1, <2>2, <2>3, LoadPut
<1>7. CASE Compare \/ Note \/ ProducedAll \/ Join
  BY <1>3, <1>7 DEF Compare, Note, ProducedAll, Join
<1> QED
  BY <1>4, <1>5, <1>6, <1>7 DEF Main

LEMMA LoadCpu ==
  ASSUME NEW c, MInv, LoadsRight, CpuStep(c)
  PROVE  LoadsRight'
<1>1. /\ c \in Cpu /\ UNCHANGED schedProps /\ schedProps \in Props
      /\ queue(c) \in QueueIdx /\ QueueIdx' = QueueIdx
  BY Sizes DEF CpuStep, MInv, TypeInv, QueueIdx, queuesSize
<1>2. /\ queues \in [QueueIdx -> Seq(Item)] /\ queueLoad \in [QueueIdx -> Int]
      /\ burstLength \in [Pid -> Nat]
      /\ \A i \in QueueIdx : MarkerLast(queues[i])
      /\ \A d \in Cpu : cpu[d].pc = "run" => cpu[d].burst \in Pid
  BY DEF MInv, TypeInv, Shape, STypeOK
<1>3. CASE UNCHANGED <<queues, queueLoad, burstLength>>
  BY <1>1, <1>3 DEF LoadsRight
<1>4. CASE Looks(c)
  BY <1>1, <1>3, <1>4, LookingOn DEF Waiting
<1>5. CASE Take(c)
  <2> PICK q : q = queues[queue(c)]
    OBVIOUS
  <2>1. q # <<>> /\ q[1] # Marker /\ q \in Seq(Item) /\ MarkerLast(q)
    BY <1>1, <1>2, <1>5 DEF Take
  <2>2. PICK j \in DOMAIN q : j = Picked(q) /\ q[j] \in Pid
    BY <2>1, PickedBurst DEF MInv
  <2>3. /\ queues' = [queues EXCEPT ![queue(c)] = Without(q, j)]
        /\ queueLoad' = [queueLoad EXCEPT ![queue(c)] = queueLoad[queue(c)] - burstLength[q[j]]]
        /\ UNCHANGED burstLength
    BY <1>5, <2>2 DEF Take
  <2>4. burstLength[q[j]] = Weight(burstLength, q[j])
    BY <2>2, MarkerIsNoPid DEF Weight
  <2>5. SumsOff(Without(q, j), burstLength, queueLoad[queue(c)] - Weight(burstLength, q[j]))
    <3>1. queueLoad[queue(c)] \in Int /\ SumsOff(q, burstLength, queueLoad[queue(c)])
      BY <1>1, <1>2 DEF LoadsRight
    <3>2. q[j] \in Item
      BY <2>2, MarkerIsNoPid
    <3> QED
      BY <1>2, <2>1, <3>1, <3>2, OffWithout
  <2>6. \A i \in QueueIdx :
          /\ queues'[i] = IF i = queue(c) THEN Without(q, j) ELSE queues[i]
          /\ queueLoad'[i] = IF i = queue(c)
                               THEN queueLoad[queue(c)] - Weight(burstLength, q[j])
                               ELSE queueLoad[i]
    BY <1>1, <1>2, <2>3, <2>4
  <2>7. \A i \in QueueIdx : SumsOff(queues'[i], burstLength, queueLoad'[i])
    BY <2>5, <2>6 DEF LoadsRight
  <2> QED
    BY <1>1, <2>3, <2>7 DEF LoadsRight
<1>6. CASE Requeue(c)
  <2>1. PICK b \in Pid : b = cpu[c].burst
    BY <1>1, <1>2, <1>6 DEF Requeue
  <2>2. Put(queue(c), b, burstLength[b]) /\ UNCHANGED burstLength
    BY <1>6, <2>1 DEF Requeue
  <2>3. burstLength[b] = Weight(burstLength', b) /\ b \in Item
    BY <2>2, MarkerIsNoPid DEF Weight
  <2> QED
    BY <1>1, <1>2, <2>2, <2>3, LoadPut
<1>7. CASE Finish(c)
  BY <1>3, <1>7 DEF Finish
<1> QED
  BY <1>4, <1>5, <1>6, <1>7 DEF CpuStep, Looks

LEMMA LoadStep ==
  MInv /\ MInv' /\ DoneInv /\ LoadsRight /\ [SNext]_svars => LoadsRight'
<1> SUFFICES ASSUME MInv, MInv', DoneInv, LoadsRight, [SNext]_svars PROVE LoadsRight'
  OBVIOUS
<1>1. CASE Main
  BY <1>1, LoadMain
<1>2. ASSUME NEW c \in Cpu, CpuStep(c) PROVE LoadsRight'
  BY <1>2, LoadCpu
<1>3. CASE UNCHANGED svars
  BY <1>3 DEF svars, LoadsRight, QueueIdx, queuesSize
<1> QED
  BY <1>1, <1>2, <1>3 DEF SNext, Ended

LEMMA LoadsAlways == Steps => []LoadsRight
BY LoadInit, LoadStep, ApartAlways, PTL DEF Steps

LEMMA LoadOfRight == MInv /\ LoadsRight => LoadIsSum
<1> SUFFICES ASSUME MInv, LoadsRight, NEW i \in QueueIdx
             PROVE  \E left \in Garbage : queueLoad[i] = LoadOf(i) + left
  BY DEF LoadIsSum
<1>1. queues[i] \in Seq(Item) /\ burstLength \in [Pid -> Nat] /\ queueLoad[i] \in Int
  BY DEF MInv, TypeInv, STypeOK
<1>2. SumsTo(queues[i], burstLength, LoadOf(i))
  BY <1>1, LoadDefined
<1>3. PICK left \in Garbage : SumsTo(queues[i], burstLength, queueLoad[i] - left)
  BY DEF LoadsRight, SumsOff
<1>4. LoadOf(i) = queueLoad[i] - left
  BY <1>1, <1>2, <1>3, SumsOnce
<1>5. left \in Int
  BY SchedulerAssumption
<1>6. queueLoad[i] = (queueLoad[i] - left) + left
  BY <1>1, <1>5
<1> QED
  BY <1>4, <1>6

LEMMA LoadIsSumAlways == Steps => []LoadIsSum
BY LoadOfRight, LoadsAlways, ApartAlways, PTL

\* queueLoad never drifts from the sum it stands for, whatever the CPUs take and
\* RR puts back: it stays off by what malloc() left there.
THEOREM LoadsAreSums == SSpec => []LoadIsSum
BY SpecSteps, LoadIsSumAlways, PTL

-------------------------------------------------------------------------------
(* The scan for a burst of a file finds the least loaded queue *)

Reads == main.pc \in {"scan", "note"}

\* While main scans, nothing is put into a queue and loads only fall.
LoadsFall == schedProps.source = "FILE" /\ schedProps.alg # "RR"

\* What the scan knows of the queues it has passed, and of the one it has just
\* compared.
Scanned ==
  LoadsFall /\ Reads =>
    /\ main.shortest <= main.idx
    /\ queueLoad[main.shortest] <= main.load
    /\ \A i \in QueueIdx :
         /\ i < main.idx => main.load <= main.seen[i]
         /\ i < main.shortest => main.load < main.seen[i]
    /\ main.pc = "note" => /\ queueLoad[main.idx] <= main.seen[main.idx]
                           /\ main.seen[main.idx] < main.load

LEMMA ScannedInit == SInit => Scanned
BY DEF SInit, Scanned, Reads

LEMMA ScannedMain ==
  ASSUME MInv, Scanned, Main
  PROVE  Scanned'
<1>1. /\ schedProps \in Props /\ main \in MainState /\ queueLoad \in [QueueIdx -> Int]
      /\ UNCHANGED schedProps /\ QueueIdx' = QueueIdx
  BY DEF MInv, TypeInv, STypeOK, MainState, Main, QueueIdx, queuesSize
<1>2. queuesSize \in Nat \ {0} /\ QueueIdx = 0 .. queuesSize-1 /\ 0 \in QueueIdx
  BY <1>1, Sizes
<1>3. CASE main'.pc \notin {"scan", "note"}
  BY <1>3 DEF Scanned, Reads
<1>4. CASE ~LoadsFall
  BY <1>1, <1>4 DEF Scanned, LoadsFall
<1>5. /\ main.load \in Int /\ main.shortest \in QueueIdx /\ main.idx \in 0 .. queuesSize
      /\ main.seen \in [QueueIdx -> Int]
  BY <1>1 DEF MainState
<1>6. CASE Produce /\ LoadsFall
  <2>1. CASE schedProps.qs = "LM"
    <3>1. /\ main'.shortest = 0 /\ main'.idx = 0 /\ main'.load = queueLoad[0]
          /\ main'.pc = "scan" /\ UNCHANGED queueLoad
      BY <1>1, <1>6, <2>1 DEF Produce, MainState, LoadsFall
    <3>2. queueLoad[0] \in Int /\ \A i \in QueueIdx : ~(i < 0)
      BY <1>1, <1>2
    <3> QED
      BY <1>1, <3>1, <3>2 DEF Scanned
  <2>2. CASE schedProps.qs # "LM"
    <3>1. main'.pc = "produce"
      BY <1>1, <1>6, <2>2 DEF Produce, MainState
    <3> QED
      BY <1>3, <3>1
  <2> QED
    BY <2>1, <2>2
<1>7. ASSUME Compare \/ Note, LoadsFall PROVE Scanned'
  <2>1. /\ Reads /\ main.idx \in QueueIdx /\ UNCHANGED queueLoad
    <3>1. CASE Compare
      BY <1>2, <1>5, <3>1 DEF Compare, Reads
    <3>2. CASE Note
      BY <3>2 DEF Note, Reads, MInv, TypeInv
    <3> QED
      BY <1>7, <3>1, <3>2
  <2>2. PICK load \in Int : load = queueLoad[main.idx]
    BY <1>1, <2>1
  <2>3. /\ main.shortest <= main.idx
        /\ queueLoad[main.shortest] <= main.load
        /\ \A i \in QueueIdx : /\ i < main.idx => main.load <= main.seen[i]
                               /\ i < main.shortest => main.load < main.seen[i]
        /\ main.pc = "note" => load <= main.seen[main.idx] /\ main.seen[main.idx] < main.load
    BY <1>7, <2>1, <2>2 DEF Scanned
  <2>4. \A i \in QueueIdx : i \in Int /\ main.seen[i] \in Int /\ queueLoad[i] \in Int
    BY <1>1, <1>2, <1>5
  <2>5. ASSUME Compare, load < main.load PROVE Scanned'
    <3>1. main' = [main EXCEPT !.pc = "note", !.idx = main.idx, !.seen[main.idx] = load]
      <4>1. schedProps.source # "RANDOM"
        BY <1>7 DEF LoadsFall
      <4> QED
        BY <2>2, <2>5, <4>1 DEF Compare
    <3>2. /\ main'.pc = "note" /\ main'.idx = main.idx /\ main'.shortest = main.shortest
          /\ main'.load = main.load
          /\ \A i \in QueueIdx : main'.seen[i] = IF i = main.idx THEN load ELSE main.seen[i]
      <4>1. PICK seen : seen = [main.seen EXCEPT ![main.idx] = load]
        OBVIOUS
      <4>2. \A i \in QueueIdx : seen[i] = IF i = main.idx THEN load ELSE main.seen[i]
        BY <1>5, <4>1
      <4>3. main' = [main EXCEPT !.pc = "note", !.idx = main.idx, !.seen = seen]
        BY <3>1, <4>1
      <4> QED
        BY <1>1, <4>2, <4>3 DEF MainState
    <3>3. \A i \in QueueIdx : /\ i < main.idx => main.load <= main'.seen[i]
                              /\ i < main.shortest => main.load < main'.seen[i]
      BY <1>5, <2>1, <2>3, <2>4, <3>2
    <3>4. load <= main'.seen[main.idx] /\ main'.seen[main.idx] < main.load
      BY <2>1, <2>5, <3>2
    <3>5. main'.shortest <= main'.idx /\ queueLoad'[main'.shortest] <= main'.load
      BY <2>1, <2>3, <3>2
    <3>6. queueLoad'[main'.idx] <= main'.seen[main'.idx] /\ main'.seen[main'.idx] < main'.load
      BY <2>1, <2>2, <3>2, <3>4
    <3>7. \A i \in QueueIdx : /\ i < main'.idx => main'.load <= main'.seen[i]
                              /\ i < main'.shortest => main'.load < main'.seen[i]
      BY <3>2, <3>3
    <3> QED
      BY <1>1, <3>5, <3>6, <3>7 DEF Scanned
  <2>6. ASSUME Compare, ~(load < main.load) PROVE Scanned'
    <3>1. main' = [main EXCEPT !.pc = "scan", !.idx = main.idx + 1, !.seen[main.idx] = load]
      <4>1. schedProps.source # "RANDOM"
        BY <1>7 DEF LoadsFall
      <4>2. main' = [main EXCEPT !.pc = main.pc, !.idx = main.idx + 1, !.seen[main.idx] = load]
        BY <2>2, <2>6, <4>1 DEF Compare
      <4> QED
        BY <2>6, <4>2 DEF Compare
    <3>2. /\ main'.pc = "scan" /\ main'.idx = main.idx + 1 /\ main'.shortest = main.shortest
          /\ main'.load = main.load
          /\ \A i \in QueueIdx : main'.seen[i] = IF i = main.idx THEN load ELSE main.seen[i]
      <4>1. PICK seen : seen = [main.seen EXCEPT ![main.idx] = load]
        OBVIOUS
      <4>2. \A i \in QueueIdx : seen[i] = IF i = main.idx THEN load ELSE main.seen[i]
        BY <1>5, <4>1
      <4>3. main' = [main EXCEPT !.pc = "scan", !.idx = main.idx + 1, !.seen = seen]
        BY <3>1, <4>1
      <4> QED
        BY <1>1, <4>2, <4>3 DEF MainState
    <3>3. \A i \in QueueIdx : /\ i < main.idx + 1 => main.load <= main'.seen[i]
                              /\ i < main.shortest => main.load < main'.seen[i]
      BY <1>5, <2>1, <2>3, <2>4, <2>6, <3>2
    <3>4. main.shortest <= main.idx + 1
      BY <1>5, <2>1, <2>3, <2>4
    <3> QED
      BY <1>1, <2>1, <2>3, <3>2, <3>3, <3>4 DEF Scanned
  <2>7. ASSUME Note PROVE Scanned'
    <3>1. main' = [main EXCEPT !.pc = "scan", !.idx = main.idx + 1, !.shortest = main.idx,
                     !.load = load, !.seen[main.idx] = load]
      BY <2>2, <2>7 DEF Note
    <3>2. /\ main'.pc = "scan" /\ main'.idx = main.idx + 1 /\ main'.shortest = main.idx
          /\ main'.load = load
          /\ \A i \in QueueIdx : main'.seen[i] = IF i = main.idx THEN load ELSE main.seen[i]
      <4>1. PICK seen : seen = [main.seen EXCEPT ![main.idx] = load]
        OBVIOUS
      <4>2. \A i \in QueueIdx : seen[i] = IF i = main.idx THEN load ELSE main.seen[i]
        BY <1>5, <4>1
      <4>3. main' = [main EXCEPT !.pc = "scan", !.idx = main.idx + 1,
                     !.shortest = main.idx, !.load = load, !.seen = seen]
        BY <3>1, <4>1
      <4> QED
        BY <1>1, <4>2, <4>3 DEF MainState
    <3>3. load < main.load
      BY <1>5, <2>1, <2>3, <2>4, <2>7 DEF Note
    <3>4. \A i \in QueueIdx : /\ i < main.idx + 1 => load <= main'.seen[i]
                              /\ i < main.idx => load < main'.seen[i]
      BY <1>5, <2>1, <2>3, <2>4, <3>2, <3>3
    <3>5. main.idx <= main.idx + 1
      BY <2>1, <2>4
    <3> QED
      BY <1>1, <2>1, <2>2, <3>2, <3>4, <3>5 DEF Scanned
  <2> QED
    BY <1>7, <2>5, <2>6, <2>7
<1>8. CASE PutShortest
  BY <1>1, <1>3, <1>8 DEF PutShortest, MainState
<1>9. CASE ProducedAll
  BY <1>1, <1>3, <1>9 DEF ProducedAll, MainState
<1>10. CASE Close
  BY <1>1, <1>3, <1>10 DEF Close, MainState
<1>11. CASE Join
  BY <1>1, <1>3, <1>11 DEF Join, MainState
<1> QED
  BY <1>4, <1>6, <1>7, <1>8, <1>9, <1>10, <1>11 DEF Main

\* A CPU makes loads fall only.
LEMMA ScannedCpu ==
  ASSUME NEW c, MInv, Scanned, CpuStep(c)
  PROVE  Scanned'
<1>1. /\ c \in Cpu /\ schedProps \in Props /\ UNCHANGED <<schedProps, main>>
      /\ queue(c) \in QueueIdx /\ QueueIdx' = QueueIdx
      /\ queues \in [QueueIdx -> Seq(Item)] /\ queueLoad \in [QueueIdx -> Int]
      /\ burstLength \in [Pid -> Nat]
      /\ \A i \in QueueIdx : MarkerLast(queues[i])
  BY Sizes DEF CpuStep, MInv, TypeInv, Shape, STypeOK, QueueIdx, queuesSize,
     TestHead, ReadHead, ReadPid, StopAtMarker, Poll, Stick, Stuck, Take, Requeue, Finish, Waiting
<1>2. /\ main.load \in Int /\ main.shortest \in QueueIdx
      /\ main.pc = "note" => main.idx \in QueueIdx
      /\ main.seen \in [QueueIdx -> Int]
  BY DEF MInv, TypeInv, STypeOK
<1>3. ASSUME LoadsFall PROVE \A i \in QueueIdx : queueLoad'[i] \in Int /\ queueLoad'[i] <= queueLoad[i]
  <2>1. CASE UNCHANGED queueLoad
    BY <1>1, <2>1
  <2>2. CASE Take(c)
    <3> PICK q : q = queues[queue(c)]
      OBVIOUS
    <3>1. q # <<>> /\ q[1] # Marker /\ q \in Seq(Item) /\ MarkerLast(q)
      BY <1>1, <2>2 DEF Take
    <3>2. PICK b \in Pid : b = q[Picked(q)]
      BY <3>1, PickedBurst DEF MInv
    <3>3. queueLoad' = [queueLoad EXCEPT ![queue(c)] = queueLoad[queue(c)] - burstLength[b]]
      BY <2>2, <3>2 DEF Take
    <3>4. burstLength[b] \in Nat
      BY <1>1
    <3> QED
      BY <1>1, <3>3, <3>4
  <2> QED
    BY <1>3, <2>1, <2>2 DEF CpuStep, TestHead, ReadHead, ReadPid, StopAtMarker, Poll, Stick, Stuck,
       Waiting, Requeue, Unfinished, Finish, LoadsFall
<1> SUFFICES ASSUME LoadsFall, Reads PROVE Scanned'
  BY <1>1 DEF Scanned, LoadsFall, Reads
<1>4. queueLoad'[main.shortest] <= main.load
  BY <1>1, <1>2, <1>3 DEF Scanned
<1>5. main.pc = "note" => queueLoad'[main.idx] <= main.seen[main.idx]
  BY <1>1, <1>2, <1>3 DEF Scanned
<1> QED
  BY <1>1, <1>4, <1>5 DEF Scanned

LEMMA ScannedStep == MInv /\ Scanned /\ [SNext]_svars => Scanned'
<1> SUFFICES ASSUME MInv, Scanned, [SNext]_svars PROVE Scanned'
  OBVIOUS
<1>1. CASE Main
  BY <1>1, ScannedMain
<1>2. ASSUME NEW c \in Cpu, CpuStep(c) PROVE Scanned'
  BY <1>2, ScannedCpu
<1>3. CASE UNCHANGED svars
  BY <1>3 DEF svars, Scanned, Reads, LoadsFall, QueueIdx, queuesSize
<1> QED
  BY <1>1, <1>2, <1>3 DEF SNext, Ended

LEMMA ScannedAlways == Steps => []Scanned
BY ScannedInit, ScannedStep, MInvAlways, PTL DEF Steps

\* "Least load => min(sum of burst lengths) & min(id) for ties" (sched.h:38): for a
\* burst of a file main ends its scan at a queue that has no more load than any queue
\* had when it was looked at, and less than those before it, whatever the CPUs take
\* meanwhile and malloc() left, if RR puts nothing back.
THEOREM ScanFindsLeast == SSpec => []LeastLoadOfFile
<1>1. ASSUME MInv, Scanned PROVE LeastLoadOfFile
  <2> SUFFICES ASSUME LoadsFall, AllScanned, NEW i \in QueueIdx
               PROVE  /\ queueLoad[main.shortest] <= main.seen[i]
                      /\ i < main.shortest => queueLoad[main.shortest] < main.seen[i]
    BY DEF LeastLoadOfFile, LeastLoad, TakesLeast, LoadsFall
  <2>1. /\ schedProps \in Props /\ main.load \in Int /\ main.shortest \in QueueIdx
        /\ main.seen[i] \in Int /\ queueLoad[main.shortest] \in Int
    BY <1>1 DEF MInv, TypeInv, STypeOK
  <2>2. i < main.idx
    BY <2>1, Sizes DEF AllScanned
  <2>3. /\ queueLoad[main.shortest] <= main.load /\ main.load <= main.seen[i]
        /\ i < main.shortest => main.load < main.seen[i]
    BY <1>1, <2>2 DEF Scanned, Reads, AllScanned
  <2> QED
    BY <2>1, <2>3
<1> QED
  BY <1>1, SpecSteps, MInvAlways, ScannedAlways, PTL
===============================================================================
