--------------------------- MODULE SchedulerCvProofs ---------------------------
(***************************************************************************)
(* sched_cv.c against sched.c: although its mutexes keep nobody apart,     *)
(* what it does until it goes wrong keeps what SchedulerProofs shows of    *)
(* sched.c; and a CPU with a queue of its own never takes from an empty    *)
(* list, nor follows a pointer to a node that is gone.                     *)
(***************************************************************************)
EXTENDS SchedulerCv, SchedulerProofs

-------------------------------------------------------------------------------
(* Every step is one of sched.c, or a CPU's return to the top of its loop *)

LooksAgain(c) == c \in Cpu /\ cpu[c].pc = "wait" /\ Again(c) /\ UNCHANGED schedProps

CvTurn == SNext \/ \E c \in Cpu : LooksAgain(c)

CvTurns == SInit /\ [][CvTurn]_svars

LEMMA CvInitIsInit == CInit => SInit
BY DEF CInit

LEMMA CvStepIsTurn == [CNext]_cvars => [CvTurn]_svars
<1> SUFFICES ASSUME [CNext]_cvars PROVE CvTurn \/ UNCHANGED svars
  OBVIOUS
<1>1. CASE MainLock
  BY <1>1 DEF MainLock, MainLocks
<1>2. CASE MainStep
  <2>1. CASE Sound /\ MainPuts
    BY <2>1 DEF MainPuts, CvTurn, SNext, Main, Sound
  <2>2. CASE Sound /\ MainGoesOn
    <3>1. Main
      BY <2>2 DEF MainGoesOn, Main, Sound
    <3> QED
      BY <3>1 DEF CvTurn, SNext
  <2>3. CASE MainUnlocks \/ MainSignals
    BY <2>3 DEF MainUnlocks, MainSignals
  <2> QED
    BY <1>2, <2>1, <2>2, <2>3 DEF MainStep
<1>3. ASSUME NEW c \in Cpu, CpuLocks(c) PROVE UNCHANGED svars
  BY <1>3 DEF CpuLocks, Relock, LockToRequeue
<1>4. ASSUME NEW c \in Cpu, CpuWakes(c) PROVE UNCHANGED svars
  BY <1>4 DEF CpuWakes, SpuriousWakeup
<1>5. ASSUME NEW c \in Cpu, CpuRuns(c)
      PROVE  CpuStep(c) \/ LooksAgain(c) \/ UNCHANGED svars
  <2>0. ~Crashed
    BY <1>5 DEF CpuRuns, Sound
  <2>1. CASE LookAtHead(c)
    BY <2>0, <2>1 DEF LookAtHead, CpuStep
  <2>2. CASE Sleep(c) \/ StartTake(c) \/ Unlock(c)
    BY <2>2 DEF Sleep, StartTake, Unlock
  <2>3. CASE CheckSize(c)
    BY <2>3 DEF CheckSize, LooksAgain
  <2>4. CASE TakeNothing(c)
    BY <2>4 DEF TakeNothing, LooksAgain
  <2>5. CASE EndTake(c)
    BY <2>0, <2>5 DEF EndTake, CpuStep
  <2>6. CASE EndRequeue(c)
    BY <2>0, <2>6 DEF EndRequeue, CpuStep
  <2>7. CASE FinishBurst(c)
    BY <2>0, <2>7 DEF FinishBurst, CpuStep
  <2> QED
    BY <1>5, <2>1, <2>2, <2>3, <2>4, <2>5, <2>6, <2>7 DEF CpuRuns
<1>6. CASE UNCHANGED cvars
  BY <1>6 DEF cvars
<1> QED
  BY <1>1, <1>2, <1>3, <1>4, <1>5, <1>6 DEF CNext, CvTurn, SNext

LEMMA CvIsTurns == CSpec => CvTurns
BY CvInitIsInit, CvStepIsTurn, PTL DEF CSpec, CvTurns

\* What sched.c keeps, and a CPU that looks again keeps too.
Kept == MInv /\ Served /\ DoneInv /\ Apart /\ LoadsRight

LEMMA AgainKeeps ==
  ASSUME Kept, NEW c, LooksAgain(c)
  PROVE  Kept'
<1>1. /\ c \in Cpu /\ cpu[c].pc = "wait" /\ Waiting /\ UNCHANGED schedProps
      /\ cpu \in [Cpu -> CpuState] /\ cpu[c] \in CpuState
      /\ MInv /\ Served /\ DoneInv /\ Apart /\ LoadsRight
  BY DEF LooksAgain, Again, Kept, MInv, TypeInv, STypeOK
<1>2. PICK state : state = [cpu[c] EXCEPT !.pc = "loop"]
  OBVIOUS
<1>3. state \in CpuState /\ state.pc = "loop" /\ state.burst = cpu[c].burst /\ state.head = cpu[c].head
  BY <1>1, <1>2 DEF CpuState
<1>4. cpu' = [cpu EXCEPT ![c] = state]
  BY <1>1, <1>2 DEF LooksAgain, Again
<1>5. cpu'[c] = state /\ \A d \in Cpu : d # c => cpu'[d] = cpu[d]
  BY <1>1, <1>4
<1>6. UNCHANGED <<queues, queueLoad, burstLength>>
  BY <1>1 DEF Waiting
<1>7. MInv'
  BY <1>1, <1>3, <1>4, CpuWaits
<1>8. Served'
  BY <1>1, <1>3, <1>5, <1>6, ServedStill
<1>9. DoneInv'
  BY <1>1, <1>3, <1>5, DoneWaits
<1>10. Apart'
  BY <1>1, <1>3, <1>5, ApartWaits
<1>11. LoadsRight'
  BY <1>1, <1>6 DEF LoadsRight, QueueIdx, queuesSize
<1> QED
  BY <1>7, <1>8, <1>9, <1>10, <1>11 DEF Kept

LEMMA KeptInit == SInit => Kept
BY MInvInit, ServedInit, DoneInit, ApartInit, LoadInit DEF Kept

LEMMA KeptStep == Kept /\ [CvTurn]_svars => Kept'
<1>1. ASSUME Kept, [SNext]_svars PROVE Kept'
  BY <1>1, MInvStep, ServedStep, DoneStep, ApartStep, LoadStep DEF Kept
<1>2. ASSUME Kept, NEW c \in Cpu, LooksAgain(c) PROVE Kept'
  BY <1>2, AgainKeeps
<1> QED
  BY <1>1, <1>2 DEF CvTurn

LEMMA KeptAlways == CSpec => []Kept
BY CvIsTurns, KeptInit, KeptStep, PTL DEF CvTurns

\* Also with condition variables, when main has joined the CPUs every burst has run
\* to its end and only the markers are left.
THEOREM CvWorkIsDone == CSpec => []AllDoneAtEnd
<1>1. Kept => AllDoneAtEnd
  BY DoneMeans DEF Kept
<1> QED
  BY <1>1, KeptAlways, PTL

\* Also with condition variables no burst is ever in two places or in none, no queue
\* is deserted, and no queueLoad drifts, until the program goes wrong for good.
THEOREM CvKeepsBursts == CSpec => [](OnePlace /\ QueueServed /\ LoadIsSum)
<1>1. Kept => OnePlace /\ QueueServed /\ LoadIsSum
  BY OnePlaceMeans, ServedMeans, LoadOfRight DEF Kept
<1> QED
  BY <1>1, KeptAlways, PTL

-------------------------------------------------------------------------------
(* Types, and what a CPU that goes for a burst relies on *)

AtState == {"out", "sized", "drowsy", "asleep", "woken", "inside", "unlock"}

CvTypes ==
  /\ mutex \in [QueueIdx -> BOOLEAN]
  /\ at \in [Cpu -> AtState]
  /\ mainAt \in [pc : {"out", "inside", "unlock", "signal"}, queue : QueueIdx]
  /\ fault \in {"none", "overlap", "empty", "marker"}

\* main is inside the list its next step puts something into.
Aimed == mainAt.pc = "inside" => Putting /\ mainAt.queue = Target

\* A CPU that has seen that its own queue is not empty finds something there, or main
\* about to put something in; and no node it has the address of is freed.
Finds(c) ==
  /\ at[c] = "sized" => queues[c] # <<>> \/ MainInside(c)
  /\ cpu[c].pc = "test" => queues[c] # <<>>
  /\ cpu[c].pc # "crashed" /\ cpu[c].head # Stale

Filled == schedProps.sap = "MULTI" => (\A c \in Cpu : Finds(c)) /\ fault # "empty"

CvInv == CvTypes /\ Aimed /\ Filled

LEMMA CvInvInit == CInit => CvInv
<1> SUFFICES ASSUME CInit PROVE CvInv
  OBVIOUS
<1>1. 0 \in QueueIdx
  BY Sizes DEF CInit, SInit
<1>2. \A c \in Cpu : cpu[c].pc = "loop" /\ cpu[c].head = None /\ at[c] = "out"
  BY DEF CInit, SInit
<1>3. None # Stale
  BY DEF None, Stale
<1> QED
  BY <1>1, <1>2, <1>3 DEF CInit, CvInv, CvTypes, AtState, Aimed, Filled, Finds

LEMMA TargetQueue ==
  ASSUME MInv, Putting
  PROVE  Target \in QueueIdx
<1>1. schedProps \in Props /\ main \in MainState
  BY DEF MInv, TypeInv, STypeOK, MainState
<1>2. CASE main.pc = "scan"
  BY <1>1, <1>2 DEF Target, MainState
<1>3. CASE main.pc \in {"produce", "close"}
  <2>1. main.idx \in QueueIdx /\ 0 \in QueueIdx
    BY <1>1, <1>3, Sizes DEF MInv, TypeInv
  <2>2. Target \in {main.idx, 0}
    BY <1>3 DEF Target
  <2> QED
    BY <2>1, <2>2
<1> QED
  BY <1>2, <1>3 DEF Putting

\* What main puts into a list goes where it has locked.
LEMMA PutsAtTarget ==
  ASSUME MInv, Putting, Produce \/ PutShortest \/ Close
  PROVE  /\ queues'[Target] # <<>>
         /\ \A i \in QueueIdx : i # Target => queues'[i] = queues[i]
<1>1. /\ schedProps \in Props /\ schedProps \in SchedProps /\ main \in MainState
      /\ queues \in [QueueIdx -> Seq(Item)]
      /\ Target \in QueueIdx
      /\ \A n \in 1 .. schedProps.PC : n \in Pid
  BY TargetQueue, Sizes DEF MInv, TypeInv, STypeOK, MainState
<1> DEFINE Good(b) == /\ b \in Item /\ (Closed(queues[Target]) => b \in Pid)
                      /\ \E l : Put(Target, b, l)
<1>2. \E b : Good(b)
  <2>1. CASE Produce
    <3>1. main.pc = "produce" /\ schedProps.qs # "LM" /\ main.nextPid \in 1 .. schedProps.PC
      BY <1>1, <2>1 DEF Produce, Putting, MainState
    <3>2. Target = IF schedProps.qs = "RM" THEN main.idx ELSE 0
      BY <1>1, <3>1 DEF Target, SchedProps
    <3>3. \E l : Put(Target, main.nextPid, l)
      BY <2>1, <3>1, <3>2 DEF Produce
    <3>4. main.nextPid \in Pid /\ main.nextPid \in Item
      BY <1>1, <3>1, MarkerIsNoPid
    <3> QED
      BY <3>3, <3>4
  <2>2. CASE PutShortest
    <3>1. /\ main.pc = "scan" /\ main.nextPid \in 1 .. schedProps.PC
          /\ \E l : Put(Target, main.nextPid, l)
      BY <1>1, <2>2 DEF PutShortest, Target, MInv, TypeInv, MainState
    <3>2. main.nextPid \in Pid /\ main.nextPid \in Item
      BY <1>1, <3>1, MarkerIsNoPid
    <3> QED
      BY <3>1, <3>2
  <2>3. CASE Close
    <3>1. main.pc = "close" /\ Target = main.idx /\ \E l : Put(Target, Marker, l)
      BY <2>3 DEF Close, Target
    <3>2. ~Closed(queues[Target])
      <4>1. main.idx \in Int
        BY <1>1, Sizes, <3>1
      <4> QED
        BY <1>1, <3>1, <4>1 DEF MInv, Shape
    <3>3. Good(Marker)
      BY <3>1, <3>2, MarkerIsNoPid
    <3> QED
      BY <3>3
  <2> QED
    BY <2>1, <2>2, <2>3
<1>3. PICK b : Good(b)
  BY <1>2
<1>4. queues' = [queues EXCEPT ![Target] = Enqueued(queues[Target], b)]
  BY <1>3 DEF Put
<1>5. b \in Items(Enqueued(queues[Target], b))
  BY <1>1, <1>3, EnqueuedItems
<1>6. Enqueued(queues[Target], b) # <<>>
  BY <1>5 DEF Items
<1> QED
  BY <1>1, <1>4, <1>6

\* A step of main: no CPU moves, and no list gets empty.
LEMMA CvMainKeeps ==
  ASSUME CvInv, UNCHANGED <<schedProps, cpu>>, schedProps \in Props,
         mutex' \in [QueueIdx -> BOOLEAN], at' \in [Cpu -> AtState],
         mainAt' \in [pc : {"out", "inside", "unlock", "signal"}, queue : QueueIdx],
         fault' \in {"none", "overlap"},
         \A c \in Cpu : at'[c] = "sized" => at[c] = "sized",
         \A i \in QueueIdx : queues[i] # <<>> => queues'[i] # <<>>,
         \A i \in QueueIdx : MainInside(i) => MainInside(i)' \/ queues'[i] # <<>>,
         Aimed'
  PROVE  CvInv'
<1>1. QueueIdx' = QueueIdx /\ Cpu' = Cpu
  BY DEF QueueIdx, queuesSize, Cpu
<1>2. CvTypes'
  BY <1>1 DEF CvTypes
<1>3. schedProps.sap = "MULTI" => \A c \in Cpu : c \in QueueIdx
  BY Sizes DEF queue
<1>4. Filled'
  BY <1>1, <1>3 DEF CvInv, Filled, Finds
<1> QED
  BY <1>2, <1>4 DEF CvInv

\* A step of a CPU: main and where it aims stay, and only the CPU's own queue changes.
LEMMA CvCpuKeeps ==
  ASSUME CvInv, NEW c \in Cpu, UNCHANGED <<schedProps, main, mainAt>>, schedProps \in Props,
         NEW to \in AtState, at' = [at EXCEPT ![c] = to],
         mutex' \in [QueueIdx -> BOOLEAN],
         fault' \in {"none", "overlap", "empty", "marker"},
         schedProps.sap = "MULTI" =>
           /\ fault' # "empty" /\ Finds(c)'
           /\ \A d \in Cpu : d # c => cpu'[d] = cpu[d] /\ queues'[d] = queues[d]
  PROVE  CvInv'
<1>1. QueueIdx' = QueueIdx /\ Cpu' = Cpu
  BY DEF QueueIdx, queuesSize, Cpu
<1>2. at' \in [Cpu -> AtState] /\ \A d \in Cpu : d # c => at'[d] = at[d]
  BY DEF CvInv, CvTypes
<1>3. CvTypes'
  BY <1>1, <1>2 DEF CvInv, CvTypes
<1>4. (Putting' <=> Putting) /\ Target' = Target
  BY DEF Putting, Target, queuesSize
<1>5. Aimed'
  BY <1>4 DEF CvInv, Aimed
<1>6. \A i : MainInside(i)' <=> MainInside(i)
  BY DEF MainInside
<1>7. ASSUME schedProps.sap = "MULTI", NEW d \in Cpu, d # c PROVE Finds(d)'
  BY <1>2, <1>6, <1>7 DEF CvInv, Filled, Finds
<1>8. Filled'
  BY <1>1, <1>7 DEF Filled
<1> QED
  BY <1>3, <1>5, <1>8 DEF CvInv

LEMMA CvInvMain ==
  ASSUME MInv, CvInv, MainLock \/ MainStep
  PROVE  CvInv'
<1>1. /\ schedProps \in Props /\ UNCHANGED <<schedProps, cpu>>
      /\ fault = "none"
  <2>1. CASE MainLock
    BY <2>1 DEF MInv, TypeInv, MainLock, MainLocks, Sound, svars
  <2>2. CASE MainStep
    BY <2>2 DEF MInv, TypeInv, MainStep, Sound, MainPuts, MainUnlocks, MainSignals, MainGoesOn, svars,
       Produce, Compare, Note, PutShortest, ProducedAll, Close, Join
  <2> QED
    BY <2>1, <2>2
<1>2. QueueIdx' = QueueIdx /\ Cpu' = Cpu /\ queuesSize' = queuesSize
  BY <1>1 DEF QueueIdx, queuesSize, Cpu
<1>t. /\ mutex \in [QueueIdx -> BOOLEAN] /\ at \in [Cpu -> AtState]
      /\ mainAt \in [pc : {"out", "inside", "unlock", "signal"}, queue : QueueIdx]
  BY DEF CvInv, CvTypes
<1>3. CASE MainLock
  <2>1. /\ mainAt.pc = "out" /\ Putting /\ Target \in QueueIdx
        /\ mutex' = [mutex EXCEPT ![Target] = TRUE]
        /\ mainAt' = [pc |-> "inside", queue |-> Target]
        /\ fault' \in {"overlap", "none"}
        /\ UNCHANGED <<svars, at>>
    BY <1>1, <1>3, TargetQueue DEF MainLock, MainLocks, Set, Enter
  <2>2. /\ mutex' \in [QueueIdx -> BOOLEAN]
        /\ mainAt' \in [pc : {"out", "inside", "unlock", "signal"}, queue : QueueIdx]
    BY <1>t, <2>1
  <2>3. Putting' /\ Target' = Target
    BY <1>2, <2>1 DEF Putting, Target, svars
  <2>4. Aimed'
    BY <2>1, <2>3 DEF Aimed
  <2>5. ~\E i : MainInside(i)
    BY <2>1 DEF MainInside
  <2>6. UNCHANGED queues
    BY <2>1 DEF svars
  <2> QED
    BY <1>1, <1>t, <2>1, <2>2, <2>4, <2>5, <2>6, CvMainKeeps
<1>4. CASE MainPuts
  <2>1. /\ mainAt.pc = "inside" /\ Putting /\ mainAt.queue = Target
        /\ mainAt' = [mainAt EXCEPT !.pc = "unlock"]
        /\ UNCHANGED <<mutex, at, fault>>
        /\ Produce \/ PutShortest \/ Close
    BY <1>4 DEF MainPuts, CvInv, Aimed
  <2>2. mainAt' \in [pc : {"out", "inside", "unlock", "signal"}, queue : QueueIdx]
    BY <1>t, <2>1
  <2>3. Aimed'
    BY <1>t, <2>1 DEF Aimed
  <2>4. /\ queues'[Target] # <<>>
        /\ \A i \in QueueIdx : i # Target => queues'[i] = queues[i]
    BY <2>1, PutsAtTarget
  <2>5. \A i \in QueueIdx : queues[i] # <<>> => queues'[i] # <<>>
    BY <2>4
  <2>6. \A i \in QueueIdx : MainInside(i) => queues'[i] # <<>>
    BY <2>1, <2>4 DEF MainInside
  <2> QED
    BY <1>1, <1>t, <2>1, <2>2, <2>3, <2>5, <2>6, CvMainKeeps
<1>5. CASE MainUnlocks \/ MainSignals
  <2>1. /\ mainAt.pc # "inside" /\ mainAt'.pc # "inside"
        /\ mainAt' \in [pc : {"out", "inside", "unlock", "signal"}, queue : QueueIdx]
        /\ UNCHANGED <<svars, fault>>
    BY <1>5, <1>t DEF MainUnlocks, MainSignals
  <2>2. /\ mutex' \in [QueueIdx -> BOOLEAN] /\ at' \in [Cpu -> AtState]
        /\ \A c \in Cpu : at'[c] = "sized" => at[c] = "sized"
    <3>1. CASE MainUnlocks
      BY <1>t, <3>1 DEF MainUnlocks, Set
    <3>2. CASE MainSignals
      BY <1>t, <3>2 DEF MainSignals, Sleepers, AtState
    <3> QED
      BY <1>5, <3>1, <3>2
  <2>3. Aimed'
    BY <2>1 DEF Aimed
  <2>4. ~\E i : MainInside(i)
    BY <2>1 DEF MainInside
  <2>5. UNCHANGED queues
    BY <2>1 DEF svars
  <2> QED
    BY <1>1, <2>1, <2>2, <2>3, <2>4, <2>5, CvMainKeeps
<1>6. CASE MainGoesOn
  <2>1. mainAt.pc = "out" /\ UNCHANGED <<mutex, at, mainAt, fault>>
    BY <1>6 DEF MainGoesOn
  <2>2. UNCHANGED queues
    BY <1>6 DEF MainGoesOn, Produce, Compare, Note, ProducedAll, Join
  <2>3. Aimed'
    BY <2>1 DEF Aimed
  <2>4. ~\E i : MainInside(i)
    BY <2>1 DEF MainInside
  <2> QED
    BY <1>1, <1>t, <2>1, <2>2, <2>3, <2>4, CvMainKeeps
<1> QED
  BY <1>3, <1>4, <1>5, <1>6 DEF MainStep

LEMMA CvInvCpu ==
  ASSUME MInv, CvInv, NEW c \in Cpu, CpuLocks(c) \/ CpuRuns(c) \/ CpuWakes(c)
  PROVE  CvInv'
<1>1. /\ schedProps \in Props /\ UNCHANGED <<schedProps, main, mainAt>>
      /\ fault = "none"
  <2>1. CASE CpuLocks(c) \/ CpuWakes(c)
    BY <2>1 DEF MInv, TypeInv, CpuLocks, CpuWakes, Sound, Relock, LockToRequeue, SpuriousWakeup, svars
  <2>2. CASE CpuRuns(c)
    BY <2>2 DEF MInv, TypeInv, CpuRuns, Sound, LookAtHead, CheckSize, Sleep, StartTake, TakeNothing,
       EndTake, Unlock, EndRequeue, FinishBurst, svars, TestHead, ReadHead, ReadPid, Again,
       Waiting, Take, Requeue, Finish
  <2> QED
    BY <2>1, <2>2
<1>2. /\ queue(c) \in QueueIdx
      /\ schedProps.sap = "MULTI" =>
           /\ \A d : queue(d) = d
           /\ \A d \in Cpu : d \in QueueIdx
  BY <1>1, Sizes DEF queue
<1>t. /\ mutex \in [QueueIdx -> BOOLEAN] /\ at \in [Cpu -> AtState] /\ at[c] \in AtState
      /\ fault \in {"none", "overlap", "empty", "marker"}
      /\ cpu \in [Cpu -> CpuState] /\ cpu[c] \in CpuState
      /\ queues \in [QueueIdx -> Seq(Item)] /\ queues[queue(c)] \in Seq(Item)
  BY <1>2 DEF CvInv, CvTypes, MInv, TypeInv, STypeOK
<1>f. schedProps.sap = "MULTI" => Finds(c)
  BY DEF CvInv, Filled
<1>s. None # Stale /\ \A x \in Item : x # Stale
  BY PidAssumption DEF None, Stale, Item, Marker
\* The CPU itself goes on from one place to another.
<1>3. ASSUME UNCHANGED svars, NEW to \in AtState, at' = [at EXCEPT ![c] = to],
             mutex' \in [QueueIdx -> BOOLEAN],
             fault' \in {"none", "overlap", "empty", "marker"},
             schedProps.sap = "MULTI" => fault' # "empty",
             to # "sized"
      PROVE  CvInv'
  <2>1. UNCHANGED <<queues, cpu>>
    BY <1>3 DEF svars
  <2>2. at'[c] = to
    BY <1>t, <1>3
  <2>3. schedProps.sap = "MULTI" => Finds(c)'
    BY <1>3, <1>f, <2>1, <2>2 DEF Finds
  <2> QED
    BY <1>1, <1>3, <2>1, <2>3, CvCpuKeeps
\* The CPU moves on in its look at the queue, or from it.
<1>4. ASSUME Waiting, UNCHANGED <<mutex, fault>>,
             NEW to \in AtState, at' = [at EXCEPT ![c] = to],
             NEW state, cpu' = [cpu EXCEPT ![c] = state],
             schedProps.sap = "MULTI" =>
               /\ to = "sized" => queues[c] # <<>> \/ MainInside(c)
               /\ state.pc = "test" => queues[c] # <<>>
               /\ state.pc # "crashed" /\ state.head # Stale
      PROVE  CvInv'
  <2>1. UNCHANGED queues
    BY <1>4 DEF Waiting
  <2>2. at'[c] = to /\ cpu'[c] = state /\ \A d \in Cpu : d # c => cpu'[d] = cpu[d]
    BY <1>t, <1>4
  <2>3. MainInside(c)' <=> MainInside(c)
    BY <1>1 DEF MainInside
  <2>4. schedProps.sap = "MULTI" => Finds(c)'
    BY <1>4, <2>1, <2>2, <2>3 DEF Finds
  <2> QED
    BY <1>1, <1>t, <1>4, <2>1, <2>2, <2>4, CvCpuKeeps
\* The CPU changes its queue and is done with it.
<1>5. ASSUME at' = [at EXCEPT ![c] = "unlock"], UNCHANGED <<mutex, fault>>,
             \A i \in QueueIdx : i # queue(c) => queues'[i] = queues[i],
             \A d \in Cpu : queue(d) # queue(c) => cpu'[d] = cpu[d],
             cpu'[c].pc \in {"run", "loop"}, cpu'[c].head # Stale
      PROVE  CvInv'
  <2>1. at'[c] = "unlock"
    BY <1>t, <1>5
  <2>2. schedProps.sap = "MULTI" => Finds(c)'
    BY <1>5, <2>1 DEF Finds
  <2>3. schedProps.sap = "MULTI" =>
          \A d \in Cpu : d # c => cpu'[d] = cpu[d] /\ queues'[d] = queues[d]
    BY <1>2, <1>5
  <2>4. "unlock" \in AtState
    BY DEF AtState
  <2> QED
    BY <1>1, <1>t, <1>5, <2>2, <2>3, <2>4, CvCpuKeeps
<1>6. CASE CpuLocks(c) \/ CpuWakes(c)
  <2>1. /\ UNCHANGED svars
        /\ mutex' \in [QueueIdx -> BOOLEAN]
        /\ fault' \in {"none", "overlap"}
        /\ \E to \in {"out", "inside", "woken"} : at' = [at EXCEPT ![c] = to]
    BY <1>1, <1>t, <1>6 DEF CpuLocks, CpuWakes, Relock, LockToRequeue, SpuriousWakeup, Go, Set, Enter
  <2>2. PICK to \in {"out", "inside", "woken"} : at' = [at EXCEPT ![c] = to]
    BY <2>1
  <2>3. to \in AtState
    BY <2>2 DEF AtState
  <2> QED
    BY <1>3, <2>1, <2>2, <2>3
<1>7. CASE LookAtHead(c)
  <2>1. /\ Waiting /\ UNCHANGED <<mutex, fault>>
        /\ TestHead(c) \/ ReadHead(c) \/ ReadPid(c)
        /\ at' = [at EXCEPT ![c] = "unlock"] \/ UNCHANGED at
    BY <1>7 DEF LookAtHead, Go, TestHead, ReadHead, ReadPid
  <2>2. PICK to \in {"unlock", at[c]} : at' = [at EXCEPT ![c] = to]
    BY <1>t, <2>1
  <2>3. to \in AtState /\ (to = "sized" => at[c] = "sized")
    BY <1>t, <2>2 DEF AtState
  <2>4. \E state : /\ cpu' = [cpu EXCEPT ![c] = state]
                   /\ schedProps.sap = "MULTI" =>
                        /\ state.pc = "test" => queues[c] # <<>>
                        /\ state.pc # "crashed" /\ state.head # Stale
    <3>1. CASE TestHead(c)
      <4>1. PICK state : state = [cpu[c] EXCEPT !.pc = IF queues[queue(c)] = <<>> THEN "wait" ELSE "test"]
        OBVIOUS
      <4>2. cpu' = [cpu EXCEPT ![c] = state]
        BY <3>1, <4>1 DEF TestHead
      <4>3. /\ state.pc = IF queues[queue(c)] = <<>> THEN "wait" ELSE "test"
            /\ state.head = cpu[c].head
        BY <1>t, <4>1 DEF CpuState
      <4>4. schedProps.sap = "MULTI" => /\ state.pc = "test" => queues[c] # <<>>
                                        /\ state.pc # "crashed" /\ state.head # Stale
        BY <1>2, <1>f, <4>3 DEF Finds
      <4> QED
        BY <4>2, <4>4
    <3>2. CASE ReadHead(c)
      <4>1. PICK state : /\ state = IF queues[queue(c)] = <<>>
                                      THEN [cpu[c] EXCEPT !.pc = "crashed"]
                                      ELSE [cpu[c] EXCEPT !.pc = "peek", !.head = queues[queue(c)][1]]
                         /\ cpu' = [cpu EXCEPT ![c] = state] /\ cpu[c].pc = "test"
        BY <3>2 DEF ReadHead
      <4>2. queues[queue(c)] # <<>> => queues[queue(c)][1] \in Item
        BY <1>t, EmptySeq, ElementOfSeq
      <4>3. schedProps.sap = "MULTI" => queues[queue(c)] # <<>>
        BY <1>2, <1>f, <4>1 DEF Finds
      <4>4. queues[queue(c)] # <<>> => state.pc = "peek" /\ state.head = queues[queue(c)][1]
        BY <1>t, <4>1 DEF CpuState
      <4> QED
        BY <1>s, <4>1, <4>2, <4>3, <4>4
    <3>3. CASE ReadPid(c)
      <4>1. PICK pc : /\ cpu' = [cpu EXCEPT ![c].pc = pc, ![c].head = None]
                      /\ pc \in {"stopped", "wait"} \/ cpu[c].head = Stale
                      /\ pc # "test"
        <5>1. CASE cpu[c].head = Stale
          BY <3>3, <5>1 DEF ReadPid
        <5>2. CASE cpu[c].head # Stale /\ cpu[c].head = Marker
          BY <3>3, <5>2 DEF ReadPid
        <5>3. CASE cpu[c].head # Stale /\ cpu[c].head # Marker
          BY <3>3, <5>3 DEF ReadPid
        <5> QED
          BY <5>1, <5>2, <5>3
      <4>2. PICK state : state = [[cpu[c] EXCEPT !.pc = pc] EXCEPT !.head = None]
        OBVIOUS
      <4>3. cpu' = [cpu EXCEPT ![c] = state]
        BY <1>t, <4>1, <4>2
      <4>4. state.pc = pc /\ state.head = None
        BY <1>t, <4>2 DEF CpuState
      <4>5. schedProps.sap = "MULTI" => /\ state.pc = "test" => queues[c] # <<>>
                                        /\ state.pc # "crashed" /\ state.head # Stale
        BY <1>f, <1>s, <4>1, <4>4 DEF Finds
      <4> QED
        BY <4>3, <4>5
    <3> QED
      BY <2>1, <3>1, <3>2, <3>3
  <2>5. PICK state : /\ cpu' = [cpu EXCEPT ![c] = state]
                     /\ schedProps.sap = "MULTI" =>
                          /\ state.pc = "test" => queues[c] # <<>>
                          /\ state.pc # "crashed" /\ state.head # Stale
    BY <2>4
  <2>6. schedProps.sap = "MULTI" /\ to = "sized" => queues[c] # <<>> \/ MainInside(c)
    BY <1>f, <2>3 DEF Finds
  <2> QED
    BY <1>4, <2>1, <2>2, <2>3, <2>5, <2>6
\* The size is looked at again, or was above 0.
<1>8. ASSUME Again(c), UNCHANGED <<mutex, fault>>, NEW to \in {"out", "sized"},
             at' = [at EXCEPT ![c] = to],
             schedProps.sap = "MULTI" /\ to = "sized" => queues[c] # <<>> \/ MainInside(c)
      PROVE  CvInv'
  <2>1. PICK state : state = [cpu[c] EXCEPT !.pc = "loop"]
    OBVIOUS
  <2>2. cpu' = [cpu EXCEPT ![c] = state] /\ Waiting
    BY <1>8, <2>1 DEF Again
  <2>3. state.pc = "loop" /\ state.head = cpu[c].head
    BY <1>t, <2>1 DEF CpuState
  <2>4. to \in AtState
    BY <1>8 DEF AtState
  <2>5. schedProps.sap = "MULTI" => state.head # Stale
    BY <1>f, <2>3 DEF Finds
  <2> QED
    BY <1>4, <1>8, <2>2, <2>3, <2>4, <2>5
<1>9. CASE CheckSize(c)
  <2>1. PICK empty \in {queues[queue(c)] = <<>>} \cup (IF Inside(queue(c)) THEN BOOLEAN ELSE {}) :
          IF empty THEN Go(c, "drowsy") /\ UNCHANGED svars
                   ELSE Go(c, "sized") /\ Again(c) /\ UNCHANGED schedProps
    BY <1>9 DEF CheckSize
  <2>2. at[c] = "out" /\ UNCHANGED <<mutex, fault>>
    BY <1>9 DEF CheckSize
  <2>3. CASE empty
    <3>1. at' = [at EXCEPT ![c] = "drowsy"] /\ UNCHANGED svars /\ "drowsy" \in AtState
      BY <2>1, <2>3 DEF Go, AtState
    <3> QED
      BY <1>1, <1>3, <1>t, <2>2, <3>1
  <2>4. CASE ~empty
    <3>1. at' = [at EXCEPT ![c] = "sized"] /\ Again(c)
      BY <2>1, <2>4 DEF Go
    <3>2. ASSUME schedProps.sap = "MULTI" PROVE queues[c] # <<>> \/ MainInside(c)
      <4>1. CpusInside(c) = {}
        BY <1>2, <2>2, <3>2 DEF CpusInside
      <4>2. queue(c) = c
        BY <1>2, <3>2
      <4> QED
        BY <2>1, <2>4, <4>1, <4>2 DEF Inside
    <3> QED
      BY <1>8, <2>2, <3>1, <3>2
  <2> QED
    BY <2>3, <2>4
<1>10. CASE TakeNothing(c)
  BY <1>8, <1>10 DEF TakeNothing, Go
<1>11. CASE Sleep(c) \/ Unlock(c)
  <2>1. /\ UNCHANGED svars /\ UNCHANGED fault /\ mutex' \in [QueueIdx -> BOOLEAN]
        /\ \E to \in {"asleep", "out"} : at' = [at EXCEPT ![c] = to]
    BY <1>2, <1>t, <1>11 DEF Sleep, Unlock, Go, Set
  <2>2. PICK to \in {"asleep", "out"} : at' = [at EXCEPT ![c] = to]
    BY <2>1
  <2>3. to \in AtState
    BY <2>2 DEF AtState
  <2> QED
    BY <1>1, <1>3, <2>1, <2>2, <2>3
<1>12. CASE StartTake(c)
  <2>1. /\ at[c] = "sized" /\ at' = [at EXCEPT ![c] = "inside"] /\ "inside" \in AtState
        /\ UNCHANGED <<svars, mutex>>
        /\ fault' \in {"none", "overlap", "empty", "marker"}
        /\ fault' = "empty" => ~Inside(queue(c)) /\ queues[queue(c)] = <<>>
    BY <1>1, <1>12 DEF StartTake, Go, AtState
  <2>2. schedProps.sap = "MULTI" => fault' # "empty"
    BY <1>2, <1>f, <2>1 DEF Inside, Finds
  <2> QED
    BY <1>3, <1>t, <2>1, <2>2
<1>13. CASE EndTake(c)
  <2>1. /\ at' = [at EXCEPT ![c] = "unlock"] /\ UNCHANGED <<mutex, fault>>
        /\ Take(c)
    BY <1>13 DEF EndTake, Go
  <2>2. /\ \A i \in QueueIdx : i # queue(c) => queues'[i] = queues[i]
        /\ \A d \in Cpu : queue(d) # queue(c) => cpu'[d] = cpu[d]
        /\ cpu'[c].pc = "run" /\ cpu'[c].head = None
    BY <1>t, <2>1 DEF Take
  <2> QED
    BY <1>5, <1>s, <2>1, <2>2
<1>14. CASE EndRequeue(c)
  <2>1. /\ at' = [at EXCEPT ![c] = "unlock"] /\ UNCHANGED <<mutex, fault>>
        /\ cpu[c].pc = "run"
        /\ cpu' = [cpu EXCEPT ![c].pc = "loop", ![c].burst = None]
        /\ queues' = [queues EXCEPT ![queue(c)] = Enqueued(queues[queue(c)], cpu[c].burst)]
    BY <1>14 DEF EndRequeue, Go, Requeue, Idle, Put
  <2>2. cpu[c].head = None
    BY <2>1 DEF MInv, TypeInv
  <2>3. /\ \A i \in QueueIdx : i # queue(c) => queues'[i] = queues[i]
        /\ \A d \in Cpu : queue(d) # queue(c) => cpu'[d] = cpu[d]
        /\ cpu'[c].pc = "loop" /\ cpu'[c].head = None
    BY <1>t, <2>1, <2>2 DEF CpuState
  <2> QED
    BY <1>5, <1>s, <2>1, <2>3
<1>15. CASE FinishBurst(c)
  <2>1. /\ at[c] = "out" /\ UNCHANGED <<mutex, at, fault, queues>>
        /\ cpu[c].pc = "run"
        /\ cpu' = [cpu EXCEPT ![c].pc = "loop", ![c].burst = None]
    BY <1>15 DEF FinishBurst, Finish, Idle
  <2>2. cpu[c].head = None
    BY <2>1 DEF MInv, TypeInv
  <2>3. /\ cpu'[c].pc = "loop" /\ cpu'[c].head = None
        /\ \A d \in Cpu : d # c => cpu'[d] = cpu[d]
    BY <1>t, <2>1, <2>2 DEF CpuState
  <2>4. at' = [at EXCEPT ![c] = at[c]]
    BY <1>t, <2>1
  <2>5. schedProps.sap = "MULTI" => Finds(c)'
    BY <1>s, <2>1, <2>3 DEF Finds
  <2> QED
    BY <1>1, <1>t, <2>1, <2>3, <2>4, <2>5, CvCpuKeeps
<1> QED
  BY <1>6, <1>7, <1>9, <1>10, <1>11, <1>12, <1>13, <1>14, <1>15 DEF CpuRuns

LEMMA CvInvStep == MInv /\ CvInv /\ [CNext]_cvars => CvInv'
<1> SUFFICES ASSUME MInv, CvInv, [CNext]_cvars PROVE CvInv'
  OBVIOUS
<1>1. CASE MainLock \/ MainStep
  BY <1>1, CvInvMain
<1>2. ASSUME NEW c \in Cpu, CpuLocks(c) \/ CpuRuns(c) \/ CpuWakes(c) PROVE CvInv'
  BY <1>2, CvInvCpu
<1>3. CASE UNCHANGED cvars
  BY <1>3 DEF cvars, svars, CvInv, CvTypes, Aimed, Filled, Finds, MainInside, Putting, Target,
              queuesSize, QueueIdx, Cpu
<1> QED
  BY <1>1, <1>2, <1>3 DEF CNext

LEMMA CvInvAlways == CSpec => [](MInv /\ CvInv)
<1>1. Kept => MInv
  BY DEF Kept
<1> QED
  BY <1>1, KeptAlways, CvInvInit, CvInvStep, PTL DEF CSpec

\* No CPU or main is ever between two steps that the code does not have there, and
\* no mutex, queue or fault gets a value out of its type.
THEOREM CvTypesKept == CSpec => []CTypeOK
<1>1. MInv /\ CvInv => CTypeOK
  BY DEF MInv, TypeInv, CvInv, CvTypes, AtState, CTypeOK
<1> QED
  BY <1>1, CvInvAlways, PTL

\* A CPU with a queue of its own never takes from an empty list, nor follows a NULL or
\* a freed head, although it looks at both without the mutex: only it takes out, so
\* that what it has seen there stays until it does.
THEOREM CvOwnQueueHolds == CSpec => []OwnQueueNotEmpty
<1>1. CvInv => OwnQueueNotEmpty
  BY DEF CvInv, Filled, Finds, OwnQueueNotEmpty, Crashed
<1> QED
  BY <1>1, CvInvAlways, PTL
===============================================================================
