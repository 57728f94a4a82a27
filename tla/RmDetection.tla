------------------------------ MODULE RmDetection ------------------------------
(***************************************************************************)
(* rm_detection() reads available, requests and allocation without the     *)
(* mutex, one int at a time, while a thread inside rm_request() or         *)
(* rm_release() is writing them.                                           *)
(*                                                                         *)
(* The critical sections of ResourceManager decide what is written.  Here  *)
(* the writes of the section in progress reach memory one by one, in the   *)
(* order of the code, while the mutex keeps every other section out;       *)
(* is_state_safe() writes allocation too, and undoes it.  rm_detection()   *)
(* reads memory between any two of the writes.                             *)
(***************************************************************************)
EXTENDS ResourceManager, Sequences

VARIABLES memory,    \* the ints rm_detection() can see
          writes,    \* what the holder of the mutex has still to write
          detector   \* the call of rm_detection() in progress

dvars == <<memory, writes, detector>>

Cell == ({"available"} \X Res) \cup ({"allocation", "requests"} \X Thread \X Res)

\* A call: where it is, its loop indices and locals, and a note whether no critical
\* section has overlapped it.
Idle == [pc |-> "idle", i |-> 0, j |-> 0, work |-> Zero, finish |-> {},
         quiet |-> FALSE]

DInit ==
  /\ Init
  /\ memory = [c \in Cell |-> IF c[1] = "available" THEN available[c[2]] ELSE 0]
  /\ writes = <<>>
  /\ detector = Idle

-------------------------------------------------------------------------------
(* The writes of a critical section, in the order of the code *)

Row(name, t, v) == [k \in 1 .. M |-> <<<<name, t, k-1>>, v[k-1]>>]

\* available[i] and allocation[tid][i] in turn, for each i.
Move(t, free, held) ==
  [k \in 1 .. 2*M |->
     LET r == (k-1) \div 2
     IN  IF k % 2 = 1 THEN <<<<"available", r>>, free[r]>>
                      ELSE <<<<"allocation", t, r>>, held[r]>>]

\* is_state_safe() tries the request out in place and takes it back.
Trial(t, req) ==
  IF DA = 1 THEN Row("allocation", t, Plus(allocation[t], req))
                   \o Row("allocation", t, allocation[t])
            ELSE <<>>

Take(t, req) ==
  Trial(t, req) \o Move(t, Minus(available, req), Plus(allocation[t], req))
    \o Row("requests", t, Zero)

\* One critical section: t decides in one step, and its writes follow.
Section(w) ==
  /\ writes = <<>>
  /\ writes' = w
  /\ UNCHANGED memory
  /\ detector' = [detector EXCEPT !.quiet = @ /\ w = <<>>]

Ask(t, req) ==
  \/ RequestRefused(t, req) /\ Section(<<>>)
  \/ RequestGranted(t, req) /\ Section(Row("requests", t, req) \o Take(t, req))
  \/ RequestBlocked(t, req) /\ Section(Row("requests", t, req) \o Trial(t, req))

AskAgain(t) ==
  \/ WokenGranted(t) /\ Section(Take(t, requests[t]))
  \/ WokenBlocked(t) /\ Section(Trial(t, requests[t]))

GiveBack(t, rel) ==
  \/ ReleaseRefused(t, rel) /\ Section(<<>>)
  \/ /\ Released(t, rel)
     /\ Section(Move(t, Plus(available, rel), Minus(allocation[t], rel)))

Locked(t) ==
  \/ \E req \in Requests : Ask(t, req)
  \/ AskAgain(t)
  \/ \E rel \in Requests : GiveBack(t, rel)

Write ==
  /\ writes # <<>>
  /\ memory' = [memory EXCEPT ![Head(writes)[1]] = Head(writes)[2]]
  /\ writes' = Tail(writes)
  /\ detector' = [detector EXCEPT !.quiet = FALSE]
  /\ UNCHANGED vars

\* What the cell c holds once every write has reached memory.
Actual(c) ==
  IF c[1] = "available" THEN available[c[2]]
  ELSE IF c[1] = "allocation" THEN allocation[c[2]][c[3]]
  ELSE requests[c[2]][c[3]]

\* All the writes of a section at once, for a program in which nobody reads between
\* two of them.
WriteAll ==
  /\ writes # <<>>
  /\ memory' = [c \in Cell |-> Actual(c)]
  /\ writes' = <<>>
  /\ detector' = [detector EXCEPT !.quiet = FALSE]
  /\ UNCHANGED vars

\* A thread goes on only when its critical section has reached memory.
Writing(t) ==
  \E k \in DOMAIN writes : writes[k][1][1] # "available" /\ writes[k][1][2] = t

\* What a thread does without the mutex; rm_detection() reads none of it.
Unlocked(t) ==
  /\ ~Writing(t)
  /\ \/ \E c \in Claims : ClaimRejected(t, c) \/ ClaimAccepted(t, c)
     \/ ClaimColumn(t)
     \/ SpuriousWakeup(t)
     \/ ThreadEnded(t)
  /\ UNCHANGED dvars

-------------------------------------------------------------------------------
(* rm_detection() *)

Step(d) == detector' = d /\ UNCHANGED <<vars, memory, writes>>

\* Nothing is read, and nobody reported, when the library counts no thread.
CalledWith(tcount) ==
  /\ detector.pc = "idle"
  /\ Step([Idle EXCEPT !.pc = IF tcount = 0 THEN "done" ELSE "available",
                       !.finish = IF tcount = 0 THEN Thread ELSE {},
                       !.quiet = writes = <<>>])

\* Here the count is that of the threads which have not ended.
Called == CalledWith(Cardinality({t \in Thread : pc[t] # "ended"}))

ReadAvailable ==
  LET j == detector.j
  IN  /\ detector.pc = "available"
      /\ Step([detector EXCEPT !.work[j] = memory[<<"available", j>>],
                               !.j = IF j = M-1 THEN 0 ELSE j+1,
                               !.pc = IF j = M-1 THEN "scan" ELSE @])

\* The scan for a thread that could finish: thread i is skipped as soon as it is
\* known to be finished or to ask for more than work.
Compare ==
  LET i == detector.i
      j == detector.j
  IN  /\ detector.pc = "scan"
      /\ Step(IF i = N THEN [detector EXCEPT !.pc = "done"]
              ELSE IF i \in detector.finish \/ memory[<<"requests", i, j>>] > detector.work[j]
                THEN [detector EXCEPT !.i = i+1, !.j = 0]
              ELSE IF j < M-1 THEN [detector EXCEPT !.j = j+1]
              ELSE [detector EXCEPT !.pc = "add", !.j = 0])

\* Slip: the scan goes on from the thread found, not from thread 0.
AddRow_NoRestart ==
  LET j == detector.j
      d == [detector EXCEPT !.work[j] = @ + memory[<<"allocation", detector.i, j>>]]
  IN  /\ detector.pc = "add"
      /\ Step(IF j < M-1 THEN [d EXCEPT !.j = j+1]
              ELSE [d EXCEPT !.finish = @ \cup {d.i}, !.pc = "scan", !.j = 0])

AddRow ==
  LET j == detector.j
      d == [detector EXCEPT !.work[j] = @ + memory[<<"allocation", detector.i, j>>]]
  IN  /\ detector.pc = "add"
      /\ Step(IF j < M-1 THEN [d EXCEPT !.j = j+1]
              ELSE [d EXCEPT !.finish = @ \cup {d.i}, !.pc = "scan", !.i = 0, !.j = 0])

Reported == Thread \ detector.finish

Returned == detector.pc = "done" /\ Step(Idle)

Detect == Called \/ ReadAvailable \/ Compare \/ AddRow \/ Returned

DNext ==
  \/ Detect \/ Write
  \/ \E t \in Thread : (Locked(t) \/ Unlocked(t)) /\ UNCHANGED DA

DSpec == DInit /\ [][DNext]_<<vars, dvars>>

-------------------------------------------------------------------------------
(* Properties *)

\* A call that no critical section overlaps counts the deadlocked threads.
QuietDetectionExact ==
  detector.pc = "done" /\ detector.quiet => Reported = Deadlocked
===============================================================================
