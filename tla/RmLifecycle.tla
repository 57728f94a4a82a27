------------------------------ MODULE RmLifecycle ------------------------------
(***************************************************************************)
(* The start and the end of the threads of RmApps, and the library's       *)
(* memory.  rm_thread_started() and rm_thread_ended() count the threads in *)
(* tcount without the mutex, a load and a store each, and the thread that  *)
(* counts down to 0 frees the matrices, the mutex and the condition        *)
(* variables.  rm_detection() and rm_print_state() look at tcount once and *)
(* then read the matrices.  What becomes of whoever uses freed memory, or  *)
(* frees it again, is undefined, and the model stops there.                *)
(***************************************************************************)
EXTENDS RmApps

VARIABLES tcount,  \* the library's count of threads
          life,    \* where each thread is in its tcount++ or tcount--
          loaded,  \* the value of tcount it has loaded
          freed,   \* have the matrices been freed?
          fault,   \* who first used freed memory, or freed it twice
          orderly, \* no start or end overlapped another, and all started first
          prints,  \* how often main() is still to call rm_print_state()
          printing \* is it reading the matrices?

lvars   == <<tcount, life, loaded, freed, fault, orderly>>
pvars   == <<prints, printing>>
allvars == <<avars, lvars, pvars>>

LInit ==
  /\ AInit
  /\ tcount = 0
  /\ life = [t \in Thread |-> "new"]
  /\ loaded = [t \in Thread |-> 0]
  /\ freed = FALSE
  /\ fault = "none"
  /\ orderly = TRUE
  /\ prints = IF Polls > 0 THEN 1 ELSE 0
  /\ printing = FALSE

Running == main.pc # "exit" /\ fault = "none"

\* The library's memory is used by somebody: undefined once it is free.
Use(who) == /\ fault' = IF freed THEN who ELSE fault
            /\ UNCHANGED <<tcount, life, loaded, freed, orderly>>

-------------------------------------------------------------------------------
(* rm_thread_started() and rm_thread_ended() *)

Counting == {"starting", "ending", "testing"}

\* A load of tcount, from where only the store is left to do.
Load(t, from, to, inOrder) ==
  /\ Running
  /\ life[t] = from
  /\ life' = [life EXCEPT ![t] = to]
  /\ loaded' = [loaded EXCEPT ![t] = tcount]
  /\ orderly' = (orderly /\ inOrder /\ \A u \in Thread : life[u] \notin Counting)
  /\ UNCHANGED <<avars, pvars, tcount, freed, fault>>

Store(t, from, to, value) ==
  /\ Running
  /\ life[t] = from
  /\ life' = [life EXCEPT ![t] = to]
  /\ tcount' = value
  /\ loaded' = [loaded EXCEPT ![t] = 0]
  /\ UNCHANGED <<avars, pvars, freed, fault, orderly>>

rm_thread_started(t) ==
  \/ Load(t, "new", "starting", TRUE)
  \/ Store(t, "starting", "running", loaded[t] + 1)

\* Slip: the last thread but one frees.
EndAndFree_OneLeft(t) ==
  /\ Running
  /\ life[t] = "testing"
  /\ Calls(t)
  /\ life' = [life EXCEPT ![t] = "gone"]
  /\ freed' = (freed \/ tcount <= 1)
  /\ fault' = IF freed /\ tcount = 0 THEN "twice" ELSE fault
  /\ UNCHANGED <<pvars, tcount, loaded, orderly>>

\* The test of tcount, the frees behind it, and the end of the thread.
EndAndFree(t) ==
  /\ Running
  /\ life[t] = "testing"
  /\ Calls(t)
  /\ life' = [life EXCEPT ![t] = "gone"]
  /\ freed' = (freed \/ tcount = 0)
  /\ fault' = IF freed /\ tcount = 0 THEN "twice" ELSE fault
  /\ UNCHANGED <<pvars, tcount, loaded, orderly>>

rm_thread_ended(t) ==
  \/ Current(t, "end") /\ Load(t, "running", "ending", \A u \in Thread : life[u] # "new")
  \/ Store(t, "ending", "testing", loaded[t] - 1)
  \/ EndAndFree(t)

StartOrEnd(t) == rm_thread_started(t) \/ rm_thread_ended(t)

\* Between the two a thread makes its calls (rm_claim() first looks only at
\* ExistingRes, which is never freed).
InLibrary(t) ==
  /\ Running
  /\ life[t] = "running" /\ ~Current(t, "end")
  /\ Calls(t)
  /\ IF pc[t] = "started" THEN UNCHANGED lvars ELSE Use("thread")
  /\ UNCHANGED pvars

Woken(t) == Running /\ Spurious(t) /\ Use("thread") /\ UNCHANGED pvars

LibraryWrites == Running /\ Writes /\ Use("thread") /\ UNCHANGED pvars

-------------------------------------------------------------------------------
(* main() *)

\* rm_print_state() looks at tcount once and then reads every matrix.
MainPrints ==
  /\ Running
  /\ main.pc = "poll" /\ prints > 0
  /\ prints' = IF tcount = 0 \/ printing THEN prints - 1 ELSE prints
  /\ IF printing THEN Use("main") ELSE UNCHANGED lvars
  /\ printing' = (~printing /\ tcount # 0)
  /\ UNCHANGED avars

\* Does the next step of rm_detection() read a matrix?
DetectorReads ==
  \/ detector.pc \in {"available", "add"}
  \/ detector.pc = "scan" /\ detector.i \in Thread \ detector.finish

MainDetects ==
  /\ Running
  /\ prints = 0
  /\ MainPolls(tcount)
  /\ IF DetectorReads THEN Use("main") ELSE UNCHANGED lvars
  /\ UNCHANGED pvars

\* The state is printed before each poll, and after one that reports threads.
MainDetected ==
  /\ Running
  /\ MainPolled
  /\ prints' = (IF Reported = {} THEN 0 ELSE 1) + (IF main'.count < Polls THEN 1 ELSE 0)
  /\ UNCHANGED <<lvars, printing>>

MainEnds ==
  /\ Running
  /\ prints = 0
  /\ MainStopsPolling \/ MainJoins
  /\ UNCHANGED <<lvars, pvars>>

LMain == MainPrints \/ MainDetects \/ MainDetected \/ MainEnds

LNext ==
  \/ LMain \/ LibraryWrites
  \/ \E t \in Thread : StartOrEnd(t) \/ InLibrary(t) \/ Woken(t)

\* Every thread that can run is scheduled, main() included, and the mutex does
\* not pass a thread by for ever (others may take it in between: hence strong).
LFairness ==
  /\ WF_allvars(LMain)
  /\ WF_allvars(LibraryWrites)
  /\ \A t \in Thread : WF_allvars(StartOrEnd(t)) /\ SF_allvars(InLibrary(t))

LSpec == LInit /\ [][LNext]_allvars /\ LFairness

-------------------------------------------------------------------------------
(* Properties *)

AllEnded == \A t \in Thread : pc[t] = "ended"

\* If every thread starts before the first one ends, and neither starts nor ends
\* overlap, the count is right and the matrices live exactly as long as they
\* are needed (rm.c:187, 199).  Even then main() is not safe: it may look at
\* tcount and read on while the last thread frees (rm.c:431, 489).
OrderlyIsSafe ==
  orderly =>
    /\ (\A t \in Thread : life[t] \notin Counting) =>
         tcount = Cardinality({t \in Thread : life[t] = "running"})
    /\ freed \/ fault = "main" => AllEnded
    /\ AllEnded => freed
    /\ fault \in {"none", "main"}

\* With avoidance every thread gets through its program and main() past its joins,
\* unless the memory went away under a user: nothing else can stop them.
EveryoneFinishes ==
  <>((main.pc = "exit" /\ AllEnded) \/ fault # "none")

\* Whatever main() and the threads do, main() may hang, but then in its joins and
\* only because of a deadlock, unless the memory went away under a user.
HangsOnlyOnDeadlock ==
  <>(main.pc = "exit" \/ fault # "none" \/ (main.pc = "join" /\ Deadlocked # {}))
===============================================================================
