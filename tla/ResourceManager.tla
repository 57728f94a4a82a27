---------------------------- MODULE ResourceManager ----------------------------
(***************************************************************************)
(* p3's library rm.c between rm_init() and the last rm_thread_ended(): the *)
(* claim, request and release handlers called by N threads that synchronise*)
(* with one mutex and one condition variable per thread.                   *)
(*                                                                         *)
(* A critical section is one step, because every access rm_request() and   *)
(* rm_release() make to the matrices is under the mutex.  rm_claim() takes *)
(* no lock, so it is one step per column and interleaves with the others.  *)
(* A thread that waits on its condition variable is "waiting"; a signal (or*)
(* a spurious wakeup) makes it "woken", and it then competes for the mutex *)
(* to run its while loop once more.                                        *)
(***************************************************************************)
EXTENDS Banker

CONSTANTS ExistingRes,  \* instances of each resource type, from rm_init()
          AvoidFlags,   \* what rm_init()'s caller may ask for
          Claims,       \* the arrays a thread may pass to rm_claim()
          Requests      \* the arrays a thread may request and release

ASSUME RmAssumption ==
  /\ ExistingRes \in Vector
  /\ AvoidFlags \subseteq {0, 1}
  /\ Claims \subseteq Vector
  /\ Requests \subseteq Vector

VARIABLES DA,     \* 1: avoid deadlocks, 0: only check availability
          available, allocation, need, maxDemand, requests,
          pc,     \* where each thread is
          claim   \* the rm_claim() call in progress: its array and next column

matrices == <<available, allocation, need, maxDemand, requests>>
vars     == <<DA, available, allocation, need, maxDemand, requests, pc, claim>>

NoClaim == [vector |-> Zero, col |-> 0]

\* rm_init() followed by the rm_thread_started() of every thread.
Init ==
  /\ DA \in AvoidFlags
  /\ available  = ExistingRes
  /\ allocation = [t \in Thread |-> Zero]
  /\ need       = [t \in Thread |-> Zero]
  /\ maxDemand  = [t \in Thread |-> Zero]
  /\ requests   = [t \in Thread |-> Zero]
  /\ pc         = [t \in Thread |-> "started"]
  /\ claim      = [t \in Thread |-> NoClaim]

-------------------------------------------------------------------------------
(* rm_claim(): checked against ExistingRes, then written column by column. *)

ClaimRejected(t, c) ==
  /\ pc[t] = "started"
  /\ ~arrLessThan(c, ExistingRes)
  /\ pc' = [pc EXCEPT ![t] = "idle"]
  /\ UNCHANGED <<matrices, claim>>

ClaimAccepted(t, c) ==
  /\ pc[t] = "started"
  /\ arrLessThan(c, ExistingRes)
  /\ pc' = [pc EXCEPT ![t] = "claiming"]
  /\ claim' = [claim EXCEPT ![t] = [vector |-> c, col |-> 0]]
  /\ UNCHANGED matrices

ClaimColumn(t) ==
  LET col == claim[t].col
      c   == claim[t].vector
  IN  /\ pc[t] = "claiming"
      /\ maxDemand' = [maxDemand EXCEPT ![t][col] = c[col]]
      /\ need' = [need EXCEPT ![t][col] = c[col]]
      /\ IF col = M-1
           THEN /\ pc' = [pc EXCEPT ![t] = "idle"]
                /\ claim' = [claim EXCEPT ![t] = NoClaim]
           ELSE /\ pc' = pc
                /\ claim' = [claim EXCEPT ![t].col = col + 1]
      /\ UNCHANGED <<available, allocation, requests>>

-------------------------------------------------------------------------------
(* rm_request() *)

is_available(req) == arrLessThan(req, available)

\* Slip: the request leaves available but is not added to the caller's row.
is_state_safe_OldRow(t, req) ==
  Finished(Minus(available, req), allocation, need) = Thread

\* Slip: the state before the request is judged.
is_state_safe_OldState(t, req) ==
  Finished(available, allocation, need) = Thread

\* The state with the request granted, judged by the reduction over need.
is_state_safe(t, req) ==
  Finished(Minus(available, req),
           [allocation EXCEPT ![t] = Plus(@, req)],
           [need EXCEPT ![t] = Minus(@, req)]) = Thread

\* The negation of the two while conditions.
CanAllocate(t, req) ==
  /\ DA = 0 => is_available(req)
  /\ DA = 1 => is_state_safe(t, req) /\ is_available(req)

Admissible(t, req) ==
  /\ arrLessThan(req, need[t])
  /\ arrLessThan(req, ExistingRes)

\* Slip: need keeps the granted request.
Allocate_NeedKept(t, req) ==
  /\ available'  = Minus(available, req)
  /\ allocation' = [allocation EXCEPT ![t] = Plus(@, req)]
  /\ need'       = need
  /\ requests'   = [requests EXCEPT ![t] = Zero]

\* Slip: the request that was granted stays recorded.
Allocate_RequestKept(t, req) ==
  /\ available'  = Minus(available, req)
  /\ allocation' = [allocation EXCEPT ![t] = Plus(@, req)]
  /\ need'       = [need EXCEPT ![t] = Minus(@, req)]
  /\ requests'   = [requests EXCEPT ![t] = req]

Allocate(t, req) ==
  /\ available'  = Minus(available, req)
  /\ allocation' = [allocation EXCEPT ![t] = Plus(@, req)]
  /\ need'       = [need EXCEPT ![t] = Minus(@, req)]
  /\ requests'   = [requests EXCEPT ![t] = Zero]

RequestRefused(t, req) ==
  /\ pc[t] = "idle"
  /\ ~Admissible(t, req)
  /\ UNCHANGED vars

RequestGranted(t, req) ==
  /\ pc[t] = "idle"
  /\ Admissible(t, req)
  /\ CanAllocate(t, req)
  /\ Allocate(t, req)
  /\ UNCHANGED <<maxDemand, pc, claim>>

\* Slip: the thread goes to sleep without recording what it waits for.
RequestBlocked_NotRecorded(t, req) ==
  /\ pc[t] = "idle"
  /\ Admissible(t, req)
  /\ ~CanAllocate(t, req)
  /\ pc' = [pc EXCEPT ![t] = "waiting"]
  /\ UNCHANGED <<available, allocation, need, maxDemand, requests, claim>>

RequestBlocked(t, req) ==
  /\ pc[t] = "idle"
  /\ Admissible(t, req)
  /\ ~CanAllocate(t, req)
  /\ requests' = [requests EXCEPT ![t] = req]
  /\ pc' = [pc EXCEPT ![t] = "waiting"]
  /\ UNCHANGED <<available, allocation, need, maxDemand, claim>>

\* pthread_cond_wait() may return without a signal.
SpuriousWakeup(t) ==
  /\ pc[t] = "waiting"
  /\ pc' = [pc EXCEPT ![t] = "woken"]
  /\ UNCHANGED <<matrices, claim>>

\* Slip: "if" in place of "while" around pthread_cond_wait().
WokenGranted_NoRecheck(t) ==
  /\ pc[t] = "woken"
  /\ Allocate(t, requests[t])
  /\ pc' = [pc EXCEPT ![t] = "idle"]
  /\ UNCHANGED <<maxDemand, claim>>

WokenGranted(t) ==
  /\ pc[t] = "woken"
  /\ CanAllocate(t, requests[t])
  /\ Allocate(t, requests[t])
  /\ pc' = [pc EXCEPT ![t] = "idle"]
  /\ UNCHANGED <<maxDemand, claim>>

WokenBlocked(t) ==
  /\ pc[t] = "woken"
  /\ ~CanAllocate(t, requests[t])
  /\ pc' = [pc EXCEPT ![t] = "waiting"]
  /\ UNCHANGED <<matrices, claim>>

-------------------------------------------------------------------------------
(* rm_release(), and the end of a thread *)

\* Slip: the wake-up loop stops one condition variable short.
Signalled_MissesLast ==
  [t \in Thread |-> IF pc[t] = "waiting" /\ t < N-1 THEN "woken" ELSE pc[t]]

\* pthread_cond_signal() on every cvs[i].
Signalled == [t \in Thread |-> IF pc[t] = "waiting" THEN "woken" ELSE pc[t]]

\* Slip: a release is held against the claim, not against what is allocated.
Released_AgainstClaim(t, rel) ==
  /\ pc[t] = "idle"
  /\ arrLessThan(rel, maxDemand[t])
  /\ available'  = Plus(available, rel)
  /\ allocation' = [allocation EXCEPT ![t] = Minus(@, rel)]
  /\ need'       = [need EXCEPT ![t] = Plus(@, rel)]
  /\ pc'         = Signalled
  /\ UNCHANGED <<maxDemand, requests, claim>>

\* Slip: the instances go back to available but stay allocated as well.
Released_KeepsAllocation(t, rel) ==
  /\ pc[t] = "idle"
  /\ arrLessThan(rel, allocation[t])
  /\ available' = Plus(available, rel)
  /\ need'      = [need EXCEPT ![t] = Plus(@, rel)]
  /\ pc'        = Signalled
  /\ UNCHANGED <<allocation, maxDemand, requests, claim>>

Released(t, rel) ==
  /\ pc[t] = "idle"
  /\ arrLessThan(rel, allocation[t])
  /\ available'  = Plus(available, rel)
  /\ allocation' = [allocation EXCEPT ![t] = Minus(@, rel)]
  /\ need'       = [need EXCEPT ![t] = Plus(@, rel)]
  /\ pc'         = Signalled
  /\ UNCHANGED <<maxDemand, requests, claim>>

ReleaseRefused(t, rel) ==
  /\ pc[t] = "idle"
  /\ ~arrLessThan(rel, allocation[t])
  /\ UNCHANGED vars

\* rm_thread_ended() touches no matrix: what the thread holds stays allocated.
ThreadEnded(t) ==
  /\ pc[t] = "idle"
  /\ pc' = [pc EXCEPT ![t] = "ended"]
  /\ UNCHANGED <<matrices, claim>>

-------------------------------------------------------------------------------
(* rm_detection(), run while no other thread is inside the library. *)
Deadlocked == Thread \ Finished(available, allocation, requests)

rm_detection == Cardinality(Deadlocked)

-------------------------------------------------------------------------------
\* Every thread has ended; the library is idle for good.
Terminated ==
  /\ \A t \in Thread : pc[t] = "ended"
  /\ UNCHANGED vars

Call(t) ==
  \/ \E c \in Claims : ClaimRejected(t, c) \/ ClaimAccepted(t, c)
  \/ ClaimColumn(t)
  \/ \E req \in Requests :
        RequestRefused(t, req) \/ RequestGranted(t, req) \/ RequestBlocked(t, req)
  \/ SpuriousWakeup(t)
  \/ WokenGranted(t)
  \/ WokenBlocked(t)
  \/ \E rel \in Requests : Released(t, rel) \/ ReleaseRefused(t, rel)
  \/ ThreadEnded(t)

\* Only rm_init() sets DA.
ThreadStep(t) == Call(t) /\ UNCHANGED DA

Next == (\E t \in Thread : ThreadStep(t)) \/ Terminated

Spec == Init /\ [][Next]_vars

-------------------------------------------------------------------------------
(* Properties *)

PC == {"started", "claiming", "idle", "waiting", "woken", "ended"}

\* Every count stays a natural number: no handler overdraws available, an
\* allocation or a need (rm_request() and rm_release() subtract in place).
TypeOK ==
  /\ DA \in {0, 1}
  /\ available \in Vector
  /\ allocation \in [Thread -> Vector]
  /\ need \in [Thread -> Vector]
  /\ maxDemand \in [Thread -> Vector]
  /\ requests \in [Thread -> Vector]
  /\ pc \in [Thread -> PC]
  /\ claim \in [Thread -> [vector : Vector, col : 0 .. M-1]]

\* No instance is created or lost: what is free and what the threads hold add
\* up to what exists, however requests and releases interleave.
Conservation ==
  \A r \in Res : available[r] + Held(allocation, Thread, r) = ExistingRes[r]

\* A thread's need is always its claim less what it holds, and no claim
\* exceeds what exists: the banker's arithmetic never drifts.
NeedBalance ==
  \A t \in Thread, r \in Res :
    /\ need[t][r] + allocation[t][r] = maxDemand[t][r]
    /\ maxDemand[t][r] <= ExistingRes[r]

\* What the handlers take for granted of each other: a request that sleeps still
\* fits the claim when it is granted, rm_detection() sees no stale request, a
\* thread holds nothing before it has claimed, and a claim in progress only
\* raises the need the others are judged by.
Bookkeeping ==
  \A t \in Thread :
    /\ arrLessThan(requests[t], need[t])
    /\ pc[t] \notin {"waiting", "woken"} => requests[t] = Zero
    /\ pc[t] \in {"started", "claiming"} => allocation[t] = Zero
    /\ arrLessThan(claim[t].vector, ExistingRes)
    /\ pc[t] = "started" => claim[t] = NoClaim
    /\ pc[t] \in {"started", "claiming"} =>
         \A r \in Res : r >= claim[t].col => need[t][r] = 0

\* With avoidance every reachable state is safe, although rm_claim() adds
\* demand without the lock while others already hold resources.
SafeState == DA = 1 => Safe(available, allocation, need)

\* No wakeup is lost: a thread asleep in pthread_cond_wait() could not be
\* served now.  rm_release() is the only call that signals, so neither a grant
\* nor a claim nor the end of a thread may ever make a sleeper servable.
NoLostWakeup ==
  \A t \in Thread : pc[t] = "waiting" => ~CanAllocate(t, requests[t])

\* Every thread that has ended has returned what it held.
EndedTidily == \A t \in Thread : pc[t] = "ended" => allocation[t] = Zero

\* What avoidance is for: while someone waits, some thread still runs, if
\* threads release what they hold before they end.
NotAllStuck ==
  DA = 1 /\ EndedTidily /\ (\E t \in Thread : pc[t] = "waiting")
    => \E t \in Thread : pc[t] \notin {"waiting", "ended"}

\* rm_detection() reports exactly the threads of the stuck sets: the greedy
\* pass neither misses a deadlocked thread nor reports one that can proceed.
DetectionExact ==
  Deadlocked =
    UNION {D \in SUBSET Thread : Hopeless(available, allocation, requests, D)}

\* With avoidance rm_detection() never finds a deadlock.
AvoidanceLeavesNoDeadlock == DA = 1 => rm_detection = 0

\* A deadlock is permanent: no later claim, grant, release or wakeup frees a
\* thread rm_detection() has once reported.
DeadlockIsForever == [][Deadlocked \subseteq Deadlocked']_vars

\* Detection complements blocking: with no avoidance, when no thread can run
\* any more and none has taken resources to its end, all who wait are reported.
StuckIsDetected ==
  DA = 0 /\ EndedTidily /\ (\A t \in Thread : pc[t] \in {"waiting", "ended"})
    => Deadlocked = {t \in Thread : pc[t] = "waiting"}
-------------------------------------------------------------------------------
Allocator == INSTANCE ResourceAllocator
               WITH Capacity <- ExistingRes, avoid <- DA, held <- allocation, claimed <- maxDemand

\* The library keeps its promise: whatever a step does to waiting threads and
\* matrices, to its callers it is a claim, a grant that fits and with avoidance
\* leaves everybody able to finish, a return, or nothing.
ImplementsResourceAllocator == Allocator!Spec
===============================================================================
