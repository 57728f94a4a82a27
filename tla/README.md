# Specifications of the cs342 projects

TLA+ models of the programs of this repository, the TLC runs that check them and
the TLAPS proofs about them. Line numbers refer to
`src/p3/22002379-22003430/` (`rm.c`, `app.c`, `myapp.c`),
`src/p2/22002379-22003430/` (`sched.c`, `readyqueue.c`, ...),
`src/p1/22002379-22003430/` and `src/p4/22002379-22003430-22001849/`.

## 1. The system

The repository holds four independent programs.

### p3: a resource manager library and two programs that use it

| | |
|---|---|
| State | matrices `available`, `maxDemand`, `allocation`, `need`, `requests` (rm.c:23-28); one `mutex` and one condition variable per thread; `tids[]`, `aliveThreads`, `tcount` |
| Operations | `rm_init`, `rm_thread_started`, `rm_claim`, `rm_request` (blocks), `rm_release` (wakes everybody), `rm_detection`, `rm_thread_ended`, `rm_print_state` |
| Interaction | `app.c` (2 threads, one type) and `myapp.c` (3 threads, five types) call the library from every thread, while `main()` polls `rm_detection()` and joins |
| Hard | blocking and re-judging after each wakeup; the banker's reduction; `rm_claim()` and `rm_detection()` work without the mutex; `is_state_safe()` tries a request out *in place*; the counter `tcount` and the freeing of the matrices are unlocked |
| Correct when | instances are conserved; with avoidance every state is safe and nobody gets stuck; no wakeup is lost; detection reports exactly the deadlocked threads; the programs end, or hang only because of a deadlock |

### p2: a multiprocessor scheduling simulator

| | |
|---|---|
| State | ready queues (doubly linked list, `size`, `queueLoad`, `mutex`), one queue of finished bursts, each burst's lengths |
| Operations | the main thread produces bursts from a file or at random (`parse_and_enqueue`, `sched_random`), picks a queue (single, in turn, least load), closes each queue with a marker (pid -1) and joins; each CPU thread takes a burst (FCFS, SJF, RR), "runs" it and returns or finishes it |
| Interaction | everything goes through the queues; each call of `enqueue`, `dequeue` and `dequeue_at` is made under the queue's mutex |
| Hard | with one queue several CPUs take, return and finish bursts at the same time; a CPU looks at `queue->head` *without* the mutex, twice, where the last burst may have gone or the node may have been freed in between; RR returns bursts to a queue that is closed meanwhile; the marker is the only thing that stops a CPU; the least-load scan reads each load up to twice without a mutex; an unknown algorithm leaves the CPUs with nothing to do and the mutex locked |
| Correct when | each burst is in one place and finishes once; the marker stays last; loads are sums; no queue is deserted while it holds bursts; with least load a burst goes to a queue with the least load; main gets past its joins |

`sched_cv.c` defines the same functions as `sched.c` with condition variables, and is linked
instead of it. There a CPU waits on the queue's condition variable without having locked the
mutex, unlocks it without having locked it, and is signalled only by the bursts of a file:
neither markers nor random bursts signal. `mps.c` turns the command line into the
simulation's properties.

### p1: top-K words with processes or with threads

| | |
|---|---|
| State | a shared memory segment (an offset, then slots of a word and a count), one word list per child; `threadtopk.c`: an array of results per thread |
| Operations | each child counts the words of one file, sorts, and copies its K most frequent words to the segment at the offset it reads once (proctopk.c:126) and then advances slot by slot (131, 134); the parent waits and merges N*K slots |
| Hard | the offset is read, and incremented, by all children without any synchronisation; a missing file leaves slots unwritten; the per-file top K do not determine the overall top K |
| Correct when | every child's words reach the parent once; what is printed are the K most frequent words |

### p4: memory information from /proc

| | |
|---|---|
| State | none of its own between calls; it reads `/proc/PID/maps`, `/proc/PID/pagemap`, `/proc/kpagecount` and `/proc/kpageflags` |
| Operations | one per command: count free frames, show a frame's flags, used memory, mappings of an address, a range, all pages, size of the page tables |
| Interaction | every read is a snapshot of one entry, while the process and the kernel go on |
| Hard | a process that faults, swaps, remaps, exits between two reads; the loops' last page; short reads; the numbering of the tables of each level |
| Correct when | the sums and lists are the kernel's if nothing changes; whatever changes, no page counts twice or outside the areas that were read; every table is counted once |

## 2. What is modelled

| Module | Models | Its relation to the code |
|---|---|---|
| `Banker` | the loop shared by `is_state_safe()` and `rm_detection()` | `Rounds` is the loop: `Fitting` its inner search, `Round` one round, `FirstOf` the first `i` found. `Held`, `Hopeless` and `Safe` are reference notions, not code |
| `ResourceAllocator` | what the library promises | abstract specification: claims, grants and returns, without matrices, queues or reduction |
| `ResourceManager` | rm.c between `rm_init()` and the last `rm_thread_ended()`; implements `ResourceAllocator` | one action per handler and outcome (`RequestRefused`, `RequestGranted`, `RequestBlocked`, `WokenGranted`, ...) |
| `RmDetection` | `rm_detection()` read by read | extends `ResourceManager`: each critical section decides in one step, and its writes reach `memory` one at a time, in the order of the code |
| `RmApps` | `app.c` and `myapp.c` | extends `RmDetection`: `Program[t]` is the list of calls of thread `t`, `main` is `main()` with its polls and joins |
| `RmLifecycle` | `rm_thread_started()`, `rm_thread_ended()`, `rm_print_state()` | extends `RmApps`: `tcount` is loaded and stored without the mutex, the thread that counts down to 0 frees the matrices, and `fault` says who used them, or freed them, afterwards |
| `MarkedSequence` | what a ready queue means | a sequence that a marker closes |
| `ReadyList` | what readyqueue.h promises | abstract specification of the queue |
| `ReadyQueue` | readyqueue.c | heads, tails, `next`, `prev`, allocation and freeing of nodes; implements `ReadyList` |
| `BurstPool` | what the simulation promises each burst | abstract specification: new, ready, on one CPU, finished |
| `TopK` | list.c and topk.c | operators on sequences of words with counts, and the reference `Best`, `Shows` |
| `TopKPrograms` | proctopk.c and threadtopk.c | `offset` and `memory` are the shared segment; a child reads the offset (`Locate`), copies a field (`Copy`) and advances the offset in a load and a store |
| `Scheduler` | sched.c | the producer and the CPU threads; implements `BurstPool` |
| `CommandLine` | mps.c | `Replace` is one turn of the loop over argv, `SchedPropsOf` what `schedule()` is called with. The instances of `Scheduler` and `SchedulerCv` are computed from command lines |
| `SchedulerCv` | sched_cv.c | extends `Scheduler`: the mutex and the condition variable are explicit, and a call of `enqueue` or `dequeue` starts in one step and ends in another |
| `PageTables` | the indices of `all_table_size()` | shifts and masks as divisions by the number of entries; `Span` and `TableOf` are reference notions |
| `Pvm` | pvm.c and mem_utils.c | one action per read of an entry, and the kernel's actions between them (`FaultIn`, `SwapOut`, `NewLayout`, `OthersShare`) |

`ResourceManager` variables are the arrays of the same names, `pc[t]` is where
thread `t` is (`waiting`: inside `pthread_cond_wait`; `woken`: signalled, on its way
back to the mutex) and `claim[t]` is the `rm_claim()` call in progress.
`Scheduler`'s `queues[i]` is the list of pids of queue `i`, `cpu[c]` and `main` hold the
program counters and locals of the threads, and `schedProps` the part of the
structure of that name which decides what happens.

### What is one step

* A critical section of `rm_request()` or `rm_release()` is one step of
  `ResourceManager`. All accesses of these functions to the matrices are under
  the mutex, and every other accessor is modelled separately: `rm_claim()` is one
  step per column (`need` and `maxDemand` of that column together), and `rm_detection()`,
  which sees the inside of critical sections, is the subject of `RmDetection`.
* `pthread_cond_wait()` is two steps, going to sleep and competing for the mutex
  again, and it may wake spuriously.
* In `Scheduler` one `enqueue` (lock, call, unlock), one take and one return of a
  burst are one step each. The look at the head is three: `TestHead` tests the pointer for NULL,
  `ReadHead` reads it again, `ReadPid` follows it. Another CPU may take the last burst in between, so that
  NULL is followed, or free the node: the pointer is `Stale`, and any pid may be read, or the process may
  crash. Nothing follows a crash, and the properties that speak of the end say so. The
  scan for the least loaded queue reads a load to compare it (`Compare`) and once more to note it (`Note`).
  In `SchedulerCv` taking, returning and producing are two steps each, because
  the mutex does not keep the threads apart. Its CPUs look at the head a second time behind the check of the size,
  where sched.c's hold the mutex; that look takes the same three steps.
* In `RmLifecycle` `tcount++` and `tcount--` are a load and a store; the test of `tcount` in
  `rm_thread_ended()` is a step of its own, together with the frees behind it.
* In `Pvm` each read of an entry of `pagemap` or `kpagecount` is a step, and so is each
  opening and reading of `maps`.
* In `TopKPrograms` every access of a child to the shared segment is one step: the read of
  the offset, each `memcpy()`, and the load and the store of each `+=`. Memory is
  counted in cells of 4 bytes, so that a slot that begins 64 bytes into another one is
  represented. Forking all children is part of `TInit`. `wait(processes[i])` passes a process
  number as the address of the status; the call still collects a child before
  it fails to write there, so the parent waits for all of them.

### What is abstracted

* Sleeping and printing only delay or show; they are left out, so that every
  interleaving is considered. Time stamps, turnaround times and averages too.
* `rm_thread_started()` of every thread is part of `Init` in `ResourceManager`: the threads have registered, and
  its `ThreadEnded` frees nothing. `RmLifecycle` starts the threads one by one, counts them and frees. Both
  programs are run with it; only `myapp_alarm`, which needs neither the count nor the frees, is a run of `RmApps`.
* `rm_detection()` in one step (`ResourceManager`) is what the reduction computes from one state of the matrices; the
  function as it is, unlocked and read by read, is in `RmDetection`. A `main()` that never polls has nobody to read between the
  writes of a critical section, and `RmApps` makes them at once then (`WriteAll`).
* Requests and claims are drawn from the sets `Requests` and `Claims`. A thread claims
  once, before anything else, as the programs do; a thread whose claim is rejected goes on, and
  every request of it is refused.
* A thread may end while it holds resources: rm_thread_ended() takes nothing back. The two
  programs never do it. `NotAllStuck` and `StuckIsDetected` say nothing of a state in which an
  ended thread kept something (`EndedTidily`): nobody is left to release what a waiting thread needs.
* A row of `need` half written by `rm_claim()` is visible between columns, but the
  reduction inside one `is_state_safe()` sees one state of it.
* A `pthread_mutex_destroy()` by a CPU that stops (sched.c:226) is left out.
* Where `malloc()` left a value that is none of the algorithms, `alg` is `"OTHER"`; the field may also hold one of
  the three by chance, and both are followed. `sap` left over is `"MULTI"` or `"SINGLE"`: `schedule()` tests for the latter only.
* `finishedQueue` (mps.c:149) is used as `malloc()` left it, head, size and mutex
  included. The model starts it empty, which is what the program relies on. A
  queue's `queueLoad`, uninitialised too, starts with any member of `Garbage`.
* Words of p1 are shorter than 64 bytes. What lies behind a word on the heap is copied with
  it; read as a word or a count it shows as something or as nothing, once for all slots. A
  new list's dummy head has a NULL `next` (list nodes come from fresh memory). The
  segment is a new one; what a crashed run left in it is not modelled, nor is the short
  `malloc()` of topk.c:14.
* A use of freed memory, a second free, two threads inside one list, and the use of what
  `dequeue()` returns for an empty list are undefined in C: the model records that it happened
  (`fault`) and stops there. Unlocking, or waiting with, a mutex that another thread holds is
  undefined too; the mutexes of the build have no owner, and the model sets them free.
* `argv` is a sequence of options with the right number of arguments; the argument of `-i` stands for
  what the file holds. The times of `-r` are constants of the instance.
* RR needs a positive quantum; `-s RR 0` never ends and is excluded by an assumption.
* In `Pvm` addresses are page numbers and sizes are numbers of pages, since areas begin and end at
  pages. `maps` is read at once: the layouts fit into a buffer. Counters do not overflow. All
  files but the process's own can be opened (the program asks to be run with sudo), and the bits
  that `frame_info()` prints are left out.

## 3. What is checked

| Run | Instance | What it shows |
|---|---|---|
| `resource_manager` (206,334 states) | 3 threads, types with 2 and 1 instances, claims of everything, of one of each, of one type only and of too much, every request, both avoid flags; a thread may end holding resources | with avoidance: every state safe, detection silent and, unless an ended thread kept something, somebody can always run; without: detection is exact against the definition by stuck *sets*, a deadlock is permanent, at a standstill everybody who waits is reported; with both: conservation, bookkeeping between handlers, no lost wakeup, and every step is one of the abstract allocator |
| `app_detect` (244,901) | app.c as it is with its starts, ends, prints, both flags, one poll | the process ends, hangs in its joins because of a deadlock, or has used freed memory; if all threads start before one ends and no two of these calls overlap, `tcount` is exact, the matrices are freed exactly when all have ended and only `main()` may read them too late; the poll, a sequence of reads, is exact when no critical section overlaps it |
| `myapp_avoid` (117,551) | myapp.c as it is with its starts and ends, flag 1; main() only joins | all three workers finish, or memory was used after it was freed; every worker gives back what it got although no result is checked and two calls of the first are refused |
| `myapp_alarm` | myapp.c, flag 1, one poll | *violation*: the branch commented "Should not happen" (myapp.c:223) happens |
| `ready_queue` | 4 bursts and the marker on 5 addresses | the list is well linked after any sequence of calls and implements `ReadyList` |
| `scheduler` (342,664) | nine command lines: 3 CPUs on one queue (RR with 2 bursts), 2 CPUs on one queue (SJF with 3), 2 CPUs with a queue each in turn (RR with 3, SJF from the random source with 3) and by least load (FCFS with 3, RR with 2, FCFS from the random source with 3), a word that names no algorithm, and a missing file; `queueLoad` starts at 0 or 2 | no burst is lost, doubled or deserted, queues are closed, loads stay off by what they started with, a file's burst goes to a least loaded queue (except with RR) though CPUs take bursts during the scan, everything ends, or crashes with a shared queue; without the file or an algorithm nothing ever ends |
| `least_load` | random bursts, 2 queues filled by least load | *violation*: a size compared with a load, and the burst goes to a queue that does not have the least |
| `scheduler_cv` (194,708) | six command lines for sched_cv.c: 2 CPUs on one queue (RR), one CPU (RR), a queue each by least load (FCFS) and in turn (SJF, random source), no algorithm, a missing file | unless two threads change one list at once, an empty list is used, the marker is run or a CPU crashes, the program ends with every burst done, or hangs only because the marker came over a sleeping CPU, or for want of the file or an algorithm; a signal lost before the wait delays the CPU only until its queue's next burst; a CPU never takes from its own queue when it is empty |
| `topk` | 2 files from 7 (missing, empty, up to 3 words in either case), K = 2, both programs | what is printed is the sum of the children's results whenever no two children copied at the same time; no race makes a child write behind the slots |
| `topk_race` | 2 files with the same two words | *violation*: racing for the offset, the children overwrite each other's words |
| `stop_stale` | 2 CPUs, one queue | *violation*: a CPU follows a freed head and stops although the queue is not done |
| `pvm` (511,715) | every command; two layouts (adjacent areas; areas apart, one beyond pagemap), two entries a table, three frames of which one has no count | exact while nothing changes; pages counted and listed at most once and within the areas whatever changes; tables counted exactly |

**Bounds.** Three threads are the fewest for which one is blocked while two others
interact (a grant to one making a sleeper servable, or a claim racing a
judgement). Two types with 2 and 1 instances give circular waits and partial
grants; one claim asks for 2 of the second type and is rejected, so that its
thread goes on with no claim. The programs' own runs use their real numbers. In the scheduler, lengths
1 and 3 with a quantum of 1 give bursts that finish at once and bursts that return
twice, so that a return after the marker happens; three CPUs on one
queue allow a stale head while two others take and return. Four nodes and the
marker reach every branch of readyqueue.c, the middle removal included.
`Garbage` is `{0, 2}`, so that two queues start apart by more than the shortest burst, and `{0}` where loads do not matter. In `topk` two children and two
words each reach every kind of overlap: the same slot, the next slot, 64 bytes into a slot.
Two threads that start and end reach every fault of `RmLifecycle`: a lost count, a free before the second thread
has started, a double free, a read by main after the free. In `SchedulerCv` all three faults and the
hang are reached; lengths 1 and 2 let RR return each burst once. In `pvm` two entries a
table (512 in the program, `Entries` in the proofs) make pages 0 to 21 differ in every digit; two
adjacent areas share an end and a start, the third area lies beyond `Readable`, and
frames counted 0, 1 and 2 tell free, exclusive and shared apart.

**Properties and mutants.** Each property of a passing run has a mutated definition
(named after the definition it stands in for, with a suffix, and commented "Slip")
that models a plausible mistake in the code; put in place of the original it makes
TLC find the property violated.

**Fairness.** `RmLifecycle`: weak fairness of `main()`, and of the writes of the thread that holds
the mutex: the operating system runs every runnable thread. Strong fairness of each thread's
calls, because a call needs the mutex, which others may take and give back in
between: a thread that competes for it again and again gets it some time. No fairness
for spurious wakeups. `Scheduler`: weak fairness of main and of each CPU. A
CPU's polling loop can always take a step, and what it needs is never taken away
for good (but by a CPU without an algorithm, which gets stuck with the mutex), so weak fairness is enough there. A mutex in `sched.c` is held only within a step.
In `RmLifecycle` starts and ends, which take no mutex, are weakly fair too. `SchedulerCv`: weak fairness of what main and a CPU do
without waiting for a mutex, strong fairness of locking one (another thread may hold it again and again), none for
spurious wakeups, so that a sleeper may sleep for ever. `Pvm` needs none: its properties are invariants.

**Deadlock** is checked wherever the system may not stop: `Terminated`, `Ended` and `Exited` are
the only states without a successor of their own. `RmApps` and `RmLifecycle` turn the check off (a process that
has exited, or hangs in a deadlock, stops). A `Scheduler` CPU that polls an empty queue (`Poll`), or waits for the mutex it holds (`Stuck`), changes no state.

## 4. What is proved

TLAPS checks all of it, for every value of the constants that the named assumptions allow. Every
safety invariant and action property that a passing run checks is also a theorem.

| Module | About | Assumptions |
|---|---|---|
| `ResourceManagerProofs` | the reduction, `ResourceManager`, its refinement | `SizeAssumption` (N and M positive), `RmAssumption` (counts are naturals, `DA` is 0 or 1) |
| `RmLifecycleProofs` | `RmDetection`, `RmApps`, `RmLifecycle`, app.c and myapp.c | also `ProgramAssumption` (the programs call the library with arrays of the sets it may be passed) |
| `MarkedSequenceProofs` | lemmas about queues as sequences: once in, sums, closing | `PidAssumption` |
| `ReadyQueueProofs` | readyqueue.c | also `QueueAssumption` (NULL is no node, the marker has no length) |
| `SchedulerProofs` | sched.c | `PidAssumption`, `SchedulerAssumption` (pids of bursts; RR has a positive quantum) |
| `SchedulerCvProofs` | sched_cv.c | the same |
| `TopKProofs` | topk.c, list.c and both programs of p1 | `TopKAssumption` (N and K positive, words are not empty) |
| `PvmProofs` | pvm.c and mem_utils.c | `PvmAssumption` (areas ascend and are not empty), `EntriesAssumption` |

### p3

*The reduction* (`ReductionExact`). `Rounds` always ends with `work` equal to the
initial counts plus what the finished threads held, and with nobody left who fits; so
whoever is unfinished is hopeless together with all the other unfinished threads, and
no member of a hopeless set ever finishes. Hence the unfinished threads are the union of all hopeless
sets, and all finish exactly when the state is `Safe` (`ReductionSafe`). Sums are recursive functions;
what they return is proved by counting up (`CountUp`) from a least counterexample
(`LeastNat`), since the induction theorems of the library take operator parameters.

*The invariant* is built in three layers, each used by the next:

1. `Inv1 == TypeOK /\ Bookkeeping`. That no count drops below zero needs more than the
   checks next to the subtractions: a thread that sleeps was checked against its
   need *before* it slept, so its request has to keep fitting (`requests[t] <= need[t]`);
   a claim that overwrites `need` is harmless only since the thread holds nothing and
   has claimed nothing in the columns to come.
2. `Inv2 == Inv1 /\ Conservation /\ NeedBalance`, by `HeldChange`: a grant or release
   moves one row of `allocation` against `available`.
3. `Inv3 == Inv2 /\ SafeState`. A grant was judged by `is_state_safe()`, which decides `Safe`
   (`StateSafeDecides`); a release only gives back (`SafeReturn`); a claimed column
   raises the need of a thread that holds nothing, which can finish last from
   everything that exists (`SafeNewcomer`, which uses `Conservation`).

From these follow `AvoidanceWorks` (a request is at most the need, so a safe
state has no deadlock), `SomeoneRuns`, `DetectionIsExact`, `StuckDetected` and `DeadlockStays`.
`NoWakeupLost` is an invariant of its own: only `rm_release()` signals, so one has to show
that no grant (`GrantServesNoSleeper`) and no claim (`ClaimServesNoSleeper`) makes a
sleeper servable. For the grant under avoidance this uses `SafeReturn` backwards in
time: if the sleeper could be served after the grant, it could have been served before,
when what was granted was still free.

*The refinement* (`ImplementsAllocator`) uses `Inv3` as well: a grant keeps what is promised within what
exists by `Conservation` (`InvFits`), and with avoidance everybody can finish in the abstract
sense since `need` is claim less allocation (`InvFinish`). A column of a claim, a grant and a
release each map to one abstract step, everything else to a stutter.

*The programs above the library.* `RmDetection`, `RmApps` and `RmLifecycle` only extend `ResourceManager`:
`DetectionIsHarmless` and `AppsUseLibrary` show that every behaviour of theirs is one of the
library, so that all of the above holds of them too.

* `QuietDetection` and `QuietPolls` rest on `DInv`: as long as no writer works, `memory` is what the
  matrices are (`MemInv`, which says of a writer in the middle what it has written so far), and
  a detector that nobody has disturbed has read a prefix of the matrices as they are now
  (`QuietInv`), so that its reduction is that of `ReductionExact`.
* `OrderlySafe` is about programs whose threads all start before one ends, and whose starts and ends do not overlap; it does not
  keep main() from reading what the last thread frees. It rests on `LInv`: a thread that is inside a start or an end holds a count that
  nobody has changed since, if no two of them overlap; then `tcount` is the number of threads
  that have started and not ended, and the matrices live while one of them may use them.
* `NothingLeft`: no result of a library call is checked in the programs, yet what a call returns depends on the thread's
  own claim and holdings alone (`CourseInv`: each thread is where its program, run alone, would be; it uses
  `NeedBalance`, since requests are judged by `need`). So a thread
  whose program returns everything when run alone (`Balanced`) returns everything. `AppReturnsAll` and
  `MyAppReturnsAll` show this for the calls of app.c and myapp.c as they are. The third request of myapp.c's
  worker 1 exceeds its claim and is refused, and so is the release meant to undo it: two failures that
  nobody notices cancel out.

### p2

`SchedulerProofs` is about any number of CPUs, bursts and command lines, any lengths and any garbage in
`queueLoad`.

* `TypesKept` and `MarkersStay` rest on `MInv`: types, the range of main's index, what a running CPU holds,
  and `Shape`, which says by where main is which queues are closed. `MarkersClose` alone is not inductive:
  that main closes only open queues has to be known. That RR's return keeps the marker last is
  `EnqueuedKeeps`, that a removal does is `WithoutKeeps`.
* `QueuesAreServed` rests on `Served`: each queue but a lone marker has a CPU that has not stopped *and* is not
  about to stop, that is, does not hold a stale head or a look at the marker. The CPU that makes another's
  head stale has just taken a burst, so it is the witness for the queue; this is why the stale
  read (`stop_stale`) never deserts one, unless it ends the process.
* `WorkIsDone` rests on `DoneInv`: each burst that was given is finished, running or queued, and a
  finished one has no time left. When main has joined, no CPU runs and, by `Served`, each queue is a lone marker.
* `EachInOnePlace` rests on `Apart`: no queue and no pair of places holds a burst twice. It needs that main
  gives a pid once and that RR returns the burst its CPU runs, which is nowhere else.
* `ImplementsPool`, the refinement of `BurstPool`, uses `Apart` too: a burst that is taken changes from ready to
  running only if no other queue or CPU has it.
* `LoadsAreSums` rests on `LoadsRight`: each `queueLoad` is off from the sum of its queue's lengths by what it was off at the
  start. What is subtracted is what was added, because the queues' elements are distinct (`Apart`).
* `ScanFindsLeast` (`LeastLoadOfFile`) rests on `Scanned`: `seen` is what the scan read of each queue, the last
  time it looked, and the queue noted so far has no more load than any of those looked at, less than those before it. What was noted may be
  out of date, but on the safe side: while main scans, loads only fall when the algorithm is not RR (`LoadsFall`). Two premises are part of the property: a
  file as source, since the random one compares a size with a load (`least_load`), and no RR, which returns
  a burst and may do so between the two reads of one load.

`SchedulerCvProofs`: a step of sched_cv.c is a step of sched.c's model, a change of its locks, signals and faults
only, or the return of a CPU to the top of its loop (the check of the size and the second look that follows; `CvTurns`). The invariants
that speak of sched.c's state alone are shown to bear that return (`AgainKeeps`), whence `CvWorkIsDone` and
`CvKeepsBursts`, although these mutexes do not keep the threads apart. This is no more than it says: where two threads
change one list, a list is empty or a marker is taken, the model stops, and nothing is claimed of what the program does then.
`CvTypesKept` and `CvOwnQueueHolds` are about what sched.c does not have. They rest on `CvInv`: a CPU with a queue of its own is
the only one that takes from it, so a head or a size it has seen stays until it takes.

`ReadyQueueProofs` is about any number of nodes and any calls. `QInv` says that there is a sequence of distinct allocated nodes
that `next` follows from the head and `prev` from the tail, whose pids are an abstract queue, and that
`queueLoad` sums up. For each branch of `insert`, `removeNode` and `sort()`, the proof
gives the new sequence of nodes. `PointersFormAList` and `ImplementsList` (the refinement of `ReadyList`) follow.

### p1

`NoneWritesBehind`: however many children race for the offset, none writes behind the N*K slots. That the
offset never exceeds N*K slots is not inductive, since a lost update *lowers* what is added. `TInv` compares everything with the sum
of what each child has so far tried to add: the offset, what a child has read of it to store back, and the place where
a child began (less what it added itself) are each at most that sum (or that of the other children). A child tries to add at most K slots.
The result is about `proctopk.c`; the slots of `threadtopk.c` are arrays of each thread's own.

`SumIsPrinted` (`PrintedIsSum`): if no two children copy at the same time, in whatever order they do, and for threads
always, what is printed are the K best words of the sum of the children's results. The argument has three parts.

* *What the list functions compute.* `sort()` compares every pair once, by rows: when it has taken the pairs
  up to some place, those taken are in order (`SortedSoFar`), and a swap moves entries without losing one (`SwapKeeps`), so that it ends
  with the same entries in order (`SortSorts`). `insertAll()` makes a list with one line per word, whose
  count is the sum of what was inserted (`InsertTables`, `InsertAllTables`); blank slots make one line of the empty word at
  most. The first K lines of such a list in order are the best words of its table, with their counts (`BestShown`).
* *What the parent reads.* `Laid(entries, r, base)` says that the slots hold the results `r`, each child's behind its
  `base`, no two at the same place, and nothing else. The count of a word in the list made of them is then the sum over the
  children of its count in their results, slot by slot (`MergedTable`): a child adds to it at one slot only (`ShareAdded`). With
  `BestShown` for the child and for the parent, `MergeShows` follows. The threads' results are laid, one behind the other
  (`ResultsLaid`).
* *That turns fill the slots.* `TInv` only bounds what is in the segment. For children that take turns `SerialInv` says
  exactly what is there: the words behind the children fill the first q slots, each child's from its base on, the
  child that copies (one at most) fills slot q+1 and has the offset right, and the cells after that are as they were allocated.
  Each of the five steps of a child keeps it (`StartSerial` to `StoreSerial`); when all have ended, the slots that the
  parent reads are laid (`SlotsLaid`). `WithinSlots` gives that slot q+1 is within the segment.

`PInv` joins these; only that nobody has overlapped *so far* is assumed, as the property does.

### p4

`IndexInArray` and `IndexIsTable` show for any number of entries per table that the index is within the
array and that two pages have the same index exactly when they use the same table
(by the uniqueness of digits). The rest of `PvmProofs` is about any layouts, frames and
commands, whatever the kernel does between the reads: `PvmTypes`; `NoPageTwice` (the invariant compares
the sum with the pages *passed* so far; the areas read are ascending, so the page behind one
area adds nothing and is passed with the next); `EachPageOnce`; `TablesCounted` (the marked entries are
the image of the pages passed under an index that is one to one on tables).

`ExactIfStill` (about `-freefc`, `-memused`, `-mapall` and `-mapallin`) rests on `StillInv`: while nothing has changed, the areas read are those of the process, `mem_used()` has counted the
pages of memory it has passed and holds the frame of its own page, `map()` has listed what it passed (areas
are left early only at pages without an entry: `SkipStep`), and `free_fc()` has counted the free frames below its place. A
counted page has a count of at least one because the kernel counts it there (`MappedIsCounted`, from `KernelOK`).

### Only model-checked

* Liveness, which is out of the prover's reach: `EveryoneFinishes`, `HangsOnlyOnDeadlock`, `EverythingEnds`,
  `HangsOnlyAsleep`, `NextBurstWakes`.
* The four disagreements (`stop_stale`, `least_load`, `myapp_alarm`, `topk_race`), which are counterexamples.

## 5. Disagreements found

* `rm_detection()` reads the matrices without the mutex (rm.c:438-465). It can report
  deadlocks under avoidance (`myapp_alarm`).
* A CPU dereferences `queue->head` outside the mutex (sched.c:35) after another may have
  freed it (`stop_stale`), or emptied the queue. `QueueServed` shows that at least no queue is deserted by it.
* A missing input file leaves every thread waiting for ever (sched.c:370), and so does a word that names no algorithm
  (mps.c:119): the second conjunct of `EverythingEnds`.
* The random source compares a queue's `size` with a load (sched.c:592), against sched.h:38 (`least_load`). For a file, RR may return a burst between
  the two reads of a load (sched.c:438, 441), and the queue chosen then need not be a least loaded one either.
* The children of proctopk.c race for the offset in shared memory (`topk_race`, proctopk.c:126-134).
* Two ending threads may both count `tcount` down before either tests it (rm.c:198-199): both free. A
  lost update, or a thread that ends before another has started, frees matrices in use. main() may use
  them after the last thread (rm.c:431, 489). `OrderlyIsSafe` says what is needed to avoid the first three and shows
  that the last happens even then.
* sched_cv.c (`SchedulerCv`): threads change a list at the same time, a CPU takes the marker for a burst or
  uses the NULL of an empty queue, and a CPU that sleeps when the marker arrives is never woken (`HangsOnlyAsleep`
  excepts exactly these). readyqueue.c:52 tests `!pid == -1`, which never holds, so that no marker is refused.
* pvm: `map_va()`, `pte()` and `map_range()` seek to the page number instead of 8 times it (mem_utils.c:248, 270, 303),
  print an entry that was not read if the read fails, and `map_range()` reads consecutive entries for every 16th page
  up to the end inclusive, where mem_utils.h:69-70 says the range [VA1, VA2), each page; `AtByte` has it.
  `fopen()`'s NULL is tested with `< 0` (112, 157). mem_utils.h:13-14 counts frames with the nopage flag as free and
  mem_utils.h:26 prints the mapping count: the code does neither. `ExactWhenStill` is about none of these: it says nothing of
  `-mapva`, `-pte` and `-maprange`, and of `-freefc` that it counts the frames with a count of 0.
* Seen while modelling, without a run of their own: `rm_detection()` overlapping a release can also
  miss a deadlock; `queueLoad` of the queues is never initialised (sched.c:247-254), so that the least loaded queue may be one of whatever `malloc()` left there; the K best words of each file
  do not determine the K best of all files, so that p1 prints too small counts when a file has more
  than K words (`PrintedIsSum` is about the sum of the results for that reason); with
  fewer than K words in all proctopk.c prints a line for the empty word of an unwritten slot
  (`Printed` leaves it out); `sched_random()` draws burst lengths with the
  parameters of the interarrival times (sched.c:562; `Lengths` has it).

## 6. Not modelled

* rm.c: `get_tid()` over entries that are never cleared (whether a `pthread_t` is used again is not up to
  the code; the model's threads know their row), negative counts and flags other than 0 and 1 in `rm_init()` (both
  programs pass constants), what `rm_print_state()` prints.
* p2: time stamps, averages and the output; `finishedQueue`'s uninitialised fields; the destruction of mutexes.
* p1: the heap (topk.c:14), words of 64 bytes and more, a segment left by a crashed run; the `int *` that
  threadtopk.c:49 passes to `getline()` as a `size_t *`, which writes over what lies behind `len`.
* p4: a layout that does not fit into a read buffer, the text of `maps`, the bits of a frame's flags.

## 7. Plan

Done, in this order: `Banker`, `ResourceManager`, their proofs, `RmDetection`,
`RmApps`, `MarkedSequence`, `ReadyList`, `ReadyQueue`, `BurstPool`, `Scheduler`, `TopK`, `TopKPrograms`; then
`ResourceAllocator` and its refinement, `RmLifecycle`, `CommandLine`, `SchedulerCv`, `PageTables`, `Pvm`, and the proofs about
the scheduler and p4; then the proofs about detection, programs and life cycle, the two refinements of p2, loads and scan,
sched_cv.c, readyqueue.c, the shared segment of p1 and the reports of pvm.

The last to be proved was `PrintedIsSum`. What is left is out of the prover's reach (section 4).
