---------------------------- MODULE MCSchedulerCv -----------------------------
(* Command lines and small workloads for the simulator with sched_cv.c. *)
EXTENDS SchedulerCv, MCScheduler

CvRuns ==
  Runs({<<Queues("S", "NA"), Order("RR", 1), File(2)>>,
        <<Threads(1), Order("RR", 1), File(3)>>,
        <<Queues("M", "LM"), Order("FCFS", 0), File(2)>>,
        <<Order("SJF", 0), Random(2)>>,
        <<Threads(1), Order("FIFO", 1), File(1)>>,
        <<Order("FCFS", 0), File(NoSuchFile)>>})

OneOrTwo == {1, 2}
Two      == {2}
===============================================================================
