----------------------------- MODULE MCScheduler ------------------------------
(* Command lines and small workloads for the simulator. *)
EXTENDS Scheduler, CommandLine

Threads(n)     == Option("-n", <<n>>)
Queues(s, q)   == Option("-a", <<s, q>>)
Order(a, q)    == Option("-s", <<a, q>>)
File(bursts)   == Option("-i", <<bursts>>)
Random(bursts) == Option("-r", <<bursts>>)

Runs(lines) == UNION {SchedPropsOf(argv) : argv \in lines}

\* Shared queues, queues filled in turn and by least load, with every algorithm and
\* either source; -r beats -i, a later option an earlier one, one algorithm is none,
\* and the last file does not exist.
AllRuns ==
  Runs({<<Threads(3), Queues("S", "NA"), Order("RR", 1), File(2)>>,
        <<Queues("S", "NA"), Order("SJF", 0), File(3)>>,
        <<Order("RR", 1), File(3)>>,
        <<Queues("M", "LM"), Order("RR", 1), File(3), Order("FCFS", 0)>>,
        <<Queues("M", "LM"), Order("RR", 1), File(2)>>,
        <<Queues("M", "LM"), Order("FCFS", 0), Random(3)>>,
        <<Order("SJF", 0), File(2), Random(3)>>,
        <<Order("FIFO", 1), File(2)>>,
        <<Order("RR", 1), File(NoSuchFile)>>})

\* The default source with queues filled by least load.
RandomLeastLoad == Runs({<<Queues("M", "LM"), Order("FCFS", 0), Random(3)>>})

SharedQueue == Runs({<<Queues("S", "NA"), Order("FCFS", 0), File(2)>>})

MCPid  == 1 .. 4
Short  == {1, 3}
Long   == {2, 4}
Zeroed  == {0}
LeftBehind == {0, 2}
===============================================================================
