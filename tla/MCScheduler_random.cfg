\* Two queues filled by least load, and random bursts: sizes compared with loads.
CONSTANTS
  Pid <- MCPid
  Props <- RandomLeastLoad
  BurstLengths <- Short
  InterarrivalTimes <- Long
  Garbage <- Zeroed
SPECIFICATION SSpec
INVARIANT LeastLoad
