\* Two CPUs share one queue: stopping over a freed head.
CONSTANTS
  Pid <- MCPid
  Props <- SharedQueue
  BurstLengths <- Short
  InterarrivalTimes <- Long
  Garbage <- Zeroed
SPECIFICATION SSpec
PROPERTY StopsWhenDone
