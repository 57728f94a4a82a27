\* Nine command lines: shared queues and a queue per CPU, all algorithms and none, no file.
CONSTANTS
  Pid <- MCPid
  Props <- AllRuns
  BurstLengths <- Short
  InterarrivalTimes <- Long
  Garbage <- LeftBehind
SPECIFICATION SSpec
INVARIANTS STypeOK OnePlace MarkersClose LoadIsSum QueueServed AllDoneAtEnd LeastLoadOfFile
PROPERTIES ImplementsBurstPool EverythingEnds
