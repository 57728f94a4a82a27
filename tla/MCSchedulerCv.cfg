\* Six command lines for the simulator with condition variables.
CONSTANTS
  Pid <- MCPid
  Props <- CvRuns
  BurstLengths <- OneOrTwo
  InterarrivalTimes <- Two
  Garbage <- Zeroed
SPECIFICATION CSpec
INVARIANTS CTypeOK AllDoneAtEnd 
PROPERTIES HangsOnlyAsleep NextBurstWakes
