\* The linked list against the sequence it stands for.
CONSTANTS
  Pid <- MCPid
  Node <- MCNode
  NULL <- MCNULL
  burstLength <- MCLength
SPECIFICATION QSpec
INVARIANT WellLinked
PROPERTY ImplementsReadyList
