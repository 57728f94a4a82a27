\* myapp.c with avoid flag 1; main() polls once before it joins.
CONSTANTS
  N = 3
  M = 5
  AvoidFlags = {1}
  ExistingRes <- MyAppExist
  Claims <- Claimed
  Requests <- Requested
  Program <- MyAppProgram
  Polls = 1
  JoinAlways = TRUE
SPECIFICATION PollingSpec
CHECK_DEADLOCK FALSE
INVARIANT ShouldNotHappen
