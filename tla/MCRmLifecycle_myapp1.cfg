\* myapp.c with avoid flag 1; main() joins without polling.
CONSTANTS
  N = 3
  M = 5
  AvoidFlags = {1}
  ExistingRes <- MyAppExist
  Claims <- Claimed
  Requests <- Requested
  Program <- MyAppProgram
  Polls = 0
  JoinAlways = TRUE
SPECIFICATION LSpec
CHECK_DEADLOCK FALSE
INVARIANT NothingLeftBehind
PROPERTY EveryoneFinishes
