\* app.c with either avoid flag; main() polls once.
CONSTANTS
  N = 2
  M = 1
  AvoidFlags = {0, 1}
  ExistingRes <- AppExist
  Claims <- Claimed
  Requests <- Requested
  Program <- AppProgram
  Polls = 1
  JoinAlways = FALSE
SPECIFICATION LSpec
CHECK_DEADLOCK FALSE
INVARIANTS OrderlyIsSafe QuietDetectionExact
PROPERTY HangsOnlyOnDeadlock
