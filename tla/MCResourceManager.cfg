\* Three threads, two and one instances of two resource types, either avoid flag.
CONSTANTS
  N = 3
  M = 2
  AvoidFlags = {0, 1}
  ExistingRes <- TwoTypes
  Claims <- ClaimsTwo
  Requests <- RequestsTwo
SPECIFICATION Spec
INVARIANTS TypeOK Conservation NeedBalance Bookkeeping SafeState NoLostWakeup NotAllStuck AvoidanceLeavesNoDeadlock DetectionExact StuckIsDetected
PROPERTIES DeadlockIsForever ImplementsResourceAllocator
