SPECIFICATION Spec
CONSTANTS
  MaxFaults = 2
  MaxRequests = 2
  MaxEvents = 2
INVARIANT MutuallyExclusive
CHECK_DEADLOCK FALSE
