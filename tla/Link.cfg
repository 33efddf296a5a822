SPECIFICATION Spec
CONSTANTS
  MaxCalls = 2
  MaxFaults = 2
INVARIANTS
  NobodyWaitsForNothing
  NothingUnexpected
  PhoneDoneMeansHubDone
  ReasonReachesPhone
CHECK_DEADLOCK FALSE
