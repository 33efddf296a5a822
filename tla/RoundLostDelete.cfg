SPECIFICATION Spec
CONSTANTS
  Hub = 1
  Phone <- OnePhone
  Row <- OneRow
  Casts <- StaysPaired
  HubLoses <- Deletes
  MaxTime = 3
  MaxResets = 2
INVARIANTS
  SameLogSameRows
CHECK_DEADLOCK FALSE
