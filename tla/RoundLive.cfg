SPECIFICATION FairSpec
CONSTANTS
  Hub = 1
  Phone <- OnePhone
  Row <- OneRow
  Casts <- PairedAgain
  HubLoses <- Upserts
  MaxTime = 4
  MaxResets = 4
PROPERTIES
  EventuallyInSync
CHECK_DEADLOCK FALSE
