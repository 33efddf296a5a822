SPECIFICATION Spec
CONSTANTS
  Hub = 1
  Phone <- TwoPhones
  Row <- OneRow
  Casts <- PairingOrPaired
  HubLoses <- Upserts
  MaxTime = 3
  MaxResets = 3
INVARIANTS
  HubTakesNoPrivateData
  ReliableLogDescribesRows
  ProvenMeansSameHistory
PROPERTIES
  ReplyCompletesPhone
CHECK_DEADLOCK FALSE
