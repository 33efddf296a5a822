SPECIFICATION Spec
CONSTANTS
  Self = 1
  RemoteEntry <- MCRemoteEntry
  MaxMs = 2
  MaxCounter = 1
  MaxWall = 1
  MaxChanges = 2
  MaxDamage = 1
INVARIANTS
  ClockCoversFile
  OneChangePerKey
  SentIsPrefix
  LossIsFlagged
