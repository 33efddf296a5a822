SPECIFICATION FairSpec
CONSTANTS
  Conn <- TwoConnections
  Digits <- TwoCodes
  Attempts = 3
  MaxIssues = 2
  MaxBindFailures = 1
  MaxRestarts = 1
INVARIANTS
  SlotIsOneSession
  CodePairsOnce
  TriesBounded
  OneListener
PROPERTIES
  WithdrawnForCause
  KeepsListening
