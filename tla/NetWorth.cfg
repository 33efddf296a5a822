SPECIFICATION Spec
CONSTANTS
  Device <- TwoDevices
  Name = {a, b}
  Page <- AllPages
  MaxParts = 1
  MaxBusy = 1
  MaxRequests = 3
  Faulty <- SecondDevice
  MaxFailures = 1
INVARIANTS
  LogTellsTables
  AssetIsValuedOnce
SYMMETRY NameSymmetry
CHECK_DEADLOCK FALSE
