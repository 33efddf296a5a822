SPECIFICATION Spec
CONSTANTS
  jan = jan
  feb = feb
  Column <- TwoColumns
  PerCell = TRUE
  Device <- ThreeDevices
  Hub = 1
  Row <- EachRow
  DerivedRow <- Derived
  CellRow <- Celled
  FixedRow <- Fixed
  World <- SmallWorlds
  MaxTime = 3
  MaxFailures = 1
SYMMETRY Months
INVARIANTS
  DiskMatchesLog
  DeletedRowStaysDeleted
  PrefixPerDevice
  BatchIsAccepted
PROPERTIES
  EditOutranksWhatItSaw
  HistoriesAreKept
CHECK_DEADLOCK FALSE
