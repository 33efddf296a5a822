SPECIFICATION Spec
CONSTANTS
  jan = jan
  feb = feb
  Column <- TwoColumns
  PerCell = TRUE
  Device <- ThreeDevices
  Hub = 3
  Row <- EachRow
  DerivedRow <- Derived
  CellRow <- Celled
  FixedRow <- Fixed
  World <- DerivedWorld
  MaxTime = 3
  MaxFailures = 0
SYMMETRY Months
INVARIANTS
  LocalWinnerIsOnDisk
CHECK_DEADLOCK FALSE
