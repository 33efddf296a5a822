SPECIFICATION Spec
CONSTANTS
  Device <- TwoDevices
  Hub = 1
  Label = {a, b}
  Salary = Salary
  Other = Other
  Income = Income
  ReferenceCurrency = ReferenceCurrency
  RateMode = RateMode
  Page <- AllPages
  MaxRequests = 2
  MaxFailures = 1
  MaxStarts = 3
INVARIANTS
  ApplyTwiceAddsNothing
  NoTemplateMasksAnother
  IncomeIsSum
  LogTellsLedger
  AssetSharesItsId
  RepairIsForGood
  OriginalsAreKept
PROPERTIES
  StartOutranksNoPeer
SYMMETRY LabelSymmetry
CHECK_DEADLOCK FALSE
