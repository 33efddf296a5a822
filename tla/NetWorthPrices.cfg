SPECIFICATION Spec
CONSTANTS
  Device <- TwoDevices
  Name = {a, b}
  Page <- InvestmentsPage
  MaxParts = 1
  MaxBusy = 1
  MaxRequests = 3
  Faulty <- SecondDevice
  MaxFailures = 0
PROPERTIES
  AssetShowsItsOwnPrice
CHECK_DEADLOCK FALSE
