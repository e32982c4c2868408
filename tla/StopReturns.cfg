SPECIFICATION FairSpec
CONSTANTS
  MaxPolls = 3
  MaxId = 3
  Top = 3
  Vaillants = {2}
  Parts = 2
  MaxDevices = 2
  ScanLimit = 2
  MaxStartup = 1
  Own <- MCOwn
  MaxItems = 2
  Threshold = 2
  SignalSize = 1
  ProtocolSize = 1
  Intervals = {1, 2}
  PollTo = {2}
  Reliable = {2}
  Budgets <- RestartBudgets
  MaxLate = 2
PROPERTY StopReturns
CHECK_DEADLOCK FALSE
