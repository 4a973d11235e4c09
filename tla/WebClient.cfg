SPECIFICATION WebSpec
CONSTANTS
  riya = riya
  dev = dev
  e1 = e1
  DemoUser <- MCDemoUser
  Admin <- MCAdmin
  Manager = riya
  DemoExpense <- MCDemoExpense
  NoOne = NoOne
  None = None
  MaxCalls = 12
  MaxUnderway = 3
  MaxSession = 2
INVARIANT ShownIsGenuine
CHECK_DEADLOCK FALSE
