SPECIFICATION Spec
CONSTANTS
  Jobs = {j1}
  MaxPolls = 2
  MaxLost = 2
  Pages = {"home", "detail", "manage"}
  MaxChanges = 2
  MaxDrops = 2
  MaxLoads = 3
  Focus = {"jobs", "printer"}
CHECK_DEADLOCK FALSE
PROPERTY FinishedShown
PROPERTY ExpiryNoticed
PROPERTY GapIsRead
