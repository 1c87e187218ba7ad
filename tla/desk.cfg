SPECIFICATION Spec
CONSTANTS
  Kinds = {"moonraker", "bambu", "bambuddy"}
  Unknown = Unknown
  MaxChanges = 1
  MaxDrops = 1
  Jobs = {j1}
  Tabs = {t1}
  MaxItems = 1
  MaxPresses = 2
  MaxRepeats = 1
  MaxEvents = 3
CHECK_DEADLOCK FALSE
INVARIANT QueuedUntilSent
PROPERTY StatusCatchesUp
