SPECIFICATION Spec
CONSTANTS
  Outputs = {o1}
  Stages = {s1}
  Mappings = {m1}
  Garbled = Garbled
  Requests = {r1, r2}
  Klippers = {klipper}
  Bambus = {bambu}
  Bambuddies = {}
  NoPrinter = NoPrinter
  NoMapping = NoMapping
  MaxEvents = 1
  MaxSteps = 2
INVARIANT AsRequested
INVARIANT TempHasOwner
SYMMETRY Symmetry
CHECK_DEADLOCK FALSE
