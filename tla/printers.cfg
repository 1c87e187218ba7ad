SPECIFICATION Spec
CONSTANTS
  Adapters = {a1, a2, a3}
  NoAdapter = NoAdapter
  Kinds = {"moonraker", "bambuddy", "bambu"}
  Calls = {c1, c2}
  MaxConsecutiveRetries = 1
INVARIANT NoForgottenPrinter
INVARIANT DeletedStaysGone
INVARIANT OrphansAreTold
INVARIANT ConnectReturns
SYMMETRY Symmetry
