SPECIFICATION Spec
CONSTANTS
  Files <- MCFiles
  HistoryLimit = 2
  MaxFresh = 7
  MaxSteps = 4
CHECK_DEADLOCK FALSE
INVARIANT HistoryBounded
INVARIANT SlicesOwnPlate
PROPERTY LateAnswersKeepWork
PROPERTY NoOrphanLeft
PROPERTY SelectionFollows
INVARIANT AllListed
