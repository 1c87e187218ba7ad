SPECIFICATION RequestSpec
CONSTANTS
  Archives <- MCArchives
  Requests <- MCRequests
  Volume <- MCVolume
  MaxFaces = 20
  Template <- MCTemplate
  Profiles <- MCProfiles
  Tokens <- MCTokens
  FilamentKeys <- MCFilamentKeys
  FilamentIndexKeys <- MCFilamentIndexKeys
  TempKeys <- MCTempKeys
  Scene <- MCScene
  MaxStrokes = 2
  MaxSwitches = 1
  MaxSaves = 2
  MaxResends = 1
  Focus = {"input"}
CHECK_DEADLOCK FALSE
INVARIANT PaintDecoded
