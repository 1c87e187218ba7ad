SPECIFICATION Spec
CONSTANTS
  Files <- MCFiles
  Printers <- MCPrinters
  Colours <- MCColours
  Pauses <- MCPauses
  MaxEdits = 1
CHECK_DEADLOCK FALSE
INVARIANT ScanComplete
INVARIANT PrintsFromMappedSlot
INVARIANT PausesInPlace
