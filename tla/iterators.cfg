SPECIFICATION Spec
CONSTANTS
  Keys = {1, 2, 3}
  SstEntries = 2
  MaxEntries = 2
  Layouts <- AllLayouts
  ScanBounds <- MiddleBounds
INVARIANTS ScanExact GetExact GenerateExact
CHECK_DEADLOCK FALSE
