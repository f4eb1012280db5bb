SPECIFICATION Spec
CONSTANTS
  Lanes <- MCLanes
  Cells <- MCCells
INVARIANTS
  SuccessStopsServer
