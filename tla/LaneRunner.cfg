SPECIFICATION Spec
CONSTANTS
  Lanes <- MCLanes
  Cells <- MCCells
INVARIANTS
  TypeOK
  CellsBracketed
  ServerStopped
PROPERTIES
  ImplementsLane
  RunEnds
