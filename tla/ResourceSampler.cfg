SPECIFICATION Spec
CONSTANTS
  Cells <- MCCells
  Shapes <- MCShapes
  MaxSamples <- MCMaxSamples
INVARIANTS
  TypeOK
  OneLateSample
  SummaryExplained
PROPERTIES
  RunGoesOn
