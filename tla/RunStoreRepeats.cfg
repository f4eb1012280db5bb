SPECIFICATION Spec
CONSTANTS
  r1 = r1
  r2 = r2
  RunIds <- MCRunIds
  Lanes <- MCLanes
  MaxInvocations <- MCMaxInvocations
SYMMETRY Symmetry
INVARIANTS
  RepeatsDistinct
CHECK_DEADLOCK FALSE
