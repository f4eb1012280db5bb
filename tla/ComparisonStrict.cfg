SPECIFICATION CSpec
CONSTANTS
  Requests <- MCRequests
  ApiMeans <- MCApiMeans
  MicroMeans <- MCMicroMeans
  MaxCount <- MCMaxCount
INVARIANTS
  StrictSkipsIncomplete
