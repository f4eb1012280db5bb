SPECIFICATION Spec
CONSTANTS
  MaxClock <- MCMaxClock
  MaxRuns <- MCMaxRuns
  MaxPublish <- MCMaxPublish
INVARIANTS
  PipelineDelivers
  WebsiteCurrent
  PublishedCurrent
CHECK_DEADLOCK FALSE
