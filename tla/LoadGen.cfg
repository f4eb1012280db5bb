SPECIFICATION FairSpec
CONSTANTS
  w1 = w1
  w2 = w2
  Workers <- MCWorkers
  MaxAttempts <- MCMaxAttempts
INVARIANTS
  TypeOK
  EveryAttemptCounted
  SampleLedger
  LoadIsolated
PROPERTIES
  ImplementsMeasurement
  Terminates
