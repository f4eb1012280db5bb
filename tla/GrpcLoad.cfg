SPECIFICATION Spec
CONSTANTS
  w1 = w1
  w2 = w2
  deadlineExceeded = deadlineExceeded
  unexpectedResponse = unexpectedResponse
  Workers <- MCWorkers
  Errors <- MCErrors
  MaxAttempts <- MCMaxAttempts
INVARIANTS
  TypeOK
  ErrorsExplained
PROPERTIES
  ImplementsMeasurement
  Terminates
