SPECIFICATION FairSpec
CONSTANTS
  c1 = c1
  c2 = c2
  k1 = k1
  Clients <- MCClients
  Connections <- MCConnections
  MaxCommands <- MCMaxCommands
INVARIANTS
  TypeOK
  PoolConserved
  NeverExhausted
  OwnReplies
  InStep
PROPERTIES
  CallsReturn
