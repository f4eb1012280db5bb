SPECIFICATION FairSpec
CONSTANTS
  c1 = c1
  Clients <- MCClients
  MaxRequests <- MCMaxRequests
  MaxGiveUps <- MCMaxGiveUps
  Threads <- MCThreads
  Calls <- MCCalls
  DbSize <- MCDbSize
  RedisSize <- MCRedisSize
INVARIANTS
  TypeOK
  NothingLeaks
  Unstarved
  AnswersHonest
PROPERTIES
  AllAnswered
