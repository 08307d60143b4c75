SPECIFICATION FairSpec
CONSTANTS
  Client = {c1}
  Proxy = proxy
  PoolSize <- OneRequest
  MaxFields <- OneField
  DeviceFields <- OneField
  MaxRetries <- OneRetry
  Numbers <- AllNumbers
  Threads <- OneThread
  MaxCalls <- TwoCalls
  MaxLives <- OneLife
INVARIANTS
  Accounting
  OwnLifeAnswers
PROPERTIES
  CallsEnd
  InitialisationEnds
CHECK_DEADLOCK FALSE
