SPECIFICATION Spec
CONSTANTS
  Client = {c1}
  Proxy = proxy
  PoolSize <- TwoRequests
  MaxFields <- TwoFields
  DeviceFields <- OneField
  MaxRetries <- OneRetry
  Numbers <- AllNumbers
  Threads <- TwoThreads
  MaxCalls <- OneCall
  MaxLives <- NoLife
INVARIANTS
  PoolNeverOverflows
CHECK_DEADLOCK FALSE
