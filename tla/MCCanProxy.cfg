SPECIFICATION Spec
CONSTANTS
  Client = {c1, c2}
  Proxy = proxy
  PoolSize <- TwoRequests
  MaxFields <- TwoFields
  DeviceFields <- OneField
  MaxRetries <- OneRetry
  Numbers <- AllNumbers
  Threads <- OneThread
  MaxCalls <- OneCall
  MaxLives <- NoLife
INVARIANTS
  Ownership
  Accounting
  ReadyIsComplete
SYMMETRY Alike
CHECK_DEADLOCK FALSE
