SPECIFICATION Spec
CONSTANTS
  Kinds = {1, 2}
  Sizes = {1, 3}
  Tids = 3
  HeadBytes = 6
  BlockBytes = 6
  TxBlocks = 3
  RxBlocks = 3
  DriverSize = 3
  Timeout = 0
  ClockSpan = 10
  MaxTransfers = 5
  MaxLosses = 1
  MaxTicks = 1
  MaxPendingParams = 1
  MaxPendingRequests = 1
  FieldBits = 1
  WireBits = 2
  RealBits = 1
  FineBits = 1
  BoolBits = 2
  Desired = {1, 3}
  MinValue = 0
  MaxValue = 0
  MaxRequests = 2
  MaxUpdates = 1
  capacity = 3
  Lengths = {0, 3}
  ChunkLengths = {1, 2}
  kFileReservedPosition = 9
  MaxInFlight = 2
  MaxSends = 8
  MaxReboots = 1
  ByteBits = 4
  FirstBytes = 1
  NextBytes = 3
  HeadSize = 2
  BlockSize = 6
  MaxPayload = 18
  BitLengths = {1, 3, 4, 6, 8, 11, 16}
INVARIANTS PoolIsWhole LossIsLocal  AnswersAreHonest UploadIsWhole ScalarsSurvive
PROPERTY ImplementsLossyFifo
CHECK_DEADLOCK FALSE
