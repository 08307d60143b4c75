SPECIFICATION TransferSpec
CONSTANTS
  Kinds = {1, 2}
  Sizes = {1, 3}
  Tids = 3
  HeadBytes = 6
  BlockBytes = 6
  TxBlocks = 3
  RxBlocks = 3
  DriverSize = 3
  Timeout = 0
  ClockSpan = 10
  MaxTransfers = 5
  MaxLosses = 1
  MaxTicks = 1
PROPERTY StateOutlivesCallback
CHECK_DEADLOCK FALSE
