SPECIFICATION FairSpec
CONSTANTS
  MaxTx <- TwoBytes
  MaxRx <- TwoBytes
  MaxRounds <- ThreeStamps
INVARIANTS
  TypeOK
  NoOverrun
  AtMostOneCallback
  OkMeansMoved
  FreshResult
PROPERTIES
  CleanExchangeCompletes
  NoInterruptStorm
