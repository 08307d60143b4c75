SPECIFICATION FairSpec
CONSTANTS
  MaxTx <- TwoBytes
  MaxRx <- TwoBytes
  MaxRounds <- ThreeStamps
PROPERTY StuckBusRecovers
