SPECIFICATION Spec
CONSTANTS
  RxSize = 2
  TxSize = 1
  ReadLength = 1
  MaxRxBytes = 2
  MaxTxBytes = 2
  MaxRestarts = 1
  Mailboxes = 2
  FifoDepth = 1
  CanRxSize = 1
  CanTxSize = 2
  MaxRxFrames = 3
  MaxTxFrames = 4
  MaxErrors = 1
  QueueSize = 3
  PacketSize = 2
  MaxHostBytes = 4
  MaxCdcBytes = 5
  MaxConfigs = 2
  TaskSlots = 2
  MaxTasks = 4
  kReloadValue = 7
  prescaler = 2
  Second = 5
  MaxReloads = 4
  MaxLength = 2
  MaxChained = 1
  MaxBytes = 4
  WordsOf <- TwoAndOne
  Layouts <- TwoLayouts
  RegionWords = 6
  PageWords = 3
  MaxEdits = 2
  MaxStores = 2
  MaxBadCells = 1
  MaxPowerCuts = 1
  kPageSize = 2
  kBlock64kbSize = 2
  kSizeLimit = 6
  MaxQspiCalls = 2
  kStartCharacter = 2
  limit = 2
  Payloads <- TwoMessages
  MaxFrames = 2
  MaxNoise = 2
  MaxCut = 3
  Devices = {1, 2}
  Boards = {"board"}
  BoardOf <- SameBoard
  HubAddress = 4
  FirstAddress = 5
  Entries = 2
  NodeSlots = 3
  AllocTimeout = 1
  MinInterval = 2
  MaxInterval = 2
  PurgeTimeout = 2
  Prompt = TRUE
  InboxSize = 3
  MaxAsks = 1
  MaxFaults = 1
  ShortResolution = 3
  LongResolution = 7
  AllPeriods = {0, 1, 5}
  Plans <- FourPlans
  Frequency = 1
  Hclk = 4
  MaxStarts = 1
  ApbClocks = {8000, 48000, 54000, 216000}
  Rates = {10, 100, 400}
  DataTimes = {0, 250, 3750}
  Pins = {0, 1, 5, 6}
  MaxEdges = 3
  Channels = 2
  Samples = 5
  MaxScans = 7
  MaxAdcStarts = 2
  Slots = 3
  HubAt = 1
  NodeAddresses = {1, 2, 3}
  StatusFlags = {"a", "b"}
  StatusPeriod = 2
  OfflineTimeout = 6
  MaxStatusTime = 9
  MaxLost = 3
  HashSize = 6
  WordSize = 2
  Makes <- SomeDevices
  ListCapacity = 3
  ListValues = {"a", "b"}
INVARIANTS DoneMeansMoved StorageSurvivesCrash FramesSurviveCuts TimingIsRight NodesTellTheTruth
PROPERTIES TimeIsMonotone DriversImplementLossyFifo ListIsAList NothingWaitsForEver
CHECK_DEADLOCK FALSE
