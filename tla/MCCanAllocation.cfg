SPECIFICATION AllocationSpec
CONSTANTS
  Devices = {1, 2}
  Boards = {"b1", "b2"}
  BoardOf <- OneEach
  HubAddress = 4
  FirstAddress = 5
  Entries = 2
  NodeSlots = 3
  AllocTimeout = 1
  MinInterval = 2
  MaxInterval = 2
  PurgeTimeout = 1
  Prompt = FALSE
  InboxSize = 1
  MaxAsks = 3
  MaxFaults = 1
INVARIANTS
  UniqueAddresses
  HoldersAreListed
  ObserverIsTold
CHECK_DEADLOCK FALSE
