SPECIFICATION HubAndQueueSpec
CONSTANTS
  PoolSize <- TwoRequests
  Devices <- ThreeDevices
  Address = {1, 2}
  Reserved <- NoDevice
  Number <- Numbers
  Value = {a, b}
  Blank = a
  Capacity <- ThreeSlots
  MaxBuffer <- FourInBuffer
INVARIANTS
  NeverDeaf
