SPECIFICATION Spec
CONSTANTS
  self = self
  other = other
  NodeHash = self
  Hashes <- MCHashes
  ClockMod = 3
  MaxUptime = 4
  MaxTransmits = 1
  MaxPathLength = 2
  DelayQueueSize = 2
  MinDelayThreshold = 1
  RxDelays = {0}
  SlotTime = 2
  Slots = {0, 1}
  Packets <- MCPackets
  MaxAccepted = 3
INVARIANTS
  TypeOK
  EveryPacketOnce
  CountersAgree
  QueueSorted
  AirtimeWithinUptime
PROPERTIES
  RetryKeepsPacket
  NeverEarly
  DueIsSent
CHECK_DEADLOCK FALSE
