SPECIFICATION Spec
CONSTANTS
  ClockMod = 3
  MaxUptime = 3
  EpochMod = 16
  Second = 2
  Tolerance = 2
  MaxNeighbors = 2
  MaxSamples = 3
  NodeHashes <- MCHashes
  QueueSize = 2
  QueueItems <- MCItems
  BlockSize = 4
  MacSize = 2
  MaxMessageLen = 18
  MaxPayload = 40
  MaxPrivateChannels = 3
  KeyHexLength = 32
  ConfiguredKeys <- MCKeys
  ChannelHash <- MCHash
  CommandWords <- MCCommandWords
  TargetWords <- MCTargetWords
  AllWord = "@all"
  HashWords <- MCHashWords
  NumberWords <- MCNumbers
  Frame <- MCFrame
  FrameOf <- MCFrameOf
  NodeHash = 7
  HashWord = "07"
  MeantForUs <- MCMeantForUs
  MaxReasonable = 2
  EntryRoom = 10
  Words <- MCWords
  NUL = NUL
  Scenarios <- MCScenarios
INVARIANTS
  TypeOK
  TableSound
  ListedByStrength
  TimeRuns
  ReplyReadable
  SleepNeverOverstated
PROPERTIES
  QueueIsFifo
  OnlyWeakestLeaves
  NowFollowsRemote
  DuplicatesIgnored
  CommandsHeeded
  WorkGetsDone
CHECK_DEADLOCK FALSE
