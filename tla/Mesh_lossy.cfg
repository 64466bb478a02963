SPECIFICATION Spec
CONSTANTS
  a = a
  b = b
  c = c
  d = d
  x = x
  y = y
  Repeaters = {a, b, c}
  Clients = {x, y}
  Links <- RingLinks
  Hashes = {1, 2, 3, 4}
  HashOf <- OwnHash
  Originals <- OneOfEach
  MaxPathLength = 3
  CacheSize = 2
  QueueSize = 2
  MaxSent = 2
  Forgetful = TRUE
  Reliable = FALSE
INVARIANTS
  TypeOK
  PathIsRoute
  FloodPathLoopFree
  HopsInOrder
PROPERTIES
  TrafficDiesOut
CHECK_DEADLOCK FALSE
