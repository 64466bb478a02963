SPECIFICATION Spec
CONSTANTS
  a = a
  b = b
  c = c
  d = d
  x = x
  y = y
  Repeaters = {a, b, c, d}
  Clients = {x, y}
  Links <- KiteLinks
  Hashes = {1, 2, 3, 4}
  HashOf <- OwnHash
  Originals <- FloodAndTrace
  MaxPathLength = 2
  CacheSize = 4
  QueueSize = 6
  MaxSent = 2
  Forgetful = FALSE
  Reliable = TRUE
INVARIANTS
  ForwardedOnce
PROPERTIES
  FloodCoversMesh
  TraceArrives
CHECK_DEADLOCK FALSE
