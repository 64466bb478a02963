SPECIFICATION Spec
CONSTANTS
  a = a
  b = b
  c = c
  d = d
  x = x
  y = y
  Repeaters = {a, b, c}
  Clients = {x}
  Links <- TriangleLinks
  Hashes = {1, 2, 3, 4}
  HashOf <- OwnHash
  Originals <- DirectOnly
  MaxPathLength = 3
  CacheSize = 4
  QueueSize = 3
  MaxSent = 1
  Forgetful = FALSE
  Reliable = TRUE
PROPERTIES
  DirectArrives
CHECK_DEADLOCK FALSE
