SPECIFICATION Spec
CONSTANTS
  ClockMod = 5
  MaxUptime = 8
  Contents = {c1, c2}
  MaxPath = 1
  CacheSize = 2
  CacheTimeout = 2
  MaxSilence = 2
  MaxDuplicates = 2
CONSTRAINT FewDuplicates
INVARIANTS
  TypeOK
  LiveHashesDistinct
PROPERTIES
  DropsExactlyTheRecentlySeen
CHECK_DEADLOCK FALSE
