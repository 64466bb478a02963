SPECIFICATION TransmitterSpec
CONSTANTS
  ClockMod = 5
  MaxUptime = 12
  MaxTransmits = 5
INVARIANT NoSilencePeriod
CHECK_DEADLOCK FALSE
