CONSTANTS
    ClockMod = 5
    MaxUptime = 7
    MaxTransmits = 1
    Tags = {0, 1}
    RateLimit = 3
    DedupTimeout <- DedupTimeouts
    ResponseDelays = {0, 2}
    RetryDelay = 1
    MaxRequests = 2
SPECIFICATION Spec
INVARIANT TypeOK
PROPERTIES ResponsesApart NeverBeforeItsTime
CHECK_DEADLOCK FALSE
