------------------------------ MODULE TimeSync ------------------------------
(***************************************************************************)
(* core/TimeSync.cpp: the time of day a node has without a clock of its    *)
(* own, learned from the messages it can read and carried on by millis().  *)
(* syncedEpoch = 0 stands for "never synced"; times are uint32_t seconds.  *)
(***************************************************************************)
EXTENDS Clock, Integers

CONSTANTS EpochMod,       \* 2^32
          Second,         \* 1000, the milliseconds in a second
          Tolerance       \* 5, the seconds a remote clock may be behind

ASSUME TimeSyncAssumption ==
    /\ EpochMod \in Nat \ {0}
    /\ Second \in Nat \ {0}
    /\ Tolerance \in Nat
    /\ 2 * Tolerance < EpochMod
    /\ ClockMod \div Second < EpochMod

VARIABLES syncedEpoch, syncedMillis,
          syncedAt       \* ghost: uptime at the last synchronisation

timeVars == <<syncedEpoch, syncedMillis, syncedAt>>

Epoch == 0..(EpochMod - 1)

TimeTypeOK == /\ syncedEpoch \in Epoch
              /\ syncedMillis \in 0..(ClockMod - 1)
              /\ syncedAt \in 0..uptime

TimeInit == syncedEpoch = 0 /\ syncedMillis = 0 /\ syncedAt = 0

\* A faulty now() that reads the clock without what it showed at the sync.
NowFromBoot == IF syncedEpoch = 0 THEN (millis \div Second) % EpochMod
                                  ELSE (syncedEpoch + millis \div Second) % EpochMod

\* now()
Now == IF syncedEpoch = 0
       THEN (millis \div Second) % EpochMod
       ELSE (syncedEpoch + Since(syncedMillis) \div Second) % EpochMod

\* The difference of two uint32_t times, and as an int32_t.
Ahead(a, b) == (a - b) % EpochMod
SignedAhead(a, b) == IF Ahead(a, b) < EpochMod \div 2 THEN Ahead(a, b)
                                                      ELSE Ahead(a, b) - EpochMod

\* A faulty test that accepts only a time ahead.
FollowsAheadOnly(remote) ==
    remote # 0 /\ (syncedEpoch = 0 \/ SignedAhead(remote, Now) > 0)

\* The test of updateFromRemote().
Follows(remote) ==
    /\ remote # 0
    /\ \/ syncedEpoch = 0
       \/ SignedAhead(remote, Now) > 0
       \/ SignedAhead(remote, Now) < -Tolerance

\* updateFromRemote()
UpdateFromRemote(remote) ==
    IF Follows(remote)
    THEN syncedEpoch' = remote /\ syncedMillis' = millis /\ syncedAt' = uptime
    ELSE UNCHANGED timeVars

----------------------------------------------------------------------------
\* From one synchronisation to the next the time runs with the uptime, as long
\* as the next comes before millis() has gone once around (49.7 days), also
\* when millis() returns to 0 in between; after that it would jump back.
TimeRuns ==
    syncedEpoch # 0 /\ uptime - syncedAt < ClockMod =>
       Now = (syncedEpoch + (uptime - syncedAt) \div Second) % EpochMod
============================================================================
