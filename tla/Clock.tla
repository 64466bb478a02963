------------------------------- MODULE Clock -------------------------------
(***************************************************************************)
(* The time every component reads through millis(): an unsigned counter of *)
(* milliseconds that returns to 0 after ClockMod - 1 (2^32 on the board).  *)
(* uptime is the true time since boot; no code reads it.                   *)
(***************************************************************************)
EXTENDS Naturals

CONSTANTS ClockMod,     \* 2^32 in the firmware
          MaxUptime     \* bound of a TLC run: the clock stops here

ASSUME ClockAssumption ==
    /\ ClockMod \in Nat \ {0}
    /\ MaxUptime \in Nat

VARIABLES uptime, millis

clockVars == <<uptime, millis>>

\* A counter that does not wrap.
PlusUnbounded(t, d) == t + d

\* uint32_t addition and subtraction of values below ClockMod.
Plus(t, d) == IF t + d < ClockMod THEN t + d ELSE (t + d) - ClockMod
Since(t) == IF millis >= t THEN millis - t ELSE (millis + ClockMod) - t

ClockTypeOK == uptime \in Nat /\ millis \in 0..(ClockMod - 1)

ClockInit == uptime = 0 /\ millis = 0

Tick == /\ uptime < MaxUptime
        /\ uptime' = uptime + 1
        /\ millis' = Plus(millis, 1)

\* Before the counter first returns to 0 it is the true time.
ClockIsTrue == uptime < ClockMod => millis = uptime
============================================================================
