------------------------- MODULE TransmitterProofs -------------------------
(***************************************************************************)
(* The transmitter's airtime account, for every clock width: the proof     *)
(* follows the counter through its wrap-around.                            *)
(***************************************************************************)
EXTENDS Transmitter, Integers, TLAPS

LEMMA ClockType ==
    ASSUME ClockTypeOK, NEW d \in Nat, d < ClockMod, ClockMod \in Nat \ {0}
    PROVE  Plus(millis, d) \in 0..(ClockMod - 1)
BY DEF ClockTypeOK, Plus

LEMMA TickStep ==
    ASSUME ClockTypeOK, ClockIsTrue, ClockMod \in Nat \ {0}, Tick
    PROVE  ClockTypeOK' /\ ClockIsTrue' /\ uptime' >= uptime
BY DEF ClockTypeOK, ClockIsTrue, Tick, Plus

\* The transmitter's own steps keep its types.
LEMMA TransmitterSteps ==
    ASSUME ClockTypeOK, TxTypeOK, ClockMod \in Nat \ {0},
           Transmit \/ RadioReports \/ ResetStats
    PROVE  TxTypeOK'
<1>1. CASE Transmit
  <2>1. transmitting' \in BOOLEAN
    BY <1>1, Zenon DEF Transmit
  <2>2. /\ txStartTime' = millis
        /\ transmitCount' = transmitCount + 1 /\ transmits' = transmits + 1
        /\ nextAllowedTxTime' = nextAllowedTxTime
        /\ failureCount' = failureCount
        /\ totalAirtimeMs' = totalAirtimeMs
    BY <1>1 DEF Transmit
  <2> QED BY <2>1, <2>2 DEF TxTypeOK, ClockTypeOK
<1>2. CASE OnTxDone
  <2>1. transmitting' \in BOOLEAN
    BY <1>2, Zenon DEF OnTxDone
  <2>2. Since(txStartTime) \in 0..(ClockMod - 1)
    BY DEF Since, TxTypeOK, ClockTypeOK
  <2>3. Plus(totalAirtimeMs, Since(txStartTime)) \in 0..(ClockMod - 1)
    BY <2>2 DEF Plus, TxTypeOK
  <2>4. /\ totalAirtimeMs' = Plus(totalAirtimeMs, Since(txStartTime))
        /\ nextAllowedTxTime' = millis
        /\ txStartTime' = txStartTime
        /\ transmitCount' = transmitCount /\ transmits' = transmits
        /\ failureCount' = failureCount
    BY <1>2 DEF OnTxDone
  <2> QED BY <2>1, <2>3, <2>4 DEF TxTypeOK, ClockTypeOK
<1>3. CASE OnTxTimeout
  <2>1. transmitting' \in BOOLEAN
    BY <1>3, Zenon DEF OnTxTimeout
  <2>2. /\ failureCount' = failureCount + 1
        /\ nextAllowedTxTime' = nextAllowedTxTime
        /\ txStartTime' = txStartTime
        /\ transmitCount' = transmitCount /\ transmits' = transmits
        /\ totalAirtimeMs' = totalAirtimeMs
    BY <1>3 DEF OnTxTimeout
  <2> QED BY <2>1, <2>2 DEF TxTypeOK
<1>4. CASE ResetStats
  <2>1. transmitting' \in BOOLEAN
    BY <1>4, Zenon DEF ResetStats, TxTypeOK
  <2>2. /\ transmitCount' = 0 /\ failureCount' = 0 /\ totalAirtimeMs' = 0
        /\ transmits' = transmits
        /\ txStartTime' = txStartTime
        /\ nextAllowedTxTime' = nextAllowedTxTime
    BY <1>4 DEF ResetStats
  <2> QED BY <2>1, <2>2 DEF TxTypeOK
<1> QED BY <1>1, <1>2, <1>3, <1>4 DEF RadioReports
OnAir == IF transmitting THEN Since(txStartTime) ELSE 0

AirInv == TransmitterTypeOK /\ AirtimeWithinUptime

LEMMA SinceType ==
    ASSUME TransmitterTypeOK
    PROVE  Since(txStartTime) \in 0..(ClockMod - 1) /\ OnAir \in 0..(ClockMod - 1)
BY ClockAssumption DEF TransmitterTypeOK, ClockTypeOK, TxTypeOK, Since, OnAir

\* The time on the air so far grows by at most the tick that passed.
LEMMA SinceTick ==
    ASSUME TransmitterTypeOK, Tick, txStartTime' = txStartTime
    PROVE  Since(txStartTime)' <= Since(txStartTime) + 1
BY ClockAssumption DEF TransmitterTypeOK, ClockTypeOK, TxTypeOK, Since, Tick, Plus

LEMMA AirStep ==
    ASSUME AirInv, [TransmitterNext]_<<clockVars, txVars>>
    PROVE  AirInv'
<1>1. /\ uptime \in Nat /\ millis \in 0..(ClockMod - 1)
      /\ totalAirtimeMs \in 0..(ClockMod - 1)
      /\ txStartTime \in 0..(ClockMod - 1)
      /\ nextAllowedTxTime \in 0..(ClockMod - 1)
      /\ transmitting \in BOOLEAN
      /\ transmitCount \in Nat /\ failureCount \in Nat /\ transmits \in Nat
  BY Zenon DEF AirInv, TransmitterTypeOK, ClockTypeOK, TxTypeOK
<1>2. /\ Since(txStartTime) \in 0..(ClockMod - 1)
      /\ OnAir \in 0..(ClockMod - 1)
      /\ totalAirtimeMs + OnAir <= uptime
  BY SinceType DEF AirInv, AirtimeWithinUptime, OnAir
<1>3. CASE Tick /\ UNCHANGED txVars
  <2>1. /\ uptime' = uptime + 1 /\ millis' \in 0..(ClockMod - 1)
    BY <1>1, <1>3, ClockAssumption DEF Tick, Plus
  <2>2. TransmitterTypeOK'
    BY <1>1, <1>3, <2>1 DEF TransmitterTypeOK, ClockTypeOK, TxTypeOK, txVars
  <2>3. /\ transmitting' = transmitting /\ totalAirtimeMs' = totalAirtimeMs
        /\ txStartTime' = txStartTime
    BY <1>3 DEF txVars
  <2>4. Since(txStartTime)' <= Since(txStartTime) + 1
    BY <1>3, <2>3, SinceTick DEF AirInv
  <2>5. Since(txStartTime)' \in Int
    BY <1>1, <2>1, <2>3, ClockAssumption DEF Since
  <2>6. OnAir' <= OnAir + 1 /\ OnAir' \in Int
    <3>1. CASE transmitting
      BY <2>3, <2>4, <2>5, <3>1 DEF OnAir
    <3>2. CASE ~transmitting
      BY <2>3, <3>2 DEF OnAir
    <3> QED BY <3>1, <3>2
  <2>7. AirtimeWithinUptime'
    BY <1>1, <1>2, <2>1, <2>3, <2>6 DEF AirtimeWithinUptime, OnAir
  <2> QED BY <2>2, <2>7 DEF AirInv
<1>4. ASSUME UNCHANGED clockVars, TxTypeOK',
             OnAir' = 0, totalAirtimeMs' <= totalAirtimeMs + OnAir
      PROVE  AirInv'
  <2>1. uptime' = uptime /\ millis' = millis
    BY <1>4 DEF clockVars
  <2>2. TransmitterTypeOK'
    BY <1>1, <1>4, <2>1 DEF TransmitterTypeOK, ClockTypeOK
  <2>3. totalAirtimeMs' \in Nat
    BY <1>4, ClockAssumption DEF TxTypeOK
  <2>4. AirtimeWithinUptime' <=> totalAirtimeMs' + OnAir' <= uptime'
    BY DEF AirtimeWithinUptime, OnAir
  <2>5. totalAirtimeMs' <= uptime
    BY <1>1, <1>2, <1>4, <2>3
  <2> QED BY <1>4, <2>1, <2>2, <2>3, <2>4, <2>5 DEF AirInv
<1>5. CASE Transmit /\ UNCHANGED clockVars
  <2>1. /\ txStartTime' = millis /\ totalAirtimeMs' = totalAirtimeMs
        /\ transmitCount' = transmitCount + 1 /\ transmits' = transmits + 1
        /\ nextAllowedTxTime' = nextAllowedTxTime /\ failureCount' = failureCount
        /\ ~transmitting /\ millis' = millis
    BY <1>5 DEF Transmit, Accepts, clockVars
  <2>2. transmitting' \in BOOLEAN
    BY <1>5, Zenon DEF Transmit
  <2>3. TxTypeOK'
    BY <1>1, <2>1, <2>2 DEF TxTypeOK
  <2>4. OnAir' = 0
    BY <1>1, <2>1 DEF OnAir, Since
  <2> QED BY <1>1, <1>2, <1>4, <1>5, <2>1, <2>3, <2>4
<1>6. CASE OnTxDone /\ UNCHANGED clockVars
  <2>1. /\ totalAirtimeMs' = Plus(totalAirtimeMs, Since(txStartTime))
        /\ nextAllowedTxTime' = millis /\ txStartTime' = txStartTime
        /\ transmitCount' = transmitCount /\ failureCount' = failureCount
        /\ transmits' = transmits
        /\ transmitting /\ ~transmitting'
    BY <1>6 DEF OnTxDone
  <2>2. transmitting' \in BOOLEAN
    BY <1>6, Zenon DEF OnTxDone
  <2>3. /\ totalAirtimeMs' \in 0..(ClockMod - 1)
        /\ totalAirtimeMs' <= totalAirtimeMs + Since(txStartTime)
    BY <1>1, <1>2, <2>1, ClockAssumption DEF Plus
  <2>4. TxTypeOK'
    BY <1>1, <2>1, <2>2, <2>3 DEF TxTypeOK
  <2>5. OnAir' = 0 /\ OnAir = Since(txStartTime)
    BY <2>1 DEF OnAir
  <2> QED BY <1>1, <1>2, <1>4, <1>6, <2>3, <2>4, <2>5
<1>7. CASE OnTxTimeout /\ UNCHANGED clockVars
  <2>1. /\ totalAirtimeMs' = totalAirtimeMs /\ txStartTime' = txStartTime
        /\ nextAllowedTxTime' = nextAllowedTxTime
        /\ transmitCount' = transmitCount /\ failureCount' = failureCount + 1
        /\ transmits' = transmits
        /\ ~transmitting'
    BY <1>7 DEF OnTxTimeout
  <2>2. transmitting' \in BOOLEAN
    BY <1>7, Zenon DEF OnTxTimeout
  <2>3. TxTypeOK'
    BY <1>1, <2>1, <2>2 DEF TxTypeOK
  <2>4. OnAir' = 0
    BY <2>1 DEF OnAir
  <2> QED BY <1>1, <1>2, <1>4, <1>7, <2>1, <2>3, <2>4
<1>8. CASE ResetStats /\ UNCHANGED clockVars
  <2>1. /\ totalAirtimeMs' = 0 /\ txStartTime' = txStartTime
        /\ nextAllowedTxTime' = nextAllowedTxTime
        /\ transmitCount' = 0 /\ failureCount' = 0 /\ transmits' = transmits
        /\ uptime' = uptime /\ millis' = millis
    BY <1>8 DEF ResetStats, clockVars
  <2>2. transmitting' = transmitting
    BY <1>8 DEF ResetStats
  <2>3. TransmitterTypeOK'
    <3>1. transmitting' \in BOOLEAN
      BY <1>1, <2>2
    <3> QED BY <1>1, <2>1, <3>1, ClockAssumption
            DEF TransmitterTypeOK, ClockTypeOK, TxTypeOK
  <2>4. OnAir' = OnAir
    BY <2>1, <2>2 DEF OnAir, Since
  <2>5. AirtimeWithinUptime' <=> totalAirtimeMs' + OnAir' <= uptime'
    BY DEF AirtimeWithinUptime, OnAir
  <2>6. OnAir <= uptime
    BY <1>1, <1>2
  <2> QED BY <1>2, <2>1, <2>3, <2>4, <2>5, <2>6 DEF AirInv
<1>9. CASE UNCHANGED <<clockVars, txVars>>
  <2>1. TransmitterTypeOK'
    BY <1>9 DEF AirInv, TransmitterTypeOK, ClockTypeOK, TxTypeOK, clockVars, txVars
  <2>2. AirtimeWithinUptime'
    BY <1>9 DEF AirInv, AirtimeWithinUptime, Since, clockVars, txVars
  <2> QED BY <2>1, <2>2 DEF AirInv
<1> QED BY <1>3, <1>5, <1>6, <1>7, <1>8, <1>9 DEF TransmitterNext, RadioReports

LEMMA AirInit == TransmitterInit => AirInv
<1> SUFFICES ASSUME TransmitterInit PROVE AirInv
  OBVIOUS
<1>1. transmitting \in BOOLEAN /\ ~transmitting
  BY Zenon DEF TransmitterInit, TxInit
<1>2. TransmitterTypeOK
  BY <1>1, ClockAssumption DEF TransmitterInit, TxInit, ClockInit,
     TransmitterTypeOK, ClockTypeOK, TxTypeOK
<1>3. AirtimeWithinUptime
  BY <1>1 DEF TransmitterInit, TxInit, ClockInit, AirtimeWithinUptime
<1> QED BY <1>2, <1>3 DEF AirInv

\* The airtime account never exceeds the uptime, across every wrap of the clock.
THEOREM AirtimeNeverExceedsUptime == TransmitterSpec => []AirtimeWithinUptime
<1>1. TransmitterInit => AirInv
  BY AirInit
<1>2. AirInv /\ [TransmitterNext]_<<clockVars, txVars>> => AirInv'
  BY AirStep
<1>3. AirInv => AirtimeWithinUptime
  BY DEF AirInv
<1> QED BY <1>1, <1>2, <1>3, PTL DEF TransmitterSpec
============================================================================
