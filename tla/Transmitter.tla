---------------------------- MODULE Transmitter ----------------------------
(***************************************************************************)
(* radio/LoRaTransmitter.cpp: the one transmitter all components share.    *)
(* The radio itself is external: after Radio.Send it reports TxDone or,    *)
(* once its timeout expires, TxTimeout; when it does is its own affair.    *)
(***************************************************************************)
EXTENDS Clock

CONSTANT MaxTransmits   \* bound of a TLC run: the clients' transmissions

VARIABLES transmitting, txStartTime, nextAllowedTxTime,
          transmitCount, failureCount, totalAirtimeMs,
          transmits            \* ghost: transmissions since boot

txVars == <<transmitting, txStartTime, nextAllowedTxTime,
            transmitCount, failureCount, totalAirtimeMs, transmits>>

TxTypeOK ==
    /\ transmitting \in BOOLEAN
    /\ txStartTime \in 0..(ClockMod - 1)
    /\ nextAllowedTxTime \in 0..(ClockMod - 1)
    /\ totalAirtimeMs \in 0..(ClockMod - 1)
    /\ transmitCount \in Nat
    /\ failureCount \in Nat
    /\ transmits \in Nat

TxInit ==
    /\ transmitting = FALSE
    /\ txStartTime = 0
    /\ nextAllowedTxTime = 0
    /\ transmitCount = 0
    /\ failureCount = 0
    /\ totalAirtimeMs = 0
    /\ transmits = 0

CanTransmitNow == millis >= nextAllowedTxTime

\* What transmit() asks before it touches the radio.  Its third test, on the
\* length, is met by every packet the encoder returns (at most 254 bytes).
Accepts == ~transmitting /\ CanTransmitNow

\* A faulty transmit() that does not note when the transmission starts.
TransmitKeepingStart ==
    /\ Accepts
    /\ transmitting' = TRUE
    /\ transmitCount' = transmitCount + 1
    /\ transmits' = transmits + 1
    /\ UNCHANGED <<txStartTime, nextAllowedTxTime, failureCount, totalAirtimeMs>>

\* transmit() on a call it accepts; a refused call changes nothing.
Transmit ==
    /\ Accepts
    /\ transmitting' = TRUE
    /\ txStartTime' = millis
    /\ transmitCount' = transmitCount + 1
    /\ transmits' = transmits + 1
    /\ UNCHANGED <<nextAllowedTxTime, failureCount, totalAirtimeMs>>

\* onTxDone() -> notifyTxComplete(true)
OnTxDone ==
    /\ transmitting
    /\ transmitting' = FALSE
    /\ totalAirtimeMs' = Plus(totalAirtimeMs, Since(txStartTime))
    /\ nextAllowedTxTime' = millis
    /\ UNCHANGED <<txStartTime, transmitCount, failureCount, transmits>>

\* A faulty onTxTimeout() that only counts.
OnTxTimeoutStayingBusy ==
    /\ transmitting
    /\ failureCount' = failureCount + 1
    /\ UNCHANGED <<transmitting, txStartTime, nextAllowedTxTime, transmitCount,
                   totalAirtimeMs, transmits>>

\* onTxTimeout() -> notifyTxComplete(false)
OnTxTimeout ==
    /\ transmitting
    /\ transmitting' = FALSE
    /\ failureCount' = failureCount + 1
    /\ UNCHANGED <<txStartTime, nextAllowedTxTime, transmitCount,
                   totalAirtimeMs, transmits>>

RadioReports == OnTxDone \/ OnTxTimeout

\* resetStats(), by the command "!status clear", also in mid-transmission.
ResetStats ==
    /\ transmitCount' = 0
    /\ failureCount' = 0
    /\ totalAirtimeMs' = 0
    /\ UNCHANGED <<transmitting, txStartTime, nextAllowedTxTime, transmits>>

----------------------------------------------------------------------------
\* The transmitter under a client that sends whenever it likes.
TransmitterInit == ClockInit /\ TxInit

TransmitterNext ==
        \/ Tick /\ UNCHANGED txVars
        \/ transmits < MaxTransmits /\ Transmit /\ UNCHANGED clockVars
        \/ RadioReports /\ UNCHANGED clockVars
        \/ ResetStats /\ UNCHANGED clockVars

TransmitterSpec ==
    TransmitterInit /\ [][TransmitterNext]_<<clockVars, txVars>>

TransmitterTypeOK == ClockTypeOK /\ TxTypeOK

\* The airtime the status command reports, with the part of a transmission
\* still on the air, never exceeds the time the node has been up: no
\* transmission is counted twice and none is measured across another, also
\* when the millisecond counter wraps under it (notifyTxComplete).
AirtimeWithinUptime ==
    totalAirtimeMs + (IF transmitting THEN Since(txStartTime) ELSE 0) <= uptime

\* "Duty cycle enforcement disabled" (LoRaTransmitter.cpp:77): a transmitter
\* that is not transmitting accepts the next packet.
NoSilencePeriod == ~transmitting => Accepts
============================================================================
