----------------------------- MODULE Responders -----------------------------
(***************************************************************************)
(* mesh/processors/CommandHandler.cpp and DiscoveryResponder.cpp: the two  *)
(* processors that answer requests.  They have the same control: a rate    *)
(* limit, a memory of the last request, one slot for the response that     *)
(* waits for its time, and a loop() that sends it and retries while the    *)
(* transmitter is busy.  A request is its tag (the payload's hash or the   *)
(* requester's tag); requests for other nodes change nothing.              *)
(***************************************************************************)
EXTENDS Transmitter, FiniteSets

CONSTANTS Tags,             \* what tells requests apart; 0 is one of them
          RateLimit,        \* RESPONSE_RATE_LIMIT_MS, 60000 in both
          DedupTimeout,     \* DEDUP_TIMEOUT_MS of each, 60000 and 30000
          ResponseDelays,   \* what calculateResponseDelay() may return
          RetryDelay,       \* an airtime times TX_DELAY_FACTOR
          MaxRequests       \* bound of a TLC run: requests that arrive

Processors == {"CommandHandler", "DiscoveryResponder"}

ASSUME RespondersAssumption ==
    /\ 0 \in Tags
    /\ RateLimit \in Nat
    /\ DedupTimeout \in [Processors -> Nat]
    /\ ResponseDelays \subseteq 0..(ClockMod - 1)
    /\ RetryDelay \in 0..(ClockMod - 1)

VARIABLES lastTag, lastTagTime, lastResponseTime, pendingResponse, responseTime,
          requests,         \* ghost: requests that arrived
          sentAt,           \* ghost: uptime at the last response
          due               \* ghost: uptime the pending response waits for

slotVars == <<lastResponseTime, pendingResponse, responseTime, sentAt, due>>
requestVars == <<lastTag, lastTagTime, requests>>
vars == <<clockVars, txVars, slotVars, requestVars>>

TypeOK ==
    /\ TransmitterTypeOK
    /\ lastTag \in [Processors -> Tags]
    /\ lastTagTime \in [Processors -> 0..(ClockMod - 1)]
    /\ lastResponseTime \in [Processors -> 0..(ClockMod - 1)]
    /\ pendingResponse \in [Processors -> BOOLEAN]
    /\ responseTime \in [Processors -> 0..(ClockMod - 1)]
    /\ requests \in Nat
    /\ sentAt \in [Processors -> Nat]
    /\ due \in [Processors -> Nat]

Init ==
    /\ TransmitterInit
    /\ lastTag = [r \in Processors |-> 0]
    /\ lastTagTime = [r \in Processors |-> 0]
    /\ lastResponseTime = [r \in Processors |-> 0]
    /\ pendingResponse = [r \in Processors |-> FALSE]
    /\ responseTime = [r \in Processors |-> 0]
    /\ requests = 0
    /\ sentAt = [r \in Processors |-> 0]
    /\ due = [r \in Processors |-> 0]

----------------------------------------------------------------------------
\* A faulty rate limit that compares with a deadline.
RateLimitedUntil(r) ==
    lastResponseTime[r] # 0 /\ millis < Plus(lastResponseTime[r], RateLimit)

\* The two tests of processPacket(); 0 stands for "no response yet".
RateLimited(r) ==
    lastResponseTime[r] # 0 /\ Since(lastResponseTime[r]) < RateLimit

Duplicate(r, tag) ==
    tag = lastTag[r] /\ Since(lastTagTime[r]) < DedupTimeout[r]

RefuseRequest(r, tag) ==
    /\ RateLimited(r) \/ Duplicate(r, tag)
    /\ requests' = requests + 1
    /\ UNCHANGED <<txVars, slotVars, lastTag, lastTagTime>>

NoteRequest(r, tag) ==
    /\ ~RateLimited(r) /\ ~Duplicate(r, tag)
    /\ requests' = requests + 1
    /\ lastTag' = [lastTag EXCEPT ![r] = tag]
    /\ lastTagTime' = [lastTagTime EXCEPT ![r] = millis]

\* A command that is not known, or a response that cannot be built.
NoteUnanswerable(r, tag) ==
    /\ NoteRequest(r, tag)
    /\ UNCHANGED <<txVars, slotVars>>

\* The response takes the slot, from an earlier one if that still waits;
\* "!status clear" resets the transmitter's statistics first.
QueueResponse(r, tag, delay) ==
    /\ NoteRequest(r, tag)
    /\ pendingResponse' = [pendingResponse EXCEPT ![r] = TRUE]
    /\ responseTime' = [responseTime EXCEPT ![r] = Plus(millis, delay)]
    /\ due' = [due EXCEPT ![r] = uptime + delay]
    /\ \/ r = "CommandHandler" /\ ResetStats
       \/ UNCHANGED txVars
    /\ UNCHANGED <<lastResponseTime, sentAt>>

\* The first packet arrives after setup(), which takes more than a millisecond.
ProcessPacket(r) ==
    /\ uptime > 0 /\ requests < MaxRequests
    /\ \E tag \in Tags :
           \/ RefuseRequest(r, tag)
           \/ NoteUnanswerable(r, tag)
           \/ \E delay \in ResponseDelays : QueueResponse(r, tag, delay)
    /\ UNCHANGED clockVars

----------------------------------------------------------------------------
\* A faulty loop() that does not wait.
ResponsePending(r) == pendingResponse[r]

ResponseReady(r) == pendingResponse[r] /\ millis >= responseTime[r]

SendResponse(r) ==
    /\ ResponseReady(r)
    /\ Transmit
    /\ lastResponseTime' = [lastResponseTime EXCEPT ![r] = millis]
    /\ pendingResponse' = [pendingResponse EXCEPT ![r] = FALSE]
    /\ sentAt' = [sentAt EXCEPT ![r] = uptime]
    /\ UNCHANGED <<clockVars, requestVars, responseTime, due>>

\* Busy, or refused by transmit(): the same delay either way.
PutOffResponse(r) ==
    /\ ResponseReady(r)
    /\ ~Accepts
    /\ responseTime' = [responseTime EXCEPT ![r] = Plus(millis, RetryDelay)]
    /\ due' = [due EXCEPT ![r] = uptime + RetryDelay]
    /\ UNCHANGED <<clockVars, txVars, requestVars,
                   lastResponseTime, pendingResponse, sentAt>>

Loop(r) == SendResponse(r) \/ PutOffResponse(r)

----------------------------------------------------------------------------
\* The forwarder and the trace handler transmit when they like.
OtherTransmit ==
    /\ transmits < MaxTransmits
    /\ Transmit
    /\ UNCHANGED <<clockVars, slotVars, requestVars>>

Next ==
    \/ Tick /\ UNCHANGED <<txVars, slotVars, requestVars>>
    \/ RadioReports /\ UNCHANGED <<clockVars, slotVars, requestVars>>
    \/ OtherTransmit
    \/ \E r \in Processors : ProcessPacket(r) \/ Loop(r)

Spec == Init /\ [][Next]_vars

----------------------------------------------------------------------------
\* The slot of r is emptied: a response leaves.
Leaves(r) == pendingResponse[r] /\ ~pendingResponse'[r]

\* Two responses of one processor are a rate limit apart in true time, across
\* every wrap of the clock and however the requests, the retries and the other
\* senders fall between them.  A response that leaves in the millisecond the
\* clock returns to 0 is taken for none (CommandHandler.cpp:130).
ResponsesApart ==
    [][\A r \in Processors :
           Leaves(r) /\ lastResponseTime[r] # 0 => uptime - sentAt[r] >= RateLimit]_vars

\* No response leaves before its delay and its retries have passed, if it is
\* due before the clock wraps (loop() of both).
NeverBeforeItsTime ==
    [][\A r \in Processors :
           Leaves(r) /\ due[r] < ClockMod => uptime >= due[r]]_vars
=============================================================================
