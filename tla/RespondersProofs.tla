-------------------------- MODULE RespondersProofs --------------------------
(***************************************************************************)
(* What Responders.tla promises, for every rate limit, delay, clock width  *)
(* and stream of requests.                                                 *)
(***************************************************************************)
EXTENDS Responders, TransmitterProofs

\* The time since the last response, as the wrapping clock shows it, is at
\* most the true one.
SentIsPast ==
    \A r \in Processors : sentAt[r] + Since(lastResponseTime[r]) <= uptime

\* A response waits only where the rate limit has passed.
WaitingIsApart ==
    \A r \in Processors :
        pendingResponse[r] /\ lastResponseTime[r] # 0 => uptime - sentAt[r] >= RateLimit

\* Before the clock wraps, a response waits for its true time.
WaitingIsDue ==
    \A r \in Processors :
        pendingResponse[r] /\ due[r] < ClockMod => responseTime[r] = due[r]

SlotInv == SentIsPast /\ WaitingIsApart /\ WaitingIsDue

\* The inductive invariant.
IInv == TypeOK /\ ClockIsTrue /\ SlotInv

\* The processors' own part of the type invariant.
SlotTypeOK ==
    /\ lastTag \in [Processors -> Tags]
    /\ lastTagTime \in [Processors -> 0..(ClockMod - 1)]
    /\ lastResponseTime \in [Processors -> 0..(ClockMod - 1)]
    /\ pendingResponse \in [Processors -> BOOLEAN]
    /\ responseTime \in [Processors -> 0..(ClockMod - 1)]
    /\ requests \in Nat
    /\ sentAt \in [Processors -> Nat]
    /\ due \in [Processors -> Nat]

LEMMA TypeParts == TypeOK <=> ClockTypeOK /\ TxTypeOK /\ SlotTypeOK
BY DEF TypeOK, TransmitterTypeOK, SlotTypeOK

\* Steps of the radio, of other senders and of the clock leave the slots alone.
LEMMA OthersStep ==
    ASSUME IInv, UNCHANGED <<slotVars, requestVars>>,
           Tick \/ UNCHANGED clockVars
    PROVE  SlotTypeOK' /\ SlotInv'
<1>1. ClockTypeOK /\ SlotTypeOK
  BY TypeParts DEF IInv
<1>2. /\ lastResponseTime' = lastResponseTime /\ pendingResponse' = pendingResponse
      /\ responseTime' = responseTime /\ sentAt' = sentAt /\ due' = due
      /\ lastTag' = lastTag /\ lastTagTime' = lastTagTime /\ requests' = requests
  BY DEF slotVars, requestVars
<1>3. SlotTypeOK'
  BY <1>1, <1>2 DEF SlotTypeOK
<1>4. \/ uptime' = uptime /\ millis' = millis
      \/ uptime' = uptime + 1 /\ millis' = Plus(millis, 1)
  BY DEF Tick, clockVars
<1>5. uptime \in Nat /\ millis \in 0..(ClockMod - 1)
  BY <1>1 DEF ClockTypeOK
<1>6. SentIsPast'
  <2> SUFFICES ASSUME NEW r \in Processors
               PROVE  (sentAt[r] + Since(lastResponseTime[r]) <= uptime)'
    BY DEF SentIsPast
  <2>1. lastResponseTime[r] \in 0..(ClockMod - 1) /\ sentAt[r] \in Nat
    BY <1>1 DEF SlotTypeOK
  <2>2. sentAt[r] + Since(lastResponseTime[r]) <= uptime
    BY DEF IInv, SlotInv, SentIsPast
  <2> QED BY <1>2, <1>4, <1>5, <2>1, <2>2, ClockAssumption DEF Since, Plus
<1>7. WaitingIsApart'
  <2> SUFFICES ASSUME NEW r \in Processors, pendingResponse[r], lastResponseTime[r] # 0
               PROVE  uptime' - sentAt[r] >= RateLimit
    BY <1>2 DEF WaitingIsApart
  <2>1. uptime - sentAt[r] >= RateLimit
    BY DEF IInv, SlotInv, WaitingIsApart
  <2>2. sentAt[r] \in Nat /\ RateLimit \in Nat
    BY <1>1, RespondersAssumption DEF SlotTypeOK
  <2> QED BY <1>4, <1>5, <2>1, <2>2
<1>8. WaitingIsDue'
  BY <1>2 DEF IInv, SlotInv, WaitingIsDue
<1> QED BY <1>3, <1>6, <1>7, <1>8 DEF SlotInv

\* Refusing a request, or noting one that is not answered, fills no slot.
LEMMA NoResponseStep ==
    ASSUME IInv, UNCHANGED clockVars, NEW r \in Processors, NEW tag \in Tags,
           RefuseRequest(r, tag) \/ NoteUnanswerable(r, tag)
    PROVE  TxTypeOK' /\ SlotTypeOK' /\ SlotInv'
<1>1. ClockTypeOK /\ TxTypeOK /\ SlotTypeOK
  BY TypeParts DEF IInv
<1>2. /\ UNCHANGED txVars /\ uptime' = uptime /\ millis' = millis
      /\ lastResponseTime' = lastResponseTime /\ pendingResponse' = pendingResponse
      /\ responseTime' = responseTime /\ sentAt' = sentAt /\ due' = due
      /\ requests' = requests + 1
  BY DEF RefuseRequest, NoteUnanswerable, NoteRequest, slotVars, clockVars
<1>3. \/ lastTag' = lastTag /\ lastTagTime' = lastTagTime
      \/ /\ lastTag' = [lastTag EXCEPT ![r] = tag]
         /\ lastTagTime' = [lastTagTime EXCEPT ![r] = millis]
  BY DEF RefuseRequest, NoteUnanswerable, NoteRequest
<1>4. TxTypeOK'
  BY <1>1, <1>2 DEF txVars, TxTypeOK
<1>5. lastTag' \in [Processors -> Tags] /\ lastTagTime' \in [Processors -> 0..(ClockMod - 1)]
  BY <1>1, <1>3 DEF SlotTypeOK, ClockTypeOK
<1>6. requests' \in Nat
  BY <1>1, <1>2 DEF SlotTypeOK
<1>7. SlotTypeOK'
  BY <1>1, <1>2, <1>5, <1>6 DEF SlotTypeOK
<1>8. SlotInv'
  BY <1>2 DEF IInv, SlotInv, SentIsPast, WaitingIsApart, WaitingIsDue, Since
<1> QED BY <1>4, <1>7, <1>8

LEMMA QueueStep ==
    ASSUME IInv, UNCHANGED clockVars, NEW r \in Processors, NEW tag \in Tags,
           NEW delay \in ResponseDelays, QueueResponse(r, tag, delay)
    PROVE  TxTypeOK' /\ SlotTypeOK' /\ SlotInv'
<1>1. ClockTypeOK /\ TxTypeOK /\ SlotTypeOK
  BY TypeParts DEF IInv
<1>2. /\ ~RateLimited(r) /\ uptime' = uptime /\ millis' = millis
      /\ lastTag' = [lastTag EXCEPT ![r] = tag]
      /\ lastTagTime' = [lastTagTime EXCEPT ![r] = millis]
      /\ requests' = requests + 1
      /\ pendingResponse' = [pendingResponse EXCEPT ![r] = TRUE]
      /\ responseTime' = [responseTime EXCEPT ![r] = Plus(millis, delay)]
      /\ due' = [due EXCEPT ![r] = uptime + delay]
      /\ lastResponseTime' = lastResponseTime /\ sentAt' = sentAt
  BY DEF QueueResponse, NoteRequest, clockVars
<1>3. delay \in 0..(ClockMod - 1) /\ RateLimit \in Nat
  BY RespondersAssumption
<1>4. Plus(millis, delay) \in 0..(ClockMod - 1)
  BY <1>1, <1>3, ClockAssumption DEF Plus, ClockTypeOK
<1>5. TxTypeOK'
  <2>1. CASE ResetStats
    BY <1>1, <2>1, ClockAssumption, TransmitterSteps
  <2>2. CASE UNCHANGED txVars
    BY <1>1, <2>2 DEF txVars, TxTypeOK
  <2> QED BY <2>1, <2>2 DEF QueueResponse
<1>6. SlotTypeOK'
  <2>1. requests' \in Nat /\ uptime + delay \in Nat
    BY <1>1, <1>2, <1>3 DEF SlotTypeOK, ClockTypeOK
  <2>2. lastTag' \in [Processors -> Tags] /\ lastTagTime' \in [Processors -> 0..(ClockMod - 1)]
    BY <1>1, <1>2 DEF SlotTypeOK, ClockTypeOK
  <2>3. pendingResponse' \in [Processors -> BOOLEAN]
    BY <1>1, <1>2 DEF SlotTypeOK
  <2>4. responseTime' \in [Processors -> 0..(ClockMod - 1)]
    BY <1>1, <1>2, <1>4 DEF SlotTypeOK
  <2>5. due' \in [Processors -> Nat]
    BY <1>1, <1>2, <2>1 DEF SlotTypeOK
  <2> QED BY <1>1, <1>2, <2>1, <2>2, <2>3, <2>4, <2>5 DEF SlotTypeOK
<1>7. SentIsPast'
  BY <1>2 DEF IInv, SlotInv, SentIsPast, Since
<1>8. ASSUME NEW q \in Processors, q # r
      PROVE  /\ pendingResponse'[q] = pendingResponse[q] /\ due'[q] = due[q]
             /\ responseTime'[q] = responseTime[q]
  BY <1>1, <1>2, <1>8 DEF SlotTypeOK
<1>9. /\ due'[r] = uptime + delay /\ responseTime'[r] = Plus(millis, delay)
  BY <1>1, <1>2 DEF SlotTypeOK
<1>10. WaitingIsApart'
  <2> SUFFICES ASSUME NEW q \in Processors,
                      pendingResponse'[q], lastResponseTime[q] # 0
               PROVE  uptime - sentAt[q] >= RateLimit
    BY <1>2 DEF WaitingIsApart
  <2>1. CASE q = r
    <3>1. Since(lastResponseTime[r]) >= RateLimit
      <4>1. lastResponseTime[r] \in 0..(ClockMod - 1)
        BY <1>1 DEF SlotTypeOK
      <4>2. Since(lastResponseTime[r]) \in Int
        BY <1>1, <4>1, ClockAssumption DEF Since, ClockTypeOK
      <4>3. ~(Since(lastResponseTime[r]) < RateLimit)
        BY <1>2, <2>1 DEF RateLimited
      <4> QED BY <1>3, <4>2, <4>3
    <3>2. sentAt[r] + Since(lastResponseTime[r]) <= uptime
      BY DEF IInv, SlotInv, SentIsPast
    <3>3. sentAt[r] \in Nat /\ uptime \in Nat /\ Since(lastResponseTime[r]) \in Int
      BY <1>1, ClockAssumption DEF SlotTypeOK, ClockTypeOK, Since
    <3> QED BY <1>3, <2>1, <3>1, <3>2, <3>3
  <2>2. CASE q # r
    BY <1>8, <2>2 DEF IInv, SlotInv, WaitingIsApart
  <2> QED BY <2>1, <2>2
<1>11. WaitingIsDue'
  <2> SUFFICES ASSUME NEW q \in Processors, pendingResponse'[q], due'[q] < ClockMod
               PROVE  responseTime'[q] = due'[q]
    BY DEF WaitingIsDue
  <2>1. CASE q = r
    <3>1. uptime + delay < ClockMod
      BY <1>9, <2>1
    <3>2. millis = uptime
      BY <1>1, <1>3, <3>1, ClockAssumption DEF IInv, ClockIsTrue, ClockTypeOK
    <3> QED BY <1>9, <2>1, <3>1, <3>2 DEF Plus
  <2>2. CASE q # r
    BY <1>8, <2>2 DEF IInv, SlotInv, WaitingIsDue
  <2> QED BY <2>1, <2>2
<1> QED BY <1>5, <1>6, <1>7, <1>10, <1>11 DEF SlotInv

LEMMA SendStep ==
    ASSUME IInv, NEW r \in Processors, SendResponse(r)
    PROVE  TxTypeOK' /\ SlotTypeOK' /\ SlotInv'
<1>1. ClockTypeOK /\ TxTypeOK /\ SlotTypeOK
  BY TypeParts DEF IInv
<1>2. /\ Transmit /\ pendingResponse[r] /\ uptime' = uptime /\ millis' = millis
      /\ lastResponseTime' = [lastResponseTime EXCEPT ![r] = millis]
      /\ pendingResponse' = [pendingResponse EXCEPT ![r] = FALSE]
      /\ sentAt' = [sentAt EXCEPT ![r] = uptime]
      /\ responseTime' = responseTime /\ due' = due
      /\ lastTag' = lastTag /\ lastTagTime' = lastTagTime /\ requests' = requests
  BY DEF SendResponse, ResponseReady, clockVars, requestVars
<1>3. TxTypeOK'
  BY <1>1, <1>2, ClockAssumption, TransmitterSteps
<1>4. SlotTypeOK'
  <2>1. lastResponseTime' \in [Processors -> 0..(ClockMod - 1)]
    BY <1>1, <1>2 DEF SlotTypeOK, ClockTypeOK
  <2>2. pendingResponse' \in [Processors -> BOOLEAN]
    BY <1>1, <1>2 DEF SlotTypeOK
  <2>3. sentAt' \in [Processors -> Nat]
    BY <1>1, <1>2 DEF SlotTypeOK, ClockTypeOK
  <2> QED BY <1>1, <1>2, <2>1, <2>2, <2>3 DEF SlotTypeOK
<1>5. ASSUME NEW q \in Processors, q # r
      PROVE  /\ pendingResponse'[q] = pendingResponse[q] /\ sentAt'[q] = sentAt[q]
             /\ lastResponseTime'[q] = lastResponseTime[q]
  BY <1>1, <1>2, <1>5 DEF SlotTypeOK
<1>6. /\ ~pendingResponse'[r] /\ sentAt'[r] = uptime
      /\ lastResponseTime'[r] = millis
  BY <1>1, <1>2 DEF SlotTypeOK
<1>7. SentIsPast'
  <2> SUFFICES ASSUME NEW q \in Processors
               PROVE  (sentAt[q] + Since(lastResponseTime[q]) <= uptime)'
    BY DEF SentIsPast
  <2>1. CASE q = r
    BY <1>1, <1>2, <1>6, <2>1 DEF Since, ClockTypeOK
  <2>2. CASE q # r
    BY <1>2, <1>5, <2>2 DEF IInv, SlotInv, SentIsPast, Since
  <2> QED BY <2>1, <2>2
<1>8. WaitingIsApart'
  <2> SUFFICES ASSUME NEW q \in Processors,
                      pendingResponse'[q], lastResponseTime'[q] # 0
               PROVE  uptime' - sentAt'[q] >= RateLimit
    BY DEF WaitingIsApart
  <2>1. q # r
    BY <1>6
  <2> QED BY <1>2, <1>5, <2>1 DEF IInv, SlotInv, WaitingIsApart
<1>9. ASSUME NEW q \in Processors, pendingResponse'[q] PROVE pendingResponse[q]
  BY <1>5, <1>6, <1>9
<1>10. WaitingIsDue'
  BY <1>2, <1>9 DEF IInv, SlotInv, WaitingIsDue
<1> QED BY <1>3, <1>4, <1>7, <1>8, <1>10 DEF SlotInv

LEMMA PutOffStep ==
    ASSUME IInv, NEW r \in Processors, PutOffResponse(r)
    PROVE  TxTypeOK' /\ SlotTypeOK' /\ SlotInv'
<1>1. ClockTypeOK /\ TxTypeOK /\ SlotTypeOK
  BY TypeParts DEF IInv
<1>2. /\ UNCHANGED txVars /\ uptime' = uptime /\ millis' = millis
      /\ responseTime' = [responseTime EXCEPT ![r] = Plus(millis, RetryDelay)]
      /\ due' = [due EXCEPT ![r] = uptime + RetryDelay]
      /\ lastResponseTime' = lastResponseTime /\ pendingResponse' = pendingResponse
      /\ sentAt' = sentAt
      /\ lastTag' = lastTag /\ lastTagTime' = lastTagTime /\ requests' = requests
  BY DEF PutOffResponse, clockVars, requestVars
<1>3. RetryDelay \in 0..(ClockMod - 1)
  BY RespondersAssumption
<1>4. TxTypeOK'
  BY <1>1, <1>2 DEF txVars, TxTypeOK
<1>5. Plus(millis, RetryDelay) \in 0..(ClockMod - 1) /\ uptime + RetryDelay \in Nat
  BY <1>1, <1>3, ClockAssumption DEF Plus, ClockTypeOK
<1>6. SlotTypeOK'
  <2>1. responseTime' \in [Processors -> 0..(ClockMod - 1)] /\ due' \in [Processors -> Nat]
    BY <1>1, <1>2, <1>5 DEF SlotTypeOK
  <2> QED BY <1>1, <1>2, <2>1 DEF SlotTypeOK
<1>7. SentIsPast' /\ WaitingIsApart'
  BY <1>2 DEF IInv, SlotInv, SentIsPast, WaitingIsApart, Since
<1>8. WaitingIsDue'
  <2> SUFFICES ASSUME NEW q \in Processors, pendingResponse[q], due'[q] < ClockMod
               PROVE  responseTime'[q] = due'[q]
    BY <1>2 DEF WaitingIsDue
  <2>1. CASE q = r
    <3>1. responseTime'[r] = Plus(millis, RetryDelay) /\ due'[r] = uptime + RetryDelay
      BY <1>1, <1>2 DEF SlotTypeOK
    <3>2. millis = uptime
      BY <1>1, <1>3, <2>1, <3>1, ClockAssumption DEF IInv, ClockIsTrue, ClockTypeOK
    <3> QED BY <2>1, <3>1, <3>2 DEF Plus
  <2>2. CASE q # r
    <3>1. responseTime'[q] = responseTime[q] /\ due'[q] = due[q]
      BY <1>1, <1>2, <2>2 DEF SlotTypeOK
    <3> QED BY <3>1 DEF IInv, SlotInv, WaitingIsDue
  <2> QED BY <2>1, <2>2
<1> QED BY <1>4, <1>6, <1>7, <1>8 DEF SlotInv

LEMMA RespondersInit == Init => IInv
<1> SUFFICES ASSUME Init PROVE IInv
  OBVIOUS
<1>1. ClockTypeOK /\ TxTypeOK /\ ClockIsTrue
  <2>1. AirInv
    BY AirInit DEF Init
  <2> QED BY <2>1 DEF AirInv, TransmitterTypeOK, Init, TransmitterInit, ClockInit,
                      ClockIsTrue
<1>2. SlotTypeOK
  BY RespondersAssumption, ClockAssumption DEF Init, SlotTypeOK
<1>3. SlotInv
  BY ClockAssumption DEF Init, TransmitterInit, ClockInit, SlotInv, SentIsPast,
     WaitingIsApart, WaitingIsDue, Since
<1> QED BY <1>1, <1>2, <1>3, TypeParts DEF IInv

LEMMA RespondersStep ==
    ASSUME IInv, [Next]_vars
    PROVE  IInv'
<1>1. ClockTypeOK /\ TxTypeOK /\ SlotTypeOK /\ ClockIsTrue
  BY TypeParts DEF IInv
<1>2. TypeOK' <=> ClockTypeOK' /\ TxTypeOK' /\ SlotTypeOK'
  BY DEF TypeOK, TransmitterTypeOK, SlotTypeOK
<1>3. ASSUME UNCHANGED clockVars, TxTypeOK', SlotTypeOK', SlotInv' PROVE IInv'
  <2>1. ClockTypeOK' /\ ClockIsTrue'
    BY <1>1, <1>3 DEF clockVars, ClockTypeOK, ClockIsTrue
  <2> QED BY <1>2, <1>3, <2>1 DEF IInv
<1>4. CASE Tick /\ UNCHANGED <<txVars, slotVars, requestVars>>
  <2>1. ClockTypeOK' /\ ClockIsTrue'
    BY <1>1, <1>4, ClockAssumption, TickStep
  <2>2. TxTypeOK'
    BY <1>1, <1>4 DEF txVars, TxTypeOK
  <2>3. SlotTypeOK' /\ SlotInv'
    BY <1>4, OthersStep
  <2> QED BY <1>2, <2>1, <2>2, <2>3 DEF IInv
<1>5. CASE RadioReports /\ UNCHANGED <<clockVars, slotVars, requestVars>>
  <2>1. TxTypeOK'
    BY <1>1, <1>5, ClockAssumption, TransmitterSteps
  <2> QED BY <1>3, <1>5, <2>1, OthersStep
<1>6. CASE OtherTransmit
  <2>1. TxTypeOK'
    BY <1>1, <1>6, ClockAssumption, TransmitterSteps DEF OtherTransmit
  <2> QED BY <1>3, <1>6, <2>1, OthersStep DEF OtherTransmit
<1>7. ASSUME NEW r \in Processors, ProcessPacket(r) PROVE IInv'
  <2>1. UNCHANGED clockVars
    BY <1>7 DEF ProcessPacket
  <2>2. PICK tag \in Tags :
           \/ RefuseRequest(r, tag)
           \/ NoteUnanswerable(r, tag)
           \/ \E delay \in ResponseDelays : QueueResponse(r, tag, delay)
    BY <1>7 DEF ProcessPacket
  <2>3. CASE RefuseRequest(r, tag) \/ NoteUnanswerable(r, tag)
    BY <1>3, <2>1, <2>3, NoResponseStep
  <2>4. CASE \E delay \in ResponseDelays : QueueResponse(r, tag, delay)
    BY <1>3, <2>1, <2>4, QueueStep
  <2> QED BY <2>2, <2>3, <2>4
<1>8. ASSUME NEW r \in Processors, Loop(r) PROVE IInv'
  <2>1. UNCHANGED clockVars
    BY <1>8 DEF Loop, SendResponse, PutOffResponse
  <2>2. CASE SendResponse(r)
    BY <1>3, <2>1, <2>2, SendStep
  <2>3. CASE PutOffResponse(r)
    BY <1>3, <2>1, <2>3, PutOffStep
  <2> QED BY <1>8, <2>2, <2>3 DEF Loop
<1>9. CASE UNCHANGED vars
  <2>1. UNCHANGED clockVars /\ UNCHANGED txVars
        /\ UNCHANGED <<slotVars, requestVars>>
    BY <1>9 DEF vars
  <2>2. TxTypeOK'
    BY <1>1, <2>1 DEF txVars, TxTypeOK
  <2> QED BY <1>3, <2>1, <2>2, OthersStep
<1> QED BY <1>4, <1>5, <1>6, <1>7, <1>8, <1>9 DEF Next

\* The inductive invariant of both processors: a response that waits was let
\* in after the rate limit, and its time is true until the clock wraps.
THEOREM RespondersInvariant == Spec => []IInv
<1>1. Init => IInv
  BY RespondersInit
<1>2. IInv /\ [Next]_vars => IInv'
  BY RespondersStep
<1> QED BY <1>1, <1>2, PTL DEF Spec

\* The processors' state has its types.
THEOREM RespondersTypeCorrect == Spec => []TypeOK
<1>1. IInv => TypeOK
  BY DEF IInv
<1> QED BY <1>1, RespondersInvariant, PTL

\* Two responses of one processor leave at least the rate limit apart.
THEOREM ResponsesNeverCrowd == Spec => ResponsesApart
<1>1. IInv /\ [Next]_vars =>
         [\A r \in Processors :
             Leaves(r) /\ lastResponseTime[r] # 0
               => uptime - sentAt[r] >= RateLimit]_vars
  BY DEF IInv, SlotInv, WaitingIsApart, Leaves
<1> QED BY <1>1, RespondersInvariant, PTL DEF Spec, ResponsesApart

\* A slot is emptied by the loop of its processor only.
LEMMA OnlySendEmpties ==
    ASSUME IInv, [Next]_vars, NEW r \in Processors, Leaves(r)
    PROVE  ResponseReady(r)
<1>1. SlotTypeOK
  BY TypeParts DEF IInv
<1>2. pendingResponse[r] /\ ~pendingResponse'[r]
  BY DEF Leaves
<1>3. ASSUME NEW q \in Processors, ProcessPacket(q) PROVE FALSE
  <2>1. CASE pendingResponse' = pendingResponse
    BY <1>2, <2>1
  <2>2. CASE pendingResponse' = [pendingResponse EXCEPT ![q] = TRUE]
    BY <1>1, <1>2, <2>2 DEF SlotTypeOK
  <2> QED BY <1>3, <2>1, <2>2 DEF ProcessPacket, RefuseRequest, NoteUnanswerable,
                                  QueueResponse, slotVars
<1>4. ASSUME NEW q \in Processors, Loop(q) PROVE ResponseReady(r)
  <2>1. CASE PutOffResponse(q)
    BY <1>2, <2>1 DEF PutOffResponse
  <2>2. CASE SendResponse(q)
    <3>1. pendingResponse' = [pendingResponse EXCEPT ![q] = FALSE] /\ ResponseReady(q)
      BY <2>2 DEF SendResponse
    <3>2. q = r
      BY <1>1, <1>2, <3>1 DEF SlotTypeOK
    <3> QED BY <3>1, <3>2
  <2> QED BY <1>4, <2>1, <2>2 DEF Loop
<1>5. pendingResponse' # pendingResponse
  BY <1>2
<1> QED BY <1>3, <1>4, <1>5 DEF Next, OtherTransmit, vars, slotVars

\* No response due before the clock wraps leaves before it is due.
THEOREM ResponsesNeverEarly == Spec => NeverBeforeItsTime
<1>1. ASSUME IInv, [Next]_vars, NEW r \in Processors, Leaves(r), due[r] < ClockMod
      PROVE  uptime >= due[r]
  <2>1. millis >= responseTime[r] /\ pendingResponse[r]
    BY <1>1, OnlySendEmpties DEF ResponseReady
  <2>2. responseTime[r] = due[r]
    BY <1>1, <2>1 DEF IInv, SlotInv, WaitingIsDue
  <2>3. uptime \in Nat /\ due[r] \in Nat /\ ClockMod \in Nat
    BY <1>1, TypeParts, ClockAssumption DEF IInv, ClockTypeOK, SlotTypeOK
  <2>4. CASE uptime < ClockMod
    BY <1>1, <2>1, <2>2, <2>4 DEF IInv, ClockIsTrue
  <2>5. CASE ~(uptime < ClockMod)
    BY <1>1, <2>3, <2>5
  <2> QED BY <2>4, <2>5
<1>2. IInv /\ [Next]_vars =>
         [\A r \in Processors :
             Leaves(r) /\ due[r] < ClockMod => uptime >= due[r]]_vars
  BY <1>1
<1> QED BY <1>2, RespondersInvariant, PTL DEF Spec, NeverBeforeItsTime
============================================================================
