----------------------------- MODULE Forwarder -----------------------------
(***************************************************************************)
(* mesh/processors/PacketForwarder.cpp over the shared transmitter: what   *)
(* happens to a packet that passed the deduplicator, until it is handed to *)
(* the radio or given up.  Two callers drive it, both from the main loop:  *)
(* the dispatcher (ProcessPacket) and loop() (Loop).  Between their steps  *)
(* the clock runs, the radio reports, and the node's other senders take    *)
(* the transmitter.                                                        *)
(***************************************************************************)
EXTENDS Transmitter, DelayQueue, FiniteSets

CONSTANTS
    NodeHash,            \* NodeConfig::getNodeHash()
    Hashes,              \* the one-byte hashes of all nodes
    MaxPathLength,       \* Config::Forwarding::MAX_PATH_LENGTH
    DelayQueueSize,      \* Config::Forwarding::DELAY_QUEUE_SIZE
    MinDelayThreshold,   \* Config::Forwarding::MIN_DELAY_THRESHOLD_MS
    RxDelays,            \* values of calculateRxDelay()
    SlotTime,            \* airtime * TX_DELAY_FACTOR
    Slots,               \* random(0, TX_DELAY_JITTER_SLOTS)
    Packets,             \* the packets that may arrive
    MaxAccepted          \* bound of a TLC run: packets to be forwarded

\* What the forwarder reads of a packet: whether a specialised handler owns
\* its type, its route, its path, and whether its RSSI reaches
\* MIN_RSSI_TO_FORWARD.  TRANSPORT_FLOOD and TRANSPORT_DIRECT are treated as
\* FLOOD and DIRECT throughout.
PayloadType == {"DATA", "TRACE", "CONTROL"}
Packet == [type : PayloadType, route : {"FLOOD", "DIRECT"},
           path : UNION {[1..n -> Hashes] : n \in 0..MaxPathLength},
           strong : BOOLEAN]

ASSUME ForwarderAssumption ==
    /\ NodeHash \in Hashes
    /\ Packets \subseteq Packet
    /\ MaxPathLength \in Nat \ {0}
    /\ DelayQueueSize \in Nat \ {0}
    /\ MinDelayThreshold \in Nat
    /\ RxDelays \in SUBSET Nat
    /\ Slots \in SUBSET Nat
    /\ SlotTime \in Nat
    /\ MaxAccepted \in Nat
    \* a delay is far shorter than the 49.7 days of the clock
    /\ SlotTime < ClockMod
    /\ \A r \in RxDelays, s \in Slots :
          r + s * SlotTime \in Nat /\ r + s * SlotTime < ClockMod
    /\ \A s \in Slots : (s * SlotTime) \div 2 \in Nat
                        /\ (s * SlotTime) \div 2 < ClockMod

VARIABLES
    delayQueue,      \* PriorityQueue<DelayedPacket, DELAY_QUEUE_SIZE>
    forwardedCount, droppedCount, delayedCount,
    accepted,        \* ghost: packets shouldForward() let through, their ids
    sent,            \* ghost: ids handed to the transmitter by the forwarder
    lost,            \* ghost: ids given up
    due              \* ghost: uptime before which a delayed id must not leave

fwdVars == <<delayQueue, forwardedCount, droppedCount, delayedCount,
             accepted, sent, lost, due>>
vars == <<clockVars, txVars, fwdVars>>

TypeOK ==
    /\ ClockTypeOK
    /\ TxTypeOK
    /\ delayQueue \in Seq(Entry(1..MaxAccepted))
    /\ Len(delayQueue) <= DelayQueueSize
    /\ forwardedCount \in Nat /\ droppedCount \in Nat /\ delayedCount \in Nat
    /\ accepted \in 0..MaxAccepted
    /\ sent \subseteq 1..MaxAccepted
    /\ lost \subseteq 1..MaxAccepted
    /\ due \in [1..MaxAccepted -> Nat]

Init ==
    /\ ClockInit
    /\ TxInit
    /\ delayQueue = <<>>
    /\ forwardedCount = 0 /\ droppedCount = 0 /\ delayedCount = 0
    /\ accepted = 0
    /\ sent = {}
    /\ lost = {}
    /\ due = [id \in 1..MaxAccepted |-> 0]

\* Packets of these types are left to TraceHandler and DiscoveryResponder.
Specialised(p) == p.type \in {"TRACE", "CONTROL"}

\* shouldForward().  ctx.isDuplicate is never set here: the dispatcher stops
\* at the deduplicator's DROP.  validate() holds of every decoded packet.
ShouldForward(p) ==
    /\ p.route = "DIRECT" => p.path # <<>> /\ Head(p.path) = NodeHash
    /\ p.route = "FLOOD" => /\ Len(p.path) < MaxPathLength
                            /\ ~ Contains(p.path, NodeHash)
    /\ p.strong

\* calculateTxJitter(), and the total delay of processPacket():84-102.
TxJitter(slot) == slot * SlotTime
TotalDelays(p) ==
    IF p.route = "DIRECT" THEN {TxJitter(s) \div 2 : s \in Slots}
                          ELSE {r + TxJitter(s) : r \in RxDelays, s \in Slots}

\* processPacket() on a packet it does not forward.
IgnorePacket(p) ==
    /\ Specialised(p) \/ ~ ShouldForward(p)
    /\ UNCHANGED <<txVars, fwdVars>>

NewId == accepted + 1

\* A faulty caller that forgets to count the loss.
LoseUncounted(id) == lost' = lost \cup {id} /\ UNCHANGED droppedCount

Lose(id) == /\ droppedCount' = droppedCount + 1
            /\ lost' = lost \cup {id}

Sent(id) == /\ forwardedCount' = forwardedCount + 1
            /\ sent' = sent \cup {id}

\* handleImmediateForward(): transmit now, or give the packet up when the
\* transmitter is busy or in its silence period.
HandleImmediateForward ==
    /\ \/ Transmit /\ Sent(NewId) /\ UNCHANGED <<droppedCount, lost>>
       \/ ~Accepts /\ Lose(NewId) /\ UNCHANGED <<txVars, forwardedCount, sent>>
    /\ UNCHANGED <<delayQueue, delayedCount, due>>

\* handleDelayedForward() -> enqueueDelayed()
HandleDelayedForward(delay) ==
    /\ IF IsFull(delayQueue, DelayQueueSize)
       THEN Lose(NewId) /\ UNCHANGED <<delayQueue, delayedCount, due>>
       ELSE /\ delayQueue' = Insert(delayQueue, NewId, Plus(millis, delay))
            /\ due' = [due EXCEPT ![NewId] = uptime + delay]
            /\ delayedCount' = delayedCount + 1
            /\ UNCHANGED <<droppedCount, lost>>
    /\ UNCHANGED <<txVars, forwardedCount, sent>>

\* processPacket() on a packet it forwards.
AcceptPacket(p) ==
    /\ ~ Specialised(p) /\ ShouldForward(p)
    /\ accepted < MaxAccepted
    /\ accepted' = NewId
    /\ \E delay \in TotalDelays(p) :
          IF delay < MinDelayThreshold THEN HandleImmediateForward
                                       ELSE HandleDelayedForward(delay)

ProcessPacket(p) == /\ IgnorePacket(p) \/ AcceptPacket(p)
                    /\ UNCHANGED clockVars

----------------------------------------------------------------------------
\* A faulty loop that pops whatever is in front.
FrontReadyAnyTime == delayQueue # <<>> /\ ~transmitting

\* The front packet's time has come and the transmitter is free: the point
\* processDelayQueue() pops at.
FrontReady == /\ delayQueue # <<>>
              /\ millis >= FrontKey(delayQueue)
              /\ ~transmitting

\* A faulty loop that peeks where it should pop.
SendFrontKeepingIt ==
    /\ FrontReady
    /\ Transmit
    /\ Sent(FrontItem(delayQueue))
    /\ UNCHANGED <<delayQueue, droppedCount, delayedCount, accepted, lost, due>>

\* The popped packet is transmitted.  The loop goes round again, finds the
\* transmitter busy and leaves: one packet per call.
SendFront ==
    /\ FrontReady
    /\ Transmit
    /\ Sent(FrontItem(delayQueue))
    /\ delayQueue' = PopFront(delayQueue)
    /\ UNCHANGED <<droppedCount, delayedCount, accepted, lost, due>>

\* A faulty retry that asks for room before it has made room.
RetryFrontBeforePop ==
    /\ FrontReady
    /\ ~CanTransmitNow
    /\ LET rest == PopFront(delayQueue)
           id == FrontItem(delayQueue)
       IN IF IsFull(delayQueue, DelayQueueSize)
          THEN delayQueue' = rest /\ Lose(id)
          ELSE /\ delayQueue' = Insert(rest, id, Plus(millis, SlotTime))
               /\ UNCHANGED <<droppedCount, lost>>
    /\ UNCHANGED <<txVars, forwardedCount, delayedCount, accepted, sent, due>>

\* transmit() refused the popped packet: it goes back, a jitter slot later.
RetryFront ==
    /\ FrontReady
    /\ ~CanTransmitNow
    /\ LET rest == PopFront(delayQueue)
           id == FrontItem(delayQueue)
       IN IF IsFull(rest, DelayQueueSize)
          THEN delayQueue' = rest /\ Lose(id)
          ELSE /\ delayQueue' = Insert(rest, id, Plus(millis, SlotTime))
               /\ UNCHANGED <<droppedCount, lost>>
    /\ UNCHANGED <<txVars, forwardedCount, delayedCount, accepted, sent, due>>

\* loop() -> processDelayQueue(), when it does anything at all.
Loop == (SendFront \/ RetryFront) /\ UNCHANGED clockVars

\* The command handler, the discovery responder and the trace handler
\* transmit through the same object.
OtherTransmit == /\ transmits < MaxTransmits
                 /\ Transmit
                 /\ UNCHANGED <<clockVars, fwdVars>>

Next ==
    \/ \E p \in Packets : ProcessPacket(p)
    \/ Loop
    \/ OtherTransmit
    \/ RadioReports /\ UNCHANGED <<clockVars, fwdVars>>
    \/ ResetStats /\ UNCHANGED <<clockVars, fwdVars>>
    \/ Tick /\ UNCHANGED <<txVars, fwdVars>>

\* main.cpp runs loop() for ever, and the radio reports on every packet it
\* was given; nothing makes packets arrive or other components send.
Fairness == /\ WF_vars(Loop)
            /\ WF_vars(RadioReports /\ UNCHANGED <<clockVars, fwdVars>>)

Spec == Init /\ [][Next]_vars /\ Fairness

----------------------------------------------------------------------------
\* No packet is forgotten and none is forwarded twice: each packet accepted
\* for forwarding is in exactly one place, sent once, given up, or in one slot
\* of the delay queue, whatever the order of pops, retries and refusals.
EveryPacketOnce ==
    /\ sent \cup lost \cup Items(delayQueue) = 1..accepted
    /\ sent \cap lost = {}
    /\ Items(delayQueue) \cap (sent \cup lost) = {}
    /\ DistinctItems(delayQueue)

\* The counters the node reports are those of the packets: forwardedCount is
\* raised in two places, droppedCount in three.
CountersAgree ==
    /\ forwardedCount = Cardinality(sent)
    /\ droppedCount = Cardinality(lost)

\* The front of the delay queue has the smallest key, the invariant that lets
\* processDelayQueue() look at the front alone.
QueueSorted == SortedByKey(delayQueue)

\* A retry never costs a packet: the slot freed by the pop is still free when
\* the packet goes back ("retry until success", PacketForwarder.cpp:419).
RetryKeepsPacket == [][Loop => lost' = lost]_vars

\* No delayed packet leaves before its delay has passed (enqueueDelayed,
\* processDelayQueue, retries included), if it is due before the clock wraps.
NeverEarly ==
    [][\A id \in Items(delayQueue) :
          id \in sent' \ sent /\ due[id] < ClockMod => uptime >= due[id]]_vars

\* A delayed packet whose time has come is handed to the radio in the end,
\* also when the transmitter was busy or the transmission before it timed out,
\* in every run of the node that ends before the clock wraps.
Due(id) == id \in Items(delayQueue) /\ due[id] <= uptime
DueIsSent ==
    [](uptime < ClockMod) => \A id \in 1..MaxAccepted : Due(id) ~> id \in sent
============================================================================
