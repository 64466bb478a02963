-------------------------------- MODULE Node --------------------------------
(***************************************************************************)
(* One repeater from the radio's interrupt to sleep: main.cpp's loop(),    *)
(* LoRaReceiver, PacketDispatcher and PowerManager, around the neighbour   *)
(* table, the time and the private channels.  Frames arrive at any moment, *)
(* also between two steps of the loop and while the MCU sleeps.            *)
(*                                                                         *)
(* What the forwarder and the two responders do with a packet they keep is *)
(* in Forwarder and Responders: here each has work or has none, and its    *)
(* rate limits and delays are left open.                                   *)
(***************************************************************************)
EXTENDS TimeSync, NeighborTable, PacketQueue, Channel, Commands

CONSTANTS
    Frame,           \* the frames the radio may hear
    FrameOf,         \* what each of them is
    NodeHash,        \* NodeConfig::getNodeHash()
    HashWord,        \* and how it is written in a reply
    NumberWords,     \* words that are numbers, and their values
    MeantForUs,      \* frames that hold a command for this node, on its channels
    EntryRoom,       \* 10 bytes, NeighborTracker.cpp:90
    MaxReasonable,   \* 10000 ms, PowerManager.cpp:37
    Scenarios        \* bound of a TLC run: the frames on the air, in order

\* The words of the replies; "node" is the node's name.
ReplyWords == {"node", ":", " ", "RX:", "TX:", "Air:", "Stats", "cleared", "No", "loc", "Loc",
               "set", "Bad", "lat", "N:", "!cmd[@XX]", "|", "!status[clear]"}

\* What FrameOf says of a frame.  size: its bytes; raw: whether it passes
\* validateRawPacket() and decode(); snr: in dB, as the radio driver reports
\* it; origin: the first byte of an advert's payload; payload: of a GRP_TXT;
\* forward: whether PacketForwarder takes it up; request: whether it is a
\* DISCOVER_REQ that asks for repeaters.
ASSUME NodeAssumption ==
    /\ NodeHash \in NodeHashes
    /\ Scenarios \subseteq Seq(Frame)
    /\ MaxReasonable \in Nat /\ EntryRoom \in Nat \ {0, 1}
    /\ EpochMod - 1 \in Word32
    /\ ReplyWords \cup {HashWord} \subseteq Words
    /\ \A w \in DOMAIN NumberWords : NumberWords[w] \in Int
    /\ \A f \in Frame :
          /\ FrameOf[f].size \in Nat
          /\ FrameOf[f].raw \in {"invalid", "undecodable", "packet"}
          /\ FrameOf[f].type \in {"ADVERT", "GRP_TXT", "CONTROL", "TRACE", "DATA"}
          /\ FrameOf[f].snr \in Snr
          /\ FrameOf[f].origin \in NodeHashes
          /\ FrameOf[f].forward \in BOOLEAN /\ FrameOf[f].request \in BOOLEAN
          /\ FrameOf[f].type = "GRP_TXT" =>
                \A m \in Received(FrameOf[f].payload) : m.time \in Epoch

VARIABLES
    phase,              \* where loop() is
    latched,            \* frames the radio has and IrqProcess() has not
    air,                \* frames other nodes will send
    seen,               \* the deduplicator's cache (Deduplicator)
    packetCount, totalRxAirtime,
    forwards,           \* packets the forwarder holds
    answer,             \* the command handler's pendingPacket, or NoAnswer
    discovery,          \* DiscoveryResponder's pendingResponse
    coordinates,        \* NodeConfig's latitude and longitude, or NoLocation
    totalSleepTime, sleepStart,
    slept               \* ghost: uptime spent asleep since the last reset

loopVars == <<phase, latched, air>>
rxVars == <<packetCount, totalRxAirtime>>
workVars == <<seen, forwards, answer, discovery, coordinates>>
sleepVars == <<totalSleepTime, sleepStart, slept>>
vars == <<clockVars, loopVars, queueVars, rxVars, workVars, nbVars, timeVars, sleepVars>>

NoAnswer == [channel |-> 0, time |-> 0, text |-> <<>>, packet |-> {}]
NoLocation == <<>>

Phase == {"irq", "queue", "forward", "command", "discovery", "power", "asleep"}

TypeOK ==
    /\ ClockTypeOK /\ QueueTypeOK /\ NeighborTypeOK /\ TimeTypeOK
    /\ phase \in Phase
    /\ latched \in Seq(Frame)
    /\ air \in Seq(Frame)
    /\ seen \subseteq Frame
    /\ packetCount \in Nat /\ totalRxAirtime \in Nat
    /\ forwards \in Nat
    /\ answer.channel \in 0..NumChannels
    /\ discovery \in BOOLEAN
    /\ totalSleepTime \in Nat /\ slept \in Nat
    /\ sleepStart \in 0..(ClockMod - 1)

\* setup(), and the first loop().
Init ==
    /\ ClockInit /\ QueueInit /\ NeighborInit /\ TimeInit
    /\ phase = "irq"
    /\ latched = <<>> /\ air \in Scenarios
    /\ seen = {}
    /\ packetCount = 0 /\ totalRxAirtime = 0
    /\ forwards = 0 /\ answer = NoAnswer /\ discovery = FALSE
    /\ coordinates = NoLocation
    /\ totalSleepTime = 0 /\ sleepStart = 0 /\ slept = 0

----------------------------------------------------------------------------
\* estimateAirtime(): microseconds of preamble and symbols, in milliseconds.
EstimateAirtime(length) ==
    LET symbols == 8 + ((8 * length + 12 + 31) \div 32) * 8
    IN (82944 + symbols * 4096) \div 1000

\* The radio hears a frame: it is kept until IrqProcess() (external).
Hear ==
    /\ air # <<>>
    /\ air' = Tail(air)
    /\ latched' = Append(latched, Head(air))
    /\ UNCHANGED <<clockVars, phase, queueVars, rxVars, workVars, nbVars, timeVars, sleepVars>>

\* An int8_t of the low byte of x.
Int8(x) == ((x + 128) % 256) - 128

\* snr * 4, "0.25 dB units".
Scaled(snr) == Int8(4 * snr)

ASSUME ItemsAssumption ==
    QueueItems = {[frame |-> f, snr |-> Scaled(FrameOf[f].snr)] : f \in Frame}

\* onRxDone()
OnRxDone ==
    /\ phase = "irq"
    /\ latched # <<>>
    /\ LET f == Head(latched)
       IN /\ totalRxAirtime' = totalRxAirtime + EstimateAirtime(FrameOf[f].size)
          /\ IF FrameOf[f].raw = "packet"
             THEN /\ Enqueue([frame |-> f, snr |-> Scaled(FrameOf[f].snr)])
                  /\ packetCount' = packetCount + 1
             ELSE UNCHANGED <<queueVars, packetCount>>
    /\ latched' = Tail(latched)
    /\ UNCHANGED <<clockVars, phase, air, workVars, nbVars, timeVars, sleepVars>>

\* Radio.IrqProcess() has nothing left to report.
IrqDone ==
    /\ phase = "irq" /\ latched = <<>>
    /\ phase' = "queue"
    /\ UNCHANGED <<clockVars, latched, air, queueVars, rxVars, workVars, nbVars,
                   timeVars, sleepVars>>

----------------------------------------------------------------------------
\* A faulty priority: the monitor in front of the deduplicator.
MonitorFirst == [Deduplicator |-> 10, PacketForwarder |-> 20, TraceHandler |-> 30,
                 CommandHandler |-> 35, DiscoveryResponder |-> 36,
                 NeighborMonitor |-> 5, PacketLogger |-> 99]

\* PacketDispatcher::addProcessor() keeps the processors sorted by priority,
\* the smallest first.
Priority == [Deduplicator |-> 10, PacketForwarder |-> 20, TraceHandler |-> 30,
             CommandHandler |-> 35, DiscoveryResponder |-> 36,
             NeighborMonitor |-> 50, PacketLogger |-> 99]
Registered == <<"Deduplicator", "PacketLogger", "CommandHandler", "NeighborMonitor",
                "DiscoveryResponder", "TraceHandler", "PacketForwarder">>
MaxProcessors == 8

\* A newcomer goes in front of the first that has a larger priority.
AddProcessor(processors, p) ==
    LET later == {i \in DOMAIN processors : Priority[processors[i]] > Priority[p]}
        place == IF later = {} THEN Len(processors) + 1
                               ELSE CHOOSE i \in later : \A j \in later : i <= j
    IN IF Len(processors) >= MaxProcessors \/ Contains(processors, p) THEN processors
       ELSE InsertAt(processors, place, p)

\* The processors after the first k calls of setup(), and after all.
Added[k \in 0..Len(Registered)] ==
    IF k = 0 THEN <<>> ELSE AddProcessor(Added[k - 1], Registered[k])
Processors == Added[Len(Registered)]

\* Where a packet stops: a duplicate at the deduplicator (DROP), a TRACE at
\* the trace handler (DROP or STOP).
Stops(p, f) == \/ p = "Deduplicator" /\ f \in seen
               \/ p = "TraceHandler" /\ FrameOf[f].type = "TRACE"

\* dispatchPacket(): the processors a packet gets to.
Reached(f) ==
    {Processors[i] : i \in {k \in DOMAIN Processors :
                               \A j \in 1..(k - 1) : ~ Stops(Processors[j], f)}}

\* NeighborMonitor::processPacket()
MonitorNeighbors(f, scaled) ==
    IF "NeighborMonitor" \in Reached(f) /\ FrameOf[f].type = "ADVERT"
    THEN UpdateNeighbor(FrameOf[f].origin, Truncated(scaled, 4))
    ELSE UNCHANGED nbVars

\* The message a frame holds, if this node can read it, and what it asks of
\* this node.
Inbox == [f \in Frame |-> IF FrameOf[f].type = "GRP_TXT" THEN Received(FrameOf[f].payload)
                                                        ELSE {}]
Requests == [f \in Frame |-> UNION {Asked(m.text, NodeHash) : m \in Inbox[f]}]

\* What CommandHandler::processPacket() gets to see of it.
Message(f) == IF "CommandHandler" \in Reached(f) THEN Inbox[f] ELSE {}

\* decodeMessageInternal() follows the time of every message it can read.
ReadTime(f) ==
    IF Message(f) = {} THEN UNCHANGED timeVars
                       ELSE \E m \in Message(f) : UpdateFromRemote(m.time)

----------------------------------------------------------------------------
\* The replies; every one begins with the node's name and hash, and is written
\* into a buffer of MAX_MESSAGE_LEN.
Reply(words) == Fitted(<<"node", HashWord, ":", " ">> \o words)

StatusText == Reply(<<"RX:", packetCount, "TX:", "Air:">>)
LocationText == IF coordinates = NoLocation THEN Reply(<<"No", "loc">>)
                ELSE Reply(<<"Loc">> \o coordinates)

\* An entry of the list is a hash and an average; buildNeighborList() begins one
\* only while there is room for the longest.
NeighborsText ==
    LET list == NeighborList(neighbors)
        head == Reply(<<"N:", Len(list)>>)
        Begun(i) == Len(head) + 2 * (i - 1) < MaxMessageLen - EntryRoom
        shown == {i \in DOMAIN list : Begun(i)}
    IN head \o [k \in 1..(2 * Cardinality(shown)) |->
                   IF k % 2 = 1 THEN list[(k + 1) \div 2].nodeHash
                                ELSE list[k \div 2].avgSnr]

\* A text goes into the command handler's one slot, on the channel it was
\* asked for, with the time of this node.
Queue(ch, text) ==
    answer' = [channel |-> ch, time |-> Now', text |-> text,
               packet |-> BuiltOn(ch, text, Now')]

\* A faulty reset that leaves the sleep alone.
ResetReceiverOnly == /\ packetCount' = 0 /\ totalRxAirtime' = 0
                     /\ slept' = 0
                     /\ UNCHANGED <<totalSleepTime, sleepStart>>

ResetStats == /\ totalSleepTime' = 0 /\ slept' = 0
              /\ UNCHANGED sleepStart
              /\ packetCount' = 0 /\ totalRxAirtime' = 0

KeepStats == UNCHANGED <<sleepVars, rxVars>>

\* handleStatusCommand()
Status(ch, operands) ==
    /\ IF operands = <<"clear">>
       THEN ResetStats /\ Queue(ch, Reply(<<"Stats", "cleared">>))
       ELSE KeepStats /\ Queue(ch, StatusText)
    /\ UNCHANGED coordinates

\* The numbers strtol() finds in the operands of "!location": a word that is
\* no number ends the search.
Number(words, i) == words # <<>> /\ i \in DOMAIN words /\ words[i] \in DOMAIN NumberWords

\* handleLocationCommand().  The latitude must be a number; where the
\* longitude is none, strtol() returns 0, and the test of line 253 does not
\* notice.
SetLocation(ch, operands) ==
    LET words == SelectSeq(operands, LAMBDA w : w # " ")
    IN IF Number(words, 1)
       THEN /\ coordinates' = <<NumberWords[words[1]],
                                IF Number(words, 2) THEN NumberWords[words[2]] ELSE 0>>
            /\ Queue(ch, Reply(<<"Loc", "set">>))
       ELSE Queue(ch, Reply(<<"Bad", "lat">>)) /\ UNCHANGED coordinates

Location(ch, operands) ==
    /\ CASE operands = <<>> -> Queue(ch, LocationText) /\ UNCHANGED coordinates
         [] operands = <<"clear">> -> /\ coordinates' = NoLocation
                                      /\ Queue(ch, Reply(<<"Loc", "cleared">>))
         [] OTHER -> SetLocation(ch, operands)
    /\ KeepStats

\* handleNeighborsCommand() and handleHelpCommand()
Tell(ch, text) == Queue(ch, text) /\ KeepStats /\ UNCHANGED coordinates

\* handleAdvertCommand(): the slot holds an advert (Adverts).
SendAdvert(ch) ==
    /\ answer' = [NoAnswer EXCEPT !.text = <<"advert">>, !.time = Now']
    /\ KeepStats /\ UNCHANGED coordinates

Carry(ch, asked) ==
    CASE asked.command = <<"!status">> -> Status(ch, asked.operands)
      [] asked.command = <<"!advert">> -> SendAdvert(ch)
      [] asked.command = <<"!location">> -> Location(ch, asked.operands)
      [] asked.command \in {<<"!neighbors">>, <<"!neighbours">>} -> Tell(ch, NeighborsText)
      [] asked.command = <<"!help">> -> Tell(ch, Reply(<<"!cmd[@XX]", " ", "|", "!status[clear]">>))
      [] OTHER -> UNCHANGED answer /\ KeepStats /\ UNCHANGED coordinates

\* CommandHandler::processPacket(); its rate limit may refuse any command.
HandleCommand(f) ==
    \/ \E m \in Message(f) : \E asked \in Requests[f] : Carry(m.channel, asked)
    \/ UNCHANGED answer /\ KeepStats /\ UNCHANGED coordinates

\* DiscoveryResponder::processPacket(), rate-limited in the same way.
HandleDiscovery(f) ==
    \/ /\ "DiscoveryResponder" \in Reached(f)
       /\ FrameOf[f].type = "CONTROL" /\ FrameOf[f].request
       /\ discovery' = TRUE
    \/ UNCHANGED discovery

\* PacketForwarder::processPacket()
HandleForward(f) ==
    forwards' = IF "PacketForwarder" \in Reached(f) /\ FrameOf[f].forward
                THEN forwards + 1 ELSE forwards

\* processQueue(): one packet out of the ring and through the processors.
Dispatch ==
    /\ phase = "queue"
    /\ UNCHANGED <<clockVars, loopVars>>
    /\ \E item \in QueueItems :
          /\ Dequeue(item)
          /\ seen' = seen \cup {item.frame}
          /\ HandleForward(item.frame)
          /\ ReadTime(item.frame)
          /\ HandleCommand(item.frame)
          /\ HandleDiscovery(item.frame)
          /\ MonitorNeighbors(item.frame, item.snr)

QueueDone ==
    /\ phase = "queue" /\ QueueEmpty
    /\ phase' = "forward"
    /\ UNCHANGED <<clockVars, latched, air, queueVars, rxVars, workVars, nbVars,
                   timeVars, sleepVars>>

----------------------------------------------------------------------------
OtherVars == <<clockVars, latched, air, queueVars, rxVars, nbVars, timeVars>>

GoOn(from, to) == phase = from /\ phase' = to /\ UNCHANGED <<OtherVars, sleepVars>>

\* packetForwarder.loop(): a packet leaves, or none is due or can be sent.
SendForward ==
    /\ GoOn("forward", "command")
    /\ forwards > 0
    /\ forwards' = forwards - 1
    /\ UNCHANGED <<seen, answer, discovery, coordinates>>
PassForward == GoOn("forward", "command") /\ UNCHANGED workVars

\* commandHandler.loop()
SendAnswer ==
    /\ GoOn("command", "discovery")
    /\ answer # NoAnswer
    /\ answer' = NoAnswer
    /\ UNCHANGED <<seen, forwards, discovery, coordinates>>
PassAnswer == GoOn("command", "discovery") /\ UNCHANGED workVars

\* discoveryResponder.loop()
SendDiscovery ==
    /\ GoOn("discovery", "power")
    /\ discovery
    /\ discovery' = FALSE
    /\ UNCHANGED <<seen, forwards, answer, coordinates>>
PassDiscovery == GoOn("discovery", "power") /\ UNCHANGED workVars

\* A faulty loop() that asks the forwarder alone.
ForwarderPending == forwards > 0

HasPendingWork == forwards > 0 \/ answer # NoAnswer \/ discovery

StayAwake == HasPendingWork /\ GoOn("power", "irq") /\ UNCHANGED workVars

\* PowerManager::sleep(), up to lowPowerHandler().
Sleep ==
    /\ phase = "power"
    /\ ~ HasPendingWork
    /\ phase' = "asleep"
    /\ sleepStart' = millis
    /\ UNCHANGED <<OtherVars, workVars, totalSleepTime, slept>>

\* Any interrupt wakes the MCU, the radio's for certain ("will wake on any
\* interrupt (LoRa, etc.)", PowerManager.cpp:30); a sleep that seems too long
\* is not counted.  sleepCycles, which nothing reads, is left out.
Wake ==
    /\ phase = "asleep"
    /\ phase' = "irq"
    /\ IF Since(sleepStart) < MaxReasonable
       THEN totalSleepTime' = totalSleepTime + Since(sleepStart)
       ELSE UNCHANGED totalSleepTime
    /\ UNCHANGED <<OtherVars, workVars, sleepStart, slept>>
WakeOnRadio == latched # <<>> /\ Wake

TimePasses ==
    /\ Tick
    /\ slept' = IF phase = "asleep" THEN slept + 1 ELSE slept
    /\ UNCHANGED <<loopVars, queueVars, rxVars, workVars, nbVars, timeVars,
                   totalSleepTime, sleepStart>>

Forward == SendForward \/ PassForward
Answer == SendAnswer \/ PassAnswer
Discover == SendDiscovery \/ PassDiscovery
Loop == \/ OnRxDone \/ IrqDone \/ Dispatch \/ QueueDone
        \/ Forward \/ Answer \/ Discover
        \/ StayAwake \/ Sleep

Next == \/ Hear
        \/ Loop \/ Wake
        \/ TimePasses

\* loop() runs for ever while the MCU is awake; the radio's interrupt wakes it.
\* A packet that waits is sent in the end: by the forwarder, DueIsSent of
\* Forwarder; by a responder, whose loop() asks at every turn whether its time
\* has come and the transmitter is idle, which ends by itself or times out.
Fairness == /\ WF_vars(Loop) /\ WF_vars(WakeOnRadio)
            /\ SF_vars(SendForward) /\ SF_vars(SendAnswer) /\ SF_vars(SendDiscovery)

Spec == Init /\ [][Next]_vars /\ Fairness

----------------------------------------------------------------------------
\* A frame heard at any moment is read, and what it asks for is done, without
\* the next frame being needed: the MCU never sleeps over a frame, a queued
\* packet or a response that waits (README.md, "No packets missed").
Work == latched # <<>> \/ ~ QueueEmpty \/ forwards > 0 \/ answer # NoAnswer \/ discovery
WorkGetsDone == Work ~> ~ Work

\* A duplicate changes nothing: the neighbours' averages, the clock, the
\* answers and the statistics are those of the first copy alone, because the
\* priorities put the deduplicator before the processors that setup() registers
\* after it.
DuplicatesIgnored ==
    [][\A item \in QueueItems :
          phase = "queue" /\ Dequeue(item) /\ item.frame \in seen =>
             UNCHANGED <<workVars, nbVars, timeVars, rxVars, sleepVars>>]_vars

\* The reply that waits for its time can be read with the key of the channel
\* the command came on, and with no other, back to the text and the time it
\* was built from (the last block filled up or full), by a node that has room
\* for its blocks.
ReplyReadBack ==
    \A p \in answer.packet : \A ch \in 1..NumChannels :
       Decodable(p) =>
          Decoded(p, Secret(ch)) =
             IF Secret(ch) = Secret(answer.channel)
             THEN {[time |-> answer.time, text |-> answer.text]} ELSE {}
ReplyBuilt == answer.channel # 0 => answer.packet # {}
ReplyReadable == ReplyReadBack /\ ReplyBuilt

\* Only a command that its sender meant for this node, on a channel the node
\* has the key of, is answered or carried out, with or without a name in front,
\* a target and operands.
CommandsHeeded ==
    [][\A item \in QueueItems :
          /\ phase = "queue" /\ Dequeue(item)
          /\ answer' # answer \/ coordinates' # coordinates \/ packetCount' # packetCount
          => item.frame \in MeantForUs]_vars

\* After a message the node's time is the sender's, or at most Tolerance
\* seconds ahead of it, also where the epoch returns to 0.
NowFollowsRemote ==
    [][\A item \in QueueItems :
          phase = "queue" /\ Dequeue(item) =>
             \A m \in Message(item.frame) :
                m.time # 0 => Ahead(Now', m.time) <= Tolerance]_vars

\* The sleep reported is never more than the sleep there was, although the
\* clock may return to 0 in between and a reset may come in between.
SleepNeverOverstated == totalSleepTime <= slept
============================================================================
