-------------------------------- MODULE Mesh --------------------------------
(***************************************************************************)
(* Several repeaters running this firmware, and the radio between them.    *)
(* Inside one repeater a packet goes through LoRaReceiver's queue, the     *)
(* deduplicator and the forwarder or the trace handler; modules            *)
(* Deduplicator and Forwarder have the detail (wrapping clocks, delays,    *)
(* the delay queue), which here is a free choice of when to transmit.      *)
(* A transmission is heard by any of the sender's neighbours.              *)
(***************************************************************************)
EXTENDS Naturals, Sequences, SequencesExt, FiniteSets

CONSTANTS
    Repeaters,
    Clients,         \* stations that only send (external)
    Links,           \* <<s, r>>: repeater r hears station s
    Hashes,          \* one-byte node hashes
    HashOf,          \* NodeConfig::getNodeHash() of each repeater
    Originals,       \* the packets the stations send, each once
    MaxPathLength,   \* Config::Forwarding::MAX_PATH_LENGTH
    CacheSize,       \* Config::Deduplication::CACHE_SIZE
    QueueSize,       \* Config::Queue::PACKET_QUEUE_SIZE
    MaxSent,         \* bound of a TLC run: packets the stations send
    Forgetful,       \* do cached hashes expire while packets are about?
    Reliable         \* is every transmission heard and nothing given up?

Stations == Repeaters \cup Clients
Ids == {o.id : o \in Originals}

\* A packet in flight.  hops is the list in the payload of a TRACE, and for a
\* DIRECT packet the path it started with (ghost); from is the station that
\* made it (ghost).  The path of a TRACE holds one SNR byte per hop.
Snr == 0
Path(S) == {path \in Seq(S) : Len(path) <= MaxPathLength}
Packet == [id : Ids, from : Stations, route : {"FLOOD", "DIRECT", "TRACE"},
           path : Path(Hashes \cup {Snr}), hops : Seq(Hashes)]

ASSUME MeshAssumption ==
    /\ IsFiniteSet(Repeaters)
    /\ Links \subseteq Stations \X Repeaters
    /\ Snr \notin Hashes
    /\ HashOf \in [Repeaters -> Hashes]
    /\ MaxPathLength \in Nat /\ CacheSize \in Nat \ {0} /\ QueueSize \in Nat
    /\ MaxSent \in Nat
    /\ Forgetful \in BOOLEAN /\ Reliable \in BOOLEAN
    /\ Originals \subseteq Packet /\ Ids \subseteq Nat
    /\ \A o, q \in Originals : o.id = q.id => o = q
    /\ \A o \in Originals :
          /\ o.route = "DIRECT" => o.path = o.hops /\ o.path \in Path(Hashes)
          /\ o.route # "DIRECT" => o.path = <<>>

VARIABLES
    unsent,      \* originals not yet sent
    rxQueue,     \* per repeater: PacketQueue, oldest first
    seen,        \* per repeater: hashes in the deduplicator, oldest first
    pending,     \* per repeater: packets on their way to the transmitter
    forwards     \* ghost: how often a repeater took up a packet, 2 for more

vars == <<unsent, rxQueue, seen, pending, forwards>>

\* Faulty computePacketHash(): the path counts always, or never.
HashWithPath(p) == <<p.id, Len(p.path)>>
HashOfPayload(p) == <<p.id>>

\* computePacketHash(): the path length counts for TRACE alone.
PacketHash(p) == IF p.route = "TRACE" THEN <<p.id, Len(p.path)>> ELSE <<p.id>>

TypeOK ==
    /\ unsent \subseteq Originals
    /\ rxQueue \in [Repeaters -> Seq(Packet)]
    /\ \A r \in Repeaters : Len(rxQueue[r]) <= QueueSize
    /\ seen \in [Repeaters -> Seq(Seq(Nat))]
    /\ \A r \in Repeaters : Len(seen[r]) <= CacheSize
    /\ pending \in [Repeaters -> SUBSET Packet]
    /\ forwards \in [Repeaters -> [Ids -> 0..2]]

Init ==
    /\ unsent = Originals
    /\ rxQueue = [r \in Repeaters |-> <<>>]
    /\ seen = [r \in Repeaters |-> <<>>]
    /\ pending = [r \in Repeaters |-> {}]
    /\ forwards = [r \in Repeaters |-> [i \in Ids |-> 0]]

----------------------------------------------------------------------------
Neighbours(s) == {r \in Repeaters : <<s, r>> \in Links}

\* A faulty enqueue() without the test for room.
EnqueueUnbounded(q, p) == Append(q, p)

\* PacketQueue::enqueue(): a full queue drops the newcomer.
Enqueue(q, p) == IF Len(q) < QueueSize THEN Append(q, p) ELSE q

\* One transmission and LoRaReceiver::onRxDone() at those who heard it.
Broadcast(s, p) ==
    \E heard \in IF Reliable THEN {Neighbours(s)} ELSE SUBSET Neighbours(s) :
        rxQueue' = [r \in Repeaters |-> IF r \in heard THEN Enqueue(rxQueue[r], p)
                                                       ELSE rxQueue[r]]

\* CommandHandler::loop() sending an advert, or a client.  The deduplicator of
\* the sender learns nothing of it.
Originate(o) ==
    /\ o \in unsent /\ Cardinality(Originals \ unsent) < MaxSent
    /\ unsent' = unsent \ {o}
    /\ Broadcast(o.from, o)
    /\ UNCHANGED <<seen, pending, forwards>>

\* A faulty shouldForward() without the loop check, and one off by one.
FloodCheckLooping(r, p) == Len(p.path) < MaxPathLength
FloodCheckShort(r, p) == /\ Len(p.path) + 1 < MaxPathLength
                         /\ ~ Contains(p.path, HashOf[r])

\* shouldForward() on a FLOOD packet
FloodCheck(r, p) == /\ Len(p.path) < MaxPathLength
                    /\ ~ Contains(p.path, HashOf[r])

\* A faulty shouldForward() that accepts any hop of the path.
DirectCheckAnyHop(r, p) == Contains(p.path, HashOf[r])

\* shouldForward() on a DIRECT packet: this repeater is the next hop.
DirectCheck(r, p) == p.path # <<>> /\ Head(p.path) = HashOf[r]

\* TraceHandler::processPacket(), where the path is as long as the hops done,
\* and the test of appendSnrAndForward(): a path has no room for another SNR
\* when it is MAX_PATH_SIZE long, which is MAX_PATH_LENGTH.
TraceCheck(r, p) == /\ Len(p.path) < Len(p.hops)
                    /\ p.hops[Len(p.path) + 1] = HashOf[r]
                    /\ Len(p.path) < MaxPathLength

TakesUp(r, p) == \/ p.route = "FLOOD" /\ FloodCheck(r, p)
                 \/ p.route = "DIRECT" /\ DirectCheck(r, p)
                 \/ p.route = "TRACE" /\ TraceCheck(r, p)

\* Faulty addNodeToPath(): one forgets to raise the length, one writes over
\* the last entry.
AddNodeBeyondEnd(r, path) == path
AddNodeOverLast(r, path) ==
    IF path = <<>> THEN <<HashOf[r]>> ELSE Append(Front(path), HashOf[r])

\* addNodeToPath()
AddNodeToPath(r, path) == Append(path, HashOf[r])

\* The packet a repeater sends on: addNodeToPath(), removeSelfFromPath(),
\* appendSnrAndForward().
Hop(r, p) ==
    [p EXCEPT !.path = CASE p.route = "FLOOD" -> AddNodeToPath(r, @)
                         [] p.route = "DIRECT" -> Tail(@)
                         [] p.route = "TRACE" -> Append(@, Snr)]

\* addToCache(): the newest hash pushes the oldest out of a full cache.
Remember(r, h) ==
    LET all == Append(seen[r], h)
    IN seen' = [seen EXCEPT ![r] = IF Len(all) > CacheSize THEN Tail(all) ELSE all]

\* Two copies of one packet pending at once count as one: it takes an expiry
\* within the delay of the first.
TakeUp(r, p) ==
    /\ pending' = [pending EXCEPT ![r] = @ \cup {Hop(r, p)}]
    /\ forwards' = [forwards EXCEPT ![r][p.id] = IF @ < 2 THEN @ + 1 ELSE 2]

\* processQueue() -> dispatchPacket() for one packet.  A packet is cached
\* before anyone asks whether this repeater is to forward it.
Receive(r) ==
    /\ rxQueue[r] # <<>>
    /\ rxQueue' = [rxQueue EXCEPT ![r] = Tail(@)]
    /\ LET p == Head(rxQueue[r])
       IN \/ /\ Contains(seen[r], PacketHash(p))
             /\ UNCHANGED <<seen, pending, forwards>>
          \/ /\ ~ Contains(seen[r], PacketHash(p))
             /\ Remember(r, PacketHash(p))
             /\ \/ TakesUp(r, p) /\ TakeUp(r, p)
                \* not its packet; or too weak, delay queue full, radio busy
                \/ /\ TakesUp(r, p) => ~ Reliable
                   /\ UNCHANGED <<pending, forwards>>
    /\ UNCHANGED unsent

\* processDelayQueue(), or a packet forwarded without delay.
Transmit(r) ==
    /\ \E p \in pending[r] :
          /\ pending' = [pending EXCEPT ![r] = @ \ {p}]
          /\ Broadcast(r, p)
    /\ UNCHANGED <<unsent, seen, forwards>>

\* cleanExpiredEntries(), 60 s after the packet
Expire(r) ==
    /\ Forgetful
    /\ seen[r] # <<>>
    /\ seen' = [seen EXCEPT ![r] = Tail(@)]
    /\ UNCHANGED <<unsent, rxQueue, pending, forwards>>

Next == \/ \E o \in Originals : Originate(o)
        \/ \E r \in Repeaters : Receive(r) \/ Transmit(r) \/ Expire(r)

\* Each repeater runs its main loop for ever; nobody has to send.
Fairness == \A r \in Repeaters : WF_vars(Receive(r)) /\ WF_vars(Transmit(r))

Spec == Init /\ [][Next]_vars /\ Fairness

----------------------------------------------------------------------------
\* The packets a repeater holds.
Held(r) == pending[r] \cup {rxQueue[r][i] : i \in DOMAIN rxQueue[r]}

\* A flood never goes in a circle: no path in the mesh names a hash twice,
\* also when the deduplicators have forgotten the packet (isNodeInPath()).
LoopFree(p) ==
    p.route = "FLOOD" => \A i, j \in DOMAIN p.path : i # j => p.path[i] # p.path[j]
FloodPathLoopFree == \A r \in Repeaters : \A p \in Held(r) : LoopFree(p)

\* walk leads from station s, one link after the other, to repeater r.
LeadsTo(s, walk, r) ==
    /\ \A i \in DOMAIN walk : walk[i] \in Neighbours(IF i = 1 THEN s ELSE walk[i - 1])
    /\ r \in Neighbours(IF walk = <<>> THEN s ELSE Last(walk))

\* The path a FLOOD packet arrives with is a route of the mesh, from hop to
\* neighbouring hop, which a DIRECT packet can be sent along later.
PathIsRoute ==
    \A r \in Repeaters : \A i \in DOMAIN rxQueue[r] :
        LET p == rxQueue[r][i]
        IN p.route = "FLOOD" =>
              \E walk \in [DOMAIN p.path -> Repeaters] :
                 /\ \A k \in DOMAIN walk : HashOf[walk[k]] = p.path[k]
                 /\ LeadsTo(p.from, walk, r)

HopsDone(p) == IF p.route = "DIRECT" THEN Len(p.hops) - Len(p.path) ELSE Len(p.path)

\* A DIRECT or TRACE packet has been through the hops it no longer names, each
\* taken up by a repeater of that hash, and a DIRECT packet names the others.
HopsFollowed(p) ==
    p.route # "FLOOD" =>
      /\ HopsDone(p) \in 0..Len(p.hops)
      /\ p.route = "DIRECT" =>
            \A k \in 1..Len(p.path) : p.path[k] = p.hops[HopsDone(p) + k]
      /\ \A k \in 1..HopsDone(p) :
            \E q \in Repeaters : HashOf[q] = p.hops[k] /\ forwards[q][p.id] > 0
HopsInOrder == \A r \in Repeaters : \A p \in Held(r) : HopsFollowed(p)

\* How often a repeater of that hash is listed among the hops of a packet.
Listed(o, r) == Cardinality({k \in DOMAIN o.hops : o.hops[k] = HashOf[r]})

\* The hashes the copies of a packet can have, and all of them: do they fit the
\* cache?
HashesOf(o) ==
    IF o.route = "TRACE" THEN {<<o.id, n>> : n \in 0..Len(o.hops)} ELSE {<<o.id>>}
TrafficHashes == UNION {HashesOf(o) : o \in Originals}
TrafficFits ==
    IsFiniteSet(TrafficHashes) /\ Cardinality(TrafficHashes) <= CacheSize

\* While nothing is forgotten, because nothing expires and the traffic fits the
\* cache, a repeater forwards no packet twice: however many copies arrive, over
\* however many paths; a TRACE once for each time it is listed
\* (processPacket() of the deduplicator).
ForwardedOnce ==
    ~ Forgetful /\ TrafficFits =>
       \A o \in Originals, r \in Repeaters :
          forwards[r][o.id] <= IF o.route = "TRACE" THEN Listed(o, r) ELSE 1

\* Traffic dies out: every packet sent is heard and forwarded only so often,
\* even with deduplicators that forget everything.
Quiet == \A r \in Repeaters : rxQueue[r] = <<>> /\ pending[r] = {}
TrafficDiesOut == <>[]Quiet

\* A flood covers the mesh: each repeater gets a packet once sent, if no
\* transmission is lost and MaxPathLength suffices.
FloodCoversMesh ==
    \A o \in Originals, r \in Repeaters :
       o.route = "FLOOD" /\ r # o.from =>
          (o \notin unsent ~> Contains(seen[r], PacketHash(o)))

\* A packet with a route goes through all its hops (of up to two visits each,
\* where forwards stops counting).
Arrives(o) ==
    o \notin unsent ~> \A r \in Repeaters : forwards[r][o.id] >= Listed(o, r)

\* A TRACE along a route of the mesh gets to its end.
TraceArrives == \A o \in Originals : o.route = "TRACE" => Arrives(o)

\* README.md:117: "Packets follow a specified path hop-by-hop.  Each node
\* checks if it's the next hop, removes itself from the path, and forwards":
\* a DIRECT packet along a route of the mesh gets to its end.
DirectArrives == \A o \in Originals : o.route = "DIRECT" => Arrives(o)

\* README.md:116: "Others hear the transmission and cancel their pending
\* forward": a repeater that processes another copy of a packet it has pending
\* gives its own up.
HeardCancels ==
    [][\A r \in Repeaters : \A p \in pending[r] :
          /\ p.route = "FLOOD"
          /\ rxQueue[r] # <<>> /\ rxQueue'[r] = Tail(rxQueue[r])
          /\ Head(rxQueue[r]).id = p.id
          => p \notin pending'[r]]_vars
============================================================================
