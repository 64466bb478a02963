# A formal model of the CubeCell MeshCore repeater

TLA+ modules, TLC configurations and TLAPS proofs about the firmware in this
repository. The code is the reference: each definition says which function it
stands for, and `PROJECT.json` ("map") names the lines.

## 1. The system

One MCU runs `setup()` once and `loop()` for ever (`src/main.cpp`). There are no
threads. What is concurrent is the radio (its callbacks run inside
`Radio.IrqProcess()` at the head of a loop turn), the clock, the other stations
of the mesh, and the power supply.

| Component | State | Operations | Talks to |
|---|---|---|---|
| `LoRaReceiver`, `PacketQueue` | a queue of 16 decoded packets, counters | `onRxDone`, `processQueue` | radio calls it; it feeds the dispatcher |
| `PacketDispatcher` | processors in priority order | `dispatchPacket` | calls each until one says DROP |
| `Deduplicator` | ring of 16 hash/stamp/valid entries | `processPacket` | first in the order |
| `PacketForwarder` | delay queue of 4 encoded packets, four counters | `processPacket`, `loop` | transmitter |
| `TraceHandler` | counters | `processPacket` | transmitter |
| `CommandHandler`, `DiscoveryResponder` | last request, last response, one pending response | `processPacket`, `loop` | transmitter, channels, NodeConfig, neighbours, statistics |
| `LoRaTransmitter` | transmitting flag, stamps, counters | `transmit`, `onTxDone`, `onTxTimeout`, `resetStats` | radio; shared by the four above |
| `NodeConfig`, `CryptoIdentity` | identity, location, EEPROM | `initialize`, `setLocation`, `clearLocation` | EEPROM library |
| `NeighborTracker`, `NeighborMonitor` | table of 8 neighbours | `updateNeighbor` | fed by received packets |
| `TimeSync` | epoch and the millis() it was set at | `updateFromRemote`, `now` | fed by every message a channel key opens; stamps what is sent |
| `PacketDecoder`, `PacketValidator` | none | decode, encode, validate | receiver, forwarder |
| `PrivateChannelAnnouncer` | keys and hashes of the channels | `initialize`, `buildPacket`, `decodeMessage` | commands; CryptoUtils, TimeSync |
| `PowerManager` | sleep statistics | `sleep`, `resetStats` | main loop |
| `lib/ed25519`, AES, SHA | none | keys, signatures, ciphers | identity, adverts, channels |
| `Logger`, `PacketLogger` | none | output only | everybody |

What is hard here, and what makes each part correct:

- **Wrapping time.** Every component reads `millis()`, which wraps after 49.7
  days; some code subtracts stamps (right across a wrap), some compares them as
  plain integers (wrong across it). The account of airtime, the age of cached
  hashes, the order of the delay queue and the rate limits must be right in
  *true* time, which no code can see.
- **One transmitter, many clients.** Packets wait for it, lose their place, are
  put off and retried; none may be lost uncounted, sent twice or before its
  delay.
- **Bounded buffers.** Receive queue, cache, delay queue and response slot
  overflow by dropping the newcomer, the oldest, the newcomer, and the older.
- **The mesh.** Each node sees several copies of a packet by different routes
  with losses; caches forget. Floods must end, not circle, and carry the route
  they took; routed packets must follow their hops and arrive.
- **A frame before sleep.** The loop looks at what waits to be sent and goes to
  sleep; whatever the radio latched meanwhile must wake it, and be read, without
  the next frame being needed.
- **Text over a shared channel.** A command is recognised by words of a message
  any key holder may have written, for this node, for all, or for another; the
  reply must be readable by whoever asked.
- **Power loss.** Identity and location are written to one EEPROM, buffered and
  committed; a restart must find all of either or none, and the same identity,
  which must still verify what the node says of itself.

"findings" and "hazards" in `PROJECT.json` list what can go wrong, line by line.

## 2. Modules

| Module | Models | Notes |
|---|---|---|
| `Clock` | `millis()` and true time | `Plus`, `Since`: `uint32_t` arithmetic mod `ClockMod` |
| `DelayQueue` | `core/containers/PriorityQueue.h` | operators on a sequence of item/key records |
| `Transmitter` | `radio/LoRaTransmitter.cpp` | actions for its clients to use; a specification of its own under a free client |
| `Forwarder` | `PacketForwarder.cpp` on one node | Clock + Transmitter + DelayQueue; the other clients are `OtherTransmit` |
| `Responders` | `CommandHandler.cpp`, `DiscoveryResponder.cpp` | Clock + Transmitter; both processors, one action each per branch |
| `SeenWindow` | what a deduplicator promises | abstract: a sliding window of true time |
| `Deduplicator` | `Deduplicator.cpp`, `CircularBuffer.h` | implements `SeenWindow` (mapping `PassedLately`) |
| `Mesh` | several repeaters and the radio between them | receive queue, deduplicator, forwarding decision, trace handler per node |
| `Storage` | `CryptoIdentity.cpp`, `NodeConfig.cpp` | boot, commands, power loss over one EEPROM |
| `Fifo` | what a bounded queue promises | abstract: put, get, refuse when full |
| `PacketQueue` | `PacketQueue.cpp` | the ring with its two indices; implements `Fifo` (mapping `Contents`) |
| `NeighborTable` | `NeighborTracker.cpp` | averages, eviction, the sorted report |
| `TimeSync` | `TimeSync.cpp` | the epoch carried on by `millis()`, both wrapping |
| `Channel` | `ChannelAnnouncer.cpp`, `PrivateChannelAnnouncer.cpp`, `CryptoUtils.cpp` | configured keys, a text to a packet and back |
| `Commands` | the parsing in `CommandHandler::processPacket` | what a text asks of a node: command, target, operands |
| `Node` | `main.cpp`, `PacketDispatcher.cpp`, `LoRaReceiver.cpp`, `PowerManager.cpp`, the handlers of each command | composes the five modules above under one main loop with interrupts and sleep |
| `PacketCodec` | `PacketDecoder.cpp`, `PacketValidator.h` | frames, packets, the payload of an advert |
| `Digest` | `lib/ed25519/sha512.c` | streaming and padding |
| `Ed25519` | `lib/ed25519` (`ge.c`, `sc.c`, `fe.c`, `precomp_data.h`, `keypair.c`, `sign.c`) | key pairs and signatures on a curve given by constants |
| `Adverts` | `buildAdvertAppData`, `buildAdvertPacket` | composes `Storage`, `PacketCodec` and `Ed25519`: adverts of a node that restarts, relayed by others |
| `MC*` | instances for TLC | packets, meshes, frames, curves, constraints |
| `Induction`, `TransmitterProofs`, `ForwarderProofs`, `RespondersProofs`, `DeduplicatorProofs`, `MeshProofs`, `NodeProofs`, `AdvertProofs` | proofs | section 6 |

How they correspond to the code:

- **An action is a handler with all it calls.** `Forwarder!ProcessPacket` runs
  from the payload type test to the enqueue or the transmission; `SendFront`
  and `RetryFront` are one iteration of the loop in `processDelayQueue()`, which
  the code repeats in one turn of `loop()`: the model lets other steps come
  between iterations, so every behaviour of the code is one of the model. The
  same holds for the order of calls in `loop()`.
- **Packets are small records.** What `shouldForward()` reads is kept (payload
  class, route, path, whether the signal is strong enough); the bytes are an
  identifier. A hash is the tuple of what `computePacketHash()` feeds it: two
  different contents are taken to hash differently.
- **Delays are sets.** The SNR score and the random slot become a choice from a
  set that holds 0, the threshold and both sides of it.
- **The radio is external.** After `Transmit` it reports TxDone or TxTimeout at
  any later time. A reception handled after `Radio.Send()` aborts it on the
  board (`LoRaReceiver.cpp:111`); what the code then sees is TxTimeout.
- **EEPROM.** `write()` changes a buffer, `commit()` stores all of it in one
  step (external). Bytes that are always written together are one area.
- **Node** is `loop()` from one `Radio.IrqProcess()` to the next: `phase` says how
  far it has come (`irq`, `queue`, `forward`, `command`, `discovery`, `power`,
  `asleep`), so the order of the calls is the code's. Frames arrive (`Hear`) and
  time passes between any two steps. `Dispatch` is one turn of `processQueue()`:
  the packet leaves the ring and goes through the processors in the order that
  `addProcessor` makes, up to the one that drops it. A frame is a name; what the
  code reads of it is in `FrameOf`. When a packet that waits may be sent is the
  matter of `Forwarder` and `Responders`; here it leaves at some turn or another.
  The expiry of cached hashes is in `Deduplicator`: `seen` does not forget.
- **A text** is a sequence of words (`Words`), numbers and separators, each as long
  as one byte; the cipher and the MAC are ideal (a block opens only under its
  key), while hashes of channels are numbers that may collide. Padding and lengths
  are the code's: a reply is cut where its buffer ends (`Fitted`), a list of
  neighbours begins an entry only while there is `EntryRoom`, the last block is
  filled up with the zero byte `NUL`. A text of more than 155 bytes makes more
  blocks than `plaintext[]` of `decodeMessageInternal()` holds; what that decoder
  does with it is not defined, so `ReplyReadBack` speaks of payloads that fit
  (`Decodable`), and of any other reader with room.
- **A frame of bytes** (`PacketCodec`) is a sequence of numbers whose field sizes are
  constants. A field element's ten limbs stand for a number mod `P`, a scalar's
  bytes for a number mod `L` or below `256^ScalarBytes`; the formulas of `ge.c`, the
  signed digits, the table with its selection, and the two passes over it are
  taken step by step. What they must amount to (`Verifies`) is written with the
  addition law of the curve instead. The table of the source is
  `base[i][j] = (j + 1) * 256^i * B`, as `Base` computes it.
- **Mesh** replaces delays by a free choice of when to transmit, and the cache's
  clock by `Expire`, which may take the oldest hash at any time
  (`Forgetful`). Its `pending` is a set; the ghost `forwards` counts.
- Ghost variables (marked in the modules) hold true time, identities of packets
  and what became of them; no guard of the code's actions reads them.

`PROJECT.json` lists faulty variants of single definitions (`SendFrontKeepingIt`,
`ExpiredSigned`, ...). They stand beside the definition they vary and are used by
no specification: substituting one must make the named property fail.

## 3. Runs

| Run | Question | Bounds | States |
|---|---|---|---|
| `Forwarder_node` | are packets conserved, counted, ordered, never early, and sent in the end? is the airtime account right? | 9 kinds of packet, 3 accepted, queue of 2, another sender, clock of 3 ticks, uptime 4 | 386 k |
| `Responders_wrap` | are responses a rate limit apart and never early? | clock of 5, uptime 7, 2 requests of 2 tags, 2 processors, another sender | 3.2 M |
| `Deduplicator_window` | does the ring decide as true time would? | clock of 5, uptime 8, 2 contents, ring of 2 | 30 k |
| `Mesh_lossy` | is a path a route and free of loops, are hops followed, does traffic end, when all is lossy and forgotten? | ring of 3 repeaters with a one-way link, 2 of 3 packets, caches and queues of 2 | 174 k |
| `Mesh_reliable` | without loss, does a flood reach all, each forwarding once, and a TRACE arrive? | kite of 4 repeaters, path limit 2 | 11 k |
| `Node_loop` | is every frame read and every request served without the next frame? is the ring a queue? do neighbours, time, commands, replies and the sleep account mean what was sent? | 11 scenarios of 2 or 3 frames out of 18, ring of 2, table of 2, clock of 3, uptime 3, epoch of 16, buffer of 18, 4 configured keys of which 2 become channels | 55 k |
| `Storage_restart` | is an identity whole and the same after any power failure? does the advert it signs verify, and arrive whole? | 2 locations, 3 identities, 2 times, 2 relays, frames of every route type up to the longest, a curve of order 8 * 23 | 40 k |

The bounds make each interesting case happen, which the faulty variants confirm:
a queue of two fills with three packets; a clock of three or five wraps inside
the run, which is the only way an idle transmitter refuses a packet that was
popped, and so the only way a retry happens; two routes of different length
meet at a node of the kite, whose tail is exactly the path limit away; a cache of
two is overrun by three hashes; the TRACE of `Mesh_lossy` returns to its
hops and lists one more than a path has room for. In `Node_loop` the weakest of a full table leaves or
stays, an average of -7 and -10 is rounded, the third frame finds the ring
full, the epoch returns to 0 between two messages, one key is too short, one
channel's hash collides with another's, one key is beyond the last channel, and
replies end before, at and behind a block's end. In `Storage_restart` the digested
messages end on both sides of the place where the length no longer fits. The
curve is small enough for TLC to add every pair of its points; its shape (twisted
Edwards with a = -1, cofactor 8, a base point of prime order, a complete addition
law) is that of Ed25519, and a scalar has four digits, whose carries all happen.
`DueIsSent` is asked of behaviours whose clock does not wrap, the others
being refuted by `Transmitter_silence`; the same run has both. `CHECK_DEADLOCK FALSE`
appears where the clock reaches its bound or the traffic has ended.

Five runs show that the code does not do what the repository says; each is
expected to fail on its one property:

| Run | Statement | What happens |
|---|---|---|
| `Transmitter_silence` | "Duty cycle enforcement disabled" (LoRaTransmitter.cpp:77) | after a wrap an idle transmitter refuses packets until the clock passes the last end again |
| `Mesh_direct` | "Packets follow a specified path hop-by-hop" (README.md:117) | a later hop overhears the packet, caches its hash, and drops it when addressed |
| `Mesh_cancel` | "Others hear the transmission and cancel their pending forward" (README.md:116) | the second copy is dropped by the deduplicator; nothing is cancelled |
| `Storage_identity` | "identity generated on first boot" (README.md:129) | a location command overwrites its first bytes; the next boot makes another, and its save overwrites the location |
| `Advert_location` | "Location (included in advert packets)" (Config.h:70) | an advert is written flags, location, name, and read flags, name, location: the coordinates become the name's first letters and no location is found |

## 4. Properties

Types apart, each property relates several steps or actors:
`AirtimeWithinUptime` (no transmission counted twice, across wraps);
`EveryPacketOnce` (each accepted packet waits in one slot, or was sent, or was
lost, exactly one of them), `CountersAgree`, `QueueSorted`, `RetryKeepsPacket`,
`NeverEarly`, `DueIsSent`; `ResponsesApart`, `NeverBeforeItsTime`;
`DropsExactlyTheRecentlySeen`, `LiveHashesDistinct`; `PathIsRoute`,
`ForwardedOnce`, `FloodPathLoopFree`, `TrafficDiesOut`, `HopsInOrder`,
`FloodCoversMesh`, `TraceArrives`; `IdentityWhole`, `IdentitySurvivesRestart`,
`AdvertVerifies`, `RelayedWhole`, `NameRead`; `WorkGetsDone`, `DuplicatesIgnored`,
`CommandsHeeded`, `ReplyReadable`, `QueueIsFifo`, `TableSound`, `OnlyWeakestLeaves`,
`ListedByStrength`, `TimeRuns`, `NowFollowsRemote`, `SleepNeverOverstated`.
`CommandsHeeded` compares with `MeantForUs`, the frames that their sender meant for
this node, written down in the instance and not computed by the parser.
Some carry a proviso, because the code holds them only so: `NeverEarly` and
`NeverBeforeItsTime` speak of times that come before the clock wraps (a key that
wraps is compared as a plain integer: it may come too early or wait too long, which
no property excludes), and `ResponsesApart` leaves out a response
sent at `millis() = 0`, which the code takes for none. `TimeRuns` speaks of one clock
period after a synchronisation (the time jumps back after it), `NameRead` of
adverts without a location (the others are `Advert_location`), and a sleep of ten
seconds or more is not in the account of which `SleepNeverOverstated` speaks.
`WorkGetsDone` is about work that waits while `loop()` decides to sleep; that a latched
interrupt ends the sleep is assumed (section 5). `DuplicatesIgnored` is about the one
order in which `setup()` registers the processors.

## 5. Fairness

The firmware's `loop()` runs for ever: `WF(Loop)` in `Forwarder`, `WF(Receive(r))`
and `WF(Transmit(r))` for each repeater in `Mesh`. The radio reports TxDone or,
by its own timer, TxTimeout: `WF(RadioReports)`. In `Node`, `WF(Loop)` is the running of
`loop()` while awake, and `WF(WakeOnRadio)` says that a frame the radio has latched
ends a sleep ("MCU sleeps when idle, wakes on radio interrupt", README.md:131,
and PowerManager.cpp:30; the handler is the board's library, external). Strong
fairness of `SendForward`, `SendAnswer` and `SendDiscovery` stands for what the other
modules have in detail: `loop()` asks again at every turn, so what waits for its
time and an idle transmitter leaves in the end (`DueIsSent`); `WorkGetsDone` is
about what happens around it. Nothing is assumed of clients,
of packets arriving, of the other users of the transmitter, or of reception;
`DueIsSent` is checked with a bounded number of other transmissions because weak
fairness does not keep a packet from being overtaken for ever. `Mesh_reliable`
assumes by its constant `Reliable` that transmissions are heard; it says what
forwarding achieves when radio does, and nothing otherwise.

## 6. Proofs

Checked by TLAPS for every value of the constants that satisfies the named
assumptions (`ClockAssumption`, `ForwarderAssumption`, `RespondersAssumption`,
`DeduplicatorAssumption`, `MeshAssumption`, and for a node `QueueAssumption`,
`NeighborAssumption`, `TimeSyncAssumption`, `ChannelAssumption`, `ItemsAssumption`,
`NodeAssumption`, for adverts `CodecAssumption`, `AdvertsAssumption`,
`DigestAssumption`, `CurveAssumption`). They ask for natural numbers, sizes that are
not 0, and where the code's numbers have one for a relation between them: the cache
timeout and the longest silence fit a clock period; twice the tolerance fits the
epoch, and the epoch a `uint32_t`; the blocks of the longest message fit a packet; a
digest's length ends in its block; no word is the zero byte. `CurveAssumption` says
that the base point has the order `L` (adding two of its multiples adds their
numbers mod `L`), which is mathematics and not code. TLC evaluates all of them on the instances. Queue sizes, delays, clock width, the number of nodes and the links are
arbitrary. The TLC bounds (`MaxUptime`, `MaxTransmits`, ...) are constants too, so
the theorems hold for every such bound.

- **`TransmitterProofs`: `AirtimeNeverExceedsUptime`.** Invariant `AirInv` = types
  and `totalAirtimeMs + time on the air <= uptime`. A tick raises a wrapped
  difference by at most one (`SinceTick`); TxDone moves the time on the air into
  the account, whose own addition can only lose by wrapping.
- **`Induction`**: induction over the naturals for a *set* in place of a predicate,
  from the least element of a set of naturals, and the existence of functions
  defined by recursion with a *function* in place of the step. The library states
  both with an operator for a parameter, which no installed prover can instantiate;
  in this form every proof below that runs over data can use them.
- **`ForwarderProofs`**: first lemmas on the delay queue (`insert` keeps the order and
  adds one item, `popFront` removes one); then `TypeCorrect`, `PacketsNeitherLostNorDoubled`,
  `CountersCountPackets`, `DelayQueueSorted`, `RetryLosesNothing`,
  `DelayedPacketsNeverEarly`, all from `ForwarderInvariant`: `IInv` = those
  invariants plus `ClockIsTrue` (before the first wrap `millis` is the true time)
  and `KeysAreDue` (a slot's key is not before its packet's due time unless that
  is past). The strengthening is needed: `NeverEarly` says nothing of the keys.
- **`RespondersProofs`**: `ResponsesNeverCrowd`, `ResponsesNeverEarly`,
  `RespondersTypeCorrect` from `RespondersInvariant`: a response that waits was
  admitted after the rate limit (`WaitingIsApart`), which follows from the wrapped
  difference being at most the true one (`SentIsPast`), and its time is the true
  one before the wrap (`WaitingIsDue`).
- **`DeduplicatorProofs`**: `CacheInv` says that a valid entry was stored no more
  than the timeout before the last packet (each packet cleans the cache first),
  so its wrapped age is its true age as long as silences are bounded: this gives
  `StampsTellAge`, `NoHashTwice` and `CacheTyped`. The refinement `RingIsWindow` adds
  `WindowInv`: what was written and is no longer valid is too old to matter, and
  the slots written are those before the write index until all are. Then a
  lookup in the ring answers as the window does (`LookupIsTrue`), and storing a
  hash appends to the sequence of slots, oldest first (`RingGrows`), and once the
  ring is full also drops its head (`RingTurns`).
- **`MeshProofs`**: `FloodsNeverLoop`, `RoutedPacketsFollowHops` and `MeshTyped` from
  `MeshInvariant`: every packet held anywhere is legitimate for its holder. The
  faults of the network need no case of their own: a loss only shrinks the set
  of holders. `PathsAreRoutes` has an invariant of its own, `RouteInv`: besides what
  it promises of packets received, each packet a repeater took up has a walk
  that ends in this repeater; the broadcast turns the one into the other.
  `NeverForwardedTwice` ties the ghost count of forwards to what a repeater remembers:
  how often it forwarded a packet is no more than the hashes of that packet, among
  those it answers to, that its cache holds (`ForwardsCounted`), and a cache that never
  overflows (`TrafficFits`: no more hashes than it holds, those of a TRACE one for each
  of its hops) forgets none. Without that proviso the code does
  forward twice, as an overrun cache in `Mesh_lossy` shows.
- **`NodeProofs`**: `NodeInv` joins one invariant per part, none of which needs the
  others: `QueueInv` (the write index is the read index plus the count, and
  exactly the slots between them are valid) for the refinement `RingIsFifo` and for
  `SlotsValid`, which is why the branch of `dequeue()` that skips a slot is no
  action of `Node`; `TableInv` for `TableStaysSound` and `WeakestLeaves` (a quarter
  step, truncated toward zero, stays between the old average and the sample);
  `TimeInv` for `TimeRunsOn` and `TimeFollows`; `SleepInv` for `SleepIsTrue` (a wrapped
  difference is at most the true one). `NeighborsListed` is about the two loops of
  `buildNeighborList()`: after pass i the first i slots hold the strongest in order
  and the whole is a permutation, by induction over slots and within a pass.
  `DuplicatesChangeNothing` computes the processors' order from the priorities, one
  registration after the other, and finds the deduplicator in front. `RepliesReadBack`
  has `ReplyInv`: what waits is a text that fits its buffer, built on a channel that is
  ready, at a time of 32 bits; then blocks, padding and stamp are undone one by one,
  for every size of block, text and buffer.
- **`AdvertProofs`**: over any sequence of power failures and commands,
  `StorageTyped`, `IdentityIsWhole`, `IdentitySurvives`. The invariant has to say
  what the buffer and the stored bytes may be between a write and its commit.
  `HeardAsEncoded` is a lemma about the codec that stands on its own: what the
  receiver makes of an encoded packet is that packet, for all field sizes.
  `AdvertInv` joins the storage's invariant with `RelayInv` (what is on the air is
  the packet of its origin with the hashes of its relays in the path, and it decodes
  to that) and `OwnAdvert` (an advert of this node was signed by the whole key pair
  whose first byte is the hash it forwards by). It gives `PacketsRelayedWhole`,
  `NamesRead` and `AdvertsVerify`.
  `DigestOfPieces` is about `sha512.c`: `Takes` says that the blocks compressed so far
  and the buffer are the message so far and that `length` counts the former; a turn
  of the loop keeps it and shortens what is left (`TurnTakes`, `TurnLeaves`), and
  `sha512_final()` makes of it the padded blocks, over one block or two.
  `AdvertsVerify` rests on it, on `CurveAssumption` (hence `PointsMultiply`: a multiple
  of a multiple) and on two hypotheses it states: `HashIsNumber`, digests are
  numbers; and `ScalarmultRight`, that `ge_scalarmult_base()` gives, for the scalars in
  use, the multiple that the group's law says. The latter (formulas, signed digits,
  table) is not proved: it needs the completeness of the addition law over a field. TLC evaluates it
  on the instance's curve, for every scalar below `L` and every key (`MCScalarmult`
  in `MCAdverts`), so a fault in `Madd`, `Select` or `Digits` is found there.

Model-checked only: liveness (`DueIsSent`, `TrafficDiesOut`, `FloodCoversMesh`,
`TraceArrives`, `WorkGetsDone`; temporal proofs under fairness need ENABLED, which
the prover does not handle); `CommandsHeeded`, which compares the parser with a list
written down for the frames of one instance (`MeantForUs`) and has no meaning apart
from it; and `ScalarmultRight`, above. Every other property of a passing run is a
theorem.

## 7. Not modelled

- The rounds of AES, SHA-256 and SHA-512 and the limbs of `fe.c` and `sc.c`: byte
  arithmetic without control, out of TLC's reach at its width. What surrounds
  them is modelled over ideal functions and numbers.
- Code without a caller: the verification and the key exchange of
  `lib/ed25519` with `ge_add`, `ge_sub`, `ge_frombytes_negate_vartime` and the double
  multiplication; `removeIf`, `clear` and the iterators of `PriorityQueue`;
  `removeProcessor`; `sendText`; the public channel's announcer; `NeighborTracker::clear`;
  the stricter levels of `PacketValidator`.
- The formulas of the forwarding delay (a set of delays stands for them) and the
  layouts of a TRACE payload and of a discovery response.
- Timestamps and RSSI of queued packets and the count of sleep cycles, which only
  logs read. `Logger` and `PacketLogger` only print; `Config`, `Result` and `HashUtils` hold
  constants, names and a pure hash.
- The sampling of entropy for a seed (a fresh number), and the arithmetic that
  derives the node id from the chip's.

README.md:17 and :89 say that commands work on any channel; the code tries the
private channels of the configuration alone, the public one being as good as
absent unless its key is among them. A key is a key to the model, so it takes no
side.

## 8. What would come next

1. `ForwardDelay`: the score and delay formulas on their integer grid: a better
   signal never waits longer.
2. The payloads of TRACE and discovery packets in `PacketCodec`.
3. `Forwarder` and `Responders` inside `Node` in place of the strong fairness.
4. A specification of `Commands` that `CommandsHeeded` can be proved against: what a
   sender means, apart from how the parser finds it.
5. The addition law of the curve, and with it `ScalarmultRight`.
