--------------------------- MODULE Deduplicator ---------------------------
(***************************************************************************)
(* mesh/processors/Deduplicator.cpp with core/containers/CircularBuffer.h: *)
(* a ring of the last CacheSize packet hashes, each with the millis() of   *)
(* its reception.  Ages are differences of a clock that wraps, and nothing *)
(* is aged while no packet arrives.                                        *)
(***************************************************************************)
EXTENDS Clock, Sequences

CONSTANTS Contents,       \* payload, payload type and version of a packet
          MaxPath,        \* longest path of a TRACE packet in a TLC run
          CacheSize,
          CacheTimeout,
          MaxSilence      \* longest time without a packet

ASSUME DeduplicatorAssumption ==
    /\ CacheSize \in Nat \ {0}
    /\ CacheTimeout \in Nat
    /\ MaxSilence \in Nat
    \* 60 s and a silence below 49.7 days less 60 s
    /\ CacheTimeout + MaxSilence < ClockMod

VARIABLES cache,           \* CircularBuffer<PacketHash, CACHE_SIZE>
          writeIndex,
          duplicateCount,
          lastPacket,      \* ghost: uptime of the packet before
          stampedAt        \* ghost: true time each slot was written, 0 if never

dedupVars == <<cache, writeIndex, duplicateCount, lastPacket, stampedAt>>
vars == <<clockVars, dedupVars>>

Slot == 0..(CacheSize - 1)

\* What computePacketHash() looks at.
Packet == [content : Contents, kind : {"ANY", "TRACE_DIRECT"},
           pathLength : 0..MaxPath]

\* computePacketHash(): the path counts only for a TRACE on its way, which
\* grows by a byte at each hop.  Two contents are taken to hash differently.
PacketHash(p) ==
    IF p.kind = "TRACE_DIRECT" THEN <<p.content, p.pathLength>> ELSE <<p.content>>

PacketHashes == {PacketHash(p) : p \in Packet}
NoHash == <<>>

TypeOK ==
    /\ ClockTypeOK
    /\ cache \in [Slot -> [hash : PacketHashes \cup {NoHash},
                           timestamp : 0..(ClockMod - 1), valid : BOOLEAN]]
    /\ writeIndex \in Slot
    /\ duplicateCount \in Nat
    /\ lastPacket \in 0..uptime
    /\ stampedAt \in [Slot -> 0..uptime]

Init ==
    /\ ClockInit
    /\ cache = [i \in Slot |-> [hash |-> NoHash, timestamp |-> 0, valid |-> FALSE]]
    /\ writeIndex = 0
    /\ duplicateCount = 0
    /\ lastPacket = 0
    /\ stampedAt = [i \in Slot |-> 0]

\* A faulty age that does not survive the wrap of the clock.
ExpiredSigned(entry) == millis > entry.timestamp + CacheTimeout

\* currentTime - entry.timestamp > CACHE_TIMEOUT_MS, in uint32_t.
Expired(entry) == Since(entry.timestamp) > CacheTimeout

\* cleanExpiredEntries()
Cleaned == [i \in Slot |-> IF Expired(cache[i]) THEN [cache[i] EXCEPT !.valid = FALSE]
                                                ELSE cache[i]]

\* isDuplicate(), on the cleaned cache: its own expiry test finds nothing.
IsDuplicate(hash) == \E i \in Slot : Cleaned[i].valid /\ Cleaned[i].hash = hash

\* addToCache() -> CircularBuffer::push(): overwrite the oldest slot, whether
\* or not an expired slot is free.
AddToCache(hash) ==
    /\ cache' = [Cleaned EXCEPT ![writeIndex] =
                    [hash |-> hash, timestamp |-> millis, valid |-> TRUE]]
    /\ stampedAt' = [stampedAt EXCEPT ![writeIndex] = uptime]
    /\ writeIndex' = (writeIndex + 1) % CacheSize

\* processPacket() returning DROP
DropDuplicate(p) ==
    /\ IsDuplicate(PacketHash(p))
    /\ duplicateCount' = duplicateCount + 1
    /\ cache' = Cleaned
    /\ UNCHANGED <<writeIndex, stampedAt>>

\* A faulty processPacket() that stores every hash it sees.
PassAnyPacket(p) == AddToCache(PacketHash(p)) /\ UNCHANGED duplicateCount

\* processPacket() returning CONTINUE
PassPacket(p) ==
    /\ ~ IsDuplicate(PacketHash(p))
    /\ AddToCache(PacketHash(p))
    /\ UNCHANGED duplicateCount

ProcessPacket(p) == /\ DropDuplicate(p) \/ PassPacket(p)
                    /\ lastPacket' = uptime
                    /\ UNCHANGED clockVars

Next == \/ \E p \in Packet : ProcessPacket(p)
        \/ /\ uptime - lastPacket < MaxSilence
           /\ Tick
           /\ UNCHANGED dedupVars

Spec == Init /\ [][Next]_vars

----------------------------------------------------------------------------
\* CircularBuffer::operator[]: the slots from the oldest on.
RingSlot(i) == (writeIndex + i) % CacheSize

\* How many slots were ever written: all of them once the next one to be
\* written has been before.
Stored == IF cache[writeIndex].hash = NoHash THEN writeIndex ELSE CacheSize

\* The hashes stored, oldest first, with the true time of each.
Passed(slot) == [hash |-> cache[slot].hash, at |-> stampedAt[slot]]
PassedLately == [k \in 1..Stored |-> Passed(RingSlot(CacheSize - Stored + k - 1))]

Window == INSTANCE SeenWindow WITH passed <- PassedLately,
                                   duplicates <- duplicateCount

\* The ring of wrapped stamps decides as true time would: a packet is dropped
\* if and only if its hash is among the last CacheSize passed and no older
\* than CacheTimeout, after any number of wraps, as long as no silence lasts a
\* whole clock period.
DropsExactlyTheRecentlySeen == Window!SWSpec

\* No hash occupies two live slots: a flood of one packet cannot push the
\* others out of the cache.
LiveHashesDistinct ==
    \A i, j \in Slot : cache[i].valid /\ cache[j].valid /\ i # j
                          => cache[i].hash # cache[j].hash
============================================================================
