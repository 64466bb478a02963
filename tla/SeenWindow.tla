---------------------------- MODULE SeenWindow ----------------------------
(***************************************************************************)
(* What the deduplicator promises (README.md: "Hash-based packet cache     *)
(* prevents duplicates"): a packet is dropped exactly when its hash is one *)
(* of the last CacheSize passed and was passed no more than CacheTimeout   *)
(* milliseconds of true time ago.                                          *)
(***************************************************************************)
EXTENDS Naturals, Sequences, SequencesExt

CONSTANTS PacketHashes,   \* values of computePacketHash()
          CacheSize,      \* Config::Deduplication::CACHE_SIZE
          CacheTimeout    \* Config::Deduplication::CACHE_TIMEOUT_MS

VARIABLES uptime,         \* true time
          passed,         \* the last CacheSize hashes passed, oldest first
          duplicates      \* packets dropped so far

swVars == <<uptime, passed, duplicates>>

SWInit == uptime = 0 /\ passed = <<>> /\ duplicates = 0

SeenLately(h) == \E i \in DOMAIN passed : /\ passed[i].hash = h
                                          /\ uptime - passed[i].at <= CacheTimeout

Drop(h) == /\ SeenLately(h)
           /\ duplicates' = duplicates + 1
           /\ UNCHANGED <<uptime, passed>>

Pass(h) ==
    /\ ~ SeenLately(h)
    /\ LET all == Append(passed, [hash |-> h, at |-> uptime])
       IN passed' = IF Len(all) > CacheSize THEN Tail(all) ELSE all
    /\ UNCHANGED <<uptime, duplicates>>

TimePasses == uptime' = uptime + 1 /\ UNCHANGED <<passed, duplicates>>

SWNext == (\E h \in PacketHashes : Drop(h) \/ Pass(h)) \/ TimePasses

SWSpec == SWInit /\ [][SWNext]_swVars
============================================================================
