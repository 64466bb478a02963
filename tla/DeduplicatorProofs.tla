------------------------- MODULE DeduplicatorProofs -------------------------
(***************************************************************************)
(* The deduplicator's cache, for every size, timeout and clock width: the  *)
(* wrapped stamps tell the true age of every entry that is still valid,    *)
(* and no packet takes two of its places.                                  *)
(***************************************************************************)
EXTENDS Deduplicator, Integers, SequenceTheorems, TLAPS

\* A valid entry was stored before the last packet came, and was not expired
\* when it came; its stamp tells its true age.
Aged(i) ==
    cache[i].valid =>
       /\ stampedAt[i] <= lastPacket
       /\ lastPacket - stampedAt[i] <= CacheTimeout
       /\ Since(cache[i].timestamp) = uptime - stampedAt[i]

CacheInv ==
    /\ TypeOK
    /\ uptime - lastPacket <= MaxSilence
    /\ \A i \in Slot : Aged(i)
    /\ LiveHashesDistinct

\* A valid entry counts as expired exactly when its true age says so.
ExpiryIsTrue ==
    \A i \in Slot : cache[i].valid =>
       (Expired(cache[i]) <=> uptime - stampedAt[i] > CacheTimeout)

Entry == [hash : PacketHashes \cup {NoHash}, timestamp : 0..(ClockMod - 1), valid : BOOLEAN]

LEMMA CacheStart == Init => CacheInv
<1> SUFFICES ASSUME Init PROVE CacheInv
  OBVIOUS
<1>1. uptime = 0 /\ millis = 0 /\ lastPacket = 0 /\ duplicateCount = 0 /\ writeIndex = 0
  BY DEF Init, ClockInit
<1>2. cache \in [Slot -> Entry]
  BY ClockAssumption DEF Init, Entry
<1>3. stampedAt \in [Slot -> 0..uptime]
  BY <1>1 DEF Init
<1>4. TypeOK
  BY <1>1, <1>2, <1>3, ClockAssumption, DeduplicatorAssumption
     DEF TypeOK, ClockTypeOK, Slot, Entry
<1>5. \A i \in Slot : ~ cache[i].valid
  BY DEF Init
<1> QED BY <1>1, <1>4, <1>5, DeduplicatorAssumption DEF CacheInv, Aged, LiveHashesDistinct

\* One tick more, unless the clock would have come all the way round.
LEMMA SinceGrows ==
    ASSUME ClockTypeOK, Tick, NEW t \in 0..(ClockMod - 1), Since(t) + 1 < ClockMod
    PROVE  Since(t)' = Since(t) + 1
BY ClockAssumption DEF ClockTypeOK, Tick, Since, Plus

LEMMA CacheTick ==
    ASSUME CacheInv, uptime - lastPacket < MaxSilence, Tick, UNCHANGED dedupVars
    PROVE  CacheInv'
<1>1. /\ uptime' = uptime + 1 /\ cache' = cache /\ writeIndex' = writeIndex
      /\ duplicateCount' = duplicateCount /\ lastPacket' = lastPacket /\ stampedAt' = stampedAt
  BY DEF Tick, dedupVars
<1>2. ClockTypeOK'
  BY ClockAssumption DEF CacheInv, TypeOK, ClockTypeOK, Tick, Plus
<1>3. TypeOK'
  <2>1. uptime \in Nat /\ lastPacket \in 0..uptime /\ stampedAt \in [Slot -> 0..uptime]
    BY DEF CacheInv, TypeOK, ClockTypeOK
  <2>2. lastPacket' \in 0..uptime' /\ stampedAt' \in [Slot -> 0..uptime']
    BY <1>1, <2>1
  <2> QED BY <1>1, <1>2, <2>2 DEF CacheInv, TypeOK
<1>4. uptime' - lastPacket' <= MaxSilence
  BY <1>1, DeduplicatorAssumption DEF CacheInv, TypeOK, ClockTypeOK
<1>5. ASSUME NEW i \in Slot PROVE Aged(i)'
  <2>1. CASE ~ cache[i].valid
    BY <1>1, <2>1 DEF Aged
  <2>2. CASE cache[i].valid
    <3>1. /\ stampedAt[i] \in Nat /\ lastPacket \in Nat /\ uptime \in Nat
          /\ cache[i].timestamp \in 0..(ClockMod - 1)
      BY DEF CacheInv, TypeOK, ClockTypeOK
    <3>2. /\ stampedAt[i] <= lastPacket /\ lastPacket - stampedAt[i] <= CacheTimeout
          /\ Since(cache[i].timestamp) = uptime - stampedAt[i]
      BY <2>2 DEF CacheInv, Aged
    <3>3. Since(cache[i].timestamp) + 1 < ClockMod
      BY <3>1, <3>2, ClockAssumption, DeduplicatorAssumption
    <3>4. Since(cache[i].timestamp)' = Since(cache[i].timestamp) + 1
      <4> DEFINE t == cache[i].timestamp
      <4>1. t' = t
        BY <1>1
      <4>2. ASSUME NEW u \in 0..(ClockMod - 1), Since(u) + 1 < ClockMod
            PROVE  Since(u)' = Since(u) + 1
        BY <4>2, SinceGrows DEF CacheInv, TypeOK
      <4> QED BY <3>1, <3>3, <4>1, <4>2 DEF Since
    <3> QED BY <1>1, <3>1, <3>2, <3>4 DEF Aged
  <2> QED BY <2>1, <2>2
<1> QED BY <1>1, <1>3, <1>4, <1>5 DEF CacheInv, LiveHashesDistinct

\* What cleaning leaves is younger than the timeout.
LEMMA CleanedYoung ==
    ASSUME CacheInv
    PROVE  /\ Cleaned \in [Slot -> Entry]
           /\ \A i \in Slot :
                 /\ Cleaned[i].hash = cache[i].hash
                 /\ Cleaned[i].timestamp = cache[i].timestamp
                 /\ Cleaned[i].valid =>
                       /\ cache[i].valid
                       /\ uptime - stampedAt[i] <= CacheTimeout
<1>1. cache \in [Slot -> Entry]
  BY DEF CacheInv, TypeOK, Entry
<1>2. ASSUME NEW i \in Slot
      PROVE  /\ Cleaned[i] \in Entry
             /\ Cleaned[i].hash = cache[i].hash
             /\ Cleaned[i].timestamp = cache[i].timestamp
             /\ Cleaned[i].valid => cache[i].valid /\ ~ Expired(cache[i])
  BY <1>1 DEF Cleaned, Entry
<1>3. ASSUME NEW i \in Slot, cache[i].valid, ~ Expired(cache[i])
      PROVE  uptime - stampedAt[i] <= CacheTimeout
  <2>1. stampedAt[i] \in Nat /\ uptime \in Nat
    BY DEF CacheInv, TypeOK, ClockTypeOK
  <2> QED BY <1>3, <2>1, DeduplicatorAssumption DEF CacheInv, Aged, Expired
<1> QED BY <1>2, <1>3 DEF Cleaned

LEMMA CachePacket ==
    ASSUME CacheInv, NEW p \in Packet, ProcessPacket(p)
    PROVE  CacheInv'
<1>1. /\ uptime' = uptime /\ millis' = millis /\ lastPacket' = uptime
      /\ uptime \in Nat /\ millis \in 0..(ClockMod - 1) /\ lastPacket \in 0..uptime
      /\ stampedAt \in [Slot -> 0..uptime] /\ writeIndex \in Slot /\ duplicateCount \in Nat
      /\ ClockTypeOK'
  BY DEF ProcessPacket, clockVars, CacheInv, TypeOK, ClockTypeOK
<1>2. ASSUME NEW i \in Slot, Cleaned[i].valid,
             cache'[i] = Cleaned[i], stampedAt'[i] = stampedAt[i]
      PROVE  Aged(i)'
  <2>1. /\ cache[i].valid /\ uptime - stampedAt[i] <= CacheTimeout
        /\ cache'[i].timestamp = cache[i].timestamp
    BY <1>2, CleanedYoung
  <2>2. Since(cache[i].timestamp) = uptime - stampedAt[i]
    BY <2>1 DEF CacheInv, Aged
  <2>3. Since(cache[i].timestamp)' = Since(cache[i].timestamp)
    BY <1>1, <2>1 DEF Since
  <2> QED BY <1>1, <1>2, <2>1, <2>2, <2>3 DEF Aged
<1>3. CASE DropDuplicate(p)
  <2>1. /\ cache' = Cleaned /\ writeIndex' = writeIndex /\ stampedAt' = stampedAt
        /\ duplicateCount' = duplicateCount + 1
    BY <1>3 DEF DropDuplicate
  <2>2. TypeOK'
    BY <1>1, <2>1, CleanedYoung DEF TypeOK, Entry
  <2>3. ASSUME NEW i \in Slot PROVE Aged(i)'
    BY <1>2, <2>1 DEF Aged
  <2>4. LiveHashesDistinct'
    BY <2>1, CleanedYoung DEF CacheInv, LiveHashesDistinct
  <2> QED BY <1>1, <2>2, <2>3, <2>4, DeduplicatorAssumption DEF CacheInv
<1>4. CASE PassPacket(p)
  <2> DEFINE new == [hash |-> PacketHash(p), timestamp |-> millis, valid |-> TRUE]
  <2>1. /\ cache' = [Cleaned EXCEPT ![writeIndex] = new]
        /\ stampedAt' = [stampedAt EXCEPT ![writeIndex] = uptime]
        /\ writeIndex' = (writeIndex + 1) % CacheSize
        /\ duplicateCount' = duplicateCount
        /\ ~ IsDuplicate(PacketHash(p))
    BY <1>4 DEF PassPacket, AddToCache
  <2>2. new \in Entry
    BY <1>1 DEF Entry, PacketHashes
  <2>3. /\ \A i \in Slot : cache'[i] = IF i = writeIndex THEN new ELSE Cleaned[i]
        /\ \A i \in Slot : stampedAt'[i] = IF i = writeIndex THEN uptime ELSE stampedAt[i]
        /\ cache' \in [Slot -> Entry] /\ stampedAt' \in [Slot -> 0..uptime]
    <3> HIDE DEF new
    <3> QED BY <1>1, <2>1, <2>2, CleanedYoung
  <2>4. writeIndex' \in Slot
    BY <1>1, <2>1, DeduplicatorAssumption DEF Slot
  <2>5. TypeOK'
    BY <1>1, <2>1, <2>3, <2>4 DEF TypeOK, Entry
  <2>6. ASSUME NEW i \in Slot PROVE Aged(i)'
    <3>1. CASE i = writeIndex
      <4>1. cache'[i].timestamp = millis /\ stampedAt'[i] = uptime
        BY <2>3, <3>1
      <4>2. Since(cache[i].timestamp)' = 0
        BY <1>1, <4>1 DEF Since
      <4> QED BY <1>1, <4>1, <4>2, DeduplicatorAssumption DEF Aged
    <3>2. CASE i # writeIndex
      BY <1>2, <2>3, <3>2 DEF Aged
    <3> QED BY <3>1, <3>2
  <2>7. LiveHashesDistinct'
    <3>1. \A i \in Slot : Cleaned[i].valid => Cleaned[i].hash # new.hash
      BY <2>1 DEF IsDuplicate
    <3>2. \A i, j \in Slot : Cleaned[i].valid /\ Cleaned[j].valid /\ i # j
                                => Cleaned[i].hash # Cleaned[j].hash
      BY CleanedYoung DEF CacheInv, LiveHashesDistinct
    <3> HIDE DEF new
    <3> QED BY <2>3, <3>1, <3>2 DEF LiveHashesDistinct
  <2> QED BY <1>1, <2>5, <2>6, <2>7, DeduplicatorAssumption DEF CacheInv
<1> QED BY <1>3, <1>4 DEF ProcessPacket

LEMMA CacheStep == CacheInv /\ [Next]_vars => CacheInv'
<1> SUFFICES ASSUME CacheInv, [Next]_vars PROVE CacheInv'
  OBVIOUS
<1>1. CASE UNCHANGED vars
  BY <1>1 DEF vars, clockVars, dedupVars, CacheInv, TypeOK, ClockTypeOK, Aged, Since,
              LiveHashesDistinct
<1> QED BY <1>1, CacheTick, CachePacket DEF Next

LEMMA CacheInvariant == Spec => []CacheInv
BY CacheStart, CacheStep, PTL DEF Spec

\* The cache, its stamps and its write index are of their types.
THEOREM CacheTyped == Spec => []TypeOK
<1>1. CacheInv => TypeOK
  BY DEF CacheInv
<1> QED BY <1>1, CacheInvariant, PTL

\* No hash occupies two live slots.
THEOREM NoHashTwice == Spec => []LiveHashesDistinct
<1>1. CacheInv => LiveHashesDistinct
  BY DEF CacheInv
<1> QED BY <1>1, CacheInvariant, PTL

\* However often millis() has returned to 0, a valid entry counts as expired
\* exactly when it is older than the timeout, provided that no silence lasts a
\* whole period of the clock.
THEOREM StampsTellAge == Spec => []ExpiryIsTrue
<1>1. CacheInv => ExpiryIsTrue
  BY DEF CacheInv, Aged, ExpiryIsTrue, Expired
<1> QED BY <1>1, CacheInvariant, PTL

----------------------------------------------------------------------------
\* The sliding window of true time.

Written(i) == cache[i].hash # NoHash

\* What was stored and is no longer valid is too old to matter; and the slots
\* written are those before the write index, until all of them are.
WindowInv ==
    /\ \A i \in Slot : cache[i].valid => Written(i)
    /\ \A i \in Slot : Written(i) /\ ~ cache[i].valid => uptime - stampedAt[i] > CacheTimeout
    /\ IF Written(writeIndex) THEN \A i \in Slot : Written(i)
                              ELSE \A i \in Slot : Written(i) <=> i < writeIndex

RefInv == CacheInv /\ WindowInv

LEMMA RefTypes ==
    ASSUME CacheInv
    PROVE  /\ uptime \in Nat /\ millis \in 0..(ClockMod - 1) /\ writeIndex \in Slot
           /\ duplicateCount \in Nat /\ cache \in [Slot -> Entry]
           /\ stampedAt \in [Slot -> 0..uptime] /\ CacheSize \in Nat \ {0}
           /\ CacheTimeout \in Nat
BY DeduplicatorAssumption DEF CacheInv, TypeOK, ClockTypeOK, Entry

\* Cleaning makes invalid what is too old, and nothing else.
LEMMA CleanedIs ==
    ASSUME RefInv, NEW i \in Slot
    PROVE  /\ Cleaned[i].hash = cache[i].hash
           /\ Cleaned[i].valid <=> Written(i) /\ uptime - stampedAt[i] <= CacheTimeout
<1>1. cache[i] \in Entry /\ uptime \in Nat /\ stampedAt[i] \in Nat /\ CacheTimeout \in Nat
  BY RefTypes DEF RefInv
<1>2. Cleaned[i] = IF Expired(cache[i]) THEN [cache[i] EXCEPT !.valid = FALSE] ELSE cache[i]
  BY DEF Cleaned
<1>3. Cleaned[i].hash = cache[i].hash
  BY <1>1, <1>2 DEF Entry
<1>4. CASE Expired(cache[i])
  <2>1. ~ Cleaned[i].valid
    BY <1>1, <1>2, <1>4 DEF Entry
  <2>2. Written(i) => uptime - stampedAt[i] > CacheTimeout
    BY <1>4 DEF RefInv, WindowInv, CacheInv, Aged, Expired
  <2> QED BY <1>1, <1>3, <2>1, <2>2
<1>5. CASE ~ Expired(cache[i])
  <2>1. Cleaned[i] = cache[i]
    BY <1>2, <1>5
  <2>2. cache[i].valid => Written(i) /\ uptime - stampedAt[i] <= CacheTimeout
    BY <1>1, <1>5 DEF RefInv, WindowInv, CacheInv, Aged, Expired
  <2>3. ~ cache[i].valid /\ Written(i) => uptime - stampedAt[i] > CacheTimeout
    BY DEF RefInv, WindowInv
  <2> QED BY <1>1, <1>3, <2>1, <2>2, <2>3
<1> QED BY <1>4, <1>5

LEMMA WindowStart == Init => WindowInv /\ PassedLately = <<>>
<1> SUFFICES ASSUME Init PROVE WindowInv /\ PassedLately = <<>>
  OBVIOUS
<1>1. writeIndex = 0 /\ 0 \in Slot /\ \A i \in Slot : ~ cache[i].valid /\ ~ Written(i)
  BY DeduplicatorAssumption DEF Init, Slot, Written
<1>2. \A i \in Slot : ~ (i < 0)
  BY DEF Slot
<1>3. Stored = 0
  BY <1>1 DEF Stored, Written
<1> QED BY <1>1, <1>2, <1>3 DEF WindowInv, PassedLately

LEMMA WindowTick ==
    ASSUME RefInv, Tick, UNCHANGED dedupVars
    PROVE  WindowInv' /\ Window!TimePasses
<1>1. uptime' = uptime + 1 /\ cache' = cache /\ writeIndex' = writeIndex
      /\ duplicateCount' = duplicateCount /\ stampedAt' = stampedAt
  BY DEF Tick, dedupVars
<1>2. PassedLately' = PassedLately
  BY <1>1 DEF PassedLately, Passed, Stored, RingSlot
<1>3. \A i \in Slot : uptime - stampedAt[i] > CacheTimeout
                         => uptime' - stampedAt'[i] > CacheTimeout
  BY <1>1, RefTypes DEF RefInv
<1>4. WindowInv'
  BY <1>1, <1>3 DEF RefInv, WindowInv, Written
<1> QED BY <1>1, <1>2, <1>4 DEF Window!TimePasses

----------------------------------------------------------------------------
\* The ring from its oldest entry on: the k-th of n stored.
Nth(w, n, k) == (w + (CacheSize - n + k - 1)) % CacheSize

LEMMA NthIs ==
    ASSUME NEW w \in Slot, NEW n \in 0..CacheSize, NEW k \in 1..n
    PROVE  /\ Nth(w, n, k) \in Slot
           /\ n = w => Nth(w, n, k) = k - 1
           /\ n = CacheSize =>
                 Nth(w, n, k) = IF w + k - 1 < CacheSize THEN w + k - 1
                                ELSE w + k - 1 - CacheSize
<1> DEFINE x == w + (CacheSize - n + k - 1)
<1>1. x \in Nat /\ x < 2 * CacheSize
  BY DeduplicatorAssumption DEF Slot
<1>2. \A y \in Nat : y < 2 * CacheSize =>
         y % CacheSize = IF y < CacheSize THEN y ELSE y - CacheSize
  BY DeduplicatorAssumption
<1>3. Nth(w, n, k) = IF x < CacheSize THEN x ELSE x - CacheSize
  <2> HIDE DEF x
  <2>1. Nth(w, n, k) = x % CacheSize
    BY DEF Nth, x
  <2> QED BY <1>1, <1>2, <2>1
<1> QED BY <1>1, <1>3, DeduplicatorAssumption DEF Slot

LEMMA PassedShape ==
    ASSUME RefInv
    PROVE  /\ Stored \in 0..CacheSize
           /\ PassedLately = [k \in 1..Stored |-> Passed(Nth(writeIndex, Stored, k))]
           /\ (Stored = writeIndex \/ Stored = CacheSize)
<1>1. Stored \in 0..CacheSize /\ (Stored = writeIndex \/ Stored = CacheSize)
  BY RefTypes DEF RefInv, Stored, Slot
<1>2. \A k \in 1..Stored : writeIndex + (CacheSize - Stored + k - 1) \in Int
  BY <1>1, RefTypes DEF RefInv, Slot
<1> QED BY <1>1, <1>2 DEF PassedLately, RingSlot, Nth

\* A hash stored not too long ago is one that a lookup finds.
LEMMA LookupIsTrue ==
    ASSUME RefInv, NEW h
    PROVE  IsDuplicate(h) <=> Window!SeenLately(h)
<1>1. /\ Stored \in 0..CacheSize /\ (Stored = writeIndex \/ Stored = CacheSize)
      /\ PassedLately = [k \in 1..Stored |-> Passed(Nth(writeIndex, Stored, k))]
  BY PassedShape
<1>2. writeIndex \in Slot /\ CacheSize \in Nat \ {0}
  BY RefTypes DEF RefInv
<1>3. ASSUME NEW k \in 1..Stored
      PROVE  Nth(writeIndex, Stored, k) \in Slot /\ Written(Nth(writeIndex, Stored, k))
  <2>1. Nth(writeIndex, Stored, k) \in Slot
    BY <1>1, <1>2, NthIs
  <2>2. CASE Written(writeIndex)
    BY <2>1, <2>2 DEF RefInv, WindowInv
  <2>3. CASE ~ Written(writeIndex)
    <3>1. Stored = writeIndex
      BY <2>3 DEF Stored, Written
    <3>2. Nth(writeIndex, Stored, k) = k - 1
      BY <1>1, <1>2, <3>1, NthIs
    <3>3. k - 1 < writeIndex
      BY <1>1, <1>2, <3>1 DEF Slot
    <3> QED BY <2>1, <2>3, <3>2, <3>3 DEF RefInv, WindowInv
  <2> QED BY <2>2, <2>3
<1>4. ASSUME NEW i \in Slot, Written(i)
      PROVE  \E k \in 1..Stored : Nth(writeIndex, Stored, k) = i
  <2>1. CASE Written(writeIndex)
    <3>1. Stored = CacheSize
      BY <2>1 DEF Stored, Written
    <3> DEFINE k == IF i >= writeIndex THEN i - writeIndex + 1
                    ELSE i - writeIndex + 1 + CacheSize
    <3>2. k \in 1..CacheSize
      BY <1>2 DEF Slot
    <3>3. Nth(writeIndex, CacheSize, k) =
             IF writeIndex + k - 1 < CacheSize THEN writeIndex + k - 1
             ELSE writeIndex + k - 1 - CacheSize
      <4> HIDE DEF k
      <4> QED BY <1>2, <3>2, NthIs
    <3>4. Nth(writeIndex, CacheSize, k) = i
      BY <1>2, <3>3 DEF Slot
    <3> HIDE DEF k
    <3> QED BY <3>1, <3>2, <3>4
  <2>2. CASE ~ Written(writeIndex)
    <3>1. Stored = writeIndex /\ i < writeIndex
      BY <1>4, <2>2 DEF Stored, Written, RefInv, WindowInv
    <3>2. i + 1 \in 1..Stored /\ (i + 1) - 1 = i
      BY <1>2, <3>1 DEF Slot
    <3>3. Nth(writeIndex, Stored, i + 1) = (i + 1) - 1
      BY <1>1, <1>2, <3>1, <3>2, NthIs
    <3> QED BY <3>2, <3>3
  <2> QED BY <2>1, <2>2
<1>5. IsDuplicate(h) <=> \E i \in Slot : /\ Written(i) /\ cache[i].hash = h
                                         /\ uptime - stampedAt[i] <= CacheTimeout
  BY CleanedIs DEF IsDuplicate
<1>6. DOMAIN PassedLately = 1..Stored
  BY <1>1
<1>7. Window!SeenLately(h) <=>
         \E k \in 1..Stored : /\ cache[Nth(writeIndex, Stored, k)].hash = h
                              /\ uptime - stampedAt[Nth(writeIndex, Stored, k)] <= CacheTimeout
  BY <1>1, <1>6 DEF Window!SeenLately, Passed
<1> QED BY <1>3, <1>4, <1>5, <1>7

\* A packet dropped as a duplicate leaves the window alone.
LEMMA WindowDrop ==
    ASSUME RefInv, NEW p \in Packet, DropDuplicate(p), UNCHANGED clockVars
    PROVE  WindowInv' /\ Window!Drop(PacketHash(p))
<1>1. /\ cache' = Cleaned /\ writeIndex' = writeIndex /\ stampedAt' = stampedAt
      /\ duplicateCount' = duplicateCount + 1 /\ uptime' = uptime
  BY DEF DropDuplicate, clockVars
<1>2. /\ writeIndex \in Slot /\ uptime \in Nat /\ CacheTimeout \in Nat
      /\ stampedAt \in [Slot -> 0..uptime]
  BY RefTypes DEF RefInv
<1>3. \A i \in Slot : /\ Cleaned[i].hash = cache[i].hash
                      /\ Cleaned[i].valid <=> /\ Written(i)
                                              /\ uptime - stampedAt[i] <= CacheTimeout
  BY CleanedIs
<1>4. \A i \in Slot : Written(i)' <=> Written(i)
  BY <1>1, <1>3 DEF Written
<1>5. WindowInv'
  <2>1. Written(writeIndex)' <=> Written(writeIndex)
    BY <1>1, <1>2, <1>3 DEF Written
  <2>2. \A i \in Slot : uptime - stampedAt[i] <= CacheTimeout
                        \/ uptime - stampedAt[i] > CacheTimeout
    BY <1>2
  <2> QED BY <1>1, <1>3, <1>4, <2>1, <2>2 DEF RefInv, WindowInv
<1>6. PassedLately' = PassedLately
  <2>1. Stored' = Stored
    BY <1>1, <1>2, <1>3 DEF Stored
  <2>2. /\ Stored \in 0..CacheSize
        /\ PassedLately = [k \in 1..Stored |-> Passed(Nth(writeIndex, Stored, k))]
    BY PassedShape
  <2>3. \A k \in 1..Stored : Nth(writeIndex, Stored, k) \in Slot
    BY <1>2, <2>2, NthIs
  <2>4. \A i \in Slot : Passed(i)' = Passed(i)
    BY <1>1, <1>3 DEF Passed
  <2>5. PassedLately' = [k \in 1..Stored' |-> Passed(Nth(writeIndex, Stored, k))']
    <3>1. \A k \in 1..Stored : writeIndex + (CacheSize - Stored + k - 1) \in Int
      BY <1>2, <2>2, DeduplicatorAssumption DEF Slot
    <3> QED BY <1>1, <2>1, <3>1 DEF PassedLately, RingSlot, Nth, Passed
  <2> QED BY <1>1, <2>1, <2>2, <2>3, <2>4, <2>5 DEF Nth
<1>7. Window!SeenLately(PacketHash(p))
  BY LookupIsTrue DEF DropDuplicate
<1> QED BY <1>1, <1>5, <1>6, <1>7 DEF Window!Drop

\* What each slot of the ring says was passed.
SlotRecords == [i \in Slot |-> Passed(i)]
Record == [hash : PacketHashes \cup {NoHash}, at : Nat]

\* The n records last stored, oldest first, if slot w is the next to be written.
RingSequence(f, w, n) == [k \in 1..n |-> f[Nth(w, n, k)]]

LEMMA RingNext ==
    ASSUME NEW i \in Slot
    PROVE  (i + 1) % CacheSize = IF i + 1 < CacheSize THEN i + 1 ELSE 0
<1>1. i + 1 \in Nat /\ i + 1 <= CacheSize
  BY DeduplicatorAssumption DEF Slot
<1>2. \A y \in Nat : y <= CacheSize => y % CacheSize = IF y < CacheSize THEN y ELSE 0
  BY DeduplicatorAssumption
<1> QED BY <1>1, <1>2

LEMMA SequenceOf ==
    ASSUME NEW R, NEW n \in Nat, NEW s, s = [k \in 1..n |-> s[k]], \A k \in 1..n : s[k] \in R
    PROVE  s \in Seq(R) /\ Len(s) = n
<1>1. [k \in 1..n |-> s[k]] \in Seq(R) /\ Len([k \in 1..n |-> s[k]]) = n
  OBVIOUS
<1> QED BY <1>1

\* Writing one slot of a ring that is not full makes its sequence longer.
LEMMA RingGrows ==
    \A f, g \in [Slot -> Record] : \A w, v \in Slot :
       v = (IF w + 1 < CacheSize THEN w + 1 ELSE 0)
          => ((\A i \in Slot : i # w => g[i] = f[i])
                 => RingSequence(g, v, w + 1) = Append(RingSequence(f, w, w), g[w]))
<1> SUFFICES ASSUME NEW f \in [Slot -> Record], NEW g \in [Slot -> Record],
                    NEW w \in Slot, NEW v \in Slot,
                    v = IF w + 1 < CacheSize THEN w + 1 ELSE 0,
                    \A i \in Slot : i # w => g[i] = f[i]
             PROVE  RingSequence(g, v, w + 1) = Append(RingSequence(f, w, w), g[w])
  OBVIOUS
<1> DEFINE old == [k \in 1..w |-> f[Nth(w, w, k)]]
           new == [k \in 1..(w + 1) |-> g[Nth(v, w + 1, k)]]
<1>1. w \in 0..CacheSize /\ w + 1 \in 0..CacheSize /\ w \in Nat /\ CacheSize \in Nat \ {0}
  BY DeduplicatorAssumption DEF Slot
<1>2. \A k \in 1..w : Nth(w, w, k) = k - 1
  BY <1>1, NthIs
<1>3. ASSUME NEW k \in 1..(w + 1) PROVE Nth(v, w + 1, k) = k - 1
  <2>1. CASE v = w + 1
    BY <1>1, <2>1, NthIs
  <2>2. CASE ~ (v = w + 1)
    <3>1. v = 0 /\ w + 1 = CacheSize
      BY <1>1, <2>2 DEF Slot
    <3>2. Nth(v, w + 1, k) = IF v + k - 1 < CacheSize THEN v + k - 1
                             ELSE v + k - 1 - CacheSize
      BY <1>1, <3>1, NthIs
    <3> QED BY <1>1, <3>1, <3>2
  <2> QED BY <2>1, <2>2
<1>4. ASSUME NEW k \in 1..w
      PROVE  k - 1 \in Slot /\ k - 1 # w /\ k \in 1..(w + 1)
  BY <1>1 DEF Slot
<1>5. (w + 1) - 1 = w /\ w + 1 \in 1..(w + 1)
  BY <1>1
<1>6. \A k \in 1..(w + 1) : k \in 1..w \/ k = w + 1
  BY <1>1
<1>7. \A k \in 1..w : old[k] \in Record
  BY <1>2, <1>4
<1>8. old \in Seq(Record) /\ Len(old) = w
  BY <1>1, <1>7
<1>9. /\ \A k \in 1..w : new[k] = old[k]
      /\ new[w + 1] = g[w] /\ g[w] \in Record
  BY <1>2, <1>3, <1>4, <1>5
<1>10. \A k \in 1..(w + 1) : new[k] \in Record
  BY <1>6, <1>7, <1>9
<1>11. DOMAIN new = 1..(w + 1)
  OBVIOUS
<1>12. new = [k \in 1..(w + 1) |-> new[k]]
  OBVIOUS
<1> HIDE DEF old, new
<1>13. new \in Seq(Record) /\ Len(new) = w + 1
  BY <1>1, <1>10, <1>11, <1>12
<1>14. /\ Append(old, g[w]) \in Seq(Record) /\ Len(Append(old, g[w])) = w + 1
       /\ \A k \in 1..w : Append(old, g[w])[k] = old[k]
       /\ Append(old, g[w])[w + 1] = g[w]
  BY <1>8, <1>9, AppendProperties
<1>15. \A k \in 1..Len(new) : new[k] = Append(old, g[w])[k]
  BY <1>6, <1>9, <1>13, <1>14
<1>16. new = Append(old, g[w])
  BY <1>13, <1>14, <1>15, SeqEqual
<1> QED BY <1>16 DEF old, new, RingSequence

\* Writing the oldest slot of a full ring drops it from the sequence.
LEMMA RingTurns ==
    \A f, g \in [Slot -> Record] : \A w, v \in Slot :
       v = (IF w + 1 < CacheSize THEN w + 1 ELSE 0)
          => ((\A i \in Slot : i # w => g[i] = f[i])
                 => RingSequence(g, v, CacheSize) = Tail(Append(RingSequence(f, w, CacheSize), g[w])))
<1> SUFFICES ASSUME NEW f \in [Slot -> Record], NEW g \in [Slot -> Record],
                    NEW w \in Slot, NEW v \in Slot,
                    v = IF w + 1 < CacheSize THEN w + 1 ELSE 0,
                    \A i \in Slot : i # w => g[i] = f[i]
             PROVE  RingSequence(g, v, CacheSize) = Tail(Append(RingSequence(f, w, CacheSize), g[w]))
  OBVIOUS
<1> DEFINE old == [k \in 1..CacheSize |-> f[Nth(w, CacheSize, k)]]
           new == [k \in 1..CacheSize |-> g[Nth(v, CacheSize, k)]]
<1>1. CacheSize \in 0..CacheSize /\ CacheSize \in Nat \ {0} /\ w \in Nat
  BY DeduplicatorAssumption DEF Slot
<1>2. \A k \in 1..CacheSize :
         /\ Nth(w, CacheSize, k) \in Slot /\ Nth(v, CacheSize, k) \in Slot
         /\ Nth(w, CacheSize, k) = IF w + k - 1 < CacheSize THEN w + k - 1
                                   ELSE w + k - 1 - CacheSize
         /\ Nth(v, CacheSize, k) = IF v + k - 1 < CacheSize THEN v + k - 1
                                   ELSE v + k - 1 - CacheSize
  BY <1>1, NthIs
<1>3. ASSUME NEW k \in 1..CacheSize, k # CacheSize
      PROVE  /\ k + 1 \in 1..CacheSize
             /\ Nth(v, CacheSize, k) = Nth(w, CacheSize, k + 1)
             /\ Nth(v, CacheSize, k) # w
  <2>1. k + 1 \in 1..CacheSize
    BY <1>1, <1>3
  <2>2. Nth(w, CacheSize, k + 1) = IF w + (k + 1) - 1 < CacheSize THEN w + (k + 1) - 1
                                   ELSE w + (k + 1) - 1 - CacheSize
    BY <1>2, <2>1
  <2>3. Nth(v, CacheSize, k) = IF v + k - 1 < CacheSize THEN v + k - 1
                               ELSE v + k - 1 - CacheSize
    BY <1>2
  <2> QED BY <1>1, <1>3, <2>1, <2>2, <2>3 DEF Slot
<1>4. CacheSize \in 1..CacheSize /\ Nth(v, CacheSize, CacheSize) = w
  BY <1>1, <1>2 DEF Slot
<1>5. \A k \in 1..CacheSize : old[k] \in Record /\ new[k] \in Record
  BY <1>2
<1>6. \A k \in 1..CacheSize : k # CacheSize => k + 1 \in 1..CacheSize /\ new[k] = old[k + 1]
  <2> SUFFICES ASSUME NEW k \in 1..CacheSize, k # CacheSize
               PROVE  k + 1 \in 1..CacheSize /\ new[k] = old[k + 1]
    OBVIOUS
  <2>1. new[k] = g[Nth(v, CacheSize, k)]
    OBVIOUS
  <2>2. k + 1 \in 1..CacheSize /\ old[k + 1] = f[Nth(w, CacheSize, k + 1)]
    BY <1>3
  <2>3. Nth(v, CacheSize, k) \in Slot
    BY <1>2
  <2> QED BY <1>3, <2>1, <2>2, <2>3
<1>7. new[CacheSize] = g[w] /\ g[w] \in Record
  BY <1>4
<1>8. /\ old = [k \in 1..CacheSize |-> old[k]]
      /\ new = [k \in 1..CacheSize |-> new[k]]
  OBVIOUS
<1> HIDE DEF old, new
<1>9. /\ old \in Seq(Record) /\ Len(old) = CacheSize
      /\ new \in Seq(Record) /\ Len(new) = CacheSize
  BY <1>1, <1>5, <1>8, SequenceOf
<1> DEFINE all == Append(old, g[w])
<1>10. /\ all \in Seq(Record) /\ Len(all) = CacheSize + 1
       /\ \A k \in 1..CacheSize : all[k] = old[k]
       /\ all[CacheSize + 1] = g[w]
  BY <1>7, <1>9, AppendProperties
<1> HIDE DEF all
<1>11. all # <<>>
  BY <1>1, <1>10
<1>12. Tail(all) \in Seq(Record) /\ Len(Tail(all)) = Len(all) - 1
       /\ \A k \in 1..Len(Tail(all)) : Tail(all)[k] = all[k + 1]
  BY <1>10, <1>11, HeadTailProperties
<1>13. Len(Tail(all)) = CacheSize
  BY <1>1, <1>10, <1>12
<1>14. ASSUME NEW k \in 1..CacheSize PROVE new[k] = Tail(all)[k]
  <2>1. Tail(all)[k] = all[k + 1]
    BY <1>12, <1>13
  <2>2. CASE k = CacheSize
    BY <1>7, <1>10, <2>1, <2>2
  <2>3. CASE k # CacheSize
    BY <1>6, <1>10, <2>1, <2>3
  <2> QED BY <2>2, <2>3
<1>15. new = Tail(all)
  BY <1>9, <1>12, <1>13, <1>14, SeqEqual
<1> QED BY <1>15 DEF old, new, all, RingSequence

\* The window, slot by slot.
WindowSlots ==
    /\ PassedLately = RingSequence(SlotRecords, writeIndex, Stored)
    /\ SlotRecords \in [Slot -> Record]
    /\ PassedLately \in Seq(Record)
    /\ Len(PassedLately) = Stored

LEMMA WindowIs == RefInv => WindowSlots
<1> SUFFICES ASSUME RefInv PROVE WindowSlots
  OBVIOUS
<1>1. /\ Stored \in 0..CacheSize /\ writeIndex \in Slot
      /\ PassedLately = [k \in 1..Stored |-> Passed(Nth(writeIndex, Stored, k))]
  BY PassedShape, RefTypes DEF RefInv
<1>2. \A k \in 1..Stored : Nth(writeIndex, Stored, k) \in Slot
  BY <1>1, NthIs
<1>3. \A i \in Slot : SlotRecords[i] = Passed(i)
  BY DEF SlotRecords
<1>4. ASSUME NEW i \in Slot PROVE Passed(i) \in Record
  BY RefTypes DEF RefInv, Passed, Entry, Record
<1>5. CacheSize \in Nat
  BY DeduplicatorAssumption
<1>6. PassedLately = [k \in 1..Stored |-> PassedLately[k]]
      /\ \A k \in 1..Stored : PassedLately[k] \in Record
  BY <1>1, <1>2, <1>4
<1>7. PassedLately \in Seq(Record) /\ Len(PassedLately) = Stored
  BY <1>1, <1>5, <1>6, SequenceOf
<1> QED BY <1>1, <1>2, <1>3, <1>4, <1>7 DEF SlotRecords, WindowSlots, RingSequence

LEMMA WindowWillBe == RefInv' => WindowSlots'
BY WindowIs, PTL

\* What storing a hash does to the ring.
LEMMA StoreIs ==
    ASSUME RefInv, NEW p \in Packet, PassPacket(p), UNCHANGED clockVars
    PROVE  /\ \A i \in Slot : i # writeIndex =>
                 /\ cache'[i].hash = cache[i].hash
                 /\ cache'[i].valid <=> Cleaned[i].valid
                 /\ stampedAt'[i] = stampedAt[i]
           /\ cache'[writeIndex].hash = PacketHash(p)
           /\ cache'[writeIndex].valid
           /\ stampedAt'[writeIndex] = uptime
           /\ writeIndex' = IF writeIndex + 1 < CacheSize THEN writeIndex + 1 ELSE 0
           /\ writeIndex' \in Slot
           /\ duplicateCount' = duplicateCount /\ uptime' = uptime
<1> DEFINE new == [hash |-> PacketHash(p), timestamp |-> millis, valid |-> TRUE]
<1>1. /\ cache' = [Cleaned EXCEPT ![writeIndex] = new]
      /\ stampedAt' = [stampedAt EXCEPT ![writeIndex] = uptime]
      /\ writeIndex' = (writeIndex + 1) % CacheSize
      /\ duplicateCount' = duplicateCount /\ uptime' = uptime
  BY DEF PassPacket, AddToCache, clockVars
<1>2. new.hash = PacketHash(p) /\ new.valid
  OBVIOUS
<1> HIDE DEF new
<1>3. /\ writeIndex \in Slot /\ CacheSize \in Nat \ {0}
      /\ stampedAt \in [Slot -> 0..uptime] /\ Cleaned \in [Slot -> Entry]
  BY RefTypes, CleanedYoung DEF RefInv
<1>4. /\ \A i \in Slot : i # writeIndex => cache'[i] = Cleaned[i] /\ stampedAt'[i] = stampedAt[i]
      /\ cache'[writeIndex] = new /\ stampedAt'[writeIndex] = uptime
  BY <1>1, <1>3
<1>5. writeIndex' = IF writeIndex + 1 < CacheSize THEN writeIndex + 1 ELSE 0
  BY <1>1, <1>3, RingNext
<1>6. writeIndex' \in Slot
  BY <1>3, <1>5 DEF Slot
<1> QED BY <1>1, <1>2, <1>4, <1>5, <1>6, CleanedIs

LEMMA WindowStored ==
    ASSUME RefInv, NEW p \in Packet, PassPacket(p), UNCHANGED clockVars
    PROVE  /\ WindowInv'
           /\ Stored' = IF Written(writeIndex) THEN CacheSize ELSE writeIndex + 1
<1>1. /\ writeIndex \in Slot /\ CacheSize \in Nat \ {0} /\ uptime \in Nat /\ CacheTimeout \in Nat
  BY RefTypes DEF RefInv
<1>2. PacketHash(p) # NoHash
  BY DEF PacketHash, NoHash
<1>3. ASSUME NEW i \in Slot
      PROVE  /\ Written(i)' <=> (i = writeIndex \/ Written(i))
             /\ cache'[i].valid => Written(i)'
             /\ Written(i)' /\ ~ cache'[i].valid => uptime' - stampedAt'[i] > CacheTimeout
  <2>1. CASE i = writeIndex
    BY <1>2, <2>1, StoreIs DEF Written
  <2>2. CASE i # writeIndex
    <3>1. /\ cache'[i].hash = cache[i].hash /\ (cache'[i].valid <=> Cleaned[i].valid)
          /\ stampedAt'[i] = stampedAt[i] /\ uptime' = uptime
      BY <2>2, StoreIs
    <3>2. Cleaned[i].valid <=> Written(i) /\ uptime - stampedAt[i] <= CacheTimeout
      BY CleanedIs
    <3>3. stampedAt[i] \in Nat
      BY RefTypes DEF RefInv
    <3>4. Written(i)' <=> Written(i)
      BY <3>1 DEF Written
    <3> QED BY <1>1, <2>2, <3>1, <3>2, <3>3, <3>4
  <2> QED BY <2>1, <2>2
<1>4. writeIndex' \in Slot
      /\ writeIndex' = IF writeIndex + 1 < CacheSize THEN writeIndex + 1 ELSE 0
  BY StoreIs
<1>5. Written(writeIndex)' <=> (writeIndex' = writeIndex \/ Written(writeIndex'))
  <2>1. \A i \in Slot : cache'[i].hash # NoHash <=> (i = writeIndex \/ Written(i))
    BY <1>3 DEF Written
  <2> QED BY <1>4, <2>1 DEF Written
<1>6. Stored' = IF Written(writeIndex)' THEN CacheSize ELSE writeIndex'
  BY DEF Stored, Written
<1>7. CASE Written(writeIndex)
  <2>1. \A i \in Slot : Written(i)
    BY <1>7 DEF RefInv, WindowInv
  <2>2. Written(writeIndex)' /\ \A i \in Slot : Written(i)'
    BY <1>3, <1>4, <1>5, <2>1
  <2> QED BY <1>3, <1>6, <1>7, <2>2 DEF WindowInv
<1>8. CASE ~ Written(writeIndex)
  <2>1. \A i \in Slot : Written(i) <=> i < writeIndex
    BY <1>8 DEF RefInv, WindowInv
  <2>2. \A i \in Slot : Written(i)' <=> i < writeIndex + 1
    <3>1. \A i \in Slot : i < writeIndex + 1 <=> (i = writeIndex \/ i < writeIndex)
      BY <1>1 DEF Slot
    <3> QED BY <1>3, <2>1, <3>1
  <2>3. CASE writeIndex + 1 < CacheSize
    <3>1. writeIndex' = writeIndex + 1
      BY <1>4, <2>3
    <3>2. ~ (writeIndex' = writeIndex) /\ ~ (writeIndex' < writeIndex)
      BY <1>1, <3>1 DEF Slot
    <3>3. ~ Written(writeIndex)'
      BY <1>4, <1>5, <2>1, <3>2
    <3>4. \A i \in Slot : Written(i)' <=> i < writeIndex'
      BY <2>2, <3>1
    <3> QED BY <1>3, <1>6, <1>8, <3>1, <3>3, <3>4 DEF WindowInv
  <2>4. CASE ~ (writeIndex + 1 < CacheSize)
    <3>1. writeIndex' = 0 /\ writeIndex + 1 = CacheSize
      BY <1>1, <1>4, <2>4 DEF Slot
    <3>2. \A i \in Slot : Written(i)'
      BY <1>1, <2>2, <3>1 DEF Slot
    <3>3. writeIndex' = writeIndex \/ Written(writeIndex')
      BY <1>1, <1>4, <2>1, <3>1 DEF Slot
    <3>4. Written(writeIndex)'
      BY <1>5, <3>3
    <3> QED BY <1>3, <1>6, <1>8, <3>1, <3>2, <3>4 DEF WindowInv
  <2> QED BY <2>3, <2>4
<1> QED BY <1>7, <1>8

\* A packet that passes is the newest of the window, and the oldest leaves a
\* window that was full.
LEMMA WindowPass ==
    ASSUME RefInv, RefInv', NEW p \in Packet, PassPacket(p), UNCHANGED clockVars
    PROVE  Window!Pass(PacketHash(p))
<1> DEFINE newest == [hash |-> PacketHash(p), at |-> uptime]
<1>1. /\ writeIndex \in Slot /\ CacheSize \in Nat \ {0}
      /\ Stored = IF Written(writeIndex) THEN CacheSize ELSE writeIndex
  BY RefTypes DEF RefInv, Stored, Written
<1>2. /\ writeIndex' \in Slot
      /\ writeIndex' = IF writeIndex + 1 < CacheSize THEN writeIndex + 1 ELSE 0
      /\ duplicateCount' = duplicateCount /\ uptime' = uptime
  BY StoreIs
<1>3. /\ PassedLately = RingSequence(SlotRecords, writeIndex, Stored)
      /\ SlotRecords \in [Slot -> Record]
      /\ PassedLately \in Seq(Record) /\ Len(PassedLately) = Stored
  BY WindowIs DEF WindowSlots
<1>4. /\ PassedLately' = RingSequence(SlotRecords', writeIndex', Stored')
      /\ SlotRecords' \in [Slot -> Record]
  BY WindowWillBe DEF WindowSlots, RingSequence, Nth
<1>5. /\ \A i \in Slot : i # writeIndex => SlotRecords'[i] = SlotRecords[i]
      /\ SlotRecords'[writeIndex] = newest
  BY <1>1, StoreIs DEF SlotRecords, Passed
<1>6. Stored' = IF Written(writeIndex) THEN CacheSize ELSE writeIndex + 1
  BY WindowStored
<1> HIDE DEF newest
<1>7. Len(Append(PassedLately, newest)) = Stored + 1
  <2>1. newest \in Record
    BY <1>1, <1>4, <1>5
  <2>2. Len(Append(PassedLately, newest)) = Len(PassedLately) + 1
    BY <1>3, <2>1, AppendProperties, Zenon
  <2> QED BY <1>3, <2>2
<1>8. CASE ~ Written(writeIndex)
  <2>1. /\ PassedLately = RingSequence(SlotRecords, writeIndex, writeIndex)
        /\ PassedLately' = RingSequence(SlotRecords', writeIndex', writeIndex + 1)
    BY <1>1, <1>3, <1>4, <1>6, <1>8
  <2>2. PassedLately' = Append(PassedLately, newest)
    <3>1. RingSequence(SlotRecords', writeIndex', writeIndex + 1)
             = Append(RingSequence(SlotRecords, writeIndex, writeIndex),
                      SlotRecords'[writeIndex])
      BY <1>1, <1>2, <1>3, <1>4, <1>5, RingGrows, Zenon
    <3> QED BY <1>5, <2>1, <3>1, Zenon
  <2>3. ~ (Len(Append(PassedLately, newest)) > CacheSize)
    BY <1>1, <1>7, <1>8 DEF Slot
  <2> QED BY <1>2, <2>2, <2>3, LookupIsTrue DEF PassPacket, Window!Pass, newest
<1>9. CASE Written(writeIndex)
  <2>1. /\ PassedLately = RingSequence(SlotRecords, writeIndex, CacheSize)
        /\ PassedLately' = RingSequence(SlotRecords', writeIndex', CacheSize)
    BY <1>1, <1>3, <1>4, <1>6, <1>9
  <2>2. PassedLately' = Tail(Append(PassedLately, newest))
    <3>1. RingSequence(SlotRecords', writeIndex', CacheSize)
             = Tail(Append(RingSequence(SlotRecords, writeIndex, CacheSize),
                           SlotRecords'[writeIndex]))
      BY <1>1, <1>2, <1>3, <1>4, <1>5, RingTurns, Zenon
    <3> QED BY <1>5, <2>1, <3>1, Zenon
  <2>3. Len(Append(PassedLately, newest)) > CacheSize
    BY <1>1, <1>7, <1>9
  <2> QED BY <1>2, <2>2, <2>3, LookupIsTrue DEF PassPacket, Window!Pass, newest
<1> QED BY <1>8, <1>9

LEMMA RefStep == RefInv /\ [Next]_vars => RefInv' /\ [Window!SWNext]_(Window!swVars)
<1> SUFFICES ASSUME RefInv, [Next]_vars
             PROVE  RefInv' /\ [Window!SWNext]_(Window!swVars)
  OBVIOUS
<1>1. CacheInv'
  BY CacheStep DEF RefInv
<1>2. CASE UNCHANGED vars
  <2>1. /\ cache' = cache /\ writeIndex' = writeIndex /\ stampedAt' = stampedAt
        /\ duplicateCount' = duplicateCount /\ uptime' = uptime
    BY <1>2 DEF vars, dedupVars, clockVars
  <2>2. WindowInv'
    BY <2>1 DEF RefInv, WindowInv, Written
  <2>3. PassedLately' = PassedLately
    BY <2>1 DEF PassedLately, Passed, Stored, RingSlot
  <2> QED BY <1>1, <2>1, <2>2, <2>3 DEF RefInv, Window!swVars
<1>3. CASE Tick /\ UNCHANGED dedupVars
  BY <1>1, <1>3, WindowTick DEF RefInv, Window!SWNext
<1>4. ASSUME NEW p \in Packet, ProcessPacket(p)
      PROVE  RefInv' /\ [Window!SWNext]_(Window!swVars)
  <2>1. PacketHash(p) \in PacketHashes /\ UNCHANGED clockVars
    BY <1>4 DEF PacketHashes, ProcessPacket
  <2>2. CASE DropDuplicate(p)
    BY <1>1, <2>1, <2>2, WindowDrop DEF RefInv, Window!SWNext
  <2>3. CASE PassPacket(p)
    <3>1. RefInv'
      BY <1>1, <2>1, <2>3, WindowStored DEF RefInv
    <3>2. Window!Pass(PacketHash(p))
      BY <2>1, <2>3, <3>1, WindowPass
    <3> QED BY <2>1, <3>1, <3>2 DEF Window!SWNext
  <2> QED BY <1>4, <2>2, <2>3 DEF ProcessPacket
<1> QED BY <1>2, <1>3, <1>4 DEF Next

\* Whatever its size, the ring of wrapped stamps drops exactly the packets
\* whose hash is among the last CacheSize passed and no older than
\* CacheTimeout of true time.
THEOREM RingIsWindow == Spec => DropsExactlyTheRecentlySeen
<1>1. Init => RefInv /\ Window!SWInit
  BY CacheStart, WindowStart DEF RefInv, Window!SWInit, Init, ClockInit
<1>2. RefInv /\ [Next]_vars => RefInv' /\ [Window!SWNext]_(Window!swVars)
  BY RefStep
<1> QED BY <1>1, <1>2, PTL DEF Spec, DropsExactlyTheRecentlySeen, Window!SWSpec
=============================================================================
