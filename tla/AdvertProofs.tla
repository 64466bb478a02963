---------------------------- MODULE AdvertProofs ----------------------------
(***************************************************************************)
(* What a node keeps over a restart and how it is passed on, for every     *)
(* number of identities and locations and packets of every size: the node  *)
(* runs under one whole key pair, the same as long as no location command  *)
(* is carried out.                                                         *)
(***************************************************************************)
EXTENDS Adverts, Induction, FiniteSetTheorems, SequenceTheorems, TLAPS

\* Identity k, and what an EEPROM holds that keeps it.
Whole(k) == [a \in KeyAreas |-> Key(k)]
Keeps(m, k) == \A a \in Area : m[a] = IF a = "0" THEN StorageMagic ELSE Key(k)

\* A magic byte is never in front of anything but what it says.
Sound(m) ==
    /\ m["0"] = StorageMagic => \E k \in 1..MaxKeys : Keeps(m, k)
    /\ m["0"] = MagicHigh => \E l \in Locations : m["2-9"] = At(l)

RunsWhole == \E k \in 1..MaxKeys : identity = Whole(k)

StorageInv ==
    /\ TypeOK
    /\ Sound(flash) /\ Sound(buffer)
    /\ phase \notin {"off", "reading"} => RunsWhole
    /\ phase = "saving" => buffer["0"] = StorageMagic

LEMMA MagicsDiffer ==
    /\ StorageMagic # MagicHigh /\ StorageMagic # Blank /\ StorageMagic # Zero
    /\ MagicHigh # Blank /\ MagicHigh # Zero
BY DEF StorageMagic, MagicHigh, Blank, Zero

LEMMA StorageStart == Init => StorageInv
<1> SUFFICES ASSUME Init PROVE StorageInv
  OBVIOUS
<1>1. TypeOK
  <2>1. Blank \in Value /\ Zero \in Value
    BY DEF Value
  <2>2. flash \in [Area -> Value] /\ identity \in [KeyAreas -> Value]
    BY <2>1 DEF Init
  <2>3. location \in Location /\ phase \in Phase /\ keys \in 0..MaxKeys
    BY StorageAssumption DEF Init, Location, Phase
  <2> QED BY <2>1, <2>2, <2>3 DEF Init, TypeOK
<1>2. Sound(flash) /\ Sound(buffer)
  BY MagicsDiffer DEF Init, Sound, Area
<1> QED BY <1>1, <1>2 DEF StorageInv, Init

\* An identity read from behind its magic is whole.
LEMMA LoadedWhole ==
    ASSUME NEW k \in 1..MaxKeys, Keeps(buffer, k)
    PROVE  [a \in KeyAreas |-> buffer[a]] = Whole(k)
BY DEF Keeps, Whole, KeyAreas, Area

LEMMA WholeTyped == ASSUME NEW k \in 1..MaxKeys PROVE Whole(k) \in [KeyAreas -> Value]
BY StorageAssumption DEF Whole, Value, Key

LEMMA StorageStep == StorageInv /\ [Next]_vars => StorageInv'
<1> SUFFICES ASSUME StorageInv, [Next]_vars PROVE StorageInv'
  OBVIOUS
<1> USE DEF StorageInv
<1>1. CASE PowerOn
  BY <1>1 DEF PowerOn, TypeOK, Phase, Sound, Keeps, RunsWhole, bootVars
<1>2. CASE PowerLoss
  BY <1>2 DEF PowerLoss, TypeOK, Phase, Location, Value, Sound, Keeps
<1>3. CASE LoadIdentity
  <2>1. PICK k \in 1..MaxKeys : Keeps(buffer, k)
    BY <1>3 DEF LoadIdentity, Sound
  <2>2. identity' = Whole(k)
    BY <1>3, <2>1, LoadedWhole DEF LoadIdentity
  <2>3. TypeOK'
    BY <1>3, <2>2, WholeTyped DEF LoadIdentity, TypeOK, Phase
  <2>4. RunsWhole'
    BY <2>2 DEF RunsWhole
  <2> QED BY <1>3, <2>3, <2>4 DEF LoadIdentity, Sound, Keeps
<1>4. CASE GenerateIdentity
  <2>1. keys' \in 1..MaxKeys
    BY <1>4, StorageAssumption DEF GenerateIdentity, TypeOK
  <2>2. identity' = Whole(keys')
    BY <1>4 DEF GenerateIdentity, Whole
  <2>3. Keeps(buffer', keys')
    BY <1>4, <2>2 DEF GenerateIdentity, Keeps, Whole, KeyAreas
  <2>4. buffer' \in [Area -> Value]
    BY <1>4, <2>1, <2>2, WholeTyped DEF GenerateIdentity, Value, KeyAreas
  <2>5. TypeOK'
    BY <1>4, <2>1, <2>2, <2>4, WholeTyped DEF GenerateIdentity, TypeOK, Phase
  <2>6. Sound(buffer') /\ buffer'["0"] = StorageMagic
    BY <2>1, <2>3, MagicsDiffer DEF Sound, Keeps, Area
  <2> QED BY <1>4, <2>1, <2>2, <2>5, <2>6 DEF GenerateIdentity, Sound, Keeps, RunsWhole
<1>5. CASE SaveIdentity
  BY <1>5 DEF SaveIdentity, TypeOK, Phase, Sound, Keeps, RunsWhole, bootVars
<1>6. CASE InitializeConfig
  <2>1. LoadedLocation \in Location
    BY DEF LoadedLocation, Sound, Location
  <2>2. nodeHash' \in Value
    BY <1>6 DEF InitializeConfig, TypeOK, KeyAreas, Area
  <2>3. everUp' \subseteq [KeyAreas -> Value]
    BY <1>6 DEF InitializeConfig, TypeOK
  <2>4. TypeOK'
    BY <1>6, <2>1, <2>2, <2>3 DEF InitializeConfig, TypeOK, Phase
  <2> QED BY <1>6, <2>4 DEF InitializeConfig, Sound, Keeps, RunsWhole
<1>7. ASSUME NEW l \in Locations, SetLocation(l) PROVE StorageInv'
  <2>1. buffer' \in [Area -> Value] /\ location' \in Location
    BY <1>7 DEF SetLocation, WriteLocation, TypeOK, Value, Location
  <2>2. Sound(buffer')
    BY <1>7, MagicsDiffer DEF SetLocation, WriteLocation, Sound, Area, TypeOK
  <2>3. TypeOK'
    BY <1>7, <2>1 DEF SetLocation, TypeOK, Phase
  <2> QED BY <1>7, <2>2, <2>3 DEF SetLocation, Sound, Keeps, RunsWhole
<1>8. CASE ClearLocation
  <2>1. buffer' \in [Area -> Value] /\ location' \in Location
    BY <1>8 DEF ClearLocation, TypeOK, Value, Location
  <2>2. Sound(buffer')
    BY <1>8, MagicsDiffer DEF ClearLocation, Sound, Area, TypeOK
  <2>3. TypeOK'
    BY <1>8, <2>1 DEF ClearLocation, TypeOK, Phase
  <2> QED BY <1>8, <2>2, <2>3 DEF ClearLocation, Sound, Keeps, RunsWhole
<1>9. CASE CommitLocation
  BY <1>9 DEF CommitLocation, TypeOK, Phase, Sound, Keeps, RunsWhole, bootVars
<1>10. CASE UNCHANGED vars
  BY <1>10 DEF vars, bootVars, TypeOK, Sound, Keeps, RunsWhole
<1> QED BY <1>1, <1>2, <1>3, <1>4, <1>5, <1>6, <1>7, <1>8, <1>9, <1>10 DEF Next

LEMMA StorageInvariant == Spec => []StorageInv
BY StorageStart, StorageStep, PTL DEF Spec

\* Whatever the order of commands, commits and power failures, the EEPROM, the
\* identity and the location are of their types: in particular no piece of a
\* key is ever loaded as a location.
THEOREM StorageTyped == Spec => []TypeOK
<1>1. StorageInv => TypeOK
  BY DEF StorageInv
<1> QED BY <1>1, StorageInvariant, PTL

\* A node that runs, runs under one key pair, never half a key and half a
\* location.
THEOREM IdentityIsWhole == Spec => []IdentityWhole
<1>1. StorageInv => IdentityWhole
  BY DEF StorageInv, IdentityWhole, Running, RunsWhole, Whole
<1> QED BY <1>1, StorageInvariant, PTL

----------------------------------------------------------------------------
\* As long as no location command was carried out, the flash holds every
\* identity the node has run under, from before it runs.
Kept(m, id) == m["0"] = StorageMagic /\ \A a \in KeyAreas : id[a] = m[a]
KeptUntilLocated ==
    ~ located =>
       /\ phase # "committing"
       /\ \A id \in everUp : Kept(flash, id)
       /\ phase = "reading" => buffer = flash
       /\ phase = "saving" => everUp = {} /\ Kept(buffer, identity)
       /\ phase \in {"configuring", "up"} => Kept(flash, identity)

LEMMA KeptStart == Init => KeptUntilLocated
BY DEF Init, KeptUntilLocated

LEMMA KeptStep == StorageInv /\ KeptUntilLocated /\ [Next]_vars => KeptUntilLocated'
<1> SUFFICES ASSUME StorageInv, KeptUntilLocated, [Next]_vars, ~ located'
             PROVE  KeptUntilLocated'
  BY DEF KeptUntilLocated
<1> USE DEF KeptUntilLocated
<1>1. CASE PowerOn
  BY <1>1 DEF PowerOn, Kept
<1>2. CASE PowerLoss
  BY <1>2 DEF PowerLoss, Kept
<1>3. CASE LoadIdentity
  <2>1. Kept(flash, identity')
    BY <1>3 DEF LoadIdentity, Kept
  <2> QED BY <1>3, <2>1 DEF LoadIdentity, Kept
<1>4. CASE GenerateIdentity
  <2>1. everUp = {}
    BY <1>4 DEF GenerateIdentity, Kept
  <2>2. Kept(buffer', identity')
    BY <1>4 DEF GenerateIdentity, Kept, KeyAreas, Area
  <2> QED BY <1>4, <2>1, <2>2 DEF GenerateIdentity
<1>5. CASE SaveIdentity
  BY <1>5 DEF SaveIdentity, Kept, bootVars
<1>6. CASE InitializeConfig
  BY <1>6 DEF InitializeConfig, Kept
<1>7. CASE (\E l \in Locations : SetLocation(l)) \/ ClearLocation
  BY <1>7 DEF SetLocation, ClearLocation
<1>8. CASE CommitLocation
  BY <1>8 DEF CommitLocation
<1>9. CASE UNCHANGED vars
  BY <1>9 DEF vars, bootVars, Kept
<1> QED BY <1>1, <1>2, <1>3, <1>4, <1>5, <1>6, <1>7, <1>8, <1>9 DEF Next

\* Two identities kept by one memory are the same.
LEMMA KeptIsOne ==
    ASSUME StorageInv, KeptUntilLocated
    PROVE  IdentitySurvivesRestart
<1> SUFFICES ASSUME ~ located PROVE Cardinality(everUp) <= 1
  BY DEF IdentitySurvivesRestart
<1>1. CASE everUp = {}
  BY <1>1, FS_EmptySet
<1>2. ASSUME NEW id \in everUp PROVE Cardinality(everUp) <= 1
  <2>1. ASSUME NEW other \in everUp PROVE other = id
    <3>1. other \in [KeyAreas -> Value] /\ id \in [KeyAreas -> Value]
      BY DEF StorageInv, TypeOK
    <3>2. \A a \in KeyAreas : other[a] = id[a]
      BY DEF KeptUntilLocated, Kept
    <3> QED BY <3>1, <3>2
  <2>2. everUp = {id}
    BY <2>1
  <2> QED BY <2>2, FS_Singleton
<1> QED BY <1>1, <1>2

\* Restarts and power failures, at whatever moment and however many, leave a
\* node its identity, as long as no location command is carried out.
THEOREM IdentitySurvives == Spec => []IdentitySurvivesRestart
<1>1. StorageInv /\ KeptUntilLocated => IdentitySurvivesRestart
  BY KeptIsOne
<1> QED BY <1>1, StorageInvariant, KeptStart, KeptStep, PTL DEF Spec

----------------------------------------------------------------------------
\* A packet as the program builds and decodes it: bytes, and transport codes
\* exactly if the route type says so.  What a payload holds is open.
Byte == 0..255
Packets(S) == [header : Byte, codes : Seq(Byte), path : Seq(Byte), payload : Seq(S)]
WellFormed(p) ==
    /\ \E S : p \in Packets(S)
    /\ Len(p.codes) = IF HasCodes(p.header) THEN CodesSize ELSE 0
    /\ Len(p.path) \in Byte

LEMMA SeqWider == ASSUME NEW S, NEW T, S \subseteq T, NEW s \in Seq(S) PROVE s \in Seq(T)
<1>1. s \in [1..Len(s) -> S] /\ Len(s) \in Nat
  BY LenProperties
<1>2. s \in [1..Len(s) -> T]
  BY <1>1
<1> QED BY <1>1, <1>2

LEMMA FrontOfConcat ==
    ASSUME NEW S, NEW s \in Seq(S), NEW t \in Seq(S),
           NEW m \in Nat \ {0}, NEW n \in Nat, n <= Len(s)
    PROVE  SubSeq(s \o t, m, n) = SubSeq(s, m, n)
<1>1. s \o t \in Seq(S) /\ Len(s) \in Nat /\ Len(t) \in Nat /\ Len(s \o t) = Len(s) + Len(t)
  BY ConcatProperties, LenProperties
<1>2. CASE n < m
  BY <1>2, SubSeqEmpty
<1>3. CASE m <= n
  <2>1. m \in 1..Len(s) /\ n \in 1..Len(s)
    BY <1>1, <1>3
  <2> QED BY <2>1, SubSeqOfConcat1
<1> QED BY <1>2, <1>3

LEMMA BackOfConcat ==
    ASSUME NEW S, NEW s \in Seq(S), NEW t \in Seq(S)
    PROVE  SubSeq(s \o t, Len(s) + 1, Len(s) + Len(t)) = t
<1> DEFINE w == s \o t
           m == Len(s) + 1
           n == Len(s) + Len(t)
           cut == SubSeq(w, m, n)
<1>1. /\ Len(s) \in Nat /\ Len(t) \in Nat
      /\ w \in Seq(S) /\ Len(w) = Len(s) + Len(t)
      /\ \A i \in 1..(Len(s) + Len(t)) : w[i] = IF i <= Len(s) THEN s[i] ELSE t[i - Len(s)]
  BY ConcatProperties, LenProperties
<1>2. \A i \in 1..Len(t) : w[m + i - 1] = t[i]
  <2> SUFFICES ASSUME NEW i \in 1..Len(t) PROVE w[m + i - 1] = t[i]
    OBVIOUS
  <2>1. /\ Len(s) + i \in 1..(Len(s) + Len(t)) /\ ~ (Len(s) + i <= Len(s))
        /\ m + i - 1 = Len(s) + i /\ (Len(s) + i) - Len(s) = i
    BY <1>1
  <2> HIDE DEF w, m
  <2> QED BY <1>1, <2>1
<1>3. \A i \in m..n : w[i] \in S
  BY <1>1, ElementOfSeq
<1>4. m \in Int /\ n \in Int /\ n - m + 1 = Len(t)
  BY <1>1
<1>5. /\ cut \in Seq(S)
      /\ Len(cut) = IF m <= n THEN n - m + 1 ELSE 0
      /\ \A i \in 1..(n - m + 1) : cut[i] = w[m + i - 1]
  <2> HIDE DEF w, m, n
  <2> QED BY <1>3, <1>4, SubSeqProperties
<1>6. Len(cut) = Len(t)
  BY <1>1, <1>4, <1>5
<1>7. cut = t
  <2> HIDE DEF cut, w, m, n
  <2> QED BY <1>2, <1>4, <1>5, <1>6, SeqEqual
<1> QED BY <1>7

Concatenated(s, t, w) ==
    /\ Len(w) = Len(s) + Len(t)
    /\ \A i \in 1..(Len(s) + Len(t)) : w[i] = IF i <= Len(s) THEN s[i] ELSE t[i - Len(s)]

LEMMA ConcatenatedThere ==
    ASSUME NEW S, NEW s \in Seq(S), NEW t \in Seq(S)
    PROVE  s \o t \in Seq(S) /\ Concatenated(s, t, s \o t)
BY ConcatProperties DEF Concatenated

\* A frame of five parts, and where each of them lies.
Parts(w, S, a, b, c, d, e) ==
    /\ w \in Seq(S)
    /\ Len(w) = 2 + Len(b) + Len(d) + Len(e)
    /\ w[1] = a[1]
    /\ SubSeq(w, 2, 1 + Len(b)) = b
    /\ w[2 + Len(b)] = c[1]
    /\ SubSeq(w, 3 + Len(b), 2 + Len(b) + Len(d)) = d
    /\ SubSeq(w, 3 + Len(b) + Len(d), 2 + Len(b) + Len(d) + Len(e)) = e

LEMMA FiveParts ==
    ASSUME NEW S, NEW a \in Seq(S), NEW b \in Seq(S), NEW c \in Seq(S),
           NEW d \in Seq(S), NEW e \in Seq(S), Len(a) = 1, Len(c) = 1
    PROVE  Parts((((a \o b) \o c) \o d) \o e, S, a, b, c, d, e)
<1> DEFINE x == a \o b
           y == x \o c
           z == y \o d
           w == z \o e
<1>1. Len(b) \in Nat /\ Len(d) \in Nat /\ Len(e) \in Nat
  BY LenProperties
<1>2. /\ x \in Seq(S) /\ Len(x) = 1 + Len(b)
      /\ x[1] = a[1]
  <2>1. Concatenated(a, b, x)
    BY ConcatenatedThere
  <2> QED BY <1>1, <2>1 DEF Concatenated
<1>3. /\ y \in Seq(S) /\ Len(y) = 2 + Len(b)
      /\ y[1] = x[1] /\ y[2 + Len(b)] = c[1]
  <2>1. Concatenated(x, c, y)
    BY <1>2, ConcatenatedThere
  <2> QED BY <1>1, <1>2, <2>1 DEF Concatenated
<1>4. /\ z \in Seq(S) /\ Len(z) = 2 + Len(b) + Len(d)
      /\ z[1] = y[1] /\ z[2 + Len(b)] = y[2 + Len(b)]
  <2>1. Concatenated(y, d, z)
    BY <1>3, ConcatenatedThere
  <2> QED BY <1>1, <1>3, <2>1 DEF Concatenated
<1>5. /\ w \in Seq(S) /\ Len(w) = 2 + Len(b) + Len(d) + Len(e)
      /\ w[1] = z[1] /\ w[2 + Len(b)] = z[2 + Len(b)]
  <2>1. Concatenated(z, e, w)
    BY <1>4, ConcatenatedThere
  <2> QED BY <1>1, <1>4, <2>1 DEF Concatenated
<1>6. w[1] = a[1] /\ w[2 + Len(b)] = c[1]
  BY <1>2, <1>3, <1>4, <1>5
<1>7. SubSeq(w, 2, 1 + Len(b)) = b
  <2>1. SubSeq(w, 2, 1 + Len(b)) = SubSeq(z, 2, 1 + Len(b))
    BY <1>1, <1>4, <1>5, FrontOfConcat
  <2>2. SubSeq(z, 2, 1 + Len(b)) = SubSeq(y, 2, 1 + Len(b))
    BY <1>1, <1>3, FrontOfConcat DEF z
  <2>3. SubSeq(y, 2, 1 + Len(b)) = SubSeq(x, 2, 1 + Len(b))
    BY <1>1, <1>2, FrontOfConcat DEF y
  <2>4. SubSeq(x, Len(a) + 1, Len(a) + Len(b)) = b
    BY BackOfConcat DEF x
  <2>5. Len(a) + 1 = 2 /\ Len(a) + Len(b) = 1 + Len(b)
    OBVIOUS
  <2> QED BY <2>1, <2>2, <2>3, <2>4, <2>5
<1>8. SubSeq(w, 3 + Len(b), 2 + Len(b) + Len(d)) = d
  <2>1. SubSeq(w, 3 + Len(b), 2 + Len(b) + Len(d)) = SubSeq(z, 3 + Len(b), 2 + Len(b) + Len(d))
    BY <1>1, <1>4, <1>5, FrontOfConcat
  <2>2. SubSeq(z, Len(y) + 1, Len(y) + Len(d)) = d
    BY <1>3, BackOfConcat DEF z
  <2>3. Len(y) + 1 = 3 + Len(b) /\ Len(y) + Len(d) = 2 + Len(b) + Len(d)
    BY <1>1, <1>3
  <2> QED BY <2>1, <2>2, <2>3
<1>9. SubSeq(w, 3 + Len(b) + Len(d), 2 + Len(b) + Len(d) + Len(e)) = e
  <2>1. SubSeq(w, Len(z) + 1, Len(z) + Len(e)) = e
    BY <1>4, <1>5, BackOfConcat
  <2>2. Len(z) + 1 = 3 + Len(b) + Len(d)
    BY <1>1, <1>4
  <2> QED BY <1>4, <2>1, <2>2
<1> QED BY <1>5, <1>6, <1>7, <1>8, <1>9 DEF Parts

\* A packet that is encoded, for whatever reason, and heard is the same packet:
\* for every route type, with and without transport codes, every path and
\* payload the limits allow.
THEOREM HeardAsEncoded ==
    ASSUME NEW p, WellFormed(p), NEW raw \in Encode(p, MaxRawSize)
    PROVE  Heard(raw) = {p}
<1> DEFINE h == <<p.header>>
           l == <<Len(p.path)>>
           at == 2 + Len(p.codes)
<1>a. PICK T : p \in Packets(T)
  BY DEF WellFormed
<1> DEFINE S == Byte \cup T
<1>b. /\ p.header \in Byte /\ p.codes \in Seq(Byte) /\ p.path \in Seq(Byte)
      /\ p.payload \in Seq(T) /\ Len(p.path) \in Byte
      /\ Len(p.codes) = IF HasCodes(p.header) THEN CodesSize ELSE 0
      /\ p = [header |-> p.header, codes |-> p.codes, path |-> p.path, payload |-> p.payload]
  BY <1>a DEF WellFormed, Packets
<1>1. /\ p.codes \in Seq(S) /\ p.path \in Seq(S) /\ p.payload \in Seq(S)
      /\ h \in Seq(S) /\ l \in Seq(S) /\ Len(h) = 1 /\ Len(l) = 1
      /\ Len(p.codes) \in Nat /\ Len(p.path) \in Nat /\ Len(p.payload) \in Nat
  <2>1. p.codes \in Seq(S) /\ p.path \in Seq(S) /\ p.payload \in Seq(S)
    BY <1>b, SeqWider
  <2>2. p.header \in S /\ Len(p.path) \in S
    BY <1>b
  <2> QED BY <2>1, <2>2, LenProperties
<1> DEFINE codes == Len(p.codes)
           path == Len(p.path)
           payload == Len(p.payload)
<1>0. codes \in Nat /\ path \in Nat /\ payload \in Nat
  BY <1>1
<1>2. p.codes = IF HasCodes(p.header) THEN p.codes ELSE <<>>
  BY <1>b, EmptySeq
<1>3. /\ raw = (((h \o p.codes) \o l) \o p.path) \o p.payload
      /\ Valid(p) /\ Len(raw) <= MaxRawSize
  BY <1>2 DEF Encode
<1>4. Parts(raw, S, h, p.codes, l, p.path, p.payload)
  <2> HIDE DEF h, l, S
  <2>1. Parts((((h \o p.codes) \o l) \o p.path) \o p.payload, S,
              h, p.codes, l, p.path, p.payload)
    BY <1>1, FiveParts
  <2> QED BY <1>3, <2>1
<1> USE DEF Parts
<1>5. raw[1] = p.header /\ raw[at] = Len(p.path)
  BY <1>4
<1>6. PathLengthAt(raw) = at
  BY <1>b, <1>5 DEF PathLengthAt
<1>7. at - 1 = 1 + Len(p.codes) /\ at + 1 = 3 + Len(p.codes)
  BY <1>1
<1>8. Decodable(raw)
  <2>1. Len(raw) = 2 + codes + path + payload /\ raw[2 + codes] = path
    BY <1>4, <1>5
  <2>2. path <= MaxPathSize /\ payload <= MaxPacketPayload
    BY <1>3 DEF Valid
  <2>3. PathLengthAt(raw) = 2 + codes
    BY <1>6
  <2> HIDE DEF codes, path, payload
  <2> QED BY <1>0, <2>1, <2>2, <2>3 DEF Decodable, MinPacketSize
<1>9. Decode(raw) = {p}
  <2>1. p = [header |-> p.header, codes |-> p.codes, path |-> p.path, payload |-> p.payload]
    BY <1>b
  <2>2. Decode(raw) = {[header |-> raw[1], codes |-> SubSeq(raw, 2, at - 1),
                        path |-> SubSeq(raw, at + 1, at + raw[at]),
                        payload |-> From(raw, at + raw[at] + 1)]}
    BY <1>6, <1>8 DEF Decode
  <2>3. From(raw, at + raw[at] + 1) = p.payload
    <3>1. at + Len(p.path) + 1 = 3 + Len(p.codes) + Len(p.path)
      <4> HIDE DEF codes, path
      <4>1. (2 + codes) + path + 1 = 3 + codes + path
        BY <1>0
      <4> QED BY <4>1 DEF codes, path
    <3> QED BY <1>4, <1>5, <3>1 DEF From
  <2> QED BY <1>4, <1>5, <1>7, <2>1, <2>2, <2>3
<1>10. ValidRaw(raw)
  <2>1. Len(raw) = 2 + codes + path + payload /\ Len(raw) <= MaxRawSize
    BY <1>3, <1>4
  <2> HIDE DEF codes, path, payload
  <2> QED BY <1>0, <2>1, CodecAssumption DEF ValidRaw, MinPacketSize
<1> QED BY <1>3, <1>9, <1>10 DEF Heard

----------------------------------------------------------------------------
\* Adverts change nothing of what the node keeps.
LEMMA AdvertsKeep == AdvertSpec => Spec
<1>1. AdvertInit => Init
  BY DEF AdvertInit
<1>2. [AdvertNext]_<<vars, advertVars>> => [Next]_vars
  BY DEF AdvertNext, BuildAdvert, SendOther, Relay
<1> QED BY <1>1, <1>2, PTL DEF AdvertSpec, Spec

LEMMA SubSeqTyped ==
    ASSUME NEW S, NEW s \in Seq(S), NEW m \in Nat \ {0}, NEW n \in Nat, n <= Len(s)
    PROVE  /\ SubSeq(s, m, n) \in Seq(S)
           /\ Len(SubSeq(s, m, n)) = IF m <= n THEN n - m + 1 ELSE 0
           /\ \A i \in 1..(n - m + 1) : SubSeq(s, m, n)[i] = s[m + i - 1]
<1>1. \A i \in m..n : s[i] \in S
  <2>1. Len(s) \in Nat
    BY LenProperties
  <2> SUFFICES ASSUME NEW i \in m..n PROVE i \in 1..Len(s)
    BY ElementOfSeq
  <2> QED BY <2>1
<1> QED BY <1>1, SubSeqProperties

\* Of a frame of bytes at most one packet is heard, and a well-formed one.
LEMMA HeardOfBytes ==
    ASSUME NEW raw \in Seq(Byte), NEW p \in Heard(raw)
    PROVE  WellFormed(p) /\ p \in Packets(Byte) /\ Heard(raw) = {p}
<1> DEFINE at == PathLengthAt(raw)
           n == raw[at]
           length == Len(raw)
<1>1. Decodable(raw) /\ Heard(raw) = {p} /\ p \in Decode(raw)
  BY DEF Heard, Decode
<1>2. p = [header |-> raw[1], codes |-> SubSeq(raw, 2, at - 1),
           path |-> SubSeq(raw, at + 1, at + n), payload |-> SubSeq(raw, at + n + 1, length)]
  BY <1>1 DEF Decode, From
<1>3. /\ length \in Nat /\ length >= 2 /\ at <= length /\ n <= MaxPathSize /\ at + n <= length
  BY <1>1, LenProperties DEF Decodable, MinPacketSize
<1>4. at = (IF HasCodes(raw[1]) THEN 2 + CodesSize ELSE 2) /\ at \in Nat /\ at >= 2
  BY CodecAssumption DEF PathLengthAt
<1>5. raw[1] \in Byte /\ n \in Byte
  <2>1. 1 \in 1..length /\ at \in 1..length
    <3> HIDE DEF at, length
    <3> QED BY <1>3, <1>4
  <2>2. raw[1] \in Byte /\ n \in Byte
    BY <2>1, ElementOfSeq
  <2> QED BY <2>2
<1> DEFINE codes == SubSeq(raw, 2, at - 1)
           path == SubSeq(raw, at + 1, at + n)
           payload == SubSeq(raw, at + n + 1, length)
<1>6. n \in Nat
  <2> HIDE DEF n
  <2> QED BY <1>5 DEF Byte
<1>7. codes \in Seq(Byte) /\ Len(codes) = IF HasCodes(raw[1]) THEN CodesSize ELSE 0
  <2>1. at - 1 \in Nat /\ at - 1 <= length
    <3> HIDE DEF at, length
    <3> QED BY <1>3, <1>4
  <2>2. codes \in Seq(Byte) /\ Len(codes) = IF 2 <= at - 1 THEN (at - 1) - 2 + 1 ELSE 0
    BY <2>1, SubSeqTyped
  <2> HIDE DEF at, codes
  <2> QED BY <1>4, <2>2, CodecAssumption
<1>8. path \in Seq(Byte) /\ Len(path) = n
  <2>1. at + 1 \in Nat \ {0} /\ at + n \in Nat
    <3> HIDE DEF at, n
    <3> QED BY <1>4, <1>6
  <2>2. path \in Seq(Byte) /\ Len(path) = IF at + 1 <= at + n THEN (at + n) - (at + 1) + 1 ELSE 0
    BY <1>3, <2>1, SubSeqTyped
  <2> HIDE DEF at, n, path
  <2> QED BY <1>4, <1>6, <2>2
<1>9. payload \in Seq(Byte)
  <2>1. at + n + 1 \in Nat \ {0}
    <3> HIDE DEF at, n
    <3> QED BY <1>4, <1>6
  <2> QED BY <1>3, <2>1, SubSeqTyped
<1>10. p \in Packets(Byte)
  <2> HIDE DEF codes, path, payload
  <2>1. [header |-> raw[1], codes |-> codes, path |-> path, payload |-> payload] \in Packets(Byte)
    BY <1>5, <1>7, <1>8, <1>9 DEF Packets
  <2> QED BY <1>2, <2>1 DEF codes, path, payload
<1>11. p.header = raw[1] /\ p.codes = codes /\ p.path = path
  BY <1>2
<1>12. WellFormed(p)
  <2> HIDE DEF codes, path, n
  <2> QED BY <1>5, <1>7, <1>8, <1>10, <1>11 DEF WellFormed
<1> QED BY <1>1, <1>10, <1>12

LEMMA NothingHeard == Heard(<<>>) = {}
BY DEF Heard, ValidRaw, MinPacketSize

\* The packet at its origin is on the air with the hashes of the repeaters it
\* came by, and what is heard of the frame is that packet.
Travelled == [sent EXCEPT !.path = @ \o hops]
Passed ==
    /\ \E S : sent \in Packets(S)
    /\ WellFormed(Travelled)
    /\ Heard(frame) = {Travelled}
RelayInv ==
    /\ hops \in Seq(Byte)
    /\ frame # <<>> => Passed

LEMMA PacketPath ==
    ASSUME NEW S, NEW p \in Packets(S), NEW s \in Seq(Byte)
    PROVE  /\ [p EXCEPT !.path = s] \in Packets(S)
           /\ [p EXCEPT !.path = s].header = p.header
           /\ [p EXCEPT !.path = s].codes = p.codes
           /\ [p EXCEPT !.path = s].path = s
           /\ [p EXCEPT !.path = s].payload = p.payload
BY DEF Packets

LEMMA AppendAfter ==
    ASSUME NEW S, NEW s \in Seq(S), NEW t \in Seq(S), NEW x \in S
    PROVE  s \o Append(t, x) = Append(s \o t, x)
<1>1. s \o t \in Seq(S) /\ <<x>> \in Seq(S)
  BY ConcatProperties
<1>2. Append(t, x) = t \o <<x>> /\ Append(s \o t, x) = (s \o t) \o <<x>>
  BY <1>1, AppendIsConcat
<1> QED BY <1>1, <1>2, ConcatAssociative

\* A packet at its origin.
LEMMA OriginPasses ==
    ASSUME NEW p, WellFormed(p), NEW raw, Heard(raw) = {p},
           frame' = raw, sent' = p, hops' = <<>>
    PROVE  RelayInv'
<1>1. PICK S : p \in Packets(S)
  BY DEF WellFormed
<1>2. p.path \in Seq(Byte) /\ p = [p EXCEPT !.path = p.path]
  BY <1>1 DEF Packets
<1>3. p.path \o <<>> = p.path
  BY <1>2, ConcatEmptySeq
<1>4. Travelled' = p
  BY <1>2, <1>3 DEF Travelled
<1>5. <<>> \in Seq(Byte)
  OBVIOUS
<1> QED BY <1>1, <1>4, <1>5 DEF RelayInv, Passed

LEMMA RelayPasses ==
    ASSUME RelayInv, NEW hash \in Repeaters, Relay(hash)
    PROVE  RelayInv' /\ frame # <<>> /\ frame' # <<>>
<1>1. PICK p \in Heard(frame) : \E q \in AddNodeToPath(p, hash) : frame' \in Encode(q, MaxRawSize)
  BY DEF Relay
<1>2. frame # <<>>
  BY <1>1, NothingHeard
<1>3. Passed /\ p = Travelled /\ hops \in Seq(Byte) /\ hash \in Byte
  BY <1>1, <1>2, AdvertsAssumption DEF RelayInv, Passed, Byte
<1>4. PICK S : sent \in Packets(S)
  BY <1>3 DEF Passed
<1> DEFINE path == sent.path \o hops
           longer == Append(path, hash)
           q == [sent EXCEPT !.path = longer]
<1>5. sent.path \in Seq(Byte) /\ path \in Seq(Byte) /\ longer \in Seq(Byte)
  <2>1. sent.path \in Seq(Byte)
    BY <1>4 DEF Packets
  <2>2. path \in Seq(Byte)
    BY <1>3, <2>1, ConcatProperties
  <2> QED BY <1>3, <2>1, <2>2, AppendProperties
<1>6. /\ p = [sent EXCEPT !.path = path] /\ p.path = path
      /\ p.header = sent.header /\ p.codes = sent.codes
  BY <1>3, <1>4, <1>5, PacketPath DEF Travelled
<1>7. /\ [p EXCEPT !.path = longer] = q
      /\ q \in Packets(S) /\ q.path = longer /\ q.header = sent.header /\ q.codes = sent.codes
  BY <1>4, <1>5, <1>6, PacketPath DEF Packets
<1>8. ~ (Len(path) >= MaxPathSize) /\ frame' \in Encode(q, MaxRawSize)
  BY <1>1, <1>6, <1>7 DEF AddNodeToPath
<1>9. Len(longer) = Len(path) + 1 /\ Len(path) \in Nat
  BY <1>3, <1>5, AppendProperties, LenProperties
<1>10. Len(longer) \in Byte
  <2>1. ~ (Len(path) >= MaxPathSize) /\ MaxPathSize \in 0..255
    BY <1>8, AdvertsAssumption
  <2> DEFINE n == Len(path)
  <2>2. n \in Nat /\ Len(longer) = n + 1
    BY <1>9
  <2>3. n + 1 \in Byte
    <3> HIDE DEF n
    <3> QED BY <2>1, <2>2 DEF Byte
  <2> QED BY <2>2, <2>3
<1>11. WellFormed(q)
  <2> HIDE DEF q, longer
  <2> QED BY <1>3, <1>6, <1>7, <1>10 DEF WellFormed, Passed
<1>12. Heard(frame') = {q}
  BY <1>8, <1>11, HeardAsEncoded
<1>13. hops' = Append(hops, hash) /\ sent' = sent /\ hops' \in Seq(Byte)
  BY <1>3, AppendProperties DEF Relay
<1>14. sent.path \o Append(hops, hash) = longer
  <2> DEFINE start == sent.path
  <2>1. start \in Seq(Byte) /\ hops \in Seq(Byte) /\ hash \in Byte
    BY <1>3, <1>5
  <2>2. start \o Append(hops, hash) = Append(start \o hops, hash)
    <3> HIDE DEF start
    <3> QED BY <2>1, AppendAfter
  <2> QED BY <2>2
<1>15. Travelled' = q
  BY <1>13, <1>14 DEF Travelled
<1>16. frame' # <<>>
  BY <1>12, NothingHeard
<1> QED BY <1>2, <1>4, <1>11, <1>12, <1>13, <1>15, <1>16 DEF RelayInv, Passed

----------------------------------------------------------------------------
\* An advert's payload, and where its parts lie.
AdvertPayload(key, time, signature, data) == key \o <<time>> \o signature \o data
PayloadParts(w, S, key, time, signature, data) ==
    /\ w \in Seq(S) /\ Len(w) = 6 + Len(data)
    /\ SubSeq(w, 1, 3) = key /\ w[4] = time /\ SubSeq(w, 5, 6) = signature
    /\ SubSeq(w, 7, Len(w)) = data
    /\ Len(data) > 0 => w[7] = data[1]

LEMMA PayloadHasParts ==
    ASSUME NEW S, NEW key \in Seq(S), NEW time \in S, NEW signature \in Seq(S),
           NEW data \in Seq(S), Len(key) = 3, Len(signature) = 2
    PROVE  PayloadParts(AdvertPayload(key, time, signature, data), S, key, time, signature, data)
<1> DEFINE t == <<time>>
           x == key \o t
           y == x \o signature
           w == y \o data
<1>0. t \in Seq(S) /\ Len(t) = 1 /\ t[1] = time
  OBVIOUS
<1> HIDE DEF t
<1>1. x \in Seq(S) /\ Concatenated(key, t, x)
  BY <1>0, ConcatenatedThere
<1>2. Len(x) = 4 /\ x[4] = time
  BY <1>0, <1>1 DEF Concatenated
<1>3. y \in Seq(S) /\ Concatenated(x, signature, y)
  BY <1>1, ConcatenatedThere
<1>4. Len(y) = 6 /\ y[4] = time
  BY <1>2, <1>3 DEF Concatenated
<1>5. w \in Seq(S) /\ Concatenated(y, data, w) /\ Len(data) \in Nat
  BY <1>3, ConcatenatedThere, LenProperties
<1>6. Len(w) = 6 + Len(data) /\ w[4] = time /\ (Len(data) > 0 => w[7] = data[1])
  BY <1>4, <1>5 DEF Concatenated
<1>7. SubSeq(w, 1, 3) = key
  <2>1. SubSeq(w, 1, 3) = SubSeq(y, 1, 3)
    BY <1>3, <1>4, FrontOfConcat
  <2>2. SubSeq(y, 1, 3) = SubSeq(x, 1, 3)
    BY <1>1, <1>2, FrontOfConcat DEF y
  <2>3. SubSeq(key \o t, 1, 3) = SubSeq(key, 1, 3)
    <3> HIDE DEF x, y, w
    <3>1. 3 <= Len(key) /\ 3 \in Nat /\ 1 \in Nat \ {0}
      OBVIOUS
    <3> QED BY <1>0, <3>1, FrontOfConcat, Zenon
  <2>4. SubSeq(key, 1, Len(key)) = key
    BY SubSeqFull
  <2> QED BY <2>1, <2>2, <2>3, <2>4
<1>8. SubSeq(w, 5, 6) = signature
  <2>1. SubSeq(w, 5, 6) = SubSeq(y, 5, 6)
    BY <1>3, <1>4, FrontOfConcat
  <2>2. SubSeq(y, Len(x) + 1, Len(x) + Len(signature)) = signature
    BY <1>1, BackOfConcat
  <2>3. Len(x) + 1 = 5 /\ Len(x) + Len(signature) = 6
    BY <1>2
  <2> QED BY <2>1, <2>2, <2>3
<1>9. SubSeq(w, 7, Len(w)) = data
  <2>1. SubSeq(w, Len(y) + 1, Len(y) + Len(data)) = data
    BY <1>3, BackOfConcat
  <2> QED BY <1>4, <1>6, <2>1
<1>10. AdvertPayload(key, time, signature, data) = w
  BY DEF AdvertPayload, t
<1> QED BY <1>5, <1>6, <1>7, <1>8, <1>9, <1>10 DEF PayloadParts

LEMMA FirstOfTyped ==
    ASSUME NEW S, NEW s \in Seq(S), NEW n \in Nat
    PROVE  /\ FirstOf(s, n) \in Seq(S)
           /\ Len(FirstOf(s, n)) = IF Len(s) < n THEN Len(s) ELSE n
           /\ \A i \in 1..Len(FirstOf(s, n)) : FirstOf(s, n)[i] = s[i]
<1> DEFINE m == IF Len(s) < n THEN Len(s) ELSE n
<1>1. m \in Nat /\ m <= Len(s)
  BY LenProperties
<1>2. /\ SubSeq(s, 1, m) \in Seq(S)
      /\ Len(SubSeq(s, 1, m)) = IF 1 <= m THEN m - 1 + 1 ELSE 0
      /\ \A i \in 1..(m - 1 + 1) : SubSeq(s, 1, m)[i] = s[1 + i - 1]
  BY <1>1, SubSeqTyped
<1>3. Len(SubSeq(s, 1, m)) = m
  <2> HIDE DEF m
  <2> QED BY <1>1, <1>2
<1>4. \A i \in 1..m : SubSeq(s, 1, m)[i] = s[i]
  <2> HIDE DEF m
  <2> QED BY <1>1, <1>2
<1>5. FirstOf(s, n) = SubSeq(s, 1, m)
  BY DEF FirstOf
<1> QED BY <1>2, <1>3, <1>4, <1>5

\* The key and the data of an advert of identity k at a location.
KeyOf(k) == <<KeyByte(Keypairs[k].public, 1), KeyByte(Keypairs[k].public, 2),
              KeyByte(Keypairs[k].public, 3)>>
FieldsAt(l) ==
    <<Flags(Repeater, l # NoLocation, TRUE)>>
    \o (IF l = NoLocation THEN <<>> ELSE <<Latitude[l[2]], Longitude[l[2]]>>)
    \o NodeName
DataAt(l) == FirstOf(FieldsAt(l), MaxAdvertData)
SignedFor(k, time, l) == Sign(KeyOf(k) \o <<time>> \o DataAt(l), KeyOf(k), Keypairs[k])
AdvertOf(k, time, l) == AdvertPayload(KeyOf(k), time, SignedFor(k, time, l), DataAt(l))

LEMMA DataTyped ==
    ASSUME NEW l
    PROVE  /\ DataAt(l) \in Seq(Int \cup {Latitude[l[2]], Longitude[l[2]]})
           /\ Len(DataAt(l)) \in Nat \ {0}
           /\ DataAt(l)[1] = Flags(Repeater, l # NoLocation, TRUE)
           /\ l = NoLocation => DataAt(l) = FirstOf(<< 130 >> \o NodeName, MaxAdvertData)
<1> DEFINE S == Int \cup {Latitude[l[2]], Longitude[l[2]]}
           flags == Flags(Repeater, l # NoLocation, TRUE)
           f == <<flags>>
           where == IF l = NoLocation THEN <<>> ELSE <<Latitude[l[2]], Longitude[l[2]]>>
           x == f \o where
<1>1. flags \in S /\ (l = NoLocation => flags = 130)
  BY DEF Flags, Repeater
<1>2. f \in Seq(S) /\ Len(f) = 1 /\ f[1] = flags
  <2> HIDE DEF S, flags
  <2> QED BY <1>1
<1>3. where \in Seq(S) /\ Len(where) \in Nat
  <2>1. \A a, b \in S : <<a, b>> \in Seq(S)
    OBVIOUS
  <2>2. <<Latitude[l[2]], Longitude[l[2]]>> \in Seq(S)
    BY <2>1
  <2>3. <<>> \in Seq(S)
    OBVIOUS
  <2>4. where \in Seq(S)
    BY <2>2, <2>3
  <2> HIDE DEF where
  <2> QED BY <2>4, LenProperties
<1>4. NodeName \in Seq(S) /\ Len(NodeName) \in Nat
  <2>1. NodeName \in Seq(Nat \ {0}) /\ Nat \ {0} \subseteq S
    BY AdvertsAssumption
  <2> HIDE DEF S
  <2> QED BY <2>1, SeqWider, LenProperties
<1> HIDE DEF f, where, flags
<1>5. x \in Seq(S) /\ Concatenated(f, where, x)
  BY <1>2, <1>3, ConcatenatedThere
<1>6. Len(x) \in Nat \ {0} /\ x[1] = flags
  BY <1>2, <1>3, <1>5 DEF Concatenated
<1>7. x \o NodeName \in Seq(S) /\ Concatenated(x, NodeName, x \o NodeName)
  BY <1>4, <1>5, ConcatenatedThere
<1>8. Len(x \o NodeName) \in Nat \ {0} /\ (x \o NodeName)[1] = flags
  <2> HIDE DEF x
  <2> QED BY <1>4, <1>6, <1>7 DEF Concatenated
<1>9. FieldsAt(l) = x \o NodeName
  BY DEF FieldsAt, f, where, flags
<1>10. MaxAdvertData \in Nat /\ MaxAdvertData # 0
  BY CodecAssumption
<1>11. DataAt(l) \in Seq(S) /\ Len(DataAt(l)) \in Nat \ {0} /\ DataAt(l)[1] = flags
  <2> DEFINE s == x \o NodeName
  <2>1. /\ FirstOf(s, MaxAdvertData) \in Seq(S)
        /\ Len(FirstOf(s, MaxAdvertData)) = IF Len(s) < MaxAdvertData THEN Len(s) ELSE MaxAdvertData
        /\ \A i \in 1..Len(FirstOf(s, MaxAdvertData)) : FirstOf(s, MaxAdvertData)[i] = s[i]
    BY <1>7, <1>10, FirstOfTyped
  <2>2. Len(s) \in Nat \ {0} /\ s[1] = flags /\ DataAt(l) = FirstOf(s, MaxAdvertData)
    BY <1>8, <1>9 DEF DataAt
  <2> HIDE DEF s, S
  <2> QED BY <1>10, <2>1, <2>2
<1>12. ASSUME l = NoLocation PROVE DataAt(l) = FirstOf(<< 130 >> \o NodeName, MaxAdvertData)
  <2>1. x = f \o <<>> /\ f = << 130 >>
    BY <1>1, <1>12 DEF where, f
  <2>2. x = << 130 >>
    BY <1>2, <2>1, ConcatEmptySeq
  <2> QED BY <1>9, <2>2 DEF DataAt
<1> QED BY <1>11, <1>12 DEF flags

LEMMA AdvertHasParts ==
    ASSUME NEW k, NEW time, NEW l
    PROVE  \E S : PayloadParts(AdvertOf(k, time, l), S, KeyOf(k), time, SignedFor(k, time, l),
                               DataAt(l))
<1>1. PICK r, s : SignedFor(k, time, l) = <<r, s>>
  BY DEF SignedFor, Sign
<1> DEFINE a == KeyByte(Keypairs[k].public, 1)
           b == KeyByte(Keypairs[k].public, 2)
           c == KeyByte(Keypairs[k].public, 3)
           T == Int \cup {Latitude[l[2]], Longitude[l[2]]}
           S == T \cup {a, b, c, time, r, s}
<1>2. KeyOf(k) \in Seq(S) /\ Len(KeyOf(k)) = 3
  <2>1. KeyOf(k) = <<a, b, c>> /\ a \in S /\ b \in S /\ c \in S
    BY DEF KeyOf
  <2> HIDE DEF S, a, b, c
  <2> QED BY <2>1
<1>3. SignedFor(k, time, l) \in Seq(S) /\ Len(SignedFor(k, time, l)) = 2
  <2>1. r \in S /\ s \in S
    OBVIOUS
  <2> HIDE DEF S
  <2> QED BY <1>1, <2>1
<1>4. DataAt(l) \in Seq(S)
  <2>1. DataAt(l) \in Seq(T) /\ T \subseteq S
    BY DataTyped
  <2> HIDE DEF S, T
  <2> QED BY <2>1, SeqWider
<1>5. time \in S
  OBVIOUS
<1>6. PayloadParts(AdvertOf(k, time, l), S, KeyOf(k), time, SignedFor(k, time, l), DataAt(l))
  <2> HIDE DEF S
  <2> QED BY <1>2, <1>3, <1>4, <1>5, PayloadHasParts DEF AdvertOf
<1> QED BY <1>6

\* The bytes of a part of key k are those of key k.
LEMMA AreaOfKey ==
    ASSUME NEW k \in 1..MaxKeys
    PROVE  /\ \A j \in 1..MaxKeys : Key(k) = Key(j) => j = k
           /\ \A i : AreaByte(Key(k), i) = KeyByte(Keypairs[k].public, i)
<1>1. \A j \in 1..MaxKeys : Key(k) = Key(j) => j = k
  BY DEF Key
<1>2. {j \in 1..MaxKeys : Key(k) = Key(j)} = {k}
  BY <1>1
<1>3. (CHOOSE j \in {k} : TRUE) = k
  OBVIOUS
<1> QED BY <1>1, <1>2, <1>3 DEF AreaByte

\* A node that runs under identity k builds its adverts with that identity.
LEMMA BuiltUnderIdentity ==
    ASSUME NEW k \in 1..MaxKeys, identity = Whole(k), NEW time
    PROVE  /\ AdvertPacket(time).payload = AdvertOf(k, time, location)
           /\ WellFormed(AdvertPacket(time))
<1>1. /\ identity["1"] = Key(k) /\ identity["2-9"] = Key(k) /\ identity["10-96"] = Key(k)
  BY DEF Whole, KeyAreas, Area
<1>2. PublicKey = KeyOf(k)
  BY <1>1, AreaOfKey DEF PublicKey, KeyOf
<1>3. PrivateKey = Keypairs[k]
  <2>1. (CHOOSE j \in 1..MaxKeys : Key(k) = Key(j)) = k
    BY AreaOfKey
  <2> QED BY <1>1, <2>1 DEF PrivateKey
<1>4. AppData = DataAt(location)
  BY DEF AppData, DataAt, Fields, FieldsAt
<1>5. AdvertPacket(time)
         = [header |-> Header(RouteType.FLOOD, PayloadNumber.ADVERT, 0), codes |-> <<>>,
            path |-> <<>>, payload |-> AdvertOf(k, time, location)]
  BY <1>2, <1>3, <1>4 DEF AdvertPacket, AdvertOf, AdvertPayload, SignedFor
<1>6. PICK S : AdvertOf(k, time, location) \in Seq(S)
  BY AdvertHasParts DEF PayloadParts
<1>7. Header(RouteType.FLOOD, PayloadNumber.ADVERT, 0) = 17
  BY DEF Header, RouteType, PayloadNumber
<1>8. ~ HasCodes(17)
  BY DEF HasCodes, Route, RouteType
<1>9. AdvertPacket(time) \in Packets(S)
  BY <1>5, <1>6, <1>7 DEF Packets, Byte
<1> QED BY <1>5, <1>7, <1>8, <1>9 DEF WellFormed, Byte

\* What is on the air, and what of it is an advert of this node.
OwnAdvert ==
    \E k \in 1..MaxKeys :
       /\ made[1].nodeHash = KeyByte(Keypairs[k].public, 1)
       /\ sent.payload = AdvertOf(k, made[1].time, made[1].location)
AdvertInv ==
    /\ StorageInv
    /\ phase = "up" => nodeHash = identity["1"]
    /\ phase = "committing" => nodeHash = identity["1"]
    /\ RelayInv
    /\ made # <<>> => frame # <<>> /\ OwnAdvert

LEMMA AdvertStart == AdvertInit => AdvertInv
<1> SUFFICES ASSUME AdvertInit PROVE AdvertInv
  OBVIOUS
<1>1. StorageInv
  BY StorageStart DEF AdvertInit
<1>2. <<>> \in Seq(Byte)
  OBVIOUS
<1> QED BY <1>1, <1>2 DEF AdvertInit, Init, AdvertInv, RelayInv

LEMMA AdvertStep == AdvertInv /\ [AdvertNext]_<<vars, advertVars>> => AdvertInv'
<1> SUFFICES ASSUME AdvertInv, [AdvertNext]_<<vars, advertVars>> PROVE AdvertInv'
  OBVIOUS
<1>0. StorageInv /\ RelayInv
  BY DEF AdvertInv
<1>1. CASE [Next]_vars /\ UNCHANGED advertVars
  <2>1. StorageInv'
    BY <1>0, <1>1, StorageStep
  <2>2. /\ phase' = "up" => nodeHash' = identity'["1"]
        /\ phase' = "committing" => nodeHash' = identity'["1"]
    BY <1>1 DEF AdvertInv, Next, PowerOn, PowerLoss, LoadIdentity, GenerateIdentity,
         SaveIdentity, InitializeConfig, SetLocation, ClearLocation, CommitLocation, vars, bootVars
  <2>3. RelayInv'
    BY <1>0, <1>1 DEF RelayInv, Passed, Travelled, advertVars
  <2>4. made' # <<>> => frame' # <<>> /\ OwnAdvert'
    BY <1>1 DEF AdvertInv, OwnAdvert, advertVars
  <2> QED BY <2>1, <2>2, <2>3, <2>4 DEF AdvertInv
<1>2. ASSUME UNCHANGED vars
      PROVE  /\ StorageInv'
             /\ phase' = "up" => nodeHash' = identity'["1"]
             /\ phase' = "committing" => nodeHash' = identity'["1"]
  <2>1. StorageInv'
    BY <1>0, <1>2, StorageStep
  <2> QED BY <1>2, <2>1 DEF AdvertInv, vars, bootVars
<1>3. ASSUME NEW t \in Times, BuildAdvert(t) PROVE AdvertInv'
  <2>1. PICK k \in 1..MaxKeys : identity = Whole(k)
    BY <1>0, <1>3 DEF BuildAdvert, StorageInv, RunsWhole
  <2>2. /\ frame' \in Encode(AdvertPacket(t), MaxRawSize) /\ sent' = AdvertPacket(t)
        /\ hops' = <<>>
        /\ made' = <<[time |-> t, location |-> location, nodeHash |-> AreaByte(nodeHash, 1)]>>
        /\ UNCHANGED vars /\ phase = "up"
    BY <1>3 DEF BuildAdvert
  <2>3. /\ AdvertPacket(t).payload = AdvertOf(k, t, location) /\ WellFormed(AdvertPacket(t))
    BY <2>1, BuiltUnderIdentity
  <2>4. Heard(frame') = {AdvertPacket(t)}
    BY <2>2, <2>3, HeardAsEncoded
  <2>5. RelayInv'
    BY <2>2, <2>3, <2>4, OriginPasses
  <2>6. frame' # <<>>
    BY <2>4, NothingHeard
  <2>7. AreaByte(nodeHash, 1) = KeyByte(Keypairs[k].public, 1)
    <3>1. nodeHash = Key(k)
      BY <2>1, <2>2 DEF AdvertInv, Whole, KeyAreas, Area
    <3> QED BY <3>1, AreaOfKey
  <2>8. /\ made'[1].nodeHash = AreaByte(nodeHash, 1)
        /\ made'[1].time = t /\ made'[1].location = location
    BY <2>2
  <2>9. OwnAdvert'
    BY <2>2, <2>3, <2>7, <2>8 DEF OwnAdvert
  <2> QED BY <1>2, <2>2, <2>5, <2>6, <2>9 DEF AdvertInv
<1>4. ASSUME NEW f \in OtherFrames, SendOther(f) PROVE AdvertInv'
  <2>1. PICK p \in Heard(f) : sent' = p
    BY <1>4 DEF SendOther
  <2>2. f \in Seq(Byte)
    BY AdvertsAssumption DEF Byte
  <2>3. WellFormed(p) /\ Heard(f) = {p}
    BY <2>1, <2>2, HeardOfBytes
  <2>4. RelayInv'
    BY <1>4, <2>1, <2>3, OriginPasses DEF SendOther
  <2> QED BY <1>2, <1>4, <2>4 DEF SendOther, AdvertInv
<1>5. ASSUME NEW h \in Repeaters, Relay(h) PROVE AdvertInv'
  <2>1. RelayInv' /\ frame # <<>> /\ frame' # <<>>
    BY <1>0, <1>5, RelayPasses
  <2>2. sent' = sent /\ made' = made /\ UNCHANGED vars /\ hops' = Append(hops, h)
    BY <1>5 DEF Relay
  <2>3. made' # <<>> => OwnAdvert'
    BY <2>2 DEF AdvertInv, OwnAdvert
  <2> QED BY <1>2, <2>1, <2>2, <2>3 DEF AdvertInv
<1> QED BY <1>1, <1>3, <1>4, <1>5 DEF AdvertNext, vars, advertVars

LEMMA AdvertInvariant == AdvertSpec => []AdvertInv
BY AdvertStart, AdvertStep, PTL DEF AdvertSpec

\* Whatever frame the repeaters pass on, with or without transport codes, a
\* path and a payload of any size the limits allow, over any number of hops and
\* restarts of this node, a peer hears the packet of its origin with the hashes
\* of the repeaters behind its path.
THEOREM PacketsRelayedWhole == AdvertSpec => []RelayedWhole
<1>1. AdvertInv => RelayedWhole
  BY DEF AdvertInv, RelayInv, Passed, Travelled, RelayedWhole
<1> QED BY <1>1, AdvertInvariant, PTL

\* The name in what the buffer holds of the data without a location.
LEMMA NameInData ==
    ASSUME NEW data, data = FirstOf(<< 130 >> \o NodeName, MaxAdvertData)
    PROVE  /\ data[1] = 130 /\ Len(data) \in Nat \ {0} /\ Len(data) <= MaxAdvertData
           /\ data \in Seq(Nat \ {0})
           /\ SubSeq(data, 2, Len(data)) = FirstOf(NodeName, MaxAdvertData - 1)
<1> DEFINE S == Nat \ {0}
           f == << 130 >>
           w == f \o NodeName
           name == FirstOf(NodeName, MaxAdvertData - 1)
           rest == SubSeq(data, 2, Len(data))
<1>1. /\ NodeName \in Seq(S) /\ Len(NodeName) \in Nat
      /\ MaxAdvertData \in Nat \ {0} /\ MaxAdvertData - 1 \in Nat
  BY AdvertsAssumption, CodecAssumption, LenProperties
<1>2. f \in Seq(S) /\ Len(f) = 1 /\ f[1] = 130
  OBVIOUS
<1> HIDE DEF f, S
<1>3. w \in Seq(S) /\ Concatenated(f, NodeName, w)
  BY <1>1, <1>2, ConcatenatedThere
<1>4. /\ Len(w) = 1 + Len(NodeName) /\ w[1] = 130
      /\ \A i \in 1..Len(NodeName) : w[i + 1] = NodeName[i]
  <2>1. Len(w) = 1 + Len(NodeName) /\ w[1] = 130
    BY <1>1, <1>2, <1>3 DEF Concatenated
  <2>2. ASSUME NEW i \in 1..Len(NodeName) PROVE w[i + 1] = NodeName[i]
    <3>1. i + 1 \in 1..(1 + Len(NodeName)) /\ ~ (i + 1 <= 1) /\ (i + 1) - 1 = i
      BY <1>1
    <3> HIDE DEF w
    <3> QED BY <1>2, <1>3, <3>1 DEF Concatenated
  <2> QED BY <2>1, <2>2
<1> HIDE DEF w
<1>5. /\ data \in Seq(S)
      /\ Len(data) = IF Len(w) < MaxAdvertData THEN Len(w) ELSE MaxAdvertData
      /\ \A i \in 1..Len(data) : data[i] = w[i]
  <2>1. data = FirstOf(w, MaxAdvertData)
    BY DEF w, f
  <2>2. /\ FirstOf(w, MaxAdvertData) \in Seq(S)
        /\ Len(FirstOf(w, MaxAdvertData)) = IF Len(w) < MaxAdvertData THEN Len(w) ELSE MaxAdvertData
        /\ \A i \in 1..Len(FirstOf(w, MaxAdvertData)) : FirstOf(w, MaxAdvertData)[i] = w[i]
    BY <1>1, <1>3, FirstOfTyped
  <2> QED BY <2>1, <2>2
<1>6. Len(data) \in Nat \ {0} /\ Len(data) <= MaxAdvertData /\ data[1] = 130
  BY <1>1, <1>4, <1>5
<1>7. /\ name \in Seq(S)
      /\ Len(name) = IF Len(NodeName) < MaxAdvertData - 1 THEN Len(NodeName) ELSE MaxAdvertData - 1
      /\ \A i \in 1..Len(name) : name[i] = NodeName[i]
  BY <1>1, FirstOfTyped
<1>8. /\ rest \in Seq(S) /\ Len(rest) = IF 2 <= Len(data) THEN Len(data) - 2 + 1 ELSE 0
      /\ \A i \in 1..(Len(data) - 2 + 1) : rest[i] = data[2 + i - 1]
  BY <1>5, <1>6, SubSeqTyped
<1> HIDE DEF name, rest
<1>9. Len(rest) = Len(name) /\ Len(rest) = Len(data) - 1 /\ Len(name) <= Len(NodeName)
  BY <1>1, <1>4, <1>5, <1>6, <1>7, <1>8
<1>10. ASSUME NEW i \in 1..Len(rest) PROVE rest[i] = name[i]
  <2>1. /\ i \in 1..(Len(data) - 2 + 1) /\ i \in 1..Len(name) /\ i \in 1..Len(NodeName)
        /\ 2 + i - 1 = i + 1 /\ i + 1 \in 1..Len(data)
    BY <1>1, <1>6, <1>9
  <2> QED BY <1>4, <1>5, <1>7, <1>8, <2>1
<1>11. rest = name
  BY <1>7, <1>8, <1>9, <1>10, SeqEqual
<1> QED BY <1>5, <1>6, <1>11 DEF rest, name, S

\* The parser takes the whole rest for the name.
LEMMA NameParsed ==
    ASSUME NEW rest \in Seq(Nat \ {0}), Len(rest) < MaxAdvertData
    PROVE  ParseName(130, rest) = {[name |-> rest, rest |-> From(rest, Len(rest) + 1)]}
<1> DEFINE n == Len(rest)
           stops == {i \in 1..Len(rest) : rest[i] = 0} \cup {Len(rest) + 1} \cup {MaxAdvertData}
<1>1. n \in Nat /\ MaxAdvertData \in Nat /\ \A i \in 1..n : rest[i] # 0
  <2>1. \A i \in 1..n : rest[i] \in Nat \ {0}
    BY ElementOfSeq
  <2> QED BY <2>1, CodecAssumption, LenProperties
<1>2. stops = {n + 1, MaxAdvertData}
  BY <1>1
<1> HIDE DEF stops
<1>3. n + 1 \in stops /\ \A j \in stops : n + 1 <= j
  <2> HIDE DEF n
  <2>1. n < MaxAdvertData
    BY DEF n
  <2> QED BY <1>1, <1>2, <2>1
<1>4. \A i \in stops : (\A j \in stops : i <= j) => i = n + 1
  BY <1>1, <1>2, <1>3
<1>5. (CHOOSE i \in stops : \A j \in stops : i <= j) = n + 1
  <2> HIDE DEF n
  <2> QED BY <1>3, <1>4
<1>6. SubSeq(rest, 1, (n + 1) - 1) = rest /\ ~ (n + 1 <= n)
  <2>1. (n + 1) - 1 = n /\ ~ (n + 1 <= n)
    BY <1>1
  <2> QED BY <2>1, SubSeqFull
<1>7. HasName(130)
  BY DEF HasName
<1> QED BY <1>5, <1>6, <1>7 DEF ParseName, stops

\* A peer reads the name of this node in each of its adverts without a location.
THEOREM NamesRead == AdvertSpec => []NameRead
<1>1. ASSUME AdvertInv, made # <<>>, made[1].location = NoLocation
      PROVE  \E p \in Heard(frame) :
                DecodeAdvert(p.payload)
                   = {[type |-> Repeater, name |-> FirstOf(NodeName, MaxAdvertData - 1),
                       location |-> <<>>]}
  <2> DEFINE l == made[1].location
             t == made[1].time
             payload == sent.payload
  <2>1. PICK k \in 1..MaxKeys : payload = AdvertOf(k, t, l)
    BY <1>1 DEF AdvertInv, OwnAdvert
  <2>2. PICK S : PayloadParts(payload, S, KeyOf(k), t, SignedFor(k, t, l), DataAt(l))
    BY <2>1, AdvertHasParts
  <2> DEFINE data == DataAt(l)
             rest == SubSeq(data, 2, Len(data))
             name == FirstOf(NodeName, MaxAdvertData - 1)
  <2>3. /\ data[1] = 130 /\ Len(data) \in Nat \ {0} /\ Len(data) <= MaxAdvertData
        /\ data \in Seq(Nat \ {0}) /\ rest = name
    BY <1>1, DataTyped, NameInData
  <2> HIDE DEF payload, data
  <2>4. /\ Len(payload) = 6 + Len(data) /\ payload[7] = 130 /\ SubSeq(payload, 7, Len(payload)) = data
        /\ payload \in Seq(S)
    BY <2>2, <2>3 DEF PayloadParts, data
  <2>5. From(payload, 8) = rest
    <3>1. /\ Len(data) \in Nat /\ 7 <= Len(payload) /\ Len(payload) \in Nat
      BY <2>3, <2>4
    <3>2. /\ Len(SubSeq(payload, 8, Len(payload)))
                = IF 8 <= Len(payload) THEN Len(payload) - 8 + 1 ELSE 0
          /\ SubSeq(payload, 8, Len(payload)) \in Seq(S)
          /\ \A i \in 1..(Len(payload) - 8 + 1) :
                SubSeq(payload, 8, Len(payload))[i] = payload[8 + i - 1]
      BY <2>4, <3>1, SubSeqTyped
    <3>3. \A i \in 1..(Len(payload) - 7 + 1) : data[i] = payload[7 + i - 1]
      BY <2>4, <3>1, SubSeqTyped
    <3>4. data \in Seq(S)
      <4>1. SubSeq(payload, 7, Len(payload)) \in Seq(S)
        BY <2>4, <3>1, SubSeqTyped
      <4> QED BY <2>4, <4>1
    <3>5. /\ rest \in Seq(S) /\ Len(rest) = IF 2 <= Len(data) THEN Len(data) - 2 + 1 ELSE 0
          /\ \A i \in 1..(Len(data) - 2 + 1) : rest[i] = data[2 + i - 1]
      BY <2>3, <3>4, SubSeqTyped
    <3> DEFINE back == SubSeq(payload, 8, Len(payload))
    <3> HIDE DEF back, rest
    <3>6. Len(back) = Len(data) - 1 /\ Len(rest) = Len(data) - 1
      <4>1. Len(back) = IF 8 <= Len(payload) THEN Len(payload) - 8 + 1 ELSE 0
        BY <3>2 DEF back
      <4>2. /\ Len(data) \in Nat \ {0} /\ Len(payload) = 6 + Len(data)
            /\ Len(rest) = IF 2 <= Len(data) THEN Len(data) - 2 + 1 ELSE 0
        BY <2>3, <2>4, <3>5
      <4> DEFINE n == Len(data)
                 m == Len(payload)
      <4>3. /\ n \in Nat \ {0} /\ m = 6 + n
            /\ Len(back) = IF 8 <= m THEN m - 8 + 1 ELSE 0
            /\ Len(rest) = IF 2 <= n THEN n - 2 + 1 ELSE 0
        BY <4>1, <4>2
      <4>4. (IF 8 <= m THEN m - 8 + 1 ELSE 0) = n - 1 /\ (IF 2 <= n THEN n - 2 + 1 ELSE 0) = n - 1
        <5> HIDE DEF n, m
        <5> QED BY <4>3
      <4> QED BY <4>3, <4>4
    <3>7. ASSUME NEW i \in 1..(Len(data) - 1) PROVE back[i] = rest[i]
      <4>1. /\ i \in 1..(Len(payload) - 8 + 1) /\ 8 + i - 1 = i + 7
            /\ i + 1 \in 1..(Len(payload) - 7 + 1) /\ 7 + (i + 1) - 1 = i + 7
            /\ i \in 1..(Len(data) - 2 + 1) /\ 2 + i - 1 = i + 1
        BY <2>3, <2>4
      <4>2. back[i] = payload[i + 7]
        BY <3>2, <4>1 DEF back
      <4>3. data[i + 1] = payload[i + 7]
        BY <3>3, <4>1
      <4> QED BY <3>5, <4>1, <4>2, <4>3
    <3>8. back = rest
      BY <3>2, <3>5, <3>6, <3>7, SeqEqual DEF back
    <3> QED BY <3>8 DEF back, From
  <2> HIDE DEF rest, name
  <2>6. rest \in Seq(Nat \ {0}) /\ Len(rest) < MaxAdvertData
    <3>1. Len(data) \in Nat /\ data \in Seq(Nat \ {0})
      BY <2>3
    <3>2. rest \in Seq(Nat \ {0}) /\ Len(rest) = IF 2 <= Len(data) THEN Len(data) - 2 + 1 ELSE 0
      BY <3>1, SubSeqTyped DEF rest
    <3> QED BY <2>3, <3>2, CodecAssumption
  <2>7. ParseName(130, rest) = {[name |-> rest, rest |-> From(rest, Len(rest) + 1)]}
    BY <2>6, NameParsed
  <2>8. ParseLocation(130, From(rest, Len(rest) + 1)) = {<<>>}
    BY DEF ParseLocation, HasLocation
  <2>9. ParseFeatures(130, rest) = {rest}
    <3>1. ~ HasFeature1(130) /\ ~ HasFeature2(130)
      BY DEF HasFeature1, HasFeature2
    <3>2. From(rest, 1) = rest
      BY <2>6, SubSeqFull DEF From
    <3>3. ~ (0 + 0 > Len(rest)) /\ 0 + 0 + 1 = 1
      BY <2>6, LenProperties
    <3> QED BY <3>1, <3>2, <3>3 DEF ParseFeatures
  <2>10. DecodeAdvert(payload) = {[type |-> 130 % 16, name |-> rest, location |-> <<>>]}
    <3>1. AdvertFixedSize = 6 /\ ~ (Len(payload) <= 6) /\ payload[7] = 130 /\ From(payload, 8) = rest
      BY <2>3, <2>4, <2>5, AdvertsAssumption
    <3>2. payload[6 + 1] = 130 /\ From(payload, 6 + 2) = rest
      BY <3>1
    <3> DEFINE parsed == [name |-> rest, rest |-> From(rest, Len(rest) + 1)]
               found(n) == {[type |-> 130 % 16, name |-> n.name, location |-> w] :
                               w \in ParseLocation(130, n.rest)}
               read(r) == UNION {found(n) : n \in ParseName(130, r)}
    <3>3. DecodeAdvert(payload) = UNION {read(r) : r \in ParseFeatures(130, rest)}
      BY <3>1, <3>2 DEF DecodeAdvert
    <3>4. found(parsed) = {[type |-> 130 % 16, name |-> rest, location |-> <<>>]}
      <4>1. parsed.name = rest /\ ParseLocation(130, parsed.rest) = {<<>>}
        BY <2>8
      <4> QED BY <4>1
    <3> HIDE DEF found, parsed
    <3>5. read(rest) = found(parsed)
      BY <2>7 DEF parsed
    <3> HIDE DEF read
    <3>6. UNION {read(r) : r \in {rest}} = read(rest)
      OBVIOUS
    <3> QED BY <2>9, <3>3, <3>4, <3>5, <3>6
  <2>11. Heard(frame) = {Travelled} /\ Travelled.payload = payload
    BY <1>1 DEF AdvertInv, RelayInv, Passed, Travelled, Packets, payload
  <2>12. 130 % 16 = Repeater
    BY DEF Repeater
  <2> QED BY <2>3, <2>10, <2>11, <2>12 DEF name
<1>2. AdvertInv => NameRead
  BY <1>1 DEF NameRead
<1> QED BY <1>2, AdvertInvariant, PTL

----------------------------------------------------------------------------
\* SHA-512 in pieces: a state of the hash has taken the message m.
States(S) == [state : Seq(Seq(S)), buf : Seq(S), length : Nat]
Takes(S, md, m) ==
    /\ md \in States(S) /\ m \in Seq(S)
    /\ md.length = 8 * (HashBlock * Len(md.state))
    /\ Len(md.buf) < HashBlock
    /\ Len(m) = HashBlock * Len(md.state) + Len(md.buf)
    /\ \A b \in 1..Len(md.state) :
          /\ Len(md.state[b]) = HashBlock
          /\ \A i \in 1..HashBlock : md.state[b][i] = m[HashBlock * (b - 1) + i]
    /\ \A i \in 1..Len(md.buf) : md.buf[i] = m[HashBlock * Len(md.state) + i]

LEMMA BlockPlace ==
    ASSUME NEW h \in Nat \ {0}, NEW n \in Nat, NEW b \in 1..n, NEW i \in 1..h
    PROVE  h * n \in Nat /\ h * (b - 1) + i \in 1..(h * n) /\ h * b \in 1..(h * n)
<1>1. b - 1 \in Nat /\ n - b \in Nat /\ h * (b - 1) \in Nat /\ h * (n - b) \in Nat /\ h * n \in Nat
  OBVIOUS
<1>2. h * n = h * (b - 1) + h + h * (n - b) /\ h * b = h * (b - 1) + h
  OBVIOUS
<1> DEFINE x == h * (b - 1)
           y == h * (n - b)
           z == h * n
           w == h * b
<1>3. x \in Nat /\ y \in Nat /\ z \in Nat /\ z = x + h + y /\ w = x + h
  BY <1>1, <1>2
<1> HIDE DEF x, y, z, w
<1>4. x + i \in 1..z /\ w \in 1..z
  BY <1>3
<1> QED BY <1>3, <1>4 DEF x, z, w

\* Where what was taken lies in a longer message, and what the buffer and the
\* next piece say of it.
Placed(S, md, w, filled, length) ==
    /\ w \in Seq(S) /\ filled \in Seq(S) /\ Len(md.state) \in Nat
    /\ length \in Nat /\ Len(filled) = length
    /\ Len(w) = HashBlock * Len(md.state) + length
    /\ \A b \in 1..Len(md.state), i \in 1..HashBlock :
          md.state[b][i] = w[HashBlock * (b - 1) + i]
    /\ \A i \in 1..length : filled[i] = w[HashBlock * Len(md.state) + i]

LEMMA TakenPlaces ==
    ASSUME NEW S, NEW md, NEW m, Takes(S, md, m), NEW x \in Seq(S)
    PROVE  Placed(S, md, m \o x, md.buf \o x, Len(md.buf) + Len(x))
<1> DEFINE n == Len(md.state)
           filled == md.buf \o x
           h == HashBlock
           c == Len(md.buf)
           d == Len(x)
<1>1. /\ md.state \in Seq(Seq(S)) /\ md.buf \in Seq(S) /\ md.length \in Nat
      /\ n \in Nat /\ c \in Nat /\ d \in Nat /\ h \in Nat \ {0} /\ m \in Seq(S) /\ Len(m) \in Nat
  BY LenProperties, DigestAssumption DEF Takes, States
<1>2. filled \in Seq(S) /\ Concatenated(md.buf, x, filled)
  BY <1>1, ConcatenatedThere
<1>3. m \o x \in Seq(S) /\ Concatenated(m, x, m \o x)
  BY <1>1, ConcatenatedThere
<1>5. Len(filled) = c + d /\ Len(m \o x) = Len(m) + d
  BY <1>2, <1>3 DEF Concatenated
<1> DEFINE z == h * n
           k == Len(m)
<1>6. k = z + c /\ z \in Nat /\ k \in Nat /\ c \in Nat /\ d \in Nat
  <2>1. k = z + c
    BY Zenon DEF Takes
  <2>2. n \in Nat /\ h \in Nat /\ k \in Nat /\ c \in Nat /\ d \in Nat
    BY <1>1
  <2> HIDE DEF n, h, k, c, d
  <2>3. z \in Nat
    BY <2>2
  <2> QED BY <2>1, <2>2, <2>3
<1>4. \A i \in 1..c : md.buf[i] = m[z + i]
  BY Zenon DEF Takes
<1>7. ASSUME NEW b \in 1..n, NEW i \in 1..h
      PROVE  md.state[b][i] = (m \o x)[h * (b - 1) + i]
  <2>1. h * (b - 1) + i \in 1..z
    BY <1>1, BlockPlace
  <2> DEFINE j == h * (b - 1) + i
  <2>2. j \in 1..z
    BY <2>1
  <2>3. j \in 1..(k + d) /\ j <= k
    <3> HIDE DEF j, z, k, c, d
    <3> QED BY <1>6, <2>2
  <2>4. (m \o x)[j] = m[j]
    <3> HIDE DEF j
    <3> QED BY <1>3, <2>3 DEF Concatenated
  <2> QED BY <2>4 DEF Takes
<1>8. ASSUME NEW i \in 1..(c + d) PROVE filled[i] = (m \o x)[h * n + i]
  <2> HIDE DEF z, c, d, k, filled
  <2>1. z + i \in 1..(k + d) /\ (z + i <= k <=> i <= c) /\ (z + i) - k = i - c
    BY <1>6, SMTT(20)
  <2>2. filled[i] = IF i <= c THEN md.buf[i] ELSE x[i - c]
    BY <1>2 DEF Concatenated, c, d
  <2>3. (m \o x)[z + i] = IF i <= c THEN m[z + i] ELSE x[i - c]
    BY <1>3, <2>1 DEF Concatenated, d, k
  <2>4. i <= c => md.buf[i] = m[z + i]
    <3>1. i <= c => i \in 1..c
      BY <1>6
    <3> QED BY <1>4, <3>1
  <2> QED BY <2>2, <2>3, <2>4 DEF z
<1>9. Len(m \o x) = h * n + (c + d)
  <2> HIDE DEF z, c, d, k
  <2>1. Len(m \o x) = z + (c + d)
    BY <1>5, <1>6 DEF k
  <2> QED BY <2>1 DEF z
<1>10. c + d \in Nat
  BY <1>6
<1>11. /\ n \in Nat /\ filled \in Seq(S) /\ m \o x \in Seq(S)
       /\ c + d \in Nat /\ Len(filled) = c + d
  BY <1>1, <1>2, <1>3, <1>5, <1>10
<1> HIDE DEF c, d, h, n, filled, z, k
<1>12. Placed(S, md, m \o x, filled, c + d)
  <2>1. /\ \A b \in 1..n, i \in 1..h : md.state[b][i] = (m \o x)[h * (b - 1) + i]
        /\ \A i \in 1..(c + d) : filled[i] = (m \o x)[h * n + i]
    BY <1>7, <1>8
  <2> QED BY <1>9, <1>11, <2>1 DEF Placed, h, n
<1> QED BY <1>12 DEF filled, c, d

\* The next piece goes into the buffer.
LEMMA BufferTakes ==
    ASSUME NEW S, NEW md, NEW m, Takes(S, md, m), NEW x \in Seq(S),
           Len(md.buf) + Len(x) < HashBlock
    PROVE  Takes(S, [md EXCEPT !.buf = md.buf \o x], m \o x)
<1> DEFINE next == [md EXCEPT !.buf = md.buf \o x]
<1> DEFINE filled == md.buf \o x
           w == m \o x
           length == Len(md.buf) + Len(x)
<1>1. Placed(S, md, w, filled, length) /\ md \in States(S)
  BY TakenPlaces DEF Takes
<1>2. length < HashBlock
  OBVIOUS
<1> HIDE DEF filled, w, length
<1>3. /\ next.state = md.state /\ next.buf = filled /\ next.length = md.length
      /\ next \in States(S)
  BY <1>1 DEF States, Placed, filled
<1>4. /\ md.length = 8 * (HashBlock * Len(md.state))
      /\ \A b \in 1..Len(md.state) : Len(md.state[b]) = HashBlock
  BY DEF Takes
<1> HIDE DEF next
<1>5. Takes(S, next, w)
  BY <1>1, <1>2, <1>3, <1>4 DEF Takes, Placed
<1> QED BY <1>5 DEF next, w

\* A full buffer is compressed.
LEMMA CompressTakes ==
    ASSUME NEW S, NEW md, NEW m, Takes(S, md, m), NEW x \in Seq(S),
           Len(md.buf) + Len(x) = HashBlock
    PROVE  Takes(S, [state |-> Append(md.state, md.buf \o x), buf |-> <<>>,
                     length |-> md.length + 8 * HashBlock], m \o x)
<1> DEFINE filled == md.buf \o x
           state == Append(md.state, filled)
           next == [state |-> state, buf |-> <<>>, length |-> md.length + 8 * HashBlock]
           n == Len(md.state)
           z == HashBlock * n
           w == m \o x
<1>1. /\ md.state \in Seq(Seq(S)) /\ md.length = 8 * z /\ HashBlock \in Nat \ {0}
      /\ \A b \in 1..n : Len(md.state[b]) = HashBlock
  <2>1. md \in States(S) /\ md.length = 8 * z /\ \A b \in 1..n : Len(md.state[b]) = HashBlock
    BY Zenon DEF Takes
  <2>2. md.state \in Seq(Seq(S))
    BY <2>1 DEF States
  <2>3. HashBlock \in Nat \ {0}
    BY DigestAssumption
  <2> QED BY <2>1, <2>2, <2>3
<1>p. Placed(S, md, w, filled, HashBlock)
  <2>1. Placed(S, md, w, filled, Len(md.buf) + Len(x))
    BY TakenPlaces
  <2> QED BY <2>1
<1> HIDE DEF filled, w
<1>2. /\ w \in Seq(S) /\ filled \in Seq(S) /\ n \in Nat /\ Len(filled) = HashBlock
      /\ Len(w) = z + HashBlock
      /\ \A b \in 1..n, i \in 1..HashBlock : md.state[b][i] = w[HashBlock * (b - 1) + i]
      /\ \A i \in 1..HashBlock : filled[i] = w[z + i]
  <2>1. /\ w \in Seq(S) /\ filled \in Seq(S) /\ n \in Nat /\ Len(filled) = HashBlock
        /\ Len(w) = z + HashBlock
    BY <1>p, Zenon DEF Placed
  <2>2. \A b \in 1..n, i \in 1..HashBlock : md.state[b][i] = w[HashBlock * (b - 1) + i]
    BY <1>p, Zenon DEF Placed
  <2>3. \A i \in 1..HashBlock : filled[i] = w[z + i]
    BY <1>p, Zenon DEF Placed
  <2> QED BY <2>1, <2>2, <2>3
<1>3. /\ state \in Seq(Seq(S)) /\ Len(state) = n + 1
      /\ \A b \in 1..n : state[b] = md.state[b]
      /\ state[n + 1] = filled
  BY <1>1, <1>2, AppendProperties
<1>4. z \in Nat /\ HashBlock * (n + 1) = z + HashBlock /\ HashBlock * ((n + 1) - 1) = z
  BY <1>1, <1>2
<1> HIDE DEF state, z, n
<1>5. next \in States(S)
  <2>1. <<>> \in Seq(S) /\ md.length + 8 * HashBlock \in Nat
    BY <1>1, <1>4
  <2> QED BY <1>3, <2>1 DEF States
<1>6. next.length = 8 * (HashBlock * Len(state))
  BY <1>1, <1>3, <1>4
<1>7. ASSUME NEW b \in 1..Len(state)
      PROVE  /\ Len(state[b]) = HashBlock
             /\ \A i \in 1..HashBlock : state[b][i] = w[HashBlock * (b - 1) + i]
  <2>1. CASE b = n + 1
    <3>1. state[b] = filled /\ HashBlock * (b - 1) = z
      BY <1>3, <1>4, <2>1
    <3> QED BY <1>2, <3>1
  <2>2. CASE b # n + 1
    <3>1. b \in 1..n
      BY <1>2, <1>3, <2>2
    <3> HIDE DEF state, n, z
    <3>2. state[b] = md.state[b] /\ Len(md.state[b]) = HashBlock
      BY <1>1, <1>3, <3>1
    <3>3. \A i \in 1..HashBlock : md.state[b][i] = w[HashBlock * (b - 1) + i]
      BY <1>2, <3>1
    <3> QED BY <3>2, <3>3
  <2> QED BY <2>1, <2>2
<1>8. Len(w) = HashBlock * Len(state) + Len(<<>>) /\ Len(<<>>) = 0
  BY <1>2, <1>3, <1>4
<1>9. next.state = state /\ next.buf = <<>>
  OBVIOUS
<1> HIDE DEF next
<1>10. /\ Len(next.buf) = 0 /\ Len(next.buf) < HashBlock
       /\ Len(w) = HashBlock * Len(next.state) + Len(next.buf)
  BY <1>1, <1>8, <1>9
<1>11. Takes(S, next, w)
  BY <1>2, <1>5, <1>6, <1>7, <1>9, <1>10 DEF Takes
<1> QED BY <1>11 DEF next, state, filled, w
LEMMA SplitAt ==
    ASSUME NEW S, NEW s \in Seq(S), NEW n \in 0..Len(s)
    PROVE  /\ SubSeq(s, 1, n) \in Seq(S) /\ Len(SubSeq(s, 1, n)) = n
           /\ SubSeq(s, n + 1, Len(s)) \in Seq(S)
           /\ Len(SubSeq(s, n + 1, Len(s))) = Len(s) - n
           /\ SubSeq(s, 1, n) \o SubSeq(s, n + 1, Len(s)) = s
<1> DEFINE a == SubSeq(s, 1, n)
           b == SubSeq(s, n + 1, Len(s))
           k == Len(s)
<1>0. k \in Nat /\ n \in Nat /\ n <= k /\ n + 1 \in Nat \ {0}
  <2>1. k \in Nat
    BY LenProperties
  <2> HIDE DEF k
  <2>2. n \in 0..k
    BY DEF k
  <2> QED BY <2>1, <2>2
<1>1. /\ a \in Seq(S) /\ Len(a) = IF 1 <= n THEN n - 1 + 1 ELSE 0
      /\ \A i \in 1..(n - 1 + 1) : a[i] = s[1 + i - 1]
  BY <1>0, SubSeqTyped
<1>2. /\ b \in Seq(S) /\ Len(b) = IF n + 1 <= k THEN k - (n + 1) + 1 ELSE 0
      /\ \A i \in 1..(k - (n + 1) + 1) : b[i] = s[(n + 1) + i - 1]
  BY <1>0, SubSeqTyped
<1> HIDE DEF a, b, k
<1>3. Len(a) = n /\ Len(b) = k - n
  BY <1>0, <1>1, <1>2
<1>4. a \o b \in Seq(S) /\ Concatenated(a, b, a \o b)
  BY <1>1, <1>2, ConcatenatedThere
<1>5. Len(a \o b) = k
  BY <1>0, <1>3, <1>4 DEF Concatenated
<1>6. ASSUME NEW i \in 1..k PROVE (a \o b)[i] = s[i]
  <2>1. Len(a) + Len(b) = k
    BY <1>0, <1>3
  <2>2. (a \o b)[i] = IF i <= n THEN a[i] ELSE b[i - n]
    BY <1>3, <1>4, <2>1 DEF Concatenated
  <2>3. CASE i <= n
    <3>1. i \in 1..(n - 1 + 1) /\ 1 + i - 1 = i
      BY <1>0, <2>3
    <3> QED BY <1>1, <2>2, <2>3, <3>1
  <2>4. CASE ~ (i <= n)
    <3>1. i - n \in 1..(k - (n + 1) + 1) /\ (n + 1) + (i - n) - 1 = i
      BY <1>0, <2>4
    <3> QED BY <1>2, <2>2, <2>4, <3>1
  <2> QED BY <2>3, <2>4
<1>7. a \o b = s
  BY <1>4, <1>5, <1>6, SeqEqual DEF k
<1> QED BY <1>1, <1>2, <1>3, <1>7 DEF a, b, k

\* A turn takes a piece of what is left.
Turned(S, s, taken, next) ==
    \E piece \in Seq(S) :
       /\ Takes(S, next.md, taken \o piece)
       /\ next.in \in Seq(S) /\ piece \o next.in = s.in
       /\ Len(next.in) < Len(s.in)

LEMMA TurnTakes ==
    ASSUME NEW S, NEW s, NEW taken, Takes(S, s.md, taken), s.in \in Seq(S), s.in # <<>>
    PROVE  Turned(S, s, taken, HashTurn(s))
<1> DEFINE h == HashBlock
           c == Len(s.md.buf)
           k == Len(s.in)
<1>1. h \in Nat \ {0} /\ c \in Nat /\ c < h /\ k \in Nat \ {0} /\ s.md.buf \in Seq(S)
  <2>1. s.md.buf \in Seq(S) /\ c < h
    BY DEF Takes, States
  <2>2. k \in Nat /\ k # 0
    BY LenProperties, EmptySeq
  <2> QED BY <2>1, <2>2, LenProperties, DigestAssumption
<1> HIDE DEF h, c, k
<1>2. CASE s.md.buf = <<>> /\ Len(s.in) >= HashBlock
  <2> DEFINE piece == SubSeq(s.in, 1, h)
             rest == SubSeq(s.in, h + 1, Len(s.in))
             md == [s.md EXCEPT !.state = Compress(@, piece), !.length = @ + 8 * HashBlock]
  <2>1. h \in 0..Len(s.in)
    BY <1>1, <1>2 DEF h, k
  <2>2. /\ piece \in Seq(S) /\ Len(piece) = h /\ rest \in Seq(S) /\ Len(rest) = Len(s.in) - h
        /\ piece \o rest = s.in
    BY <2>1, SplitAt
  <2>3. Len(rest) < Len(s.in)
    BY <1>1, <2>2 DEF k
  <2>4. HashTurn(s) = [md |-> md, in |-> rest]
    BY <1>2 DEF HashTurn, h
  <2> HIDE DEF piece, rest
  <2>5. Len(s.md.buf) + Len(piece) = HashBlock
    BY <1>1, <1>2, <2>2 DEF h
  <2>6. s.md.buf \o piece = piece
    BY <1>2, <2>2, ConcatEmptySeq
  <2>7. md = [state |-> Append(s.md.state, s.md.buf \o piece), buf |-> <<>>,
              length |-> s.md.length + 8 * HashBlock]
    <3>1. s.md \in States(S)
      BY DEF Takes
    <3>2. s.md = [state |-> s.md.state, buf |-> <<>>, length |-> s.md.length]
      BY <1>2, <3>1 DEF States
    <3> DEFINE state == Append(s.md.state, piece)
               length == s.md.length + 8 * HashBlock
    <3>a. md = [s.md EXCEPT !.state = state, !.length = length]
      BY DEF Compress
    <3> HIDE DEF state, length, md
    <3>b. md.state = state /\ md.buf = <<>> /\ md.length = length
      BY <3>2, <3>a
    <3>c. md \in [state : {s.md.state, state}, buf : {<<>>}, length : {s.md.length, length}]
      <4> DEFINE Near == [state : {s.md.state, state}, buf : {<<>>},
                          length : {s.md.length, length}]
      <4>1. s.md \in Near
        BY <3>2
      <4> QED BY <3>a, <4>1
    <3>3. md = [state |-> state, buf |-> <<>>, length |-> length]
      BY <3>b, <3>c
    <3> QED BY <2>6, <3>3 DEF state, length, md
  <2>8. Takes(S, md, taken \o piece)
    <3> HIDE DEF md
    <3> QED BY <2>2, <2>5, <2>7, CompressTakes
  <2> HIDE DEF md
  <2>9. HashTurn(s).md = md /\ HashTurn(s).in = rest
    BY <2>4
  <2> QED BY <2>2, <2>3, <2>8, <2>9 DEF Turned
<1>3. CASE ~ (s.md.buf = <<>> /\ Len(s.in) >= HashBlock)
  <2> DEFINE room == h - c
             n == IF k < room THEN k ELSE room
             piece == SubSeq(s.in, 1, n)
             rest == SubSeq(s.in, n + 1, Len(s.in))
             filled == s.md.buf \o piece
             md == IF Len(filled) = HashBlock
                   THEN [state |-> Compress(s.md.state, filled), buf |-> <<>>,
                         length |-> s.md.length + 8 * HashBlock]
                   ELSE [s.md EXCEPT !.buf = filled]
  <2>1. n \in 0..k /\ n > 0 /\ c + n <= h
    BY <1>1
  <2>2. HashTurn(s) = [md |-> md, in |-> rest]
    BY <1>3 DEF HashTurn, h, c, k
  <2> HIDE DEF n
  <2>3. /\ piece \in Seq(S) /\ Len(piece) = n /\ rest \in Seq(S) /\ Len(rest) = Len(s.in) - n
        /\ piece \o rest = s.in
    BY <2>1, SplitAt DEF k
  <2>4. Len(rest) < Len(s.in)
    BY <1>1, <2>1, <2>3 DEF k
  <2> HIDE DEF piece, rest
  <2>5. Len(filled) = c + n
    <3>1. Concatenated(s.md.buf, piece, filled)
      BY <1>1, <2>3, ConcatenatedThere
    <3> QED BY <2>3, <3>1 DEF Concatenated, c
  <2>6. Takes(S, md, taken \o piece)
    <3>1. CASE c + n = h
      <4>1. md = [state |-> Append(s.md.state, s.md.buf \o piece), buf |-> <<>>,
                  length |-> s.md.length + 8 * HashBlock]
        BY <2>5, <3>1 DEF Compress, h
      <4>2. Len(s.md.buf) + Len(piece) = HashBlock
        BY <2>3, <3>1 DEF c, h
      <4> HIDE DEF md
      <4> QED BY <2>3, <4>1, <4>2, CompressTakes
    <3>2. CASE c + n # h
      <4>1. md = [s.md EXCEPT !.buf = s.md.buf \o piece]
        BY <2>5, <3>2 DEF h
      <4>2. c + n < h
        BY <1>1, <2>1, <3>2
      <4>3. Len(s.md.buf) + Len(piece) < HashBlock
        BY <2>3, <4>2 DEF c, h
      <4> HIDE DEF md
      <4> QED BY <2>3, <4>1, <4>3, BufferTakes
    <3> QED BY <3>1, <3>2
  <2> HIDE DEF md
  <2>7. HashTurn(s).md = md /\ HashTurn(s).in = rest
    BY <2>2
  <2> QED BY <2>3, <2>4, <2>6, <2>7 DEF Turned
<1> QED BY <1>2, <1>3

\* What was taken and what is left are the message w at every turn.
Left(S, w) == {s \in [md : States(S), in : Seq(S)] :
                  \E taken \in Seq(S) : Takes(S, s.md, taken) /\ taken \o s.in = w}

LEMMA TurnLeaves ==
    ASSUME NEW S, NEW w, NEW s \in Left(S, w)
    PROVE  /\ HashTurn(s) \in Left(S, w)
           /\ Len(s.in) \in Nat /\ Len(HashTurn(s).in) \in Nat
           /\ Len(HashTurn(s).in) < Len(s.in) \/ Len(HashTurn(s).in) = 0
<1>1. s.in \in Seq(S) /\ Len(s.in) \in Nat
  BY LenProperties DEF Left
<1>2. CASE s.in = <<>>
  <2>1. HashTurn(s) = s /\ Len(s.in) = 0
    BY <1>2 DEF HashTurn
  <2> QED BY <1>1, <2>1
<1>3. CASE s.in # <<>>
  <2>1. PICK taken \in Seq(S) : Takes(S, s.md, taken) /\ taken \o s.in = w
    BY DEF Left
  <2> DEFINE next == HashTurn(s)
  <2>2. Turned(S, s, taken, next)
    BY <1>1, <1>3, <2>1, TurnTakes
  <2>3. next = [md |-> next.md, in |-> next.in]
    BY <1>3 DEF HashTurn
  <2> HIDE DEF next
  <2>4. PICK piece \in Seq(S) :
           /\ Takes(S, next.md, taken \o piece)
           /\ next.in \in Seq(S) /\ piece \o next.in = s.in
           /\ Len(next.in) < Len(s.in)
    BY <2>2 DEF Turned
  <2>5. (taken \o piece) \o next.in = w /\ taken \o piece \in Seq(S)
    <3> DEFINE rest == next.in
    <3>1. rest \in Seq(S) /\ piece \o rest = s.in
      BY <2>4
    <3> HIDE DEF rest
    <3>2. (taken \o piece) \o rest = taken \o (piece \o rest)
      <4>1. taken \in Seq(S) /\ piece \in Seq(S) /\ rest \in Seq(S)
        BY <2>1, <2>4, <3>1
      <4> QED BY <4>1, ConcatAssociative
    <3>3. taken \o piece \in Seq(S)
      BY ConcatProperties
    <3> QED BY <2>1, <3>1, <3>2, <3>3 DEF rest
  <2>6. next \in [md : States(S), in : Seq(S)]
    <3>1. next.md \in States(S)
      BY <2>4 DEF Takes
    <3> QED BY <2>3, <2>4, <3>1
  <2>7. next \in Left(S, w)
    BY <2>4, <2>5, <2>6 DEF Left
  <2>8. Len(next.in) \in Nat
    BY <2>4, LenProperties
  <2> QED BY <1>1, <2>4, <2>7, <2>8 DEF next
<1> QED BY <1>2, <1>3

\* sha512_update() takes the whole of a piece.
LEMMA UpdateTakes ==
    ASSUME NEW S, NEW md, NEW m, Takes(S, md, m), NEW in \in Seq(S)
    PROVE  Takes(S, HashUpdate(md, in), m \o in)
<1> DEFINE V == Left(S, m \o in)
           a == [md |-> md, in |-> in]
           n == Len(in)
           TurnsAs(p) == p = [k \in 0..n |-> IF k = 0 THEN a ELSE HashTurn(p[k - 1])]
           turn == CHOOSE p : TurnsAs(p)
           F == [y \in V \X Nat |-> HashTurn(y[1])]
<1>1. n \in Nat
  BY LenProperties
<1>2. a \in V
  BY DEF Takes, Left
<1>3. HashUpdate(md, in) = turn[n].md
  BY DEF HashUpdate
<1> HIDE DEF V, a, n
<1>4. \A s \in V : HashTurn(s) \in V
  BY TurnLeaves DEF V
<1>5. F \in [V \X Nat -> V]
  BY <1>4
<1>6. \E f : RecursionTo(n, V, a, F, f)
  <2> HIDE DEF F
  <2> QED BY <1>1, <1>2, <1>5, RecursionToExists
<1>7. PICK f : f \in [0..n -> V] /\ f[0] = a /\ \A k \in 1..n : f[k] = F[<<f[k - 1], k>>]
  BY <1>6 DEF RecursionTo
<1>8. TurnsAs(f)
  <2>1. ASSUME NEW k \in 0..n PROVE f[k] = IF k = 0 THEN a ELSE HashTurn(f[k - 1])
    <3>1. CASE k = 0
      BY <1>7, <3>1
    <3>2. CASE k # 0
      <4>1. k \in 1..n /\ k - 1 \in 0..n /\ k \in Nat
        BY <1>1, <3>2
      <4>2. f[k - 1] \in V
        BY <1>7, <4>1
      <4>3. F[<<f[k - 1], k>>] = HashTurn(f[k - 1])
        BY <4>1, <4>2
      <4> QED BY <1>7, <3>2, <4>1, <4>3
    <3> QED BY <3>1, <3>2
  <2>2. f = [k \in 0..n |-> f[k]]
    BY <1>7
  <2> QED BY <2>1, <2>2
<1>9. TurnsAs(turn)
  <2> HIDE DEF TurnsAs
  <2> QED BY <1>8
<1> HIDE DEF turn
<1>10. turn[0] = a /\ \A k \in 1..n : turn[k] = HashTurn(turn[k - 1])
  <2>1. \A k \in 0..n : turn[k] = IF k = 0 THEN a ELSE HashTurn(turn[k - 1])
    BY <1>9
  <2>2. 0 \in 0..n /\ \A k \in 1..n : k \in 0..n /\ k # 0
    BY <1>1
  <2> HIDE DEF TurnsAs
  <2> QED BY <2>1, <2>2
<1> HIDE DEF TurnsAs, F
<1> DEFINE Good == {k \in 0..n : turn[k] \in V /\ Len(turn[k].in) \in 0..(n - k)}
<1>11. 0 \in Good
  <2>1. Len(a.in) = n /\ 0 \in 0..n /\ n \in 0..(n - 0)
    BY <1>1 DEF a, n
  <2> QED BY <1>2, <1>10, <2>1
<1>12. ASSUME NEW k \in 1..n, k - 1 \in Good PROVE k \in Good
  <2> DEFINE s == turn[k - 1]
  <2>1. s \in V /\ Len(s.in) \in 0..(n - (k - 1))
    BY <1>12
  <2>2. turn[k] = HashTurn(s)
    BY <1>10
  <2> HIDE DEF s
  <2>3. /\ HashTurn(s) \in V /\ Len(s.in) \in Nat /\ Len(HashTurn(s).in) \in Nat
        /\ Len(HashTurn(s).in) < Len(s.in) \/ Len(HashTurn(s).in) = 0
    BY <2>1, TurnLeaves DEF V
  <2> DEFINE x == Len(s.in)
             y == Len(HashTurn(s).in)
  <2>4. y \in 0..(n - k)
    <3>1. x \in 0..(n - (k - 1)) /\ y \in Nat /\ (y < x \/ y = 0)
      BY <2>1, <2>3
    <3> HIDE DEF x, y
    <3> QED BY <1>1, <3>1
  <2> QED BY <2>2, <2>3, <2>4
<1>13. n \in Good
  <2>1. 0..n \subseteq Good
    <3> HIDE DEF Good
    <3> QED BY <1>1, <1>11, <1>12, InductionUpTo
  <2> QED BY <1>1, <2>1
<1> DEFINE last == turn[n]
<1>14. last \in V /\ Len(last.in) \in 0..(n - n)
  BY <1>13
<1> HIDE DEF last
<1>15. Len(last.in) = 0
  BY <1>1, <1>14
<1>16. PICK taken \in Seq(S) : Takes(S, last.md, taken) /\ taken \o last.in = m \o in
  BY <1>14 DEF V, Left
<1>17. last.in = <<>>
  <2>1. last.in \in Seq(S)
    BY <1>14 DEF V, Left
  <2> QED BY <1>15, <2>1, EmptySeq
<1>18. taken = m \o in
  BY <1>16, <1>17, ConcatEmptySeq
<1> QED BY <1>3, <1>16, <1>18 DEF last

LEMMA Quotients ==
    ASSUME NEW h \in Nat \ {0}, NEW n \in Nat, NEW r \in 0..(h - 1)
    PROVE  (h * n + r) \div h = n
<1> DEFINE a == h * n + r
           p == a \div h
           s == a % h
<1>1. a \in Nat /\ h * n \in Nat
  OBVIOUS
<1>2. p \in Nat /\ s \in 0..(h - 1) /\ a = h * p + s
  <2> HIDE DEF a
  <2> QED BY <1>1
<1> HIDE DEF p, s
<1>3. ASSUME NEW x \in Nat, NEW y \in Nat, NEW t \in 0..(h - 1), NEW u \in 0..(h - 1), x < y
      PROVE  h * x + t < h * y + u
  <2>1. y - x - 1 \in Nat /\ h * (y - x - 1) \in Nat /\ h * x \in Nat
    BY <1>3
  <2>2. h * y = h * x + h + h * (y - x - 1)
    BY <1>3
  <2> DEFINE v == h * (y - x - 1)
             w == h * x
  <2>3. v \in Nat /\ w \in Nat /\ h * y = w + h + v
    BY <2>1, <2>2
  <2> HIDE DEF v, w
  <2>4. w + t < w + h + v + u
    BY <2>3
  <2> QED BY <2>3, <2>4 DEF w
<1>4. ~ (p < n) /\ ~ (n < p)
  <2>1. h * n + r = h * p + s
    BY <1>2
  <2>2. h * n + r \in Nat /\ h * p + s \in Nat
    BY <1>1, <2>1
  <2>3. p < n => h * p + s < h * n + r
    BY <1>2, <1>3
  <2>4. n < p => h * n + r < h * p + s
    BY <1>2, <1>3
  <2> DEFINE x == h * n + r
             y == h * p + s
  <2>5. x = y /\ x \in Nat /\ (p < n => y < x) /\ (n < p => x < y)
    BY <2>1, <2>2, <2>3, <2>4
  <2> HIDE DEF x, y
  <2> QED BY <2>5
<1>5. p = n
  BY <1>2, <1>4
<1> QED BY <1>5 DEF p

\* The blocks of a padded message.
LEMMA BlockCount ==
    ASSUME NEW n \in Nat, NEW c \in 0..(HashBlock - 1)
    PROVE  ((HashBlock * n + c) + 1 + HashBlock - LengthAt + HashBlock - 1) \div HashBlock
              = IF c + 1 > LengthAt THEN n + 2 ELSE n + 1
<1> DEFINE h == HashBlock
           q == LengthAt
           z == h * n
           a == (z + c) + 1 + h - q + h - 1
<1>1. h \in Nat \ {0} /\ q \in 1..(h - 1) /\ z \in Nat
  BY DigestAssumption
<1>2. h * (n + 1) = z + h /\ h * (n + 2) = z + h + h
  BY <1>1
<1>3. ASSUME c + 1 > q PROVE a \div h = n + 2
  <2> DEFINE r == c - q
  <2>1. r \in 0..(h - 1)
    BY <1>1, <1>3
  <2>2. a = (z + h + h) + r
    <3> HIDE DEF z, h
    <3> QED BY <1>1
  <2>3. (h * (n + 2) + r) \div h = n + 2
    <3> HIDE DEF r
    <3> QED BY <1>1, <2>1, Quotients
  <2> QED BY <1>2, <2>2, <2>3
<1>4. ASSUME ~ (c + 1 > q) PROVE a \div h = n + 1
  <2> DEFINE r == c + h - q
  <2>1. r \in 0..(h - 1)
    BY <1>1, <1>4
  <2>2. a = (z + h) + r
    <3> HIDE DEF z, h
    <3> QED BY <1>1
  <2>3. (h * (n + 1) + r) \div h = n + 1
    <3> HIDE DEF r
    <3> QED BY <1>1, <2>1, Quotients
  <2> QED BY <1>2, <2>2, <2>3
<1> QED BY <1>3, <1>4

\* A sequence, a one bit, zeros and a number behind each other.
PaddedWith(a, g, v, w) ==
    /\ Len(a) \in Nat /\ Len(w) = Len(a) + g + 2
    /\ \A i \in 1..Len(a) : w[i] = a[i]
    /\ w[Len(a) + 1] = 128
    /\ \A i \in (Len(a) + 2)..(Len(a) + 1 + g) : w[i] = 0
    /\ w[Len(a) + 2 + g] = v

LEMMA ZerosAre ==
    ASSUME NEW S, 0 \in S, NEW g \in Nat
    PROVE  Zeros(g) \in Seq(S) /\ Len(Zeros(g)) = g /\ \A i \in 1..g : Zeros(g)[i] = 0
BY DEF Zeros

LEMMA PaddedIs ==
    ASSUME NEW S, Int \subseteq S, NEW a \in Seq(S), NEW g \in Nat, NEW v \in S
    PROVE  /\ a \o << 128 >> \o Zeros(g) \o <<v>> \in Seq(S)
           /\ PaddedWith(a, g, v, a \o << 128 >> \o Zeros(g) \o <<v>>)
<1> DEFINE one == << 128 >>
           x == a \o one
           y == x \o Zeros(g)
           end == <<v>>
           w == y \o end
<1>0. Len(a) \in Nat
  BY LenProperties
<1>1. one \in Seq(S) /\ Len(one) = 1 /\ one[1] = 128 /\ end \in Seq(S) /\ Len(end) = 1 /\ end[1] = v
  OBVIOUS
<1>2. Zeros(g) \in Seq(S) /\ Len(Zeros(g)) = g /\ \A i \in 1..g : Zeros(g)[i] = 0
  BY ZerosAre
<1> HIDE DEF one, end
<1>3. x \in Seq(S) /\ Concatenated(a, one, x)
  BY <1>1, ConcatenatedThere
<1>4. y \in Seq(S) /\ Concatenated(x, Zeros(g), y)
  BY <1>2, <1>3, ConcatenatedThere
<1>5. w \in Seq(S) /\ Concatenated(y, end, w)
  BY <1>1, <1>4, ConcatenatedThere
<1> HIDE DEF x, y, w
<1> DEFINE k == Len(a)
<1>6. k \in Nat /\ Len(x) = k + 1 /\ Len(y) = k + 1 + g /\ Len(w) = k + g + 2
  BY <1>0, <1>1, <1>2, <1>3, <1>4, <1>5 DEF Concatenated
<1>7. \A i \in 1..k : w[i] = a[i]
  <2> SUFFICES ASSUME NEW i \in 1..k PROVE w[i] = a[i]
    OBVIOUS
  <2> HIDE DEF k
  <2>1. /\ i \in 1..(k + 1 + g + 1) /\ i <= k + 1 + g /\ i \in 1..(k + 1 + g) /\ i <= k + 1
        /\ i \in 1..(k + 1) /\ i <= k
    BY <1>6
  <2>2. w[i] = y[i]
    BY <1>1, <1>5, <1>6, <2>1 DEF Concatenated
  <2>3. y[i] = x[i]
    BY <1>2, <1>4, <1>6, <2>1 DEF Concatenated
  <2>4. x[i] = a[i]
    BY <1>1, <1>3, <1>6, <2>1 DEF Concatenated, k
  <2> QED BY <2>2, <2>3, <2>4
<1>8. w[k + 1] = 128
  <2> HIDE DEF k
  <2>1. /\ k + 1 \in 1..(k + 1 + g + 1) /\ k + 1 <= k + 1 + g /\ k + 1 \in 1..(k + 1 + g)
        /\ k + 1 <= k + 1 /\ k + 1 \in 1..(k + 1) /\ ~ (k + 1 <= k) /\ (k + 1) - k = 1
    BY <1>6
  <2>2. w[k + 1] = y[k + 1]
    BY <1>1, <1>5, <1>6, <2>1 DEF Concatenated
  <2>3. y[k + 1] = x[k + 1]
    BY <1>2, <1>4, <1>6, <2>1 DEF Concatenated
  <2>4. x[k + 1] = one[1]
    BY <1>1, <1>3, <1>6, <2>1 DEF Concatenated, k
  <2> QED BY <1>1, <2>2, <2>3, <2>4
<1>9. \A i \in (k + 2)..(k + 1 + g) : w[i] = 0
  <2> SUFFICES ASSUME NEW i \in (k + 2)..(k + 1 + g) PROVE w[i] = 0
    OBVIOUS
  <2> HIDE DEF k
  <2>1. /\ i \in 1..(k + 1 + g + 1) /\ i <= k + 1 + g /\ i \in 1..(k + 1 + g) /\ ~ (i <= k + 1)
        /\ i - (k + 1) \in 1..g
    BY <1>6
  <2>2. w[i] = y[i]
    BY <1>1, <1>5, <1>6, <2>1 DEF Concatenated
  <2>3. y[i] = Zeros(g)[i - (k + 1)]
    BY <1>2, <1>4, <1>6, <2>1 DEF Concatenated
  <2> QED BY <1>2, <2>1, <2>2, <2>3
<1>10. w[k + 2 + g] = v
  <2> HIDE DEF k
  <2>1. /\ k + 2 + g \in 1..(k + 1 + g + 1) /\ ~ (k + 2 + g <= k + 1 + g)
        /\ (k + 2 + g) - (k + 1 + g) = 1
    BY <1>6
  <2>2. w[k + 2 + g] = end[1]
    BY <1>1, <1>5, <1>6, <2>1 DEF Concatenated
  <2> QED BY <1>1, <2>2
<1>11. PaddedWith(a, g, v, w)
  BY <1>6, <1>7, <1>8, <1>9, <1>10 DEF PaddedWith
<1> QED BY <1>5, <1>11 DEF w, y, x, one, end

\* What SHA-512 says of a message m, whose last part, after z bytes in whole
\* blocks, is buf.
WholeMessage(m, blocks) ==
    m \o << 128 >> \o Zeros(blocks * HashBlock - LengthBytes - Len(m) - 1) \o <<8 * Len(m)>>

Cut(m, blocks, b) ==
    SubSeq(WholeMessage(m, blocks), HashBlock * (b - 1) + 1,
           IF b = blocks THEN Len(WholeMessage(m, blocks)) ELSE HashBlock * b)

LEMMA PaddedBlocksAre ==
    ASSUME NEW m, NEW blocks,
           blocks = (Len(m) + 1 + HashBlock - LengthAt + HashBlock - 1) \div HashBlock
    PROVE  PaddedBlocks(m) = [b \in 1..blocks |-> Cut(m, blocks, b)]
BY DEF PaddedBlocks, WholeMessage, Cut

\* A block cut out of a message, compared place by place.
LEMMA CutIs ==
    ASSUME NEW S, NEW w \in Seq(S), NEW x \in Seq(S), NEW k \in Nat,
           k + Len(x) <= Len(w), \A i \in 1..Len(x) : w[k + i] = x[i]
    PROVE  SubSeq(w, k + 1, k + Len(x)) = x
<1> DEFINE d == Len(x)
           cut == SubSeq(w, k + 1, k + d)
<1>1. d \in Nat /\ k + 1 \in Nat \ {0} /\ k + d \in Nat /\ k + d <= Len(w)
  BY LenProperties
<1>2. /\ cut \in Seq(S) /\ Len(cut) = IF k + 1 <= k + d THEN (k + d) - (k + 1) + 1 ELSE 0
      /\ \A i \in 1..((k + d) - (k + 1) + 1) : cut[i] = w[(k + 1) + i - 1]
  <2> HIDE DEF d
  <2> QED BY <1>1, SubSeqTyped
<1> HIDE DEF cut, d
<1>3. Len(cut) = d
  BY <1>1, <1>2
<1>4. ASSUME NEW i \in 1..d PROVE cut[i] = x[i]
  <2>1. i \in 1..((k + d) - (k + 1) + 1) /\ (k + 1) + i - 1 = k + i
    BY <1>1
  <2> QED BY <1>2, <2>1 DEF d
<1>5. cut = x
  BY <1>2, <1>3, <1>4, SeqEqual DEF d
<1> QED BY <1>5 DEF cut, d

\* sha512_final() cuts and pads what was taken as SHA-512 says.
LEMMA FinalTakes ==
    ASSUME NEW S, Int \subseteq S, NEW md, NEW m, Takes(S, md, m)
    PROVE  HashFinal(md) = PaddedBlocks(m)
<1> DEFINE h == HashBlock
           n == Len(md.state)
           c == Len(md.buf)
           z == h * n
           v == 8 * Len(m)
           spills == c + 1 > LengthAt
           blocks == IF spills THEN n + 2 ELSE n + 1
           g == blocks * h - LengthBytes - Len(m) - 1
           w == WholeMessage(m, blocks)
           marked == md.buf \o << 128 >>
<1>1. /\ h \in Nat \ {0} /\ LengthAt \in 1..(h - 1) /\ LengthBytes \in 1..(h - LengthAt)
      /\ m \in Seq(S) /\ md.buf \in Seq(S) /\ md.state \in Seq(Seq(S))
      /\ n \in Nat /\ c \in Nat /\ c \in 0..(h - 1) /\ z \in Nat
      /\ md.length = 8 * z /\ Len(m) = z + c
  <2>1. /\ h \in Nat \ {0} /\ LengthAt \in 1..(h - 1) /\ LengthBytes \in 1..(h - LengthAt)
    BY DigestAssumption
  <2>2. /\ m \in Seq(S) /\ md.buf \in Seq(S) /\ md.state \in Seq(Seq(S)) /\ c < h
        /\ md.length = 8 * z /\ Len(m) = z + c
    BY DEF Takes, States
  <2>3. n \in Nat /\ c \in Nat
    BY <2>2, LenProperties
  <2> QED BY <2>1, <2>2, <2>3
<1>2. /\ \A b \in 1..n : Len(md.state[b]) = h /\ \A i \in 1..h : md.state[b][i] = m[h * (b - 1) + i]
      /\ \A i \in 1..c : md.buf[i] = m[z + i]
  BY DEF Takes
<1>3. blocks * h = (IF spills THEN z + h + h ELSE z + h) /\ h * ((n + 1) - 1) = z
      /\ h * (n + 1) = z + h /\ h * ((n + 2) - 1) = z + h
  BY <1>1
<1>4. /\ g \in Nat /\ v \in S /\ v = md.length + 8 * c
      /\ spills => z + c + g + 2 = z + h + (h - LengthBytes) + 1 /\ c + 1 <= h
      /\ ~ spills => z + c + g + 2 = z + (h - LengthBytes) + 1 /\ c + 1 <= h - LengthBytes
  <2>1. v \in Int /\ v = md.length + 8 * c
    <3>1. v = 8 * (z + c) /\ md.length = 8 * z /\ z \in Nat /\ c \in Nat
      BY <1>1
    <3> HIDE DEF v, z, c
    <3> QED BY <3>1
  <2> DEFINE x == blocks * h
  <2>2. x = (IF spills THEN z + h + h ELSE z + h) /\ g = x - LengthBytes - (z + c) - 1
    BY <1>1, <1>3
  <2> HIDE DEF h, n, c, z, v, g, blocks, x
  <2> QED BY <1>1, <2>1, <2>2
<1>5. PaddedBlocks(m) = [b \in 1..blocks |-> Cut(m, blocks, b)]
  <2>1. ((h * n + c) + 1 + h - LengthAt + h - 1) \div h = blocks
    BY <1>1, BlockCount
  <2>2. blocks = (Len(m) + 1 + h - LengthAt + h - 1) \div h
    BY <1>1, <2>1
  <2> HIDE DEF blocks
  <2> QED BY <2>2, PaddedBlocksAre
<1>6. w \in Seq(S) /\ PaddedWith(m, g, v, w)
  <2>0. m \in Seq(S) /\ g \in Nat /\ v \in S
    BY <1>1, <1>4
  <2> HIDE DEF v, g
  <2>1. m \o << 128 >> \o Zeros(g) \o <<v>> \in Seq(S) /\ PaddedWith(m, g, v, m \o << 128 >> \o Zeros(g) \o <<v>>)
    BY <2>0, PaddedIs
  <2> QED BY <2>1 DEF WholeMessage, v, g
<1> HIDE DEF w, v, g, blocks, spills, z, n, c, h
<1>7. /\ Len(w) = z + c + g + 2 /\ w[z + c + 1] = 128 /\ w[z + c + 2 + g] = v
      /\ \A i \in 1..(z + c) : w[i] = m[i]
      /\ \A i \in (z + c + 2)..(z + c + 1 + g) : w[i] = 0
  BY <1>1, <1>6 DEF PaddedWith
<1>8. ASSUME NEW b \in 1..n PROVE Cut(m, blocks, b) = md.state[b]
  <2> DEFINE k == h * (b - 1)
             x == md.state[b]
  <2>1. x \in Seq(S) /\ Len(x) = h /\ \A i \in 1..h : x[i] = m[k + i]
    BY <1>1, <1>2, ElementOfSeq DEF n
  <2>2. /\ k \in Nat /\ h * b = k + h
        /\ \A i \in 1..h : k + i \in 1..z
        /\ h * b \in 1..z
    <3>1. b - 1 \in Nat /\ b \in Nat
      BY <1>1
    <3>2. k \in Nat /\ h * b = k + h
      BY <1>1, <3>1
    <3>3. ASSUME NEW i \in 1..h PROVE h * (b - 1) + i \in 1..(h * n) /\ h * b \in 1..(h * n)
      BY <1>1, BlockPlace
    <3>4. h \in 1..h
      BY <1>1
    <3>5. h * b \in 1..z
      BY <3>3, <3>4 DEF z
    <3>6. \A i \in 1..h : k + i \in 1..z
      BY <3>3 DEF z
    <3> HIDE DEF k
    <3> QED BY <3>2, <3>5, <3>6
  <2> HIDE DEF k, x
  <2>3. k + h <= Len(w)
    BY <1>1, <1>4, <1>7, <2>2
  <2>4. ASSUME NEW i \in 1..Len(x) PROVE w[k + i] = x[i]
    <3>1. i \in 1..h /\ k + i \in 1..z
      BY <2>1, <2>2
    <3>2. k + i \in 1..(z + c)
      BY <1>1, <3>1
    <3> QED BY <1>7, <2>1, <3>1, <3>2
  <2>5. SubSeq(w, k + 1, k + Len(x)) = x
    BY <1>6, <2>1, <2>2, <2>3, <2>4, CutIs
  <2>6. b # blocks
    BY <1>1 DEF blocks
  <2> QED BY <2>1, <2>2, <2>5, <2>6 DEF Cut, w, k, x, h
<1>9. marked \in Seq(S) /\ Len(marked) = c + 1 /\ marked = Append(md.buf, 128)
      /\ marked[c + 1] = 128 /\ \A i \in 1..c : marked[i] = md.buf[i]
  <2>1. 128 \in S
    OBVIOUS
  <2>2. marked = Append(md.buf, 128)
    BY <1>1, <2>1, AppendIsConcat
  <2> HIDE DEF marked
  <2> QED BY <1>1, <2>1, <2>2, AppendProperties DEF c
<1> HIDE DEF marked
<1>10. CASE ~ spills
  <2> DEFINE last == md.buf \o << 128 >> \o Zeros(g) \o <<v>>
  <2>0. md.buf \in Seq(S) /\ g \in Nat /\ v \in S
    BY <1>1, <1>4
  <2>1. last \in Seq(S) /\ PaddedWith(md.buf, g, v, last)
    BY <2>0, PaddedIs
  <2> HIDE DEF last
  <2>2. /\ Len(last) = c + g + 2 /\ last[c + 1] = 128 /\ last[c + 2 + g] = v
        /\ \A i \in 1..c : last[i] = md.buf[i]
        /\ \A i \in (c + 2)..(c + 1 + g) : last[i] = 0
    BY <2>1 DEF PaddedWith, c
  <2>3. z + Len(last) = Len(w)
    BY <1>1, <1>4, <1>7, <2>2
  <2>4. ASSUME NEW i \in 1..Len(last) PROVE w[z + i] = last[i]
    <3>1. CASE i <= c
      <4>1. i \in 1..c /\ z + i \in 1..(z + c)
        BY <1>1, <1>4, <2>2, <3>1
      <4> QED BY <1>2, <1>7, <2>2, <4>1
    <3>2. CASE i = c + 1
      <4>1. z + i = z + c + 1
        BY <1>1, <3>2
      <4> QED BY <1>7, <2>2, <3>2, <4>1
    <3>3. CASE i \in (c + 2)..(c + 1 + g)
      <4>1. z + i \in (z + c + 2)..(z + c + 1 + g)
        BY <1>1, <1>4, <3>3
      <4> QED BY <1>7, <2>2, <3>3, <4>1
    <3>4. CASE i = c + 2 + g
      <4>1. z + i = z + c + 2 + g
        BY <1>1, <1>4, <3>4
      <4> QED BY <1>7, <2>2, <3>4, <4>1
    <3>5. i <= c \/ i = c + 1 \/ i \in (c + 2)..(c + 1 + g) \/ i = c + 2 + g
      BY <1>1, <1>4, <2>2
    <3> QED BY <3>1, <3>2, <3>3, <3>4, <3>5
  <2>5. SubSeq(w, z + 1, z + Len(last)) = last
    <3>1. z + Len(last) <= Len(w)
      BY <1>1, <1>4, <2>2, <2>3
    <3> QED BY <1>1, <1>6, <2>1, <2>4, <3>1, CutIs
  <2>6. blocks = n + 1
    BY <1>10 DEF blocks
  <2>7. Cut(m, blocks, n + 1) = last
    BY <1>3, <2>3, <2>5, <2>6 DEF Cut, w, h
  <2>8. HashFinal(md) = Append(md.state, last)
    <3>1. h - LengthBytes - Len(marked) = g
      <4>1. z + c + g + 2 = z + (h - LengthBytes) + 1
        BY <1>4, <1>10
      <4>2. z \in Nat /\ c \in Nat /\ g \in Nat /\ h \in Nat /\ LengthBytes \in Int
        BY <1>1, <1>4
      <4>3. h - LengthBytes - (c + 1) = g
        BY <4>1, <4>2
      <4> QED BY <1>9, <4>3
    <3>2. ~ (Len(Append(md.buf, 128)) > LengthAt)
      BY <1>9, <1>10 DEF spills
    <3>3. md.length + 8 * Len(md.buf) = v
      BY <1>4 DEF c
    <3>4. Append(md.buf, 128) \o Zeros(h - LengthBytes - Len(Append(md.buf, 128))) \o <<v>> = last
      BY <1>9, <3>1 DEF last, marked
    <3> QED BY <3>2, <3>3, <3>4 DEF HashFinal, Compress, h
  <2>9. Append(md.state, last) = [b \in 1..blocks |-> Cut(m, blocks, b)]
    <3> DEFINE all == Append(md.state, last)
    <3>1. /\ all \in Seq(Seq(S)) /\ Len(all) = n + 1 /\ all[n + 1] = last
          /\ \A b \in 1..n : all[b] = md.state[b]
      BY <1>1, <2>1, AppendProperties DEF n
    <3> HIDE DEF all
    <3>2. all = [b \in 1..(n + 1) |-> all[b]]
      BY <3>1, LenProperties
    <3>3. ASSUME NEW b \in 1..(n + 1) PROVE all[b] = Cut(m, blocks, b)
      <4>1. b \in 1..n \/ b = n + 1
        BY <1>1
      <4> QED BY <1>8, <2>7, <3>1, <4>1
    <3>4. all = [b \in 1..blocks |-> Cut(m, blocks, b)]
      BY <2>6, <3>2, <3>3
    <3> QED BY <3>4 DEF all
  <2> QED BY <1>5, <2>8, <2>9
<1>11. CASE spills
  <2> DEFINE d == h - (c + 1)
             e == h - LengthBytes
             full == marked \o Zeros(d)
             tail == Zeros(e)
             end == tail \o <<v>>
  <2>0. d \in Nat /\ e \in Nat /\ c + 1 + d = h
    BY <1>1, <1>4, <1>11
  <2>1. /\ Zeros(d) \in Seq(S) /\ Len(Zeros(d)) = d /\ \A i \in 1..d : Zeros(d)[i] = 0
        /\ tail \in Seq(S) /\ Len(tail) = e /\ \A i \in 1..e : tail[i] = 0
    <3>1. 0 \in S
      OBVIOUS
    <3> HIDE DEF d, e
    <3> QED BY <2>0, <3>1, ZerosAre
  <2>2. full \in Seq(S) /\ Concatenated(marked, Zeros(d), full)
    BY <1>9, <2>1, ConcatenatedThere
  <2> HIDE DEF d, e, full, tail, marked
  <2>3. /\ Len(full) = h /\ full[c + 1] = 128
        /\ \A i \in 1..c : full[i] = md.buf[i]
        /\ \A i \in (c + 2)..h : full[i] = 0
    <3>1. Len(full) = h
      BY <1>9, <2>0, <2>1, <2>2 DEF Concatenated
    <3>2. \A i \in 1..h : full[i] = IF i <= c + 1 THEN marked[i] ELSE Zeros(d)[i - (c + 1)]
      BY <1>9, <2>0, <2>1, <2>2 DEF Concatenated
    <3>3. full[c + 1] = 128
      <4>1. c + 1 \in 1..h /\ c + 1 <= c + 1
        BY <1>1, <2>0
      <4> QED BY <1>9, <3>2, <4>1
    <3>4. ASSUME NEW i \in 1..c PROVE full[i] = md.buf[i]
      <4>1. i \in 1..h /\ i <= c + 1
        BY <1>1, <2>0
      <4> QED BY <1>9, <3>2, <4>1
    <3>5. ASSUME NEW i \in (c + 2)..h PROVE full[i] = 0
      <4>1. i \in 1..h /\ ~ (i <= c + 1) /\ i - (c + 1) \in 1..d
        BY <1>1, <2>0
      <4> QED BY <2>1, <3>2, <4>1
    <3> QED BY <3>1, <3>3, <3>4, <3>5
  <2>4. end \in Seq(S) /\ Len(end) = e + 1 /\ end[e + 1] = v /\ \A i \in 1..e : end[i] = 0
    <3>1. end = Append(tail, v)
      BY <1>4, <2>1, AppendIsConcat
    <3> QED BY <1>4, <2>1, <3>1, AppendProperties
  <2> HIDE DEF end
  <2>5. Len(w) = z + h + e + 1 /\ z + c + g + 2 = z + h + e + 1 /\ e <= h
    BY <1>1, <1>4, <1>7, <1>11 DEF e
  <2>6. ASSUME NEW i \in 1..Len(full) PROVE w[z + i] = full[i]
    <3>1. CASE i <= c
      <4>1. i \in 1..c /\ z + i \in 1..(z + c)
        BY <1>1, <2>3, <3>1
      <4> QED BY <1>2, <1>7, <2>3, <4>1
    <3>2. CASE i = c + 1
      <4>1. z + i = z + c + 1
        BY <1>1, <3>2
      <4> QED BY <1>7, <2>3, <3>2, <4>1
    <3>3. CASE i \in (c + 2)..h
      <4>1. z + i \in (z + c + 2)..(z + c + 1 + g)
        BY <1>1, <1>4, <2>0, <2>5, <3>3
      <4> QED BY <1>7, <2>3, <3>3, <4>1
    <3>4. i <= c \/ i = c + 1 \/ i \in (c + 2)..h
      BY <1>1, <2>3
    <3> QED BY <3>1, <3>2, <3>3, <3>4
  <2>7. SubSeq(w, z + 1, z + h) = full
    <3>1. z + Len(full) <= Len(w)
      BY <1>1, <2>0, <2>3, <2>5
    <3>2. SubSeq(w, z + 1, z + Len(full)) = full
      BY <1>1, <1>6, <2>2, <2>6, <3>1, CutIs
    <3> QED BY <2>3, <3>2
  <2>8. ASSUME NEW i \in 1..Len(end) PROVE w[(z + h) + i] = end[i]
    <3>1. CASE i <= e
      <4>1. i \in 1..e /\ (z + h) + i \in (z + c + 2)..(z + c + 1 + g)
        BY <1>1, <1>4, <2>0, <2>4, <2>5, <3>1
      <4> QED BY <1>7, <2>4, <4>1
    <3>2. CASE i = e + 1
      <4>1. (z + h) + i = z + c + 2 + g
        BY <1>1, <1>4, <2>0, <2>5, <3>2
      <4> QED BY <1>7, <2>4, <3>2, <4>1
    <3>3. i <= e \/ i = e + 1
      BY <2>0, <2>4
    <3> QED BY <3>1, <3>2, <3>3
  <2>9. SubSeq(w, (z + h) + 1, Len(w)) = end
    <3>1. (z + h) + Len(end) = Len(w) /\ z + h \in Nat
      BY <1>1, <2>0, <2>4, <2>5
    <3>2. SubSeq(w, (z + h) + 1, (z + h) + Len(end)) = end
      BY <1>6, <2>4, <2>8, <3>1, CutIs
    <3> QED BY <3>1, <3>2
  <2>10. blocks = n + 2 /\ n + 1 # blocks
    BY <1>1, <1>11 DEF blocks
  <2>11. Cut(m, blocks, n + 1) = full
    BY <1>3, <2>7, <2>10 DEF Cut, w, h
  <2>12. Cut(m, blocks, n + 2) = end
    BY <1>3, <2>9, <2>10 DEF Cut, w, h
  <2>13. HashFinal(md) = Append(Append(md.state, full), end)
    <3>1. Len(Append(md.buf, 128)) > LengthAt
      BY <1>9, <1>11 DEF spills
    <3>2. md.length + 8 * Len(md.buf) = v
      BY <1>4 DEF c
    <3>3. Append(md.buf, 128) \o Zeros(h - Len(Append(md.buf, 128))) = full
      BY <1>9 DEF full, d
    <3>4. <<>> \o Zeros(h - LengthBytes - Len(<<>>)) \o <<v>> = end
      <4>1. Len(<<>>) = 0 /\ h - LengthBytes - 0 = e
        BY <1>1 DEF e
      <4>2. <<>> \o tail = tail
        BY <2>1, ConcatEmptySeq
      <4> QED BY <4>1, <4>2 DEF end, tail
    <3> QED BY <3>1, <3>2, <3>3, <3>4 DEF HashFinal, Compress, h
  <2>14. Append(Append(md.state, full), end) = [b \in 1..blocks |-> Cut(m, blocks, b)]
    <3> DEFINE most == Append(md.state, full)
               all == Append(most, end)
    <3>1. /\ most \in Seq(Seq(S)) /\ Len(most) = n + 1 /\ most[n + 1] = full
          /\ \A b \in 1..n : most[b] = md.state[b]
      BY <1>1, <2>2, AppendProperties DEF n
    <3> HIDE DEF most
    <3>2. /\ all \in Seq(Seq(S)) /\ Len(all) = n + 2 /\ all[n + 2] = end
          /\ \A b \in 1..(n + 1) : all[b] = most[b]
      <4>1. /\ all \in Seq(Seq(S)) /\ Len(all) = Len(most) + 1 /\ all[Len(most) + 1] = end
            /\ \A b \in 1..Len(most) : all[b] = most[b]
        BY <2>4, <3>1, AppendProperties
      <4>2. Len(most) + 1 = n + 2
        BY <1>1, <3>1
      <4> QED BY <3>1, <4>1, <4>2
    <3> HIDE DEF all
    <3>3. all = [b \in 1..(n + 2) |-> all[b]]
      BY <3>2, LenProperties
    <3>4. ASSUME NEW b \in 1..(n + 2) PROVE all[b] = Cut(m, blocks, b)
      <4>1. (b \in 1..n /\ b \in 1..(n + 1)) \/ (b = n + 1 /\ b \in 1..(n + 1)) \/ b = n + 2
        BY <1>1
      <4> QED BY <1>8, <2>11, <2>12, <3>1, <3>2, <4>1
    <3>5. all = [b \in 1..blocks |-> Cut(m, blocks, b)]
      BY <2>10, <3>3, <3>4
    <3> QED BY <3>5 DEF all, most
  <2> QED BY <1>5, <2>13, <2>14
<1> QED BY <1>10, <1>11

\* The digest of a message in three pieces, of any length, over blocks of any
\* size, is that of the message: whole blocks and the buffer, the counted bits
\* and the padding over one block or two come to what SHA-512 says.
THEOREM DigestOfPieces ==
    ASSUME NEW S, Int \subseteq S, NEW a \in Seq(S), NEW b \in Seq(S), NEW c \in Seq(S)
    PROVE  Digested(<<a, b, c>>) = PaddedBlocks(a \o b \o c)
<1> DEFINE pieces == <<a, b, c>>
           one == HashUpdate(HashStart, a)
           two == HashUpdate(one, b)
           three == HashUpdate(two, c)
           AfterAs(p) == p = [k \in 0..Len(pieces) |->
                                IF k = 0 THEN HashStart ELSE HashUpdate(p[k - 1], pieces[k])]
           after == CHOOSE p : AfterAs(p)
           known == [k \in 0..3 |-> IF k = 0 THEN HashStart ELSE IF k = 1 THEN one
                                    ELSE IF k = 2 THEN two ELSE three]
<1>1. Takes(S, HashStart, <<>>)
  <2>1. HashStart.state = <<>> /\ HashStart.buf = <<>> /\ HashStart.length = 0
    BY DEF HashStart
  <2>2. <<>> \in Seq(Seq(S)) /\ <<>> \in Seq(S) /\ Len(<<>>) = 0
    OBVIOUS
  <2>3. HashStart \in States(S)
    BY <2>2 DEF HashStart, States
  <2>4. HashBlock \in Nat \ {0} /\ HashBlock * 0 = 0
    BY DigestAssumption
  <2> QED BY <2>1, <2>2, <2>3, <2>4 DEF Takes
<1>2. Takes(S, three, a \o b \o c)
  <2>1. Takes(S, one, <<>> \o a)
    BY <1>1, UpdateTakes
  <2>2. <<>> \o a = a
    BY ConcatEmptySeq
  <2> HIDE DEF one
  <2>3. Takes(S, two, a \o b)
    BY <2>1, <2>2, UpdateTakes
  <2> HIDE DEF two
  <2> QED BY <2>3, UpdateTakes
<1>3. Len(pieces) = 3 /\ pieces[1] = a /\ pieces[2] = b /\ pieces[3] = c
  OBVIOUS
<1>4. Digested(pieces) = HashFinal(after[3])
  BY <1>3 DEF Digested
<1> HIDE DEF pieces
<1>5. AfterAs(known)
  <2> HIDE DEF one, two, three
  <2>1. ASSUME NEW k \in 0..3
        PROVE  known[k] = IF k = 0 THEN HashStart ELSE HashUpdate(known[k - 1], pieces[k])
    <3>1. k = 0 \/ k = 1 \/ k = 2 \/ k = 3
      OBVIOUS
    <3>2. known[0] = HashStart /\ known[1] = one /\ known[2] = two /\ known[3] = three
      OBVIOUS
    <3> HIDE DEF known
    <3> QED BY <1>3, <3>1, <3>2 DEF one, two, three
  <2>2. known = [k \in 0..3 |-> known[k]]
    OBVIOUS
  <2> HIDE DEF known
  <2> QED BY <1>3, <2>1, <2>2
<1>6. AfterAs(after)
  <2> HIDE DEF AfterAs
  <2> QED BY <1>5
<1> HIDE DEF after, one, two, three
<1>7. after[3] = three
  <2>1. \A k \in 0..3 : after[k] = IF k = 0 THEN HashStart ELSE HashUpdate(after[k - 1], pieces[k])
    BY <1>3, <1>6
  <2> HIDE DEF AfterAs
  <2>2. after[0] = HashStart
    BY <2>1
  <2>3. after[1] = one
    BY <1>3, <2>1, <2>2 DEF one
  <2>4. after[2] = two
    BY <1>3, <2>1, <2>3 DEF two
  <2> QED BY <1>3, <2>1, <2>4 DEF three
<1> QED BY <1>2, <1>4, <1>7, FinalTakes DEF pieces

----------------------------------------------------------------------------
\* Multiples of a point, by the sum that defines them.
MultipleAs(p, n, f) == f = [i \in 0..n |-> IF i = 0 THEN Neutral ELSE PointSum(f[i - 1], p)]

LEMMA MultiplesExist == ASSUME NEW p, NEW n \in Nat PROVE \E f : MultipleAs(p, n, f)
<1> DEFINE T == {m \in Nat : \E f : MultipleAs(p, m, f)}
<1>1. 0 \in T
  <2>1. MultipleAs(p, 0, [i \in 0..0 |-> Neutral])
    BY DEF MultipleAs
  <2> QED BY <2>1
<1>2. ASSUME NEW m \in Nat, m \in T PROVE m + 1 \in T
  <2>1. PICK f : MultipleAs(p, m, f)
    BY <1>2
  <2> DEFINE g == [i \in 0..(m + 1) |-> IF i = m + 1 THEN PointSum(f[m], p) ELSE f[i]]
  <2>2. \A i \in 0..m : f[i] = IF i = 0 THEN Neutral ELSE PointSum(f[i - 1], p)
    BY <2>1 DEF MultipleAs
  <2>3. ASSUME NEW i \in 0..(m + 1)
        PROVE  g[i] = IF i = 0 THEN Neutral ELSE PointSum(g[i - 1], p)
    <3>1. CASE i = m + 1
      <4>1. i # 0 /\ i - 1 = m /\ m \in 0..(m + 1) /\ m # m + 1
        BY <3>1
      <4> QED BY <3>1, <4>1
    <3>2. CASE i # m + 1 /\ i # 0
      <4>1. i \in 0..m /\ i - 1 \in 0..(m + 1) /\ i - 1 # m + 1
        BY <3>2
      <4> QED BY <2>2, <3>2, <4>1
    <3>3. CASE i = 0
      <4>1. 0 \in 0..m /\ 0 # m + 1
        OBVIOUS
      <4> QED BY <2>2, <3>3, <4>1
    <3> QED BY <3>1, <3>2, <3>3
  <2>4. g = [i \in 0..(m + 1) |-> g[i]]
    OBVIOUS
  <2> HIDE DEF g
  <2>5. MultipleAs(p, m + 1, g)
    BY <2>3, <2>4 DEF MultipleAs
  <2> QED BY <2>5
<1>3. Nat \subseteq T
  <2> HIDE DEF T
  <2> QED BY <1>1, <1>2, NatSetInduction
<1> QED BY <1>3

LEMMA MultiplesStep ==
    ASSUME NEW p
    PROVE  /\ Multiple(0, p) = Neutral
           /\ \A n \in Nat : Multiple(n + 1, p) = PointSum(Multiple(n, p), p)
<1> DEFINE F(m) == CHOOSE f : MultipleAs(p, m, f)
<1>1. \A n \in Nat : Multiple(n, p) = F(n)[n]
  BY DEF Multiple, MultipleAs
<1>2. \A n \in Nat : MultipleAs(p, n, F(n))
  BY MultiplesExist
<1> HIDE DEF F
<1>3. \A n \in Nat : \A i \in 0..n : F(n)[i] = IF i = 0 THEN Neutral ELSE PointSum(F(n)[i - 1], p)
  BY <1>2 DEF MultipleAs
<1>4. Multiple(0, p) = Neutral
  BY <1>1, <1>3
<1>5. ASSUME NEW n \in Nat PROVE Multiple(n + 1, p) = PointSum(Multiple(n, p), p)
  <2> DEFINE f == F(n)
             g == F(n + 1)
             T == {i \in 0..n : f[i] = g[i]}
  <2>1. /\ \A i \in 0..n : f[i] = IF i = 0 THEN Neutral ELSE PointSum(f[i - 1], p)
        /\ \A i \in 0..(n + 1) : g[i] = IF i = 0 THEN Neutral ELSE PointSum(g[i - 1], p)
    BY <1>3
  <2> HIDE DEF f, g
  <2>2. 0 \in T
    <3>1. 0 \in 0..n /\ 0 \in 0..(n + 1)
      OBVIOUS
    <3> QED BY <2>1, <3>1
  <2>3. ASSUME NEW i \in 1..n, i - 1 \in T PROVE i \in T
    <3>1. i \in 0..n /\ i \in 0..(n + 1) /\ i # 0
      OBVIOUS
    <3> QED BY <2>1, <2>3, <3>1
  <2>4. n \in T
    <3>1. 0..n \subseteq T
      <4> HIDE DEF T
      <4> QED BY <2>2, <2>3, InductionUpTo
    <3> QED BY <3>1
  <2>5. n + 1 \in 0..(n + 1) /\ n + 1 # 0 /\ (n + 1) - 1 = n
    OBVIOUS
  <2>6. g[n + 1] = PointSum(f[n], p)
    BY <2>1, <2>4, <2>5
  <2> QED BY <1>1, <2>6 DEF f, g
<1> QED BY <1>4, <1>5

\* Remainders, with a multiple of h in front.
LEMMA Remainders ==
    ASSUME NEW h \in Nat \ {0}, NEW n \in Nat
    PROVE  /\ \A r \in 0..(h - 1) : (h * n + r) % h = r
           /\ \A y \in Nat : (h * n + y) % h = y % h
<1>1. ASSUME NEW q \in Nat, NEW r \in 0..(h - 1) PROVE (h * q + r) % h = r
  <2> DEFINE a == h * q + r
             p == a \div h
             s == a % h
             w == h * q
  <2>1. a \in Nat /\ w \in Nat
    OBVIOUS
  <2>2. s \in 0..(h - 1) /\ a = h * p + s
    <3> HIDE DEF a, w
    <3> QED BY <2>1
  <2>3. p = q
    BY Quotients
  <2>4. w + r = w + s
    <3>1. a = w + s
      BY <2>2, <2>3
    <3> QED BY <3>1
  <2>5. r = s
    <3> HIDE DEF s, w
    <3> QED BY <2>1, <2>2, <2>4
  <2> QED BY <2>5
<1>2. ASSUME NEW y \in Nat PROVE (h * n + y) % h = y % h
  <2> DEFINE q == y \div h
             r == y % h
  <2>1. q \in Nat /\ r \in 0..(h - 1) /\ y = h * q + r
    OBVIOUS
  <2> HIDE DEF q, r
  <2>2. h * n + y = h * (n + q) + r /\ n + q \in Nat
    BY <2>1
  <2>3. (h * (n + q) + r) % h = r
    BY <1>1, <2>1, <2>2
  <2> QED BY <2>2, <2>3 DEF r
<1> QED BY <1>1, <1>2

\* A multiple of a multiple of the base point.
LEMMA PointsMultiply ==
    ASSUME NEW c \in 0..(L - 1), NEW n \in Nat
    PROVE  Multiple(n, Multiple(c, BasePoint)) = Multiple((n * c) % L, BasePoint)
<1> DEFINE A == Multiple(c, BasePoint)
           T == {m \in Nat : Multiple(m, A) = Multiple((m * c) % L, BasePoint)}
<1>0. L \in Nat \ {0} /\ c \in Nat
  BY CurveAssumption
<1>1. 0 \in T
  <2>1. 0 * c = 0 /\ 0 % L = 0
    BY <1>0
  <2>2. Multiple(0, A) = Neutral /\ Multiple(0, BasePoint) = Neutral
    BY MultiplesStep
  <2> QED BY <2>1, <2>2
<1>2. ASSUME NEW m \in Nat, m \in T PROVE m + 1 \in T
  <2> DEFINE y == m * c
             q == y \div L
             x == y % L
  <2>1. y \in Nat /\ (m + 1) * c = y + c
    BY <1>0
  <2>2. q \in Nat /\ x \in 0..(L - 1) /\ y = L * q + x
    <3> HIDE DEF y
    <3> QED BY <1>0, <2>1
  <2>3. Multiple(m + 1, A) = PointSum(Multiple(x, BasePoint), Multiple(c, BasePoint))
    <3>1. Multiple(m + 1, A) = PointSum(Multiple(m, A), A)
      BY MultiplesStep
    <3> QED BY <1>2, <3>1
  <2> HIDE DEF x, q, y
  <2>4. PointSum(Multiple(x, BasePoint), Multiple(c, BasePoint)) = Multiple((x + c) % L, BasePoint)
    BY <2>2, CurveAssumption
  <2>5. ((m + 1) * c) % L = (x + c) % L
    <3>1. x + c \in Nat
      BY <1>0, <2>2
    <3>2. (L * q + (x + c)) % L = (x + c) % L
      BY <1>0, <2>2, <3>1, Remainders
    <3> DEFINE w == L * q
    <3>3. w \in Nat
      BY <1>0, <2>2
    <3>4. y = w + x
      BY <2>2
    <3> HIDE DEF w
    <3>5. y + c = w + (x + c)
      BY <1>0, <2>1, <2>2, <3>3, <3>4
    <3> QED BY <2>1, <3>2, <3>5 DEF w
  <2> QED BY <2>3, <2>4, <2>5
<1>3. Nat \subseteq T
  <2> HIDE DEF T
  <2> QED BY <1>1, <1>2, NatSetInduction
<1> QED BY <1>3

\* The three elements of a key are those of its number.
LEMMA KeyIsNumber ==
    ASSUME NEW k, Keypairs[k].public \in Nat
    PROVE  PublicNumber(KeyOf(k)) = Keypairs[k].public
<1> DEFINE h == KeyRadix
           n == Keypairs[k].public
           q == n \div h
           x == n % h
           p == q \div h
           y == q % h
<1>0. h \in Nat \ {0}
  BY AdvertsAssumption
<1>1. KeyByte(n, 1) = x /\ KeyByte(n, 2) = y /\ KeyByte(n, 3) = n \div (h * h)
  BY DEF KeyByte
<1>2. PublicNumber(KeyOf(k)) = x + h * y + h * h * (n \div (h * h))
  BY <1>1 DEF PublicNumber, KeyOf
<1> HIDE DEF n, h
<1>3. n \in Nat
  BY DEF n
<1>4. q \in Nat /\ x \in 0..(h - 1) /\ n = h * q + x
  BY <1>0, <1>3
<1> HIDE DEF q, x
<1>5. p \in Nat /\ y \in 0..(h - 1) /\ q = h * p + y
  BY <1>0, <1>4
<1> HIDE DEF p, y
<1>6. h * h \in Nat \ {0} /\ h * y + x \in 0..(h * h - 1)
  <2>1. h - 1 - y \in Nat /\ h * (h - 1 - y) \in Nat /\ h * y \in Nat /\ h * h \in Nat
    BY <1>0, <1>5
  <2>2. h * h = h * y + h + h * (h - 1 - y)
    BY <1>0, <1>5
  <2> DEFINE a == h * y
             b == h * (h - 1 - y)
             c == h * h
  <2>3. a \in Nat /\ b \in Nat /\ c \in Nat /\ c = a + h + b
    BY <2>1, <2>2
  <2> HIDE DEF a, b, c
  <2>4. c \in Nat \ {0} /\ a + x \in 0..(c - 1)
    BY <1>0, <1>4, <2>3
  <2> QED BY <2>4 DEF a, c
<1>7. n = h * h * p + (h * y + x)
  BY <1>0, <1>4, <1>5
<1>8. n \div (h * h) = p
  <2> DEFINE c == h * h
             r == h * y + x
  <2>1. c \in Nat \ {0} /\ r \in 0..(c - 1) /\ n = c * p + r
    BY <1>6, <1>7
  <2> HIDE DEF c, r
  <2>2. n \div c = p
    BY <1>5, <2>1, Quotients
  <2> QED BY <2>2 DEF c
<1>9. x + h * y + h * h * p = h * h * p + (h * y + x)
  BY <1>0, <1>4, <1>5
<1>10. PublicNumber(KeyOf(k)) = n
  BY <1>2, <1>7, <1>8, <1>9
<1> QED BY <1>10 DEF n

----------------------------------------------------------------------------
\* What is assumed of the compression: a digest is a number.
HashIsNumber == \A blocks : HashOf(blocks) \in Nat

\* The public key of an identity is that of its scalar.
LEMMA KeypairPublic ==
    ASSUME NEW k \in 1..MaxKeys, ScalarmultRight
    PROVE  /\ Keypairs[k].scalar \in Nat /\ Keypairs[k].public \in Nat
           /\ Encodes(Keypairs[k].public, Multiple(Keypairs[k].scalar % L, BasePoint))
<1>1. Keypairs[k].public = P3ToBytes(ScalarmultBase(Keypairs[k].scalar))
  BY DEF Keypairs, Keypair
<1>2. Keypairs[k].scalar \in Scalars
  BY DEF Scalars
<1> QED BY <1>1, <1>2 DEF ScalarmultRight

\* A signature with the keys of an identity verifies under its public key.
LEMMA SignatureVerifies ==
    ASSUME NEW k \in 1..MaxKeys, NEW S, NEW message \in Seq(S),
           HashIsNumber, ScalarmultRight
    PROVE  Verifies(Sign(message, KeyOf(k), Keypairs[k]), message, KeyOf(k),
                    PublicNumber(KeyOf(k)))
<1> DEFINE private == Keypairs[k]
           c == private.scalar % L
           A == Multiple(c, BasePoint)
           r == ScReduce(HashOf(Digested(<<<<private.prefix>>, message>>)))
           R == P3ToBytes(ScalarmultBase(r))
           heard == ScReduce(HashOf(PaddedBlocks(<<R>> \o KeyOf(k) \o message)))
           hram == ScReduce(HashOf(Digested(<<<<R>>, KeyOf(k), message>>)))
           s == ScMuladd(hram, private.scalar, r)
<1>0. L \in Nat \ {0}
  BY CurveAssumption
<1>1. private.scalar \in Nat /\ private.public \in Nat /\ Encodes(private.public, A)
  BY KeypairPublic
<1>2. PublicNumber(KeyOf(k)) = private.public
  BY <1>1, KeyIsNumber
<1>3. c \in 0..(L - 1)
  <2> HIDE DEF private
  <2> QED BY <1>0, <1>1
<1>4. r \in 0..(L - 1) /\ hram \in 0..(L - 1)
  <2> DEFINE x == HashOf(Digested(<<<<private.prefix>>, message>>))
             y == HashOf(Digested(<<<<R>>, KeyOf(k), message>>))
  <2>1. x \in Nat /\ y \in Nat
    BY DEF HashIsNumber
  <2>2. r = x % L /\ hram = y % L
    BY DEF ScReduce
  <2> HIDE DEF x, y, r, hram
  <2> QED BY <1>0, <2>1, <2>2
<1>5. Encodes(R, Multiple(r, BasePoint))
  <2>1. r \in Scalars
    <3> HIDE DEF r
    <3> QED BY <1>4 DEF Scalars
  <2>2. Encodes(R, Multiple(r % L, BasePoint))
    <3> HIDE DEF r
    <3> QED BY <2>1 DEF ScalarmultRight
  <2>3. r % L = r
    <3> HIDE DEF r
    <3> QED BY <1>0, <1>4
  <2> QED BY <2>2, <2>3
<1>6. hram = heard
  <2> DEFINE a == KeyByte(Keypairs[k].public, 1)
             b == KeyByte(Keypairs[k].public, 2)
             d == KeyByte(Keypairs[k].public, 3)
             T == S \cup Int \cup {R, a, b, d}
  <2>1. <<R>> \in Seq(T)
    <3>1. R \in T
      OBVIOUS
    <3> HIDE DEF T, R
    <3> QED BY <3>1
  <2>2. KeyOf(k) \in Seq(T)
    <3>1. KeyOf(k) = <<a, b, d>> /\ a \in T /\ b \in T /\ d \in T
      BY DEF KeyOf
    <3> HIDE DEF T, a, b, d
    <3> QED BY <3>1
  <2>3. message \in Seq(T)
    <3>1. S \subseteq T
      OBVIOUS
    <3> HIDE DEF T
    <3> QED BY <3>1, SeqWider
  <2>4. Int \subseteq T
    OBVIOUS
  <2> HIDE DEF T, R
  <2>5. Digested(<<<<R>>, KeyOf(k), message>>) = PaddedBlocks(<<R>> \o KeyOf(k) \o message)
    BY <2>1, <2>2, <2>3, <2>4, DigestOfPieces
  <2> QED BY <2>5
<1>7. Sign(message, KeyOf(k), private) = <<R, s>>
  BY DEF Sign
<1> HIDE DEF R, r, hram, heard, A
<1>8. s = (((hram * c) % L) + r) % L
  <2> DEFINE y == hram * c
             q == y \div L
             x == y % L
             w == L * q
  <2>1. hram % L = hram
    BY <1>0, <1>4
  <2>2. s = (y + r) % L
    <3> HIDE DEF c
    <3>1. s = (((hram % L) * c) + r) % L
      BY DEF ScMuladd, c
    <3> QED BY <2>1, <3>1
  <2> HIDE DEF c, s
  <2>3. y \in Nat
    BY <1>3, <1>4
  <2>4. q \in Nat /\ x \in 0..(L - 1) /\ y = w + x
    <3> HIDE DEF y
    <3> QED BY <1>0, <2>3
  <2>5. (w + (x + r)) % L = (x + r) % L
    <3>1. x + r \in Nat
      <4> HIDE DEF x
      <4> QED BY <1>4, <2>4
    <3> HIDE DEF x, q
    <3> QED BY <1>0, <2>4, <3>1, Remainders
  <2>6. y + r = w + (x + r)
    <3>1. w \in Nat
      <4> HIDE DEF q
      <4> QED BY <1>0, <2>4
    <3> HIDE DEF x, y, w
    <3> QED BY <1>4, <2>4, <3>1
  <2> HIDE DEF w, x, y, q
  <2>7. s = (x + r) % L
    BY <2>2, <2>5, <2>6
  <2> QED BY <2>7 DEF x, y
<1>9. Multiple(s, BasePoint) = PointSum(Multiple(r, BasePoint), Multiple(heard, A))
  <2> DEFINE x == (hram * c) % L
  <2>1. Multiple(heard, A) = Multiple(x, BasePoint)
    <3>1. hram \in Nat
      BY <1>4
    <3> HIDE DEF c
    <3> QED BY <1>3, <1>6, <3>1, PointsMultiply DEF A
  <2>2. x \in 0..(L - 1)
    <3> DEFINE y == hram * c
    <3>1. y \in Nat
      <4> HIDE DEF c
      <4> QED BY <1>3, <1>4
    <3> HIDE DEF y, c
    <3>2. y % L \in 0..(L - 1)
      BY <1>0, <3>1
    <3> QED BY <3>2 DEF y
  <2>3. s = (x + r) % L
    BY <1>8
  <2> HIDE DEF x, s, c
  <2>4. x + r = r + x
    BY <1>4, <2>2
  <2>5. Multiple((r + x) % L, BasePoint)
           = PointSum(Multiple(r, BasePoint), Multiple(x, BasePoint))
    BY <1>4, <2>2, CurveAssumption
  <2> QED BY <2>1, <2>3, <2>4, <2>5
<1>10. A \in Group /\ Multiple(r, BasePoint) \in Group
  <2> HIDE DEF c
  <2> QED BY <1>3, <1>4 DEF Group, A
<1> HIDE DEF c, s, private
<1>11. Encodes(PublicNumber(KeyOf(k)), A)
  BY <1>1, <1>2
<1>12. Verifies(<<R, s>>, message, KeyOf(k), PublicNumber(KeyOf(k)))
  <2>1. <<R, s>>[1] = R /\ <<R, s>>[2] = s
    OBVIOUS
  <2> QED BY <1>5, <1>9, <1>10, <1>11, <2>1 DEF Verifies, heard
<1> QED BY <1>7, <1>12 DEF private

\* Over any restarts, location commands and relays, for any number of identities,
\* any block size and any curve whose base point has the order L, the advert of
\* this node verifies under the key in it, and that key begins with the hash by
\* which the node forwards; given that the table of precomp_data.h and the digits
\* of a scalar come to its multiple of the base point.
THEOREM AdvertsVerify ==
    HashIsNumber /\ ScalarmultRight => (AdvertSpec => []AdvertVerifies)
<1> SUFFICES ASSUME HashIsNumber, ScalarmultRight
             PROVE  AdvertSpec => []AdvertVerifies
  OBVIOUS
<1>1. ASSUME AdvertInv, made # <<>> PROVE AdvertVerifies
  <2>1. PICK k \in 1..MaxKeys :
           /\ made[1].nodeHash = KeyByte(Keypairs[k].public, 1)
           /\ sent.payload = AdvertOf(k, made[1].time, made[1].location)
    BY <1>1 DEF AdvertInv, OwnAdvert
  <2> DEFINE time == made[1].time
             l == made[1].location
             signature == SignedFor(k, time, l)
             message == KeyOf(k) \o <<time>> \o DataAt(l)
  <2>2. PICK S : PayloadParts(AdvertOf(k, time, l), S, KeyOf(k), time, signature, DataAt(l))
    BY AdvertHasParts
  <2>3. PICK p \in Heard(frame) : p.payload = sent.payload
    <3>1. Heard(frame) = {Travelled} /\ Travelled.payload = sent.payload
      BY <1>1 DEF AdvertInv, RelayInv, Passed, Travelled, Packets
    <3> QED BY <3>1
  <2>4. /\ AdvertKey(p) = KeyOf(k) /\ AdvertTime(p) = time
        /\ AdvertSignature(p) = signature /\ AdvertData(p) = DataAt(l)
    BY <2>1, <2>2, <2>3 DEF AdvertKey, AdvertTime, AdvertSignature, AdvertData, From, PayloadParts
  <2>5. AdvertKey(p)[1] = made[1].nodeHash
    BY <2>1, <2>4 DEF KeyOf
  <2>6. \E T : message \in Seq(T)
    <3> DEFINE a == KeyByte(Keypairs[k].public, 1)
               b == KeyByte(Keypairs[k].public, 2)
               c == KeyByte(Keypairs[k].public, 3)
               V == Int \cup {Latitude[l[2]], Longitude[l[2]]}
               T == V \cup {a, b, c, time}
    <3>1. KeyOf(k) \in Seq(T)
      <4>1. KeyOf(k) = <<a, b, c>> /\ a \in T /\ b \in T /\ c \in T
        BY DEF KeyOf
      <4> HIDE DEF T, a, b, c
      <4> QED BY <4>1
    <3>2. <<time>> \in Seq(T)
      <4>1. time \in T
        OBVIOUS
      <4> HIDE DEF T, time
      <4> QED BY <4>1
    <3>3. DataAt(l) \in Seq(T)
      <4>1. DataAt(l) \in Seq(V) /\ V \subseteq T
        BY DataTyped
      <4> HIDE DEF T, V, l
      <4> QED BY <4>1, SeqWider
    <3> HIDE DEF T, time, l
    <3>4. message \in Seq(T)
      BY <3>1, <3>2, <3>3
    <3> QED BY <3>4
  <2>7. Verifies(signature, message, KeyOf(k), PublicNumber(KeyOf(k)))
    BY <2>6, SignatureVerifies DEF SignedFor
  <2> QED BY <2>3, <2>4, <2>5, <2>7 DEF AdvertVerifies
<1>2. AdvertInv => AdvertVerifies
  BY <1>1 DEF AdvertVerifies
<1> QED BY <1>2, AdvertInvariant, PTL

=============================================================================
