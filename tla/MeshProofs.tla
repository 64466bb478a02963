----------------------------- MODULE MeshProofs -----------------------------
(***************************************************************************)
(* For every mesh, whatever its links, hashes, caches and losses: floods   *)
(* do not loop, routed packets follow their hops, and no repeater forwards *)
(* a packet twice.                                                         *)
(***************************************************************************)
EXTENDS Mesh, SequenceTheorems, FiniteSetTheorems, TLAPS

\* What is true of each packet held.
Legit(p) == LoopFree(p) /\ HopsFollowed(p)
HeldLegit == \A r \in Repeaters : \A p \in Held(r) : Legit(p)

IInv == TypeOK /\ HeldLegit

\* Nobody un-forwards a packet.
ForwardsGrow ==
    \A r \in Repeaters, i \in Ids : forwards[r][i] > 0 => forwards'[r][i] > 0

LEMMA PathFacts ==
    ASSUME NEW S, NEW path \in Path(S)
    PROVE  /\ path \in Seq(S) /\ Len(path) \in 0..MaxPathLength
           /\ path # <<>> => Tail(path) \in Path(S)
           /\ Len(path) < MaxPathLength => \A s \in S : Append(path, s) \in Path(S)
<1>1. path \in Seq(S) /\ Len(path) \in 0..MaxPathLength
  BY MeshAssumption, LenProperties DEF Path
<1>2. ASSUME path # <<>> PROVE Tail(path) \in Path(S)
  <2>1. Tail(path) \in Seq(S) /\ Len(Tail(path)) = Len(path) - 1
    BY <1>1, <1>2, HeadTailProperties
  <2> QED BY <1>1, <2>1, MeshAssumption DEF Path
<1>3. ASSUME NEW s \in S, Len(path) < MaxPathLength
      PROVE  Append(path, s) \in Path(S)
  <2>1. Append(path, s) \in Seq(S) /\ Len(Append(path, s)) = Len(path) + 1
    BY <1>1, AppendProperties
  <2> QED BY <1>1, <1>3, <2>1, MeshAssumption DEF Path
<1> QED BY <1>1, <1>2, <1>3

\* Receiving and transmitting leave a repeater with packets it held, or were
\* handed.
LEMMA BroadcastHeld ==
    ASSUME TypeOK, NEW s, NEW p \in Packet, Broadcast(s, p)
    PROVE  /\ rxQueue' \in [Repeaters -> Seq(Packet)]
           /\ \A r \in Repeaters : Len(rxQueue'[r]) <= QueueSize
           /\ \A r \in Repeaters : \A i \in DOMAIN rxQueue'[r] :
                 \/ rxQueue'[r][i] = p
                 \/ i \in DOMAIN rxQueue[r] /\ rxQueue'[r][i] = rxQueue[r][i]
<1>0. QueueSize \in Nat
  BY MeshAssumption
<1>1. PICK heard : rxQueue' = [r \in Repeaters |-> IF r \in heard THEN Enqueue(rxQueue[r], p)
                                                       ELSE rxQueue[r]]
  BY DEF Broadcast
<1>2. ASSUME NEW q \in Seq(Packet), Len(q) <= QueueSize
      PROVE  /\ Enqueue(q, p) \in Seq(Packet) /\ Len(Enqueue(q, p)) <= QueueSize
             /\ \A i \in DOMAIN Enqueue(q, p) :
                  \/ Enqueue(q, p)[i] = p
                  \/ i \in DOMAIN q /\ Enqueue(q, p)[i] = q[i]
  <2>1. CASE Len(q) < QueueSize
    <3>1. Enqueue(q, p) = Append(q, p)
      BY <2>1 DEF Enqueue
    <3>2. /\ Append(q, p) \in Seq(Packet)
          /\ Len(Append(q, p)) = Len(q) + 1
          /\ \A i \in 1..Len(q) : Append(q, p)[i] = q[i]
          /\ Append(q, p)[Len(q) + 1] = p
      BY AppendProperties
    <3>3. Len(q) \in Nat /\ DOMAIN q = 1..Len(q)
      BY LenProperties
    <3>4. DOMAIN Append(q, p) = 1..(Len(q) + 1)
      BY <3>2, LenProperties
    <3> QED BY <1>0, <2>1, <3>1, <3>2, <3>3, <3>4
  <2>2. CASE ~ (Len(q) < QueueSize)
    BY <1>2, <2>2 DEF Enqueue
  <2> QED BY <2>1, <2>2
<1>3. ASSUME NEW r \in Repeaters
      PROVE  /\ rxQueue[r] \in Seq(Packet) /\ Len(rxQueue[r]) <= QueueSize
             /\ rxQueue'[r] = Enqueue(rxQueue[r], p) \/ rxQueue'[r] = rxQueue[r]
  BY <1>1 DEF TypeOK
<1>4. ASSUME NEW r \in Repeaters PROVE rxQueue'[r] \in Seq(Packet)
  BY <1>2, <1>3
<1> QED BY <1>1, <1>2, <1>3, <1>4

\* A packet held by a well-typed mesh is a packet.
LEMMA HeldPackets ==
    ASSUME TypeOK, NEW r \in Repeaters, NEW p \in Held(r)
    PROVE  p \in Packet
<1>1. CASE p \in pending[r]
  BY <1>1 DEF TypeOK
<1>2. CASE p \in {rxQueue[r][i] : i \in DOMAIN rxQueue[r]}
  <2>1. PICK i \in DOMAIN rxQueue[r] : p = rxQueue[r][i]
    BY <1>2
  <2>2. rxQueue[r] \in Seq(Packet)
    BY DEF TypeOK
  <2> QED BY <2>1, <2>2
<1> QED BY <1>1, <1>2 DEF Held

LEMMA OriginalLegit ==
    ASSUME NEW o \in Originals
    PROVE  o \in Packet /\ Legit(o)
<1>1. o \in Packet /\ (o.route = "DIRECT" => o.path = o.hops)
                   /\ (o.route # "DIRECT" => o.path = <<>>)
  BY MeshAssumption
<1>2. o.hops \in Seq(Hashes)
  BY <1>1 DEF Packet
<1>3. o.hops \in Seq(Hashes) /\ Len(o.hops) \in Nat
  BY <1>2, LenProperties
<1>4. o.route = "DIRECT" => HopsDone(o) = 0
  BY <1>1, <1>3 DEF HopsDone
<1>5. o.route # "DIRECT" => HopsDone(o) = 0
  BY <1>1, <1>3 DEF HopsDone
<1>6. HopsFollowed(o)
  BY <1>1, <1>3, <1>4, <1>5 DEF HopsFollowed
<1>7. LoopFree(o)
  BY <1>1 DEF LoopFree
<1> QED BY <1>1, <1>6, <1>7 DEF Legit

\* A legitimate packet stays one while forwards grows.
LEMMA LegitLater ==
    ASSUME NEW p \in Packet, Legit(p), ForwardsGrow
    PROVE  Legit(p)'
<1>1. p.id \in Ids
  BY DEF Packet
<1>2. LoopFree(p)' /\ HopsDone(p)' = HopsDone(p)
  BY DEF Legit, LoopFree, HopsDone
<1>3. \A q \in Repeaters : forwards[q][p.id] > 0 => forwards'[q][p.id] > 0
  BY <1>1 DEF ForwardsGrow
<1>4. ASSUME p.route # "FLOOD", NEW k \in 1..HopsDone(p)
      PROVE  \E q \in Repeaters : HashOf[q] = p.hops[k] /\ forwards'[q][p.id] > 0
  <2>1. PICK q \in Repeaters : HashOf[q] = p.hops[k] /\ forwards[q][p.id] > 0
    BY <1>4, Zenon DEF Legit, HopsFollowed
  <2> QED BY <1>3, <2>1, Zenon
<1>5. HopsFollowed(p)'
  BY <1>2, <1>4, Zenon DEF Legit, HopsFollowed
<1> QED BY <1>2, <1>5, Zenon DEF Legit

\* What a repeater sends on is a packet, and legitimate once taken up.
LEMMA HopLegit ==
    ASSUME NEW r \in Repeaters, NEW p \in Packet, TakesUp(r, p), Legit(p),
           ForwardsGrow, forwards'[r][p.id] > 0
    PROVE  Hop(r, p) \in Packet /\ Legit(Hop(r, p))'
<1>0. HashOf[r] \in Hashes /\ MaxPathLength \in Nat /\ Snr \in Hashes \cup {Snr}
  BY MeshAssumption
<1>1. /\ p.path \in Path(Hashes \cup {Snr}) /\ p.hops \in Seq(Hashes)
      /\ p.id \in Ids /\ p.from \in Stations
      /\ p.route \in {"FLOOD", "DIRECT", "TRACE"}
  BY DEF Packet
<1>2. /\ p.path \in Seq(Hashes \cup {Snr}) /\ Len(p.path) \in 0..MaxPathLength
      /\ p.hops \in Seq(Hashes) /\ Len(p.hops) \in Nat
  BY <1>1, PathFacts, LenProperties
<1> DEFINE n == Len(p.path)
           l == Len(p.hops)
<1>a. n \in Nat /\ l \in Nat /\ DOMAIN p.path = 1..n
  BY <1>2, LenProperties
<1>3. PICK h : h = Hop(r, p)
  OBVIOUS
<1>4. /\ h.id = p.id /\ h.from = p.from /\ h.route = p.route /\ h.hops = p.hops
      /\ h = [id |-> h.id, from |-> h.from, route |-> h.route,
              path |-> h.path, hops |-> h.hops]
  BY <1>3 DEF Hop, Packet
<1>5. CASE p.route = "FLOOD"
  <2>1. h.path = Append(p.path, HashOf[r])
    BY <1>3, <1>5 DEF Hop, AddNodeToPath, Packet
  <2>2. Len(p.path) < MaxPathLength /\ ~ Contains(p.path, HashOf[r])
    BY <1>5 DEF TakesUp, FloodCheck
  <2>3. h.path \in Path(Hashes \cup {Snr})
    <3>1. HashOf[r] \in Hashes \cup {Snr}
      BY <1>0
    <3>2. \A hash \in Hashes \cup {Snr} :
             Append(p.path, hash) \in Path(Hashes \cup {Snr})
      BY <1>1, <2>2, PathFacts
    <3> QED BY <2>1, <3>1, <3>2
  <2>4. /\ DOMAIN h.path = 1..(Len(p.path) + 1)
        /\ \A i \in 1..Len(p.path) : h.path[i] = p.path[i]
        /\ h.path[Len(p.path) + 1] = HashOf[r]
    BY <1>0, <1>2, <2>1
  <2>5. \A i \in 1..Len(p.path) : p.path[i] # HashOf[r]
    BY <1>2, <2>2 DEF Contains
  <2>6. \A i, j \in 1..Len(p.path) : i # j => p.path[i] # p.path[j]
    BY <1>a, <1>5 DEF Legit, LoopFree
  <2>7. LoopFree(h)
    BY <1>2, <2>4, <2>5, <2>6 DEF LoopFree
  <2>8. h \in Packet
    BY <1>1, <1>4, <2>3 DEF Packet
  <2> QED BY <1>3, <1>4, <1>5, <2>7, <2>8 DEF Legit, LoopFree, HopsFollowed
<1>6. CASE p.route = "DIRECT"
  <2>1. h.path = Tail(p.path)
    BY <1>3, <1>6 DEF Hop, Packet
  <2>2. p.path # <<>> /\ Head(p.path) = HashOf[r]
    BY <1>6 DEF TakesUp, DirectCheck
  <2>3. h.path \in Path(Hashes \cup {Snr})
    BY <1>1, <2>1, <2>2, PathFacts
  <2>4. /\ Len(p.path) >= 1 /\ Len(h.path) = Len(p.path) - 1
        /\ \A i \in 1..Len(h.path) : h.path[i] = p.path[i + 1]
        /\ p.path[1] = HashOf[r]
    BY <1>2, <2>1, <2>2, HeadTailProperties
  <2>5. HopsDone(p) \in 0..l /\ HopsDone(p) = l - n
    BY <1>6 DEF HopsDone, Legit, HopsFollowed
  <2>5a. HopsDone(h) = l - Len(h.path)
    BY <1>4, <1>6 DEF HopsDone
  <2> HIDE DEF n, l
  <2>5b. HopsDone(h) = HopsDone(p) + 1 /\ HopsDone(p) \in Nat
    BY <1>a, <2>4, <2>5, <2>5a DEF n
  <2>6. \A k \in 1..n : p.path[k] = p.hops[HopsDone(p) + k]
    BY <1>6 DEF Legit, HopsFollowed, n
  <2>7. \A k \in 1..Len(h.path) : h.path[k] = h.hops[HopsDone(h) + k]
    <3> SUFFICES ASSUME NEW k \in 1..Len(h.path)
                 PROVE  h.path[k] = h.hops[HopsDone(h) + k]
      OBVIOUS
    <3>1. k + 1 \in 1..n /\ h.path[k] = p.path[k + 1]
      BY <1>a, <2>4 DEF n
    <3>2. HopsDone(p) + (k + 1) = HopsDone(h) + k
      BY <2>5b
    <3> QED BY <1>4, <2>6, <3>1, <3>2
  <2>8. HashOf[r] = h.hops[HopsDone(h)]
    <3>1. 1 \in 1..n
      BY <1>a, <2>4 DEF n
    <3> QED BY <1>4, <2>4, <2>5b, <2>6, <3>1
  <2>9. \A k \in 1..HopsDone(p) :
           \E q \in Repeaters : HashOf[q] = p.hops[k] /\ forwards[q][p.id] > 0
    BY <1>6 DEF Legit, HopsFollowed
  <2>10. \A k \in 1..HopsDone(h) :
           \E q \in Repeaters : HashOf[q] = h.hops[k] /\ forwards'[q][h.id] > 0
    <3> SUFFICES ASSUME NEW k \in 1..HopsDone(h)
                 PROVE  \E q \in Repeaters : HashOf[q] = h.hops[k] /\ forwards'[q][h.id] > 0
      OBVIOUS
    <3>1. CASE k = HopsDone(h)
      BY <1>4, <2>8, <3>1
    <3>2. CASE k # HopsDone(h)
      <4>1. k \in 1..HopsDone(p)
        BY <2>5b, <3>2
      <4> QED BY <1>1, <1>4, <2>9, <4>1 DEF ForwardsGrow
    <3> QED BY <3>1, <3>2
  <2>10a. HopsDone(h) \in 0..l
    BY <1>a, <2>4, <2>5, <2>5b DEF n
  <2>11. HopsFollowed(h)'
    BY <1>4, <2>7, <2>10, <2>10a DEF HopsFollowed, HopsDone, l
  <2>12. h \in Packet
    BY <1>1, <1>4, <2>3 DEF Packet
  <2> QED BY <1>3, <1>4, <1>6, <2>11, <2>12 DEF Legit, LoopFree
<1>7. CASE p.route = "TRACE"
  <2>1. h.path = Append(p.path, Snr)
    BY <1>3, <1>7 DEF Hop, Packet
  <2>2. /\ Len(p.path) < Len(p.hops) /\ p.hops[Len(p.path) + 1] = HashOf[r]
        /\ Len(p.path) < MaxPathLength
    BY <1>7 DEF TakesUp, TraceCheck
  <2>3. h.path \in Path(Hashes \cup {Snr})
    BY <1>0, <1>1, <1>2, <2>1, <2>2, PathFacts
  <2>4. Len(h.path) = Len(p.path) + 1
    BY <1>0, <1>2, <2>1, AppendProperties
  <2>5. \A k \in 1..Len(p.path) :
           \E q \in Repeaters : HashOf[q] = p.hops[k] /\ forwards[q][p.id] > 0
    BY <1>7 DEF Legit, HopsFollowed, HopsDone
  <2>6. \A k \in 1..Len(h.path) :
           \E q \in Repeaters : HashOf[q] = h.hops[k] /\ forwards'[q][h.id] > 0
    <3>1. ASSUME NEW k \in 1..Len(h.path)
          PROVE  \E q \in Repeaters : HashOf[q] = p.hops[k] /\ forwards'[q][p.id] > 0
      <4>1. CASE k = Len(p.path) + 1
        BY <2>2, <4>1
      <4>2. CASE k # Len(p.path) + 1
        <5>1. k \in 1..Len(p.path)
          BY <1>2, <2>4, <3>1, <4>2
        <5>2. PICK q \in Repeaters : HashOf[q] = p.hops[k] /\ forwards[q][p.id] > 0
          BY <2>5, <5>1
        <5> QED BY <1>1, <5>2 DEF ForwardsGrow
      <4> QED BY <4>1, <4>2
    <3> QED BY <1>4, <3>1
  <2>7. HopsFollowed(h)'
    BY <1>2, <1>4, <1>7, <2>2, <2>4, <2>6 DEF HopsFollowed, HopsDone
  <2>8. h \in Packet
    BY <1>1, <1>4, <2>3 DEF Packet
  <2> QED BY <1>3, <1>4, <1>7, <2>7, <2>8 DEF Legit, LoopFree
<1> QED BY <1>1, <1>5, <1>6, <1>7

\* A step keeps the invariant if every packet held after it was held before or
\* is legitimate.
LEMMA HeldStep ==
    ASSUME IInv, TypeOK', ForwardsGrow,
           \A r \in Repeaters : \A p \in Held(r)' : p \in Held(r) \/ Legit(p)'
    PROVE  IInv'
<1> SUFFICES ASSUME NEW r \in Repeaters, NEW p \in Held(r)' PROVE Legit(p)'
  BY DEF IInv, HeldLegit
<1>1. CASE p \in Held(r)
  <2>1. p \in Packet /\ Legit(p)
    BY <1>1, HeldPackets DEF IInv, HeldLegit
  <2> QED BY <2>1, LegitLater
<1> QED BY <1>1

\* A broadcast of p hands out nothing but p.
LEMMA BroadcastStep ==
    ASSUME IInv, NEW s, NEW p \in Packet, Broadcast(s, p), Legit(p),
           unsent' \subseteq Originals, seen' = seen, forwards' = forwards,
           pending' \in [Repeaters -> SUBSET Packet],
           \A r \in Repeaters : pending'[r] \subseteq pending[r]
    PROVE  IInv'
<1>1. TypeOK
  BY DEF IInv
<1>2. /\ rxQueue' \in [Repeaters -> Seq(Packet)]
      /\ \A r \in Repeaters : Len(rxQueue'[r]) <= QueueSize
      /\ \A r \in Repeaters : \A i \in DOMAIN rxQueue'[r] :
            \/ rxQueue'[r][i] = p
            \/ i \in DOMAIN rxQueue[r] /\ rxQueue'[r][i] = rxQueue[r][i]
  BY <1>1, BroadcastHeld
<1>3. TypeOK'
  BY <1>1, <1>2 DEF TypeOK
<1>4. ForwardsGrow
  BY DEF ForwardsGrow
<1>5. Legit(p)'
  BY <1>4, LegitLater
<1>6. ASSUME NEW r \in Repeaters, NEW q \in Held(r)'
      PROVE  q \in Held(r) \/ Legit(q)'
  <2>1. CASE q \in pending'[r]
    BY <2>1 DEF Held
  <2>2. CASE q \in {rxQueue'[r][i] : i \in DOMAIN rxQueue'[r]}
    <3>1. PICK i \in DOMAIN rxQueue'[r] : q = rxQueue'[r][i]
      BY <2>2
    <3>2. q = p \/ q \in Held(r)
      BY <1>2, <3>1 DEF Held
    <3> QED BY <1>5, <3>2
  <2> QED BY <2>1, <2>2 DEF Held
<1> QED BY <1>3, <1>4, <1>6, HeldStep

LEMMA ReceiveStep ==
    ASSUME IInv, NEW s \in Repeaters, Receive(s)
    PROVE  IInv'
<1>1. TypeOK
  BY DEF IInv
<1>2. PICK p : p = Head(rxQueue[s])
  OBVIOUS
<1>3. rxQueue[s] \in Seq(Packet) /\ rxQueue[s] # <<>> /\ Len(rxQueue[s]) <= QueueSize
  BY <1>1 DEF TypeOK, Receive
<1>4. /\ p \in Packet /\ p = rxQueue[s][1] /\ 1 \in DOMAIN rxQueue[s]
      /\ Tail(rxQueue[s]) \in Seq(Packet)
      /\ Len(Tail(rxQueue[s])) = Len(rxQueue[s]) - 1 /\ Len(rxQueue[s]) \in Nat
      /\ DOMAIN Tail(rxQueue[s]) = 1..(Len(rxQueue[s]) - 1)
      /\ DOMAIN rxQueue[s] = 1..Len(rxQueue[s])
      /\ \A i \in 1..(Len(rxQueue[s]) - 1) : Tail(rxQueue[s])[i] = rxQueue[s][i + 1]
  BY <1>2, <1>3, HeadTailProperties, LenProperties, EmptySeq
<1>5. p \in Held(s) /\ Legit(p)
  BY <1>4 DEF IInv, HeldLegit, Held
<1>6. p.id \in Ids /\ Ids \subseteq Nat
  BY <1>4, MeshAssumption DEF Packet
<1>7. /\ rxQueue' = [rxQueue EXCEPT ![s] = Tail(@)]
      /\ unsent' = unsent
      /\ \/ UNCHANGED <<seen, pending, forwards>>
         \/ Remember(s, PacketHash(p)) /\ UNCHANGED <<pending, forwards>>
         \/ Remember(s, PacketHash(p)) /\ TakesUp(s, p) /\ TakeUp(s, p)
  BY <1>2 DEF Receive
<1>8. /\ seen' \in [Repeaters -> Seq(Seq(Nat))]
      /\ \A r \in Repeaters : Len(seen'[r]) <= CacheSize
  <2>1. CASE seen' = seen
    BY <1>1, <2>1 DEF TypeOK
  <2>2. CASE Remember(s, PacketHash(p))
    <3>1. PacketHash(p) \in Seq(Nat)
      <4>1. p.path \in Path(Hashes \cup {Snr})
        BY <1>4 DEF Packet
      <4>2. Len(p.path) \in Nat
        BY <4>1, PathFacts
      <4>3. PICK id, n : id = p.id /\ n = Len(p.path)
        OBVIOUS
      <4>4. id \in Nat /\ n \in Nat
        BY <1>6, <4>2, <4>3
      <4>5. <<id>> \in Seq(Nat) /\ <<id, n>> \in Seq(Nat)
        BY <4>4
      <4> QED BY <4>3, <4>5 DEF PacketHash
    <3>2. seen[s] \in Seq(Seq(Nat)) /\ Len(seen[s]) <= CacheSize
      BY <1>1 DEF TypeOK
    <3>3. PICK all : all = Append(seen[s], PacketHash(p))
      OBVIOUS
    <3>4. all \in Seq(Seq(Nat)) /\ Len(all) = Len(seen[s]) + 1 /\ Len(seen[s]) \in Nat
      BY <3>1, <3>2, <3>3, AppendProperties, LenProperties
    <3>5. Tail(all) \in Seq(Seq(Nat)) /\ Len(Tail(all)) = Len(all) - 1
      BY <3>4, HeadTailProperties, EmptySeq
    <3>6. seen' = [seen EXCEPT ![s] = IF Len(all) > CacheSize THEN Tail(all) ELSE all]
      BY <2>2, <3>3 DEF Remember
    <3> QED BY <1>1, <3>2, <3>4, <3>5, <3>6, MeshAssumption DEF TypeOK
  <2> QED BY <1>7, <2>1, <2>2
<1>9. /\ rxQueue' \in [Repeaters -> Seq(Packet)]
      /\ \A r \in Repeaters : Len(rxQueue'[r]) <= QueueSize
  BY <1>1, <1>3, <1>4, <1>7, MeshAssumption DEF TypeOK
<1>10. ASSUME NEW r \in Repeaters, NEW i \in DOMAIN rxQueue'[r]
       PROVE  rxQueue'[r][i] \in {rxQueue[r][j] : j \in DOMAIN rxQueue[r]}
  <2>1. CASE r = s
    <3>1. rxQueue'[r] = Tail(rxQueue[s])
      BY <1>1, <1>7, <2>1 DEF TypeOK
    <3>2. i \in 1..(Len(rxQueue[s]) - 1) /\ i + 1 \in 1..Len(rxQueue[s])
      BY <1>4, <3>1
    <3> QED BY <1>4, <2>1, <3>1, <3>2
  <2>2. CASE r # s
    BY <1>1, <1>7, <2>2 DEF TypeOK
  <2> QED BY <2>1, <2>2
<1>11. CASE UNCHANGED <<pending, forwards>>
  <2>1. TypeOK' /\ ForwardsGrow
    BY <1>1, <1>7, <1>8, <1>9, <1>11 DEF TypeOK, ForwardsGrow
  <2>2. \A r \in Repeaters : \A q \in Held(r)' : q \in Held(r)
    BY <1>10, <1>11 DEF Held
  <2> QED BY <2>1, <2>2, HeldStep
<1>12. CASE TakesUp(s, p) /\ TakeUp(s, p)
  <2>1. /\ forwards' = [forwards EXCEPT ![s][p.id] = IF @ < 2 THEN @ + 1 ELSE 2]
        /\ pending' = [pending EXCEPT ![s] = @ \cup {Hop(s, p)}]
    BY <1>12 DEF TakeUp
  <2>2. forwards \in [Repeaters -> [Ids -> 0..2]]
    BY <1>1 DEF TypeOK
  <2>3. \A r \in Repeaters, i \in Ids :
           forwards'[r][i] = IF r = s /\ i = p.id
                             THEN (IF forwards[r][i] < 2 THEN forwards[r][i] + 1 ELSE 2)
                             ELSE forwards[r][i]
    BY <1>6, <2>1, <2>2
  <2>3a. \A r \in Repeaters, i \in Ids : forwards[r][i] \in 0..2
    BY <2>2
  <2>4. ForwardsGrow /\ forwards'[s][p.id] > 0
    <3>1. ASSUME NEW r \in Repeaters, NEW i \in Ids
          PROVE  /\ forwards[r][i] > 0 => forwards'[r][i] > 0
                 /\ r = s /\ i = p.id => forwards'[r][i] > 0
      <4>1. PICK n \in 0..2 : n = forwards[r][i]
        BY <2>3a
      <4>2. forwards'[r][i] = IF r = s /\ i = p.id
                              THEN (IF n < 2 THEN n + 1 ELSE 2) ELSE n
        BY <2>3, <4>1
      <4> QED BY <4>1, <4>2
    <3> QED BY <1>6, <3>1 DEF ForwardsGrow
  <2>5. Hop(s, p) \in Packet /\ Legit(Hop(s, p))'
    BY <1>4, <1>5, <1>12, <2>4, HopLegit
  <2>6. forwards' \in [Repeaters -> [Ids -> 0..2]]
    <3>1. PICK taken : taken = IF forwards[s][p.id] < 2 THEN forwards[s][p.id] + 1 ELSE 2
      OBVIOUS
    <3>2. taken \in 0..2
      <4>1. PICK n \in 0..2 : n = forwards[s][p.id]
        BY <1>6, <2>3a
      <4> QED BY <3>1, <4>1
    <3>3. forwards' = [forwards EXCEPT ![s] = [forwards[s] EXCEPT ![p.id] = taken]]
      BY <2>1, <2>2, <3>1
    <3>4. [forwards[s] EXCEPT ![p.id] = taken] \in [Ids -> 0..2]
      BY <2>2, <3>2
    <3> QED BY <2>2, <3>3, <3>4
  <2>7. pending' \in [Repeaters -> SUBSET Packet]
    BY <1>1, <2>1, <2>5 DEF TypeOK
  <2>8. TypeOK'
    BY <1>1, <1>7, <1>8, <1>9, <2>6, <2>7 DEF TypeOK
  <2>9. PICK h : h = Hop(s, p)
    OBVIOUS
  <2>10. Legit(h)'
    BY <2>5, <2>9
  <2>11. \A r \in Repeaters : \A q \in pending'[r] : q \in pending[r] \/ q = h
    BY <1>1, <2>1, <2>9 DEF TypeOK
  <2>12. \A r \in Repeaters : \A q \in Held(r)' : q \in Held(r) \/ Legit(q)'
    BY <1>10, <2>10, <2>11 DEF Held
  <2> QED BY <2>4, <2>8, <2>12, HeldStep
<1> QED BY <1>7, <1>11, <1>12

LEMMA MeshInductive == IInv /\ [Next]_vars => IInv'
<1> SUFFICES ASSUME IInv, [Next]_vars PROVE IInv'
  OBVIOUS
<1>1. TypeOK
  BY DEF IInv
<1>2. ASSUME NEW o \in Originals, Originate(o) PROVE IInv'
  <2>1. o \in Packet /\ Legit(o)
    BY OriginalLegit
  <2>2. pending' \in [Repeaters -> SUBSET Packet]
    BY <1>1, <1>2 DEF TypeOK, Originate
  <2> QED BY <1>1, <1>2, <2>1, <2>2, BroadcastStep DEF Originate, TypeOK
<1>3. ASSUME NEW r \in Repeaters, Receive(r) PROVE IInv'
  BY <1>3, ReceiveStep
<1>4. ASSUME NEW r \in Repeaters, Transmit(r) PROVE IInv'
  <2>1. PICK p \in pending[r] : pending' = [pending EXCEPT ![r] = @ \ {p}]
                                /\ Broadcast(r, p)
    BY <1>4 DEF Transmit
  <2>2. p \in Packet /\ Legit(p)
    BY <1>1, HeldPackets DEF IInv, HeldLegit, Held
  <2>3. /\ pending' \in [Repeaters -> SUBSET Packet]
        /\ \A q \in Repeaters : pending'[q] \subseteq pending[q]
    BY <1>1, <2>1 DEF TypeOK
  <2> QED BY <1>1, <1>4, <2>1, <2>2, <2>3, BroadcastStep DEF Transmit, TypeOK
<1>5. ASSUME NEW r \in Repeaters, Expire(r) PROVE IInv'
  <2>1. /\ seen[r] \in Seq(Seq(Nat)) /\ seen[r] # <<>> /\ Len(seen[r]) <= CacheSize
        /\ seen' = [seen EXCEPT ![r] = Tail(@)]
    BY <1>1, <1>5 DEF TypeOK, Expire
  <2>2. /\ Tail(seen[r]) \in Seq(Seq(Nat)) /\ Len(seen[r]) \in Nat
        /\ Len(Tail(seen[r])) = Len(seen[r]) - 1
    BY <2>1, HeadTailProperties, LenProperties
  <2>3. /\ seen' \in [Repeaters -> Seq(Seq(Nat))]
        /\ \A q \in Repeaters : Len(seen'[q]) <= CacheSize
    BY <1>1, <2>1, <2>2, MeshAssumption DEF TypeOK
  <2>4. TypeOK'
    BY <1>1, <1>5, <2>3 DEF TypeOK, Expire
  <2>5. ForwardsGrow /\ \A q \in Repeaters : \A p \in Held(q)' : p \in Held(q)
    BY <1>5 DEF Expire, ForwardsGrow, Held
  <2> QED BY <2>4, <2>5, HeldStep
<1>6. CASE UNCHANGED vars
  <2>1. TypeOK' /\ ForwardsGrow
    BY <1>1, <1>6 DEF vars, TypeOK, ForwardsGrow
  <2>2. \A r \in Repeaters : \A p \in Held(r)' : p \in Held(r)
    BY <1>6 DEF vars, Held
  <2> QED BY <2>1, <2>2, HeldStep
<1> QED BY <1>2, <1>3, <1>4, <1>5, <1>6 DEF Next

LEMMA MeshInitial == Init => IInv
<1> SUFFICES ASSUME Init PROVE IInv
  OBVIOUS
<1>1. TypeOK
  BY MeshAssumption DEF Init, TypeOK
<1>2. \A r \in Repeaters : Held(r) = {}
  BY DEF Init, Held
<1> QED BY <1>1, <1>2 DEF IInv, HeldLegit

THEOREM MeshInvariant == Spec => []IInv
  BY MeshInitial, MeshInductive, PTL DEF Spec

\* Whatever is lost, reordered between repeaters or forgotten by their caches,
\* and whichever hashes collide, no packet in the mesh has a path that names a
\* hash twice (shouldForward, addNodeToPath).
THEOREM FloodsNeverLoop == Spec => []FloodPathLoopFree
<1>1. IInv => FloodPathLoopFree
  BY DEF IInv, HeldLegit, Legit, FloodPathLoopFree
<1> QED BY <1>1, MeshInvariant, PTL

\* A DIRECT or TRACE packet has visited the hops it no longer names, in the
\* order its sender put them (removeSelfFromPath, appendSnrAndForward).
THEOREM RoutedPacketsFollowHops == Spec => []HopsInOrder
<1>1. IInv => HopsInOrder
  BY DEF IInv, HeldLegit, Legit, HopsInOrder
<1> QED BY <1>1, MeshInvariant, PTL

\* Queues, caches and counters are of their types and within their sizes.
THEOREM MeshTyped == Spec => []TypeOK
<1>1. IInv => TypeOK
  BY DEF IInv
<1> QED BY <1>1, MeshInvariant, PTL

----------------------------------------------------------------------------
\* Paths are routes.

\* Who forwarded a flood: each heard the one before, and gave its hash.
Walked(p, walk) ==
    /\ walk \in [DOMAIN p.path -> Repeaters]
    /\ \A k \in DOMAIN walk : HashOf[walk[k]] = p.path[k]
    /\ \A i \in DOMAIN walk : walk[i] \in Neighbours(IF i = 1 THEN p.from ELSE walk[i - 1])

\* A flood that r can hear, or that r has to send.
RouteTo(p, r) == \E walk : Walked(p, walk) /\ LeadsTo(p.from, walk, r)
RouteBy(p, r) == \E walk : /\ Walked(p, walk)
                           /\ walk # <<>>
                           /\ Last(walk) = r

\* The packets that arrived at r have a route to it; those it took up have one
\* that ends with it.
RouteInv ==
    /\ \A r \in Repeaters : \A i \in DOMAIN rxQueue[r] :
          rxQueue[r][i].route = "FLOOD" => RouteTo(rxQueue[r][i], r)
    /\ \A r \in Repeaters : \A p \in pending[r] : p.route = "FLOOD" => RouteBy(p, r)

LEMMA WalkStarts ==
    ASSUME NEW o \in Originals, o.route = "FLOOD", NEW r \in Neighbours(o.from)
    PROVE  RouteTo(o, r)
<1>1. o.path = <<>>
  BY MeshAssumption
<1>2. Walked(o, <<>>) /\ LeadsTo(o.from, <<>>, r)
  BY <1>1 DEF Walked, LeadsTo
<1> QED BY <1>2 DEF RouteTo

LEMMA WalkHeard ==
    ASSUME NEW p, NEW s, RouteBy(p, s), NEW r \in Neighbours(s)
    PROVE  RouteTo(p, r)
<1>1. PICK walk : Walked(p, walk) /\ walk # <<>> /\ Last(walk) = s
  BY DEF RouteBy
<1>2. LeadsTo(p.from, walk, r)
  BY <1>1 DEF Walked, LeadsTo
<1> QED BY <1>1, <1>2 DEF RouteTo

LEMMA WalkGoesOn ==
    ASSUME NEW r \in Repeaters, NEW p \in Packet, p.route = "FLOOD", RouteTo(p, r)
    PROVE  RouteBy(Hop(r, p), r)
<1>1. PICK walk : Walked(p, walk) /\ LeadsTo(p.from, walk, r)
  BY DEF RouteTo
<1> DEFINE n == Len(p.path)
           on == [i \in 1..(n + 1) |-> IF i = n + 1 THEN r ELSE walk[i]]
<1>2. p.path \in Seq(Hashes \cup {Snr}) /\ n \in Nat /\ DOMAIN p.path = 1..n
  BY PathFacts DEF Packet
<1>3. HashOf[r] \in Hashes \cup {Snr}
  BY MeshAssumption
<1>4. PICK h : h = Hop(r, p)
  OBVIOUS
<1>5. h.path = Append(p.path, HashOf[r]) /\ h.from = p.from
  BY <1>4 DEF Hop, AddNodeToPath, Packet
<1>6. /\ DOMAIN h.path = 1..(n + 1)
      /\ \A i \in 1..n : h.path[i] = p.path[i]
      /\ h.path[n + 1] = HashOf[r]
  BY <1>2, <1>3, <1>5
<1>7. /\ walk \in [1..n -> Repeaters]
      /\ \A i \in 1..n : /\ HashOf[walk[i]] = p.path[i]
                         /\ walk[i] \in Neighbours(IF i = 1 THEN p.from ELSE walk[i - 1])
  BY <1>1, <1>2 DEF Walked
<1>8. r \in Neighbours(IF n = 0 THEN p.from ELSE walk[n])
  <2>1. walk \in Seq(Repeaters) /\ Len(walk) = n
    BY <1>2, <1>7
  <2>2. walk = <<>> <=> n = 0
    BY <2>1, EmptySeq
  <2> QED BY <1>1, <2>1, <2>2 DEF LeadsTo, Last
<1> HIDE DEF n
<1>9. /\ \A i \in 1..n : i \in 1..(n + 1) /\ i # n + 1
      /\ \A i \in 1..(n + 1) : i \in 1..n \/ i = n + 1
      /\ n + 1 \in 1..(n + 1)
  BY <1>2
<1>10. /\ on[n + 1] = r
       /\ \A i \in 1..n : on[i] = walk[i]
       /\ DOMAIN on = 1..(n + 1)
       /\ on = [i \in 1..(n + 1) |-> on[i]]
  BY <1>9
<1> HIDE DEF on
<1>11. \A i \in 1..(n + 1) : on[i] \in Repeaters
  BY <1>7, <1>9, <1>10
<1>12. on \in Seq(Repeaters) /\ Len(on) = n + 1
  BY <1>2, <1>10, <1>11
<1>13. ASSUME NEW i \in 1..(n + 1)
       PROVE  on[i] \in Neighbours(IF i = 1 THEN p.from ELSE on[i - 1])
  <2>1. CASE i \in 1..n
    <3>1. i # 1 => i - 1 \in 1..n
      BY <1>2, <2>1
    <3> QED BY <1>7, <1>10, <2>1, <3>1
  <2>2. CASE i = n + 1
    <3>1. n = 0 <=> i = 1
      BY <1>2, <2>2
    <3>2. i # 1 => i - 1 = n /\ n \in 1..n
      BY <1>2, <2>2
    <3> QED BY <1>8, <1>10, <2>2, <3>1, <3>2
  <2> QED BY <1>9, <2>1, <2>2
<1>14. \A k \in 1..(n + 1) : HashOf[on[k]] = h.path[k]
  BY <1>6, <1>7, <1>9, <1>10
<1>15. on \in [DOMAIN h.path -> Repeaters]
  BY <1>6, <1>10, <1>11
<1>16. Walked(h, on)
  BY <1>5, <1>10, <1>13, <1>14, <1>15 DEF Walked
<1>17. on # <<>> /\ Last(on) = r
  BY <1>2, <1>10, <1>12, EmptySeq DEF Last
<1> QED BY <1>4, <1>16, <1>17 DEF RouteBy

\* A broadcast of a packet with a route to every neighbour of its sender.
LEMMA BroadcastRoutes ==
    ASSUME TypeOK, RouteInv, NEW s, NEW p \in Packet, Broadcast(s, p),
           p.route = "FLOOD" => \A r \in Neighbours(s) : RouteTo(p, r),
           \A r \in Repeaters : pending'[r] \subseteq pending[r]
    PROVE  RouteInv'
<1>1. PICK heard \in SUBSET Neighbours(s) :
         rxQueue' = [r \in Repeaters |-> IF r \in heard THEN Enqueue(rxQueue[r], p)
                                                       ELSE rxQueue[r]]
  BY DEF Broadcast
<1>2. \A r \in Repeaters : \A i \in DOMAIN rxQueue'[r] :
         \/ rxQueue'[r][i] = p
         \/ i \in DOMAIN rxQueue[r] /\ rxQueue'[r][i] = rxQueue[r][i]
  BY BroadcastHeld
<1>3. ASSUME NEW r \in Repeaters, NEW i \in DOMAIN rxQueue'[r],
             rxQueue'[r][i].route = "FLOOD"
      PROVE  RouteTo(rxQueue'[r][i], r)
  <2>1. CASE i \in DOMAIN rxQueue[r] /\ rxQueue'[r][i] = rxQueue[r][i]
    BY <1>3, <2>1 DEF RouteInv
  <2>2. CASE rxQueue'[r][i] = p /\ r \in heard
    BY <1>1, <1>3, <2>2
  <2>3. CASE r \notin heard
    BY <1>1, <1>3, <2>3 DEF RouteInv
  <2> QED BY <1>2, <2>1, <2>2, <2>3
<1> QED BY <1>3 DEF RouteInv, RouteTo, RouteBy, Walked, LeadsTo

LEMMA ReceiveRoutes ==
    ASSUME TypeOK, RouteInv, NEW s \in Repeaters, Receive(s)
    PROVE  RouteInv'
<1>1. PICK p : p = Head(rxQueue[s])
  OBVIOUS
<1>2. rxQueue[s] \in Seq(Packet) /\ rxQueue[s] # <<>>
  BY DEF TypeOK, Receive
<1>3. /\ p \in Packet /\ p = rxQueue[s][1] /\ 1 \in DOMAIN rxQueue[s]
      /\ Len(rxQueue[s]) \in Nat /\ DOMAIN rxQueue[s] = 1..Len(rxQueue[s])
      /\ DOMAIN Tail(rxQueue[s]) = 1..(Len(rxQueue[s]) - 1)
      /\ \A i \in 1..(Len(rxQueue[s]) - 1) : Tail(rxQueue[s])[i] = rxQueue[s][i + 1]
  BY <1>1, <1>2, HeadTailProperties, LenProperties, EmptySeq
<1>4. /\ rxQueue' = [rxQueue EXCEPT ![s] = Tail(@)]
      /\ \/ pending' = pending
         \/ TakesUp(s, p) /\ TakeUp(s, p)
  BY <1>1 DEF Receive
<1>5. ASSUME NEW r \in Repeaters, NEW i \in DOMAIN rxQueue'[r],
             rxQueue'[r][i].route = "FLOOD"
      PROVE  RouteTo(rxQueue'[r][i], r)
  <2>1. CASE r = s
    <3>1. rxQueue'[r] = Tail(rxQueue[s])
      BY <1>4, <2>1 DEF TypeOK
    <3>2. i + 1 \in DOMAIN rxQueue[s] /\ rxQueue'[r][i] = rxQueue[s][i + 1]
      BY <1>3, <3>1
    <3> QED BY <1>5, <2>1, <3>2 DEF RouteInv
  <2>2. CASE r # s
    <3>1. rxQueue'[r] = rxQueue[r]
      BY <1>4, <2>2 DEF TypeOK
    <3> QED BY <1>5, <3>1 DEF RouteInv
  <2> QED BY <2>1, <2>2
<1>6. ASSUME NEW r \in Repeaters, NEW q \in pending'[r], q.route = "FLOOD"
      PROVE  RouteBy(q, r)
  <2>1. CASE q \in pending[r]
    BY <1>6, <2>1 DEF RouteInv
  <2>2. CASE q \notin pending[r]
    <3>1. TakesUp(s, p) /\ pending' = [pending EXCEPT ![s] = @ \cup {Hop(s, p)}]
      BY <1>4, <1>6, <2>2 DEF TakeUp
    <3>2. r = s /\ q = Hop(s, p)
      BY <1>6, <2>2, <3>1 DEF TypeOK
    <3>3. p.route = "FLOOD"
      BY <1>3, <1>6, <3>2 DEF Hop, Packet
    <3>4. RouteTo(p, s)
      BY <1>3, <3>3 DEF RouteInv
    <3> QED BY <1>3, <3>2, <3>3, <3>4, WalkGoesOn
  <2> QED BY <2>1, <2>2
<1> QED BY <1>5, <1>6 DEF RouteInv, RouteTo, RouteBy, Walked, LeadsTo

LEMMA RouteStep == TypeOK /\ RouteInv /\ [Next]_vars => RouteInv'
<1> SUFFICES ASSUME TypeOK, RouteInv, [Next]_vars PROVE RouteInv'
  OBVIOUS
<1>1. ASSUME NEW o \in Originals, Originate(o) PROVE RouteInv'
  <2>1. /\ Broadcast(o.from, o) /\ pending' = pending /\ o \in Packet
    BY <1>1, MeshAssumption DEF Originate
  <2>2. o.route = "FLOOD" => \A r \in Neighbours(o.from) : RouteTo(o, r)
    BY WalkStarts
  <2> QED BY <2>1, <2>2, BroadcastRoutes
<1>2. ASSUME NEW r \in Repeaters, Receive(r) PROVE RouteInv'
  BY <1>2, ReceiveRoutes
<1>3. ASSUME NEW r \in Repeaters, Transmit(r) PROVE RouteInv'
  <2>1. PICK p \in pending[r] : /\ pending' = [pending EXCEPT ![r] = @ \ {p}]
                                /\ Broadcast(r, p)
    BY <1>3 DEF Transmit
  <2>2. p \in Packet /\ \A q \in Repeaters : pending'[q] \subseteq pending[q]
    BY <2>1 DEF TypeOK
  <2>3. p.route = "FLOOD" => \A q \in Neighbours(r) : RouteTo(p, q)
    BY WalkHeard DEF RouteInv
  <2> QED BY <2>1, <2>2, <2>3, BroadcastRoutes
<1>4. ASSUME NEW r \in Repeaters, Expire(r) PROVE RouteInv'
  BY <1>4 DEF Expire, RouteInv, RouteTo, RouteBy, Walked, LeadsTo
<1>5. CASE UNCHANGED vars
  <2>1. rxQueue' = rxQueue /\ pending' = pending
    BY <1>5 DEF vars
  <2> QED BY <2>1 DEF RouteInv
<1> QED BY <1>1, <1>2, <1>3, <1>4, <1>5 DEF Next

\* The path a FLOOD packet arrives with names, in order, repeaters each of
\* which heard the one before, from the sender to here: a route that a DIRECT
\* packet can take.
THEOREM PathsAreRoutes == Spec => []PathIsRoute
<1>1. Init => RouteInv
  BY DEF Init, RouteInv
<1>2. RouteInv => PathIsRoute
  BY DEF RouteInv, RouteTo, Walked, PathIsRoute
<1> QED BY <1>1, <1>2, RouteStep, MeshTyped, PTL DEF Spec

----------------------------------------------------------------------------
\* Forwarded once.  Nothing is forgotten: a cache has each hash once, only
\* hashes of the traffic, and so never overflows.  A repeater has forwarded a
\* packet at most once for each of its cached hashes that it answers to.

SeenSet(r) == {seen[r][i] : i \in DOMAIN seen[r]}

OfOriginal(p) ==
    \E o \in Originals : p.id = o.id /\ p.route = o.route /\ p.hops = o.hops

\* The turns a repeater has with a packet, and the hash the packet has then.
Turns(o, r) ==
    IF o.route = "TRACE" THEN {k \in DOMAIN o.hops : o.hops[k] = HashOf[r]} ELSE {1}
HashAt(o, k) == IF o.route = "TRACE" THEN <<o.id, k - 1>> ELSE <<o.id>>
TurnsOver(o, r) == {k \in Turns(o, r) : HashAt(o, k) \in SeenSet(r)}

HeldOriginal == \A r \in Repeaters : \A p \in Held(r) : OfOriginal(p)
SeenOnce ==
    \A r \in Repeaters : /\ SeenSet(r) \subseteq TrafficHashes
                         /\ Cardinality(SeenSet(r)) = Len(seen[r])
ForwardsCounted ==
    \A o \in Originals, r \in Repeaters :
       forwards[r][o.id] <= Cardinality(TurnsOver(o, r))

OnceInv == HeldOriginal /\ SeenOnce /\ ForwardsCounted

LEMMA HopKeeps ==
    ASSUME NEW r \in Repeaters, NEW p \in Packet
    PROVE  Hop(r, p).id = p.id /\ Hop(r, p).route = p.route /\ Hop(r, p).hops = p.hops
BY DEF Hop, Packet

\* A packet in the mesh was there before, is an original, or is the next hop of
\* one that was there.
LEMMA HeldNext ==
    ASSUME TypeOK, [Next]_vars, HeldOriginal
    PROVE  HeldOriginal'
<1>1. ASSUME NEW s, NEW p \in Packet, Broadcast(s, p), OfOriginal(p),
             \A r \in Repeaters : pending'[r] \subseteq pending[r]
      PROVE  HeldOriginal'
  <2>1. \A r \in Repeaters : \A i \in DOMAIN rxQueue'[r] :
           \/ rxQueue'[r][i] = p
           \/ i \in DOMAIN rxQueue[r] /\ rxQueue'[r][i] = rxQueue[r][i]
    BY <1>1, BroadcastHeld
  <2>2. ASSUME NEW r \in Repeaters, NEW q \in Held(r)'
        PROVE  q = p \/ q \in Held(r)
    <3>1. CASE q \in pending'[r]
      BY <1>1, <3>1 DEF Held
    <3>2. CASE q \in {rxQueue'[r][i] : i \in DOMAIN rxQueue'[r]}
      <4>1. PICK i \in DOMAIN rxQueue'[r] : q = rxQueue'[r][i]
        BY <3>2
      <4> QED BY <2>1, <4>1 DEF Held
    <3> QED BY <2>2, <3>1, <3>2 DEF Held
  <2> QED BY <1>1, <2>2 DEF HeldOriginal, OfOriginal
<1>2. ASSUME NEW o \in Originals, Originate(o) PROVE HeldOriginal'
  <2>1. o \in Packet /\ OfOriginal(o) /\ Broadcast(o.from, o) /\ pending' = pending
    BY <1>2, MeshAssumption DEF Originate, OfOriginal
  <2> QED BY <1>1, <2>1
<1>3. ASSUME NEW s \in Repeaters, Receive(s) PROVE HeldOriginal'
  <2>1. PICK p : p = Head(rxQueue[s])
    OBVIOUS
  <2>2. rxQueue[s] \in Seq(Packet) /\ rxQueue[s] # <<>>
    BY <1>3 DEF TypeOK, Receive
  <2>3. /\ p \in Packet /\ p = rxQueue[s][1] /\ 1 \in DOMAIN rxQueue[s]
        /\ Len(rxQueue[s]) \in Nat /\ DOMAIN rxQueue[s] = 1..Len(rxQueue[s])
        /\ DOMAIN Tail(rxQueue[s]) = 1..(Len(rxQueue[s]) - 1)
        /\ \A i \in 1..(Len(rxQueue[s]) - 1) : Tail(rxQueue[s])[i] = rxQueue[s][i + 1]
    BY <2>1, <2>2, HeadTailProperties, LenProperties, EmptySeq
  <2>4. p \in Held(s)
    BY <2>3 DEF Held
  <2>5. OfOriginal(p) /\ OfOriginal(Hop(s, p))
    BY <2>3, <2>4, HopKeeps DEF HeldOriginal, OfOriginal
  <2>6. /\ rxQueue' = [rxQueue EXCEPT ![s] = Tail(@)]
        /\ \/ pending' = pending
           \/ pending' = [pending EXCEPT ![s] = @ \cup {Hop(s, p)}]
    BY <1>3, <2>1 DEF Receive, TakeUp
  <2>7. \A r \in Repeaters : pending'[r] \subseteq pending[r] \cup {Hop(s, p)}
    BY <2>6 DEF TypeOK
  <2>8. ASSUME NEW r \in Repeaters, NEW i \in DOMAIN rxQueue'[r]
        PROVE  rxQueue'[r][i] \in {rxQueue[r][j] : j \in DOMAIN rxQueue[r]}
    <3>1. CASE r = s
      <4>1. rxQueue'[r] = Tail(rxQueue[s])
        BY <2>6, <3>1 DEF TypeOK
      <4>2. i \in 1..(Len(rxQueue[s]) - 1) /\ i + 1 \in 1..Len(rxQueue[s])
        BY <2>3, <4>1
      <4> QED BY <2>3, <3>1, <4>1, <4>2
    <3>2. CASE r # s
      BY <2>6, <3>2 DEF TypeOK
    <3> QED BY <3>1, <3>2
  <2>9. \A r \in Repeaters : \A q \in Held(r)' : q \in Held(r) \/ q = Hop(s, p)
    BY <2>7, <2>8 DEF Held
  <2> QED BY <2>5, <2>9 DEF HeldOriginal, OfOriginal
<1>4. ASSUME NEW s \in Repeaters, Transmit(s) PROVE HeldOriginal'
  <2>1. PICK p \in pending[s] : /\ pending' = [pending EXCEPT ![s] = @ \ {p}]
                                /\ Broadcast(s, p)
    BY <1>4 DEF Transmit
  <2>2. p \in Packet /\ \A r \in Repeaters : pending'[r] \subseteq pending[r]
    BY <2>1 DEF TypeOK
  <2>3. OfOriginal(p)
    BY <2>1 DEF HeldOriginal, Held
  <2> QED BY <1>1, <2>1, <2>2, <2>3
<1>5. ASSUME rxQueue' = rxQueue, pending' = pending PROVE HeldOriginal'
  BY <1>5 DEF HeldOriginal, Held, OfOriginal
<1> QED BY <1>2, <1>3, <1>4, <1>5 DEF Next, Expire, vars

\* Where the copy of an original stands among the turns of who takes it up.
LEMMA TakenAtTurn ==
    ASSUME NEW r \in Repeaters, NEW p \in Packet, Legit(p), NEW o \in Originals,
           p.id = o.id, p.route = o.route, p.hops = o.hops
    PROVE  /\ PacketHash(p) \in HashesOf(o)
           /\ TakesUp(r, p) =>
                 \E k \in Turns(o, r) : HashAt(o, k) = PacketHash(p)
<1>1. /\ p.path \in Path(Hashes \cup {Snr}) /\ p.hops \in Seq(Hashes)
      /\ p.route \in {"FLOOD", "DIRECT", "TRACE"}
  BY DEF Packet
<1>2. /\ Len(p.path) \in Nat /\ Len(p.hops) \in Nat
      /\ p.hops \in Seq(Hashes) /\ DOMAIN p.hops = 1..Len(p.hops)
  BY <1>1, PathFacts, LenProperties
<1>3. CASE p.route = "TRACE"
  <2>1. Len(p.path) \in 0..Len(p.hops)
    BY <1>3 DEF Legit, HopsFollowed, HopsDone
  <2>2. ASSUME TakesUp(r, p)
        PROVE  /\ Len(p.path) + 1 \in DOMAIN p.hops
               /\ p.hops[Len(p.path) + 1] = HashOf[r]
               /\ (Len(p.path) + 1) - 1 = Len(p.path)
    BY <1>2, <1>3, <2>2 DEF TakesUp, TraceCheck
  <2> QED BY <1>3, <2>1, <2>2 DEF PacketHash, HashesOf, Turns, HashAt
<1>4. CASE p.route # "TRACE"
  BY <1>4 DEF PacketHash, HashesOf, Turns, HashAt
<1> QED BY <1>3, <1>4

\* The turns are finitely many.
LEMMA TurnsFinite ==
    ASSUME NEW o \in Originals, NEW r \in Repeaters
    PROVE  /\ IsFiniteSet(Turns(o, r))
           /\ Cardinality(Turns(o, r)) \in Nat
           /\ o.route # "TRACE" => Cardinality(Turns(o, r)) = 1
           /\ o.route = "TRACE" => Cardinality(Turns(o, r)) = Listed(o, r)
<1>1. o.hops \in Seq(Hashes)
  BY MeshAssumption DEF Packet
<1>2. Len(o.hops) \in Nat /\ DOMAIN o.hops = 1..Len(o.hops)
  BY <1>1, LenProperties
<1>3. IsFiniteSet(1..Len(o.hops))
  BY <1>2, FS_Interval
<1>4. CASE o.route = "TRACE"
  <2>1. Turns(o, r) = {k \in DOMAIN o.hops : o.hops[k] = HashOf[r]}
    BY <1>4 DEF Turns
  <2>2. Turns(o, r) \in SUBSET (1..Len(o.hops))
    BY <1>2, <2>1
  <2>3. IsFiniteSet(Turns(o, r))
    BY <1>3, <2>2, FS_Subset
  <2> QED BY <1>4, <2>1, <2>3, FS_CardinalityType DEF Listed
<1>5. CASE o.route # "TRACE"
  <2>1. Turns(o, r) = {1}
    BY <1>5 DEF Turns
  <2>2. IsFiniteSet({1}) /\ Cardinality({1}) = 1
    BY FS_Singleton, Zenon
  <2> QED BY <1>5, <2>1, <2>2
<1> QED BY <1>4, <1>5

\* While the cache has each hash once and the traffic fits it, a hash it has
\* not yet goes in and none goes out.
LEMMA RemembersAll ==
    ASSUME TypeOK, SeenOnce, TrafficFits, NEW s \in Repeaters,
           NEW h \in TrafficHashes, ~ Contains(seen[s], h), Remember(s, h)
    PROVE  /\ SeenOnce'
           /\ SeenSet(s)' = SeenSet(s) \cup {h} /\ h \notin SeenSet(s)
           /\ \A r \in Repeaters : r # s => SeenSet(r)' = SeenSet(r)
<1>1. seen[s] \in Seq(Seq(Nat)) /\ CacheSize \in Nat
  BY MeshAssumption DEF TypeOK
<1> DEFINE n == Len(seen[s])
           all == Append(seen[s], h)
<1>2. n \in Nat /\ DOMAIN seen[s] = 1..n
  BY <1>1, LenProperties
<1>3. /\ Len(all) = n + 1 /\ DOMAIN all = 1..(n + 1)
      /\ \A i \in 1..n : all[i] = seen[s][i]
      /\ all[n + 1] = h
  <2>1. seen[s] \in Seq(Seq(Nat) \cup {h}) /\ h \in Seq(Nat) \cup {h}
    BY <1>1, <1>2
  <2> QED BY <2>1, <1>2, AppendProperties
<1>4. h \notin SeenSet(s)
  BY <1>2 DEF Contains, SeenSet
<1>5. SeenSet(s) \cup {h} \in SUBSET TrafficHashes
  BY DEF SeenOnce
<1>6. IsFiniteSet(SeenSet(s)) /\ IsFiniteSet(SeenSet(s) \cup {h})
      /\ Cardinality(SeenSet(s) \cup {h}) <= Cardinality(TrafficHashes)
  <2>1. SeenSet(s) \in SUBSET TrafficHashes
    BY <1>5
  <2> QED BY <1>5, <2>1, FS_Subset DEF TrafficFits
<1>7. Cardinality(SeenSet(s) \cup {h}) = n + 1
  <2>1. Cardinality(SeenSet(s)) = n
    BY DEF SeenOnce
  <2> QED BY <1>4, <1>6, <2>1, FS_AddElement
<1>8. Cardinality(TrafficHashes) \in Nat /\ Cardinality(TrafficHashes) <= CacheSize
  BY FS_CardinalityType DEF TrafficFits
<1>9. ~ (Len(all) > CacheSize)
  BY <1>1, <1>2, <1>3, <1>6, <1>7, <1>8
<1> HIDE DEF n, all
<1>10. seen' = [seen EXCEPT ![s] = all]
  BY <1>9 DEF Remember, all
<1>11. seen'[s] = all /\ \A r \in Repeaters : r # s => seen'[r] = seen[r]
  BY <1>10 DEF TypeOK
<1>12. SeenSet(s)' = SeenSet(s) \cup {h}
  <2>1. SeenSet(s)' = {all[i] : i \in 1..(n + 1)}
    BY <1>3, <1>11 DEF SeenSet
  <2>2. SeenSet(s) = {seen[s][i] : i \in 1..n}
    BY <1>2 DEF SeenSet
  <2>3. 1..(n + 1) = 1..n \cup {n + 1}
    BY <1>2
  <2> QED BY <1>3, <2>1, <2>2, <2>3
<1>13. \A r \in Repeaters : r # s => SeenSet(r)' = SeenSet(r)
  BY <1>11 DEF SeenSet
<1>14. SeenOnce'
  <2>1. SeenSet(s)' \subseteq TrafficHashes /\ Cardinality(SeenSet(s)') = Len(seen'[s])
    BY <1>3, <1>5, <1>7, <1>11, <1>12
  <2>2. ASSUME NEW r \in Repeaters, r # s
        PROVE  SeenSet(r)' \subseteq TrafficHashes /\ Cardinality(SeenSet(r)') = Len(seen'[r])
    BY <1>11, <1>13, <2>2 DEF SeenOnce
  <2> QED BY <2>1, <2>2 DEF SeenOnce
<1> QED BY <1>4, <1>12, <1>13, <1>14

LEMMA CountsStay ==
    ASSUME SeenOnce, ForwardsCounted, seen' = seen, forwards' = forwards
    PROVE  SeenOnce' /\ ForwardsCounted'
<1>1. \A r \in Repeaters : SeenSet(r)' = SeenSet(r)
  BY DEF SeenSet
<1>2. \A o \in Originals, r \in Repeaters : TurnsOver(o, r)' = TurnsOver(o, r)
  BY <1>1 DEF TurnsOver
<1>3. SeenOnce'
  BY <1>1 DEF SeenOnce
<1>4. ForwardsCounted'
  BY <1>2, Zenon DEF ForwardsCounted
<1> QED BY <1>3, <1>4

\* One more turn over pays for one more forward.
LEMMA ReceiveCounts ==
    ASSUME IInv, OnceInv, TrafficFits, NEW s \in Repeaters, Receive(s)
    PROVE  SeenOnce' /\ ForwardsCounted'
<1>1. TypeOK /\ SeenOnce /\ ForwardsCounted
  BY DEF IInv, OnceInv
<1>2. PICK p : p = Head(rxQueue[s])
  OBVIOUS
<1>3. p \in Packet /\ p \in Held(s) /\ Legit(p)
  <2>1. rxQueue[s] \in Seq(Packet) /\ rxQueue[s] # <<>>
    BY <1>1 DEF TypeOK, Receive
  <2>2. p = rxQueue[s][1] /\ 1 \in DOMAIN rxQueue[s] /\ p \in Packet
    BY <1>2, <2>1, HeadTailProperties, LenProperties, EmptySeq
  <2> QED BY <2>2 DEF IInv, HeldLegit, Held
<1>4. PICK o \in Originals : p.id = o.id /\ p.route = o.route /\ p.hops = o.hops
  BY <1>3 DEF OnceInv, HeldOriginal, OfOriginal
<1> DEFINE h == PacketHash(p)
<1>5. h \in HashesOf(o) /\ h \in TrafficHashes
  BY <1>3, <1>4, TakenAtTurn DEF TrafficHashes
<1>6. TakesUp(s, p) => \E k \in Turns(o, s) : HashAt(o, k) = h
  BY <1>3, <1>4, TakenAtTurn
<1>7. CASE UNCHANGED <<seen, forwards>>
  BY <1>1, <1>7, CountsStay
<1>8. CASE ~ Contains(seen[s], h) /\ Remember(s, h)
  <2>1. /\ SeenOnce'
        /\ SeenSet(s)' = SeenSet(s) \cup {h} /\ h \notin SeenSet(s)
        /\ \A r \in Repeaters : r # s => SeenSet(r)' = SeenSet(r)
    BY <1>1, <1>5, <1>8, RemembersAll
  <2>2. ASSUME NEW q \in Originals, NEW r \in Repeaters
        PROVE  /\ IsFiniteSet(TurnsOver(q, r)') /\ IsFiniteSet(TurnsOver(q, r))
               /\ Cardinality(TurnsOver(q, r)) \in Nat
               /\ Cardinality(TurnsOver(q, r)') \in Nat
               /\ TurnsOver(q, r) \subseteq TurnsOver(q, r)'
               /\ Cardinality(TurnsOver(q, r)) <= Cardinality(TurnsOver(q, r)')
    <3>1. TurnsOver(q, r) \subseteq TurnsOver(q, r)'
      BY <2>1 DEF TurnsOver
    <3>2. TurnsOver(q, r)' \in SUBSET Turns(q, r)
      BY DEF TurnsOver
    <3>3. IsFiniteSet(TurnsOver(q, r)')
      BY <3>2, TurnsFinite, FS_Subset
    <3> QED BY <3>1, <3>3, FS_Subset, FS_CardinalityType
  <2>3. \A q \in Originals, r \in Repeaters : forwards[r][q.id] \in 0..2
    BY <1>1 DEF TypeOK, Ids
  <2>4. CASE forwards' = forwards
    <3>1. ASSUME NEW q \in Originals, NEW r \in Repeaters
          PROVE  (forwards[r][q.id] <= Cardinality(TurnsOver(q, r)))'
      <4>1. forwards[r][q.id] <= Cardinality(TurnsOver(q, r))
        BY <1>1 DEF ForwardsCounted
      <4> QED BY <2>2, <2>3, <2>4, <4>1
    <3> QED BY <2>1, <3>1, Zenon DEF ForwardsCounted
  <2>5. CASE TakesUp(s, p) /\ TakeUp(s, p)
    <3>1. PICK k \in Turns(o, s) : HashAt(o, k) = h
      BY <1>6, <2>5
    <3>2. k \notin TurnsOver(o, s) /\ k \in TurnsOver(o, s)'
      BY <2>1, <3>1 DEF TurnsOver
    <3>3. Cardinality(TurnsOver(o, s)') >= Cardinality(TurnsOver(o, s)) + 1
      <4>1. TurnsOver(o, s) \cup {k} \in SUBSET TurnsOver(o, s)'
        BY <2>2, <3>2
      <4>2. Cardinality(TurnsOver(o, s) \cup {k}) = Cardinality(TurnsOver(o, s)) + 1
        BY <2>2, <3>2, FS_AddElement
      <4>3. Cardinality(TurnsOver(o, s) \cup {k}) <= Cardinality(TurnsOver(o, s)')
        BY <2>2, <4>1, FS_Subset
      <4> QED BY <2>2, <4>2, <4>3
    <3>4. forwards' = [forwards EXCEPT ![s][o.id] = IF @ < 2 THEN @ + 1 ELSE 2]
      BY <1>4, <2>5 DEF TakeUp
    <3>5. ASSUME NEW q \in Originals, NEW r \in Repeaters
          PROVE  (forwards[r][q.id] <= Cardinality(TurnsOver(q, r)))'
      <4>1. PICK n \in 0..2 : n = forwards[r][q.id]
        BY <2>3
      <4>2. n <= Cardinality(TurnsOver(q, r))
        BY <1>1, <4>1 DEF ForwardsCounted
      <4>3. CASE r = s /\ q.id = o.id
        <5>1. q = o
          BY <4>3, MeshAssumption
        <5>2. forwards'[s][o.id] = IF n < 2 THEN n + 1 ELSE 2
          <6>1. forwards[s][o.id] = n /\ o.id \in Ids
            BY <4>1, <4>3, <5>1 DEF Ids
          <6> QED BY <1>1, <3>4, <6>1 DEF TypeOK
        <5>3. forwards'[s][o.id] <= n + 1
          BY <5>2
        <5> QED BY <2>2, <3>3, <4>2, <4>3, <5>1, <5>2, <5>3
      <4>4. CASE ~ (r = s /\ q.id = o.id)
        <5>1. forwards'[r][q.id] = n
          <6>1. q.id \in Ids
            BY DEF Ids
          <6> QED BY <1>1, <3>4, <4>1, <4>4, <6>1 DEF TypeOK
        <5> QED BY <2>2, <4>2, <5>1
      <4> QED BY <4>3, <4>4
    <3> QED BY <2>1, <3>5, Zenon DEF ForwardsCounted
  <2> QED BY <1>2, <1>8, <2>1, <2>4, <2>5 DEF Receive
<1> QED BY <1>2, <1>7, <1>8 DEF Receive

LEMMA OnceStep ==
    ASSUME ~ Forgetful, TrafficFits, IInv, OnceInv, [Next]_vars
    PROVE  OnceInv'
<1>1. HeldOriginal'
  BY HeldNext DEF IInv, OnceInv
<1>2. ASSUME NEW s \in Repeaters, Receive(s) PROVE SeenOnce' /\ ForwardsCounted'
  BY <1>2, ReceiveCounts
<1>3. ASSUME seen' = seen, forwards' = forwards PROVE SeenOnce' /\ ForwardsCounted'
  BY <1>3, CountsStay DEF OnceInv
<1>4. SeenOnce' /\ ForwardsCounted'
  BY <1>2, <1>3 DEF Next, Originate, Transmit, Expire, vars
<1> QED BY <1>1, <1>4 DEF OnceInv

LEMMA OnceInitial ==
    ASSUME Init
    PROVE  OnceInv
<1>1. \A r \in Repeaters : Held(r) = {} /\ SeenSet(r) = {} /\ Len(seen[r]) = 0
  BY DEF Init, Held, SeenSet
<1>2. HeldOriginal /\ SeenOnce
  BY <1>1, FS_EmptySet DEF HeldOriginal, SeenOnce
<1>3. ASSUME NEW o \in Originals, NEW r \in Repeaters
      PROVE  forwards[r][o.id] <= Cardinality(TurnsOver(o, r))
  <2>1. TurnsOver(o, r) = {}
    BY <1>1 DEF TurnsOver
  <2>2. forwards[r][o.id] = 0
    BY DEF Init, Ids
  <2> QED BY <2>1, <2>2, FS_EmptySet
<1> QED BY <1>2, <1>3 DEF OnceInv, ForwardsCounted

\* However many copies arrive, over however many paths and in whatever order,
\* and whatever the mesh loses: while no hash expires and the traffic fits the
\* caches, a repeater forwards a packet at most once, and a TRACE at most once
\* for each time it is listed (Deduplicator::processPacket).
THEOREM NeverForwardedTwice == Spec => []ForwardedOnce
<1>1. CASE ~ Forgetful /\ TrafficFits
  <2>1. OnceInv /\ IInv => ForwardedOnce
    <3> SUFFICES ASSUME OnceInv, IInv, NEW o \in Originals, NEW r \in Repeaters
                 PROVE  forwards[r][o.id] <= IF o.route = "TRACE" THEN Listed(o, r) ELSE 1
      BY DEF ForwardedOnce
    <3>1. TurnsOver(o, r) \in SUBSET Turns(o, r)
      BY DEF TurnsOver
    <3>2. Cardinality(TurnsOver(o, r)) <= Cardinality(Turns(o, r))
      BY <3>1, TurnsFinite, FS_Subset
    <3>3. IsFiniteSet(TurnsOver(o, r))
      BY <3>1, TurnsFinite, FS_Subset
    <3>4. Cardinality(TurnsOver(o, r)) \in Nat
      BY <3>3, FS_CardinalityType
    <3>5. forwards[r][o.id] <= Cardinality(TurnsOver(o, r))
      BY DEF OnceInv, ForwardsCounted
    <3>6. forwards[r][o.id] \in 0..2
      BY DEF IInv, TypeOK, Ids
    <3> QED BY <3>2, <3>4, <3>5, <3>6, TurnsFinite
  <2>2. IInv /\ OnceInv /\ [Next]_vars => OnceInv'
    BY <1>1, OnceStep
  <2> QED BY <2>1, <2>2, OnceInitial, MeshInvariant, PTL DEF Spec
<1>2. CASE ~ (~ Forgetful /\ TrafficFits)
  <2>1. ForwardedOnce
    BY <1>2 DEF ForwardedOnce
  <2> QED BY <2>1, PTL
<1> QED BY <1>1, <1>2
=============================================================================
