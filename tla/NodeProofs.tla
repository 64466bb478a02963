----------------------------- MODULE NodeProofs -----------------------------
(***************************************************************************)
(* What holds of one repeater whatever is on the air, for every size of    *)
(* the ring, the table and the messages, every clock width and every       *)
(* epoch: the ring is a bounded queue, the neighbour table stays sound and *)
(* is listed in order, a duplicate changes nothing, a reply can be read    *)
(* back, the time runs on, and the sleep reported is never more than the   *)
(* sleep there was.                                                        *)
(***************************************************************************)
EXTENDS Node, Induction, SequenceTheorems, FiniteSetTheorems, TLAPS

\* Arithmetic modulo the size of the ring.
LEMMA WrapsOnce ==
    ASSUME NEW x \in Nat, x < 2 * QueueSize
    PROVE  x % QueueSize = IF x < QueueSize THEN x ELSE x - QueueSize
BY QueueAssumption

LEMMA SumWraps ==
    ASSUME NEW i \in Index, NEW c \in 0..QueueSize
    PROVE  (i + c) % QueueSize = IF i + c < QueueSize THEN i + c ELSE i + c - QueueSize
<1>1. i + c \in Nat /\ i + c < 2 * QueueSize
  BY QueueAssumption DEF Index
<1> QED BY <1>1, WrapsOnce, QueueAssumption DEF Index

LEMMA NextIndexWraps ==
    ASSUME NEW i \in Index
    PROVE  NextIndex(i) = IF i + 1 < QueueSize THEN i + 1 ELSE 0
<1>1. i + 1 \in Nat /\ i + 1 < 2 * QueueSize
  BY QueueAssumption DEF Index
<1> QED BY <1>1, WrapsOnce, QueueAssumption DEF Index, NextIndex

----------------------------------------------------------------------------
\* The slot of the k-th packet of a queue that is read from slot r on, and the
\* packets of the first c slots.
Place(r, k) == (r + k - 1) % QueueSize
Packets(q, r, c) == [k \in 1..c |-> q[Place(r, k)].packet]

\* The two indices are count slots apart, and the slots between them are the
\* ones in use.
QueueInv ==
    /\ QueueTypeOK
    /\ writeIndex = (readIndex + count) % QueueSize
    /\ \A k \in 1..count : queue[Place(readIndex, k)].valid

LEMMA ContentsAre == Contents = Packets(queue, readIndex, count)
BY DEF Contents, Packets, Place

LEMMA PlaceIs ==
    ASSUME NEW r \in Index, NEW k \in 1..QueueSize
    PROVE  Place(r, k) = IF r + k - 1 < QueueSize THEN r + k - 1 ELSE r + k - 1 - QueueSize
<1>1. k - 1 \in 0..QueueSize /\ r + (k - 1) = r + k - 1
  BY QueueAssumption DEF Index
<1> QED BY <1>1, SumWraps DEF Place

LEMMA PlacesApart ==
    ASSUME NEW r \in Index
    PROVE  /\ \A k \in 1..QueueSize : Place(r, k) \in Index
           /\ \A j, k \in 1..QueueSize : Place(r, j) = Place(r, k) => j = k
BY PlaceIs, QueueAssumption DEF Index

LEMMA PacketsShape ==
    ASSUME NEW q \in [Index -> QueuedPacket], NEW r \in Index, NEW c \in 0..QueueSize
    PROVE  /\ Packets(q, r, c) \in Seq(QueueItems)
           /\ Len(Packets(q, r, c)) = c
           /\ \A k \in 1..c : Packets(q, r, c)[k] = q[Place(r, k)].packet
<1>1. \A k \in 1..c : k \in 1..QueueSize
  BY QueueAssumption
<1>2. \A k \in 1..c : q[Place(r, k)].packet \in QueueItems
  BY <1>1, PlacesApart DEF QueuedPacket
<1>3. c \in Nat
  BY QueueAssumption
<1> QED BY <1>2, <1>3 DEF Packets

LEMMA QueueStart == QueueInit => QueueInv /\ Contents = <<>>
<1> SUFFICES ASSUME QueueInit PROVE QueueInv /\ Contents = <<>>
  OBVIOUS
<1>1. readIndex = 0 /\ writeIndex = 0 /\ count = 0 /\ droppedCount = 0
  BY DEF QueueInit
<1>2. Unset \in QueuedPacket
  BY QueueAssumption DEF Unset, QueuedPacket
<1>3. queue \in [Index -> QueuedPacket]
  BY <1>2 DEF QueueInit
<1>4. (readIndex + count) % QueueSize = 0
  BY <1>1, QueueAssumption
<1> QED BY <1>1, <1>3, <1>4, QueueAssumption DEF QueueInv, QueueTypeOK, Index, Contents

\* What enqueue() does to a full ring and to one with a free slot.
LEMMA Enqueued ==
    ASSUME QueueInv, NEW x \in QueueItems, Enqueue(x)
    PROVE  QueueInv' /\ (Abstract!Put(x) \/ Abstract!Refuse)
<1>1. /\ QueueTypeOK /\ readIndex \in Index /\ writeIndex \in Index /\ count \in 0..QueueSize
      /\ droppedCount \in Nat /\ queue \in [Index -> QueuedPacket]
      /\ writeIndex = (readIndex + count) % QueueSize
      /\ Len(Contents) = count
  BY ContentsAre, PacketsShape DEF QueueInv, QueueTypeOK
<1>2. CASE QueueFull
  <2>1. /\ UNCHANGED <<queue, readIndex, writeIndex, count>> /\ droppedCount' = droppedCount + 1
    BY <1>2 DEF Enqueue
  <2>2. QueueInv'
    BY <1>1, <2>1 DEF QueueInv, QueueTypeOK
  <2>3. Contents' = Contents
    BY <2>1 DEF Contents
  <2>4. Len(Contents) = QueueSize
    BY <1>1, <1>2, QueueAssumption DEF QueueFull
  <2> QED BY <2>1, <2>2, <2>3, <2>4 DEF Abstract!Refuse
<1>3. CASE ~ QueueFull
  <2> DEFINE new == [packet |-> x, valid |-> TRUE]
  <2>1. /\ queue' = [queue EXCEPT ![writeIndex] = new]
        /\ writeIndex' = NextIndex(writeIndex)
        /\ count' = count + 1 /\ readIndex' = readIndex /\ droppedCount' = droppedCount
        /\ count < QueueSize
    BY <1>1, <1>3, QueueAssumption DEF Enqueue, QueueFull
  <2>2. new \in QueuedPacket /\ new.valid /\ new.packet = x
    BY DEF QueuedPacket
  <2> HIDE DEF new
  <2>3. count + 1 \in 1..QueueSize /\ count' \in 0..QueueSize
    BY <1>1, <2>1, QueueAssumption
  <2>4. writeIndex = Place(readIndex, count + 1)
    <3>1. readIndex + (count + 1) - 1 = readIndex + count
      BY <1>1 DEF Index
    <3> QED BY <1>1, <3>1 DEF Place
  <2>5. writeIndex' \in Index /\ writeIndex' = (readIndex' + count') % QueueSize
    <3>1. writeIndex = IF readIndex + count < QueueSize THEN readIndex + count
                       ELSE readIndex + count - QueueSize
      BY <1>1, SumWraps
    <3>2. writeIndex' = IF writeIndex + 1 < QueueSize THEN writeIndex + 1 ELSE 0
      BY <1>1, <2>1, NextIndexWraps
    <3>3. writeIndex' \in Index
      BY <1>1, <3>2, QueueAssumption DEF Index
    <3>4. (readIndex + (count + 1)) % QueueSize =
             IF readIndex + (count + 1) < QueueSize THEN readIndex + (count + 1)
             ELSE readIndex + (count + 1) - QueueSize
      BY <1>1, <2>3, SumWraps
    <3> QED BY <1>1, <2>1, <3>1, <3>2, <3>3, <3>4, QueueAssumption DEF Index
  <2>6. \A k \in 1..count : Place(readIndex, k) # writeIndex /\ Place(readIndex, k) \in Index
    BY <1>1, <2>3, <2>4, PlacesApart, QueueAssumption
  <2>7. /\ queue' \in [Index -> QueuedPacket]
        /\ queue'[writeIndex] = new
        /\ \A k \in 1..count : queue'[Place(readIndex, k)] = queue[Place(readIndex, k)]
    BY <1>1, <2>1, <2>2, <2>6
  <2>8. QueueTypeOK'
    BY <1>1, <2>1, <2>3, <2>5, <2>7 DEF QueueTypeOK
  <2>9. \A k \in 1..(count + 1) : k \in 1..count \/ k = count + 1
    BY <1>1
  <2>10. \A k \in 1..count' : queue'[Place(readIndex', k)].valid
    BY <2>1, <2>2, <2>4, <2>7, <2>9 DEF QueueInv
  <2>11. Contents' = Append(Contents, x)
    <3>1. /\ Contents' \in Seq(QueueItems) /\ Len(Contents') = count + 1
          /\ \A k \in 1..(count + 1) : Contents'[k] = queue'[Place(readIndex, k)].packet
      <4>1. Contents' = Packets(queue', readIndex, count + 1)
        BY <2>1 DEF Contents, Packets, Place
      <4>2. queue' \in [Index -> QueuedPacket] /\ count + 1 \in 0..QueueSize
        BY <2>1, <2>3, <2>7
      <4> QED BY <1>1, <4>1, <4>2, PacketsShape
    <3>2. /\ Contents \in Seq(QueueItems) /\ Len(Contents) = count
          /\ \A k \in 1..count : Contents[k] = queue[Place(readIndex, k)].packet
      BY <1>1, ContentsAre, PacketsShape
    <3>3. \A k \in 1..count : Contents'[k] = Contents[k]
      BY <2>7, <2>9, <3>1, <3>2
    <3>4. Contents'[count + 1] = x
      BY <1>1, <2>2, <2>4, <2>7, <3>1
    <3> QED BY <1>1, <3>1, <3>2, <3>3, <3>4, SeqEqual, AppendProperties
  <2> QED BY <1>1, <2>1, <2>5, <2>8, <2>10, <2>11 DEF QueueInv, Abstract!Put
<1> QED BY <1>2, <1>3

\* What dequeue() takes is the first packet, and its slot is free again.
LEMMA Dequeued ==
    ASSUME QueueInv, NEW x \in QueueItems, Dequeue(x)
    PROVE  QueueInv' /\ Abstract!Get /\ x = Head(Contents)
<1>1. /\ QueueTypeOK /\ readIndex \in Index /\ writeIndex \in Index /\ count \in 1..QueueSize
      /\ droppedCount \in Nat /\ queue \in [Index -> QueuedPacket]
      /\ writeIndex = (readIndex + count) % QueueSize
  BY QueueAssumption DEF QueueInv, QueueTypeOK, Dequeue
<1>2. /\ queue' = [queue EXCEPT ![readIndex].valid = FALSE]
      /\ readIndex' = NextIndex(readIndex) /\ count' = count - 1
      /\ writeIndex' = writeIndex /\ droppedCount' = droppedCount
      /\ x = queue[readIndex].packet
  BY DEF Dequeue, Advance
<1>3. 1 \in 1..QueueSize /\ Place(readIndex, 1) = readIndex
  BY <1>1, PlaceIs, QueueAssumption DEF Index
<1>4. readIndex' = IF readIndex + 1 < QueueSize THEN readIndex + 1 ELSE 0
  BY <1>1, <1>2, NextIndexWraps
<1>5. readIndex' \in Index /\ count' \in 0..QueueSize
  BY <1>1, <1>2, <1>4, QueueAssumption DEF Index
<1>6. ASSUME NEW k \in 1..(count - 1)
      PROVE  /\ k \in 1..QueueSize /\ k + 1 \in 1..count /\ k + 1 \in 1..QueueSize
             /\ Place(readIndex', k) = Place(readIndex, k + 1)
             /\ Place(readIndex, k + 1) \in Index
             /\ Place(readIndex, k + 1) # readIndex
  <2>1. k \in 1..QueueSize /\ k + 1 \in 1..count /\ k + 1 \in 1..QueueSize
    BY <1>1, QueueAssumption
  <2>2. Place(readIndex', k) = IF readIndex' + k - 1 < QueueSize THEN readIndex' + k - 1
                               ELSE readIndex' + k - 1 - QueueSize
    BY <1>5, <2>1, PlaceIs
  <2>3. Place(readIndex, k + 1) =
           IF readIndex + (k + 1) - 1 < QueueSize THEN readIndex + (k + 1) - 1
           ELSE readIndex + (k + 1) - 1 - QueueSize
    BY <1>1, <2>1, PlaceIs
  <2>4. Place(readIndex', k) = Place(readIndex, k + 1)
    BY <1>1, <1>4, <2>1, <2>2, <2>3, QueueAssumption DEF Index
  <2> QED BY <1>1, <1>3, <2>1, <2>4, PlacesApart
<1>7. /\ queue' \in [Index -> QueuedPacket]
      /\ \A k \in 1..(count - 1) :
            queue'[Place(readIndex, k + 1)] = queue[Place(readIndex, k + 1)]
  BY <1>1, <1>2, <1>6 DEF QueuedPacket
<1>8. QueueTypeOK'
  BY <1>1, <1>2, <1>5, <1>7 DEF QueueTypeOK
<1>9. writeIndex' = (readIndex' + count') % QueueSize
  <2>1. writeIndex = IF readIndex + count < QueueSize THEN readIndex + count
                     ELSE readIndex + count - QueueSize
    <3>1. count \in 0..QueueSize
      BY <1>1, QueueAssumption
    <3> QED BY <1>1, <3>1, SumWraps
  <2>2. (readIndex' + count') % QueueSize =
           IF readIndex' + count' < QueueSize THEN readIndex' + count'
           ELSE readIndex' + count' - QueueSize
    BY <1>5, SumWraps
  <2>3. writeIndex = IF readIndex' + count' < QueueSize THEN readIndex' + count'
                     ELSE readIndex' + count' - QueueSize
    <3>1. /\ QueueSize \in Nat \ {0}
          /\ readIndex \in 0..(QueueSize - 1) /\ count \in 1..QueueSize
      BY <1>1, QueueAssumption DEF Index
    <3>2. CASE readIndex + 1 < QueueSize
      BY <1>2, <1>4, <2>1, <3>1, <3>2
    <3>3. CASE ~ (readIndex + 1 < QueueSize)
      BY <1>2, <1>4, <2>1, <3>1, <3>3
    <3> QED BY <3>2, <3>3
  <2> QED BY <1>2, <2>2, <2>3
<1>10. \A k \in 1..count' : queue'[Place(readIndex', k)].valid
  BY <1>2, <1>6, <1>7 DEF QueueInv
<1>11. Contents' = Tail(Contents) /\ Contents # <<>> /\ x = Head(Contents)
  <2>1. /\ Contents' \in Seq(QueueItems) /\ Len(Contents') = count - 1
        /\ \A k \in 1..(count - 1) : Contents'[k] = queue'[Place(readIndex, k + 1)].packet
    <3>1. Contents' = Packets(queue', readIndex', count')
      BY DEF Contents, Packets, Place
    <3>2. /\ Contents' \in Seq(QueueItems) /\ Len(Contents') = count'
          /\ \A k \in 1..count' : Contents'[k] = queue'[Place(readIndex', k)].packet
      BY <1>5, <1>7, <3>1, PacketsShape
    <3> QED BY <1>2, <1>6, <3>2
  <2>2. /\ Contents \in Seq(QueueItems) /\ Len(Contents) = count
        /\ \A k \in 1..count : Contents[k] = queue[Place(readIndex, k)].packet
    BY <1>1, ContentsAre, PacketsShape, QueueAssumption
  <2>3. Contents # <<>> /\ Head(Contents) = Contents[1]
    BY <1>1, <2>2
  <2>4. \A k \in 1..(count - 1) : Contents'[k] = Contents[k + 1]
    BY <1>6, <1>7, <2>1, <2>2
  <2>5. Contents' = Tail(Contents)
    BY <1>1, <2>1, <2>2, <2>3, <2>4, SeqEqual, HeadTailProperties
  <2> QED BY <1>1, <1>2, <1>3, <2>2, <2>3, <2>5
<1> QED BY <1>2, <1>8, <1>9, <1>10, <1>11 DEF QueueInv, Abstract!Get

----------------------------------------------------------------------------
\* What a step of the node may do to each part of its state.

LEMMA ItemsTyped ==
    /\ \A f \in Frame : [frame |-> f, snr |-> Scaled(FrameOf[f].snr)] \in QueueItems
    /\ \A x \in QueueItems : x.frame \in Frame /\ x.snr \in Snr
<1>1. \A x \in Int : Int8(x) \in Snr
  BY DEF Int8, Snr
<1>2. \A f \in Frame : Scaled(FrameOf[f].snr) \in Snr
  <2>1. \A f \in Frame : FrameOf[f].snr \in Snr
    BY NodeAssumption
  <2>2. \A n \in Snr : 4 * n \in Int
    BY DEF Snr
  <2> QED BY <1>1, <2>1, <2>2 DEF Scaled
<1> QED BY <1>2, ItemsAssumption

LEMMA QueueStep ==
    ASSUME latched \in Seq(Frame), [Next]_vars
    PROVE  UNCHANGED queueVars \/ \E x \in QueueItems : Enqueue(x) \/ Dequeue(x)
<1>1. CASE OnRxDone
  <2> DEFINE f == Head(latched)
             x == [frame |-> f, snr |-> Scaled(FrameOf[f].snr)]
  <2>1. UNCHANGED queueVars \/ Enqueue(x)
    BY <1>1 DEF OnRxDone
  <2>2. f \in Frame
    BY <1>1, HeadTailProperties DEF OnRxDone
  <2>3. x \in QueueItems
    BY <2>2, ItemsTyped
  <2> HIDE DEF x
  <2> QED BY <2>1, <2>3
<1>2. CASE Dispatch
  BY <1>2 DEF Dispatch
<1>3. CASE Hear \/ IrqDone \/ QueueDone \/ StayAwake \/ Sleep \/ Wake \/ TimePasses
  BY <1>3 DEF Hear, IrqDone, QueueDone, StayAwake, Sleep, Wake, TimePasses, GoOn, OtherVars
<1>4. CASE Forward \/ Answer \/ Discover
  BY <1>4 DEF Forward, SendForward, PassForward, Answer, SendAnswer, PassAnswer,
              Discover, SendDiscovery, PassDiscovery, GoOn, OtherVars
<1>5. CASE UNCHANGED vars
  BY <1>5 DEF vars
<1> QED BY <1>1, <1>2, <1>3, <1>4, <1>5 DEF Next, Loop

LEMMA NeighborStep ==
    ASSUME [Next]_vars
    PROVE  UNCHANGED nbVars \/ \E h \in NodeHashes, snr \in Snr : UpdateNeighbor(h, snr)
<1>1. CASE Dispatch
  <2>1. PICK item \in QueueItems : MonitorNeighbors(item.frame, item.snr)
    BY <1>1 DEF Dispatch
  <2>2. item.frame \in Frame /\ item.snr \in Snr
    BY ItemsTyped
  <2>3. FrameOf[item.frame].origin \in NodeHashes
    BY <2>2, NodeAssumption
  <2>4. Truncated(item.snr, 4) \in Snr
    BY <2>2 DEF Truncated, Snr
  <2> QED BY <2>1, <2>3, <2>4 DEF MonitorNeighbors
<1>2. CASE Hear \/ OnRxDone \/ IrqDone \/ QueueDone \/ StayAwake \/ Sleep \/ Wake \/ TimePasses
  BY <1>2 DEF Hear, OnRxDone, IrqDone, QueueDone, StayAwake, Sleep, Wake, TimePasses,
              GoOn, OtherVars
<1>3. CASE Forward \/ Answer \/ Discover
  BY <1>3 DEF Forward, SendForward, PassForward, Answer, SendAnswer, PassAnswer,
              Discover, SendDiscovery, PassDiscovery, GoOn, OtherVars
<1>4. CASE UNCHANGED vars
  BY <1>4 DEF vars
<1> QED BY <1>1, <1>2, <1>3, <1>4 DEF Next, Loop

LEMMA TimesTyped ==
    ASSUME NEW f \in Frame, NEW m \in Message(f) PROVE m.time \in Epoch
<1>1. m \in Inbox[f]
  BY DEF Message
<1>2. FrameOf[f].type = "GRP_TXT" /\ m \in Received(FrameOf[f].payload)
  BY <1>1 DEF Inbox
<1> QED BY <1>2, NodeAssumption

LEMMA TimeStep ==
    ASSUME [Next]_vars
    PROVE  \/ UNCHANGED <<clockVars, timeVars>>
           \/ Tick /\ UNCHANGED timeVars
           \/ UNCHANGED clockVars /\ \E r \in Epoch : UpdateFromRemote(r)
<1>1. CASE Dispatch
  <2>1. PICK item \in QueueItems : ReadTime(item.frame)
    BY <1>1 DEF Dispatch
  <2>2. UNCHANGED clockVars
    BY <1>1 DEF Dispatch
  <2>3. CASE Message(item.frame) = {}
    BY <2>1, <2>2, <2>3 DEF ReadTime
  <2>4. CASE Message(item.frame) # {}
    <3>1. PICK m \in Message(item.frame) : UpdateFromRemote(m.time)
      BY <2>1, <2>4 DEF ReadTime
    <3> QED BY <2>2, <3>1, ItemsTyped, TimesTyped
  <2> QED BY <2>3, <2>4
<1>2. CASE Hear \/ OnRxDone \/ IrqDone \/ QueueDone \/ StayAwake \/ Sleep \/ Wake
  BY <1>2 DEF Hear, OnRxDone, IrqDone, QueueDone, StayAwake, Sleep, Wake,
              GoOn, OtherVars
<1>3. CASE TimePasses
  BY <1>3 DEF TimePasses
<1>4. CASE Forward \/ Answer \/ Discover
  BY <1>4 DEF Forward, SendForward, PassForward, Answer, SendAnswer, PassAnswer,
              Discover, SendDiscovery, PassDiscovery, GoOn, OtherVars
<1>5. CASE UNCHANGED vars
  BY <1>5 DEF vars
<1> QED BY <1>1, <1>2, <1>3, <1>4, <1>5 DEF Next, Loop

\* A command is answered on the channel it came on, and resets all of the
\* statistics or none.
LEMMA CommandEffect ==
    ASSUME NEW ch \in 1..NumChannels, NEW asked, Carry(ch, asked)
    PROVE  /\ answer' = answer \/ answer'.channel \in 0..NumChannels
           /\ ResetStats \/ KeepStats
<1>1. ASSUME NEW text, Queue(ch, text) PROVE answer'.channel = ch
  BY <1>1 DEF Queue
<1>2. CASE Status(ch, asked.operands)
  BY <1>1, <1>2 DEF Status
<1>3. CASE SendAdvert(ch)
  BY <1>3, ChannelAssumption DEF SendAdvert, NoAnswer, NumChannels
<1>4. CASE Location(ch, asked.operands)
  <2>1. SetLocation(ch, asked.operands) => answer'.channel = ch
    BY <1>1 DEF SetLocation
  <2> QED BY <1>1, <1>4, <2>1 DEF Location
<1>5. ASSUME NEW text, Tell(ch, text)
      PROVE  answer'.channel = ch /\ KeepStats
  BY <1>1, <1>5 DEF Tell
<1>6. \/ Status(ch, asked.operands) \/ SendAdvert(ch) \/ Location(ch, asked.operands)
      \/ \E text : Tell(ch, text)
      \/ UNCHANGED answer /\ KeepStats
  BY DEF Carry
<1> QED BY <1>1, <1>2, <1>3, <1>4, <1>5, <1>6

LEMMA CommandStep ==
    ASSUME NEW f \in Frame, HandleCommand(f)
    PROVE  /\ answer' = answer \/ answer'.channel \in 0..NumChannels
           /\ ResetStats \/ KeepStats
<1>1. CASE UNCHANGED answer /\ KeepStats
  BY <1>1
<1>2. CASE \E m \in Message(f) : \E asked \in Requests[f] : Carry(m.channel, asked)
  <2>1. PICK m \in Message(f), asked \in Requests[f] : Carry(m.channel, asked)
    BY <1>2
  <2>2. m.channel \in 1..NumChannels
    <3>1. m \in Inbox[f]
      BY DEF Message
    <3>2. m \in Received(FrameOf[f].payload)
      BY <3>1 DEF Inbox
    <3> QED BY <3>2 DEF Received, FirstReader, Readers
  <2> QED BY <2>1, <2>2, CommandEffect
<1> QED BY <1>1, <1>2 DEF HandleCommand

----------------------------------------------------------------------------
\* The neighbour table.

TableInv == NeighborTypeOK /\ TableSound

\* An average of a sample and an average lies between them: dividing toward
\* zero never leaves the interval.
LEMMA AverageBetween ==
    ASSUME NEW snr \in Int, NEW avg \in Int
    PROVE  /\ Average(snr, avg) \in Int
           /\ \A w \in Int : w <= snr /\ w <= avg => w <= Average(snr, avg)
           /\ \A w \in Int : snr <= w /\ avg <= w => Average(snr, avg) <= w
<1>1. /\ snr + 3 * avg \in Int
      /\ \A w \in Int : w <= snr /\ w <= avg => 4 * w <= snr + 3 * avg
      /\ \A w \in Int : snr <= w /\ avg <= w => snr + 3 * avg <= 4 * w
  OBVIOUS
<1>2. ASSUME NEW a \in Int
      PROVE  /\ Truncated(a, 4) \in Int
             /\ \A w \in Int : 4 * w <= a => w <= Truncated(a, 4)
             /\ \A w \in Int : a <= 4 * w => Truncated(a, 4) <= w
  BY DEF Truncated
<1> QED BY <1>1, <1>2 DEF Average

LEMMA SampledIs ==
    ASSUME NEW n \in Neighbor, NEW snr \in Snr
    PROVE  /\ Sampled(n, snr) \in Neighbor
           /\ Sampled(n, snr).nodeHash = n.nodeHash
           /\ Sampled(n, snr).avgSnr = Average(snr, n.avgSnr)
<1>1. n.avgSnr \in Int /\ snr \in Int /\ n.sampleCount \in 1..MaxSamples
  BY DEF Neighbor, Snr
<1>2. Average(snr, n.avgSnr) \in Int
  BY <1>1, AverageBetween
<1>3. (IF n.sampleCount < MaxSamples THEN n.sampleCount + 1 ELSE n.sampleCount) \in 1..MaxSamples
  BY <1>1, NeighborAssumption
<1> QED BY <1>2, <1>3 DEF Sampled, Neighbor

Entries(t) == 1..Len(t)

\* What updateNeighbor() leaves: the old table, or one of its entries updated or
\* replaced, or a new one at the end.
LEMMA TableUpdate ==
    ASSUME TableInv, NEW h \in NodeHashes, NEW snr \in Snr, UpdateNeighbor(h, snr)
    PROVE  \/ neighbors' = neighbors
           \/ \E i \in Entries(neighbors) :
                 /\ neighbors[i].nodeHash = h
                 /\ neighbors' = [neighbors EXCEPT ![i] = Sampled(neighbors[i], snr)]
           \/ /\ Indices(neighbors, h) = {} /\ Len(neighbors) < MaxNeighbors
              /\ neighbors' = Append(neighbors, NewNeighbor(h, snr))
           \/ \E i \in Weakest(neighbors) :
                 /\ Indices(neighbors, h) = {} /\ snr > neighbors[i].avgSnr
                 /\ neighbors' = [neighbors EXCEPT ![i] = NewNeighbor(h, snr)]
BY DEF UpdateNeighbor, Updates, Indices, Entries

LEMMA TableChange ==
    ASSUME TableInv, NEW h \in NodeHashes, NEW snr \in Snr, UpdateNeighbor(h, snr)
    PROVE  TableInv'
<1>1. /\ neighbors \in Seq(Neighbor) /\ Len(neighbors) <= MaxNeighbors
      /\ Len(neighbors) \in Nat
      /\ heardSnr \in [NodeHashes -> SUBSET Snr]
      /\ \A i \in Entries(neighbors) : neighbors[i] \in Neighbor
      /\ OneEntryEach /\ AverageWithinSamples
  BY DEF TableInv, NeighborTypeOK, Table, TableSound, Entries
<1>2. /\ heardSnr' \in [NodeHashes -> SUBSET Snr]
      /\ snr \in heardSnr'[h]
      /\ \A g \in NodeHashes : heardSnr[g] \subseteq heardSnr'[g]
  BY <1>1 DEF UpdateNeighbor
<1> DEFINE Within(n) == \E weak, strong \in heardSnr'[n.nodeHash] :
                           weak <= n.avgSnr /\ n.avgSnr <= strong
<1>3. \A i \in Entries(neighbors) : Within(neighbors[i])
  BY <1>1, <1>2 DEF AverageWithinSamples, Entries, Neighbor
<1>4. NewNeighbor(h, snr) \in Neighbor /\ Within(NewNeighbor(h, snr))
  BY <1>2, NeighborAssumption DEF NewNeighbor, Neighbor, Snr
<1>5. ASSUME NEW i \in Entries(neighbors), NEW n \in Neighbor, Within(n),
             neighbors' = [neighbors EXCEPT ![i] = n],
             \A j \in Entries(neighbors) : neighbors[j].nodeHash = n.nodeHash => j = i
      PROVE  TableInv'
  <2>1. /\ neighbors' \in Seq(Neighbor) /\ Len(neighbors') = Len(neighbors)
        /\ \A j \in Entries(neighbors) : neighbors'[j] = IF j = i THEN n ELSE neighbors[j]
    BY <1>1, <1>5 DEF Entries
  <2> HIDE DEF Within
  <2>2. NeighborTypeOK'
    BY <1>1, <1>2, <2>1 DEF NeighborTypeOK, Table
  <2>3. OneEntryEach'
    BY <1>1, <1>5, <2>1 DEF OneEntryEach, Entries
  <2>4. \A j \in Entries(neighbors) : Within(neighbors'[j])
    BY <1>3, <1>5, <2>1
  <2>5. AverageWithinSamples'
    BY <2>1, <2>4 DEF AverageWithinSamples, Entries, Within
  <2> QED BY <2>2, <2>3, <2>5 DEF TableInv, TableSound
<1>6. CASE neighbors' = neighbors
  BY <1>1, <1>2, <1>3, <1>6 DEF TableInv, NeighborTypeOK, TableSound, OneEntryEach,
                                AverageWithinSamples, Entries
<1>7. CASE \E i \in Entries(neighbors) :
              /\ neighbors[i].nodeHash = h
              /\ neighbors' = [neighbors EXCEPT ![i] = Sampled(neighbors[i], snr)]
  <2>1. PICK i \in Entries(neighbors) :
           /\ neighbors[i].nodeHash = h
           /\ neighbors' = [neighbors EXCEPT ![i] = Sampled(neighbors[i], snr)]
    BY <1>7
  <2> DEFINE n == Sampled(neighbors[i], snr)
  <2>2. neighbors[i] \in Neighbor /\ neighbors[i].avgSnr \in Int /\ snr \in Int
    BY <1>1 DEF Neighbor, Snr
  <2>3. /\ n.nodeHash = h
        /\ n.avgSnr = Average(snr, neighbors[i].avgSnr)
        /\ n \in Neighbor
    BY <2>1, <2>2, SampledIs
  <2>4. Within(n)
    <3>1. PICK weak \in heardSnr'[h], strong \in heardSnr'[h] :
             weak <= neighbors[i].avgSnr /\ neighbors[i].avgSnr <= strong
      BY <1>3, <2>1
    <3>2. weak \in Int /\ strong \in Int
      BY <1>2, <3>1 DEF Snr
    <3>3. \E low \in heardSnr'[h] : low <= Average(snr, neighbors[i].avgSnr)
      <4>1. CASE weak <= snr
        BY <2>2, <3>1, <3>2, <4>1, AverageBetween
      <4>2. CASE snr <= weak
        <5>1. snr <= neighbors[i].avgSnr /\ snr <= snr
          BY <2>2, <3>1, <3>2, <4>2
        <5>2. snr <= Average(snr, neighbors[i].avgSnr)
          BY <2>2, <5>1, AverageBetween
        <5> QED BY <1>2, <5>2
      <4> QED BY <2>2, <3>2, <4>1, <4>2
    <3>4. \E high \in heardSnr'[h] : Average(snr, neighbors[i].avgSnr) <= high
      <4>1. CASE snr <= strong
        BY <2>2, <3>1, <3>2, <4>1, AverageBetween
      <4>2. CASE strong <= snr
        <5>1. neighbors[i].avgSnr <= snr /\ snr <= snr
          BY <2>2, <3>1, <3>2, <4>2
        <5>2. Average(snr, neighbors[i].avgSnr) <= snr
          BY <2>2, <5>1, AverageBetween
        <5> QED BY <1>2, <5>2
      <4> QED BY <2>2, <3>2, <4>1, <4>2
    <3> QED BY <2>3, <3>3, <3>4
  <2>5. \A j \in Entries(neighbors) : neighbors[j].nodeHash = n.nodeHash => j = i
    BY <1>1, <2>1, <2>3 DEF OneEntryEach, Entries
  <2> HIDE DEF n
  <2> QED BY <1>5, <2>1, <2>3, <2>4, <2>5 DEF n
<1>8. CASE /\ Indices(neighbors, h) = {} /\ Len(neighbors) < MaxNeighbors
           /\ neighbors' = Append(neighbors, NewNeighbor(h, snr))
  <2> DEFINE n == NewNeighbor(h, snr)
  <2>1. n.nodeHash = h
    BY DEF NewNeighbor
  <2> HIDE DEF n
  <2>2. /\ neighbors' \in Seq(Neighbor) /\ Len(neighbors') = Len(neighbors) + 1
        /\ \A j \in Entries(neighbors) : neighbors'[j] = neighbors[j]
        /\ neighbors'[Len(neighbors) + 1] = n
    BY <1>1, <1>4, <1>8, AppendProperties DEF Entries, n
  <2>3. \A j \in 1..Len(neighbors') : j \in Entries(neighbors) \/ j = Len(neighbors) + 1
    BY <1>1, <2>2 DEF Entries
  <2>4. \A j \in Entries(neighbors) : neighbors[j].nodeHash # h
    BY <1>8 DEF Indices, Entries
  <2>5. NeighborTypeOK'
    BY <1>1, <1>2, <1>8, <2>2, NeighborAssumption DEF NeighborTypeOK, Table
  <2>6. OneEntryEach'
    BY <1>1, <2>1, <2>2, <2>3, <2>4 DEF OneEntryEach, Entries
  <2>7. \A j \in 1..Len(neighbors') : Within(neighbors'[j])
    <3> HIDE DEF Within
    <3> QED BY <1>3, <1>4, <2>2, <2>3 DEF n
  <2>8. AverageWithinSamples'
    BY <2>7 DEF AverageWithinSamples
  <2> QED BY <2>5, <2>6, <2>8 DEF TableInv, TableSound
<1>9. CASE \E i \in Weakest(neighbors) :
              /\ Indices(neighbors, h) = {} /\ snr > neighbors[i].avgSnr
              /\ neighbors' = [neighbors EXCEPT ![i] = NewNeighbor(h, snr)]
  <2>1. PICK i \in Entries(neighbors) :
           /\ Indices(neighbors, h) = {}
           /\ neighbors' = [neighbors EXCEPT ![i] = NewNeighbor(h, snr)]
    BY <1>9 DEF Weakest, Entries
  <2>2. \A j \in Entries(neighbors) : neighbors[j].nodeHash # NewNeighbor(h, snr).nodeHash
    BY <2>1 DEF Indices, Entries, NewNeighbor
  <2> HIDE DEF Within
  <2> QED BY <1>4, <1>5, <2>1, <2>2
<1> QED BY <1>6, <1>7, <1>8, <1>9, TableUpdate

\* Only an entry that is replaced leaves, and it is one of the weakest.
LEMMA TableReplace ==
    ASSUME TableInv, NEW h \in NodeHashes, NEW snr \in Snr, UpdateNeighbor(h, snr),
           NEW i \in 1..Len(neighbors), ~ Listed(neighbors', neighbors[i].nodeHash)
    PROVE  /\ \A j \in 1..Len(neighbors) : neighbors[i].avgSnr <= neighbors[j].avgSnr
           /\ neighbors'[i].avgSnr > neighbors[i].avgSnr
<1>1. /\ neighbors \in Seq(Neighbor) /\ Len(neighbors) \in Nat
  BY DEF TableInv, NeighborTypeOK, Table
<1>2. \A k \in 1..Len(neighbors') : neighbors'[k].nodeHash # neighbors[i].nodeHash
  BY DEF Listed
<1>3. ~ (neighbors' = neighbors)
  BY <1>2
<1>4. ~ (neighbors' = Append(neighbors, NewNeighbor(h, snr)))
  BY <1>1, <1>2
<1>5. ASSUME NEW k \in Entries(neighbors), neighbors[k].nodeHash = h,
             neighbors' = [neighbors EXCEPT ![k] = Sampled(neighbors[k], snr)]
      PROVE  FALSE
  <2>1. /\ Len(neighbors') = Len(neighbors)
        /\ neighbors'[k] = Sampled(neighbors[k], snr)
        /\ \A j \in Entries(neighbors) : j # k => neighbors'[j] = neighbors[j]
    BY <1>1, <1>5 DEF Entries
  <2>2. neighbors'[k].nodeHash = neighbors[k].nodeHash
    BY <1>1, <2>1 DEF Sampled, Neighbor, Entries
  <2> QED BY <1>2, <2>1, <2>2 DEF Entries
<1>6. PICK k \in Weakest(neighbors) :
         /\ snr > neighbors[k].avgSnr
         /\ neighbors' = [neighbors EXCEPT ![k] = NewNeighbor(h, snr)]
  BY <1>3, <1>4, <1>5, TableUpdate
<1>7. /\ k \in 1..Len(neighbors)
      /\ \A j \in 1..Len(neighbors) : neighbors[k].avgSnr <= neighbors[j].avgSnr
  BY DEF Weakest
<1>8. /\ Len(neighbors') = Len(neighbors)
      /\ neighbors'[k] = NewNeighbor(h, snr)
      /\ \A j \in 1..Len(neighbors) : j # k => neighbors'[j] = neighbors[j]
  BY <1>1, <1>6, <1>7
<1>9. i = k
  BY <1>2, <1>8
<1> QED BY <1>6, <1>7, <1>8, <1>9 DEF NewNeighbor

----------------------------------------------------------------------------
\* The clock and the time.

\* What millis() shows since the last synchronisation is the uptime since then,
\* until the counter has gone once around.
TimeInv ==
    /\ ClockTypeOK /\ TimeTypeOK
    /\ uptime - syncedAt < ClockMod => Since(syncedMillis) = uptime - syncedAt

\* A tick adds one to what millis() shows since t, or returns it to 0.
LEMMA SinceTicks ==
    ASSUME ClockTypeOK, Tick, NEW t \in 0..(ClockMod - 1)
    PROVE  /\ ClockTypeOK' /\ uptime' = uptime + 1
           /\ Since(t) \in 0..(ClockMod - 1)
           /\ Since(t)' = IF Since(t) + 1 < ClockMod THEN Since(t) + 1 ELSE 0
BY ClockAssumption DEF ClockTypeOK, Tick, Since, Plus

LEMMA TimeChange ==
    ASSUME TimeInv, [Next]_vars
    PROVE  TimeInv'
<1>1. /\ uptime \in Nat /\ millis \in 0..(ClockMod - 1) /\ ClockTypeOK
      /\ syncedEpoch \in Epoch /\ syncedMillis \in 0..(ClockMod - 1) /\ syncedAt \in 0..uptime
  BY DEF TimeInv, ClockTypeOK, TimeTypeOK
<1>2. CASE UNCHANGED <<clockVars, timeVars>>
  BY <1>2 DEF TimeInv, ClockTypeOK, TimeTypeOK, clockVars, timeVars, Since
<1>3. CASE Tick /\ UNCHANGED timeVars
  <2>1. syncedEpoch' = syncedEpoch /\ syncedMillis' = syncedMillis /\ syncedAt' = syncedAt
    BY <1>3 DEF timeVars
  <2>2. /\ ClockTypeOK' /\ uptime' = uptime + 1
        /\ Since(syncedMillis)' = IF Since(syncedMillis) + 1 < ClockMod
                                  THEN Since(syncedMillis) + 1 ELSE 0
    <3>1. \A t \in 0..(ClockMod - 1) :
             /\ ClockTypeOK' /\ uptime' = uptime + 1
             /\ Since(t)' = IF Since(t) + 1 < ClockMod THEN Since(t) + 1 ELSE 0
      BY <1>1, <1>3, SinceTicks
    <3> QED BY <1>1, <2>1, <3>1 DEF Since
  <2>3. TimeTypeOK'
    BY <1>1, <2>1, <2>2 DEF TimeTypeOK
  <2> QED BY <1>1, <2>1, <2>2, <2>3, ClockAssumption DEF TimeInv
<1>4. CASE UNCHANGED clockVars /\ \E r \in Epoch : UpdateFromRemote(r)
  <2>1. PICK r \in Epoch : UpdateFromRemote(r)
    BY <1>4
  <2>2. CASE UNCHANGED timeVars
    BY <1>2, <1>4, <2>2
  <2>3. CASE syncedEpoch' = r /\ syncedMillis' = millis /\ syncedAt' = uptime
    <3>1. uptime' = uptime /\ millis' = millis
      BY <1>4 DEF clockVars
    <3>2. Since(syncedMillis)' = 0
      BY <1>1, <2>3, <3>1 DEF Since
    <3> QED BY <1>1, <2>3, <3>1, <3>2 DEF TimeInv, ClockTypeOK, TimeTypeOK
  <2> QED BY <2>1, <2>2, <2>3 DEF UpdateFromRemote
<1> QED BY <1>2, <1>3, <1>4, TimeStep

----------------------------------------------------------------------------
\* The sleep.

\* While the MCU sleeps, what it will report when it wakes is not yet more than
\* what it has slept.
SleepInv ==
    /\ phase \in Phase
    /\ totalSleepTime \in Nat /\ slept \in Nat /\ sleepStart \in 0..(ClockMod - 1)
    /\ IF phase = "asleep" THEN totalSleepTime + Since(sleepStart) <= slept
                           ELSE totalSleepTime <= slept

LEMMA SleepChange ==
    ASSUME ClockTypeOK, SleepInv, [Next]_vars
    PROVE  SleepInv'
<1>1. /\ phase \in Phase /\ totalSleepTime \in Nat /\ slept \in Nat
      /\ sleepStart \in 0..(ClockMod - 1)
      /\ uptime \in Nat /\ millis \in 0..(ClockMod - 1)
      /\ Since(sleepStart) \in 0..(ClockMod - 1)
  BY ClockAssumption DEF SleepInv, ClockTypeOK, Since
<1>2. ASSUME UNCHANGED <<clockVars, phase, sleepVars>>
      PROVE  SleepInv'
  BY <1>2 DEF SleepInv, clockVars, sleepVars, Since
<1>3. ASSUME phase # "asleep", phase' # "asleep", phase' \in Phase, UNCHANGED sleepVars
      PROVE  SleepInv'
  BY <1>3 DEF SleepInv, sleepVars
<1>4. CASE Dispatch
  <2>1. phase = "queue" /\ phase' = "queue"
    BY <1>4 DEF Dispatch, loopVars
  <2>2. ResetStats \/ KeepStats
    BY <1>4, ItemsTyped, CommandStep DEF Dispatch
  <2>3. CASE ResetStats
    BY <1>1, <2>1, <2>3 DEF ResetStats, SleepInv
  <2> QED BY <1>1, <1>3, <2>1, <2>2, <2>3 DEF KeepStats
<1>5. CASE Hear \/ OnRxDone
  BY <1>2, <1>5 DEF Hear, OnRxDone
<1>6. CASE IrqDone \/ QueueDone \/ StayAwake
  BY <1>3, <1>6 DEF IrqDone, QueueDone, StayAwake, GoOn, Phase
<1>7. CASE Forward \/ Answer \/ Discover
  BY <1>3, <1>7 DEF Forward, SendForward, PassForward, Answer, SendAnswer, PassAnswer,
                    Discover, SendDiscovery, PassDiscovery, GoOn, Phase
<1>8. CASE Sleep
  <2>1. /\ phase = "power" /\ phase' = "asleep" /\ sleepStart' = millis
        /\ totalSleepTime' = totalSleepTime /\ slept' = slept /\ millis' = millis
    BY <1>8 DEF Sleep, OtherVars, clockVars
  <2>2. Since(sleepStart)' = 0
    BY <1>1, <2>1 DEF Since
  <2> QED BY <1>1, <2>1, <2>2 DEF SleepInv, Phase
<1>9. CASE Wake
  <2>1. /\ phase = "asleep" /\ phase' = "irq" /\ sleepStart' = sleepStart /\ slept' = slept
        /\ totalSleepTime' \in {totalSleepTime, totalSleepTime + Since(sleepStart)}
    BY <1>9 DEF Wake
  <2> QED BY <1>1, <2>1 DEF SleepInv, Phase
<1>10. CASE TimePasses
  <2>1. /\ phase' = phase /\ sleepStart' = sleepStart /\ totalSleepTime' = totalSleepTime
        /\ slept' = IF phase = "asleep" THEN slept + 1 ELSE slept
        /\ Tick
    BY <1>10 DEF TimePasses, loopVars
  <2>2. Since(sleepStart)' <= Since(sleepStart) + 1 /\ Since(sleepStart)' \in Int
    <3>1. \A t \in 0..(ClockMod - 1) :
             Since(t)' = IF Since(t) + 1 < ClockMod THEN Since(t) + 1 ELSE 0
      BY <2>1, SinceTicks
    <3>2. Since(sleepStart)' = IF Since(sleepStart) + 1 < ClockMod
                               THEN Since(sleepStart) + 1 ELSE 0
      BY <1>1, <2>1, <3>1 DEF Since
    <3> QED BY <1>1, <3>2
  <2> QED BY <1>1, <2>1, <2>2 DEF SleepInv
<1>11. CASE UNCHANGED vars
  BY <1>2, <1>11 DEF vars, loopVars
<1> QED BY <1>4, <1>5, <1>6, <1>7, <1>8, <1>9, <1>10, <1>11 DEF Next, Loop

----------------------------------------------------------------------------
\* What is left of the types.

RestInv ==
    /\ latched \in Seq(Frame) /\ air \in Seq(Frame) /\ seen \subseteq Frame
    /\ packetCount \in Nat /\ totalRxAirtime \in Nat /\ forwards \in Nat
    /\ answer.channel \in 0..NumChannels
    /\ discovery \in BOOLEAN

LEMMA AirtimeTyped == \A n \in Nat : EstimateAirtime(n) \in Nat
BY DEF EstimateAirtime

LEMMA RestChange ==
    ASSUME RestInv, [Next]_vars
    PROVE  RestInv'
<1>1. CASE Dispatch
  <2>1. PICK item \in QueueItems :
           /\ seen' = seen \cup {item.frame} /\ HandleForward(item.frame)
           /\ HandleCommand(item.frame) /\ HandleDiscovery(item.frame)
    BY <1>1 DEF Dispatch
  <2>2. item.frame \in Frame
    BY ItemsTyped
  <2>3. latched' = latched /\ air' = air
    BY <1>1 DEF Dispatch, loopVars
  <2>4. answer'.channel \in 0..NumChannels /\ (ResetStats \/ KeepStats)
    BY <2>1, <2>2, CommandStep DEF RestInv
  <2>5. packetCount' \in Nat /\ totalRxAirtime' \in Nat
    BY <2>4 DEF ResetStats, KeepStats, rxVars, RestInv
  <2>6. forwards' \in Nat
    BY <2>1 DEF HandleForward, RestInv
  <2>7. discovery' \in BOOLEAN
    BY <2>1 DEF HandleDiscovery, RestInv
  <2>8. seen' \subseteq Frame
    BY <2>1, <2>2 DEF RestInv
  <2> QED BY <2>3, <2>4, <2>5, <2>6, <2>7, <2>8 DEF RestInv
<1>2. CASE Hear
  BY <1>2 DEF Hear, rxVars, workVars, RestInv
<1>3. CASE OnRxDone
  <2>1. Head(latched) \in Frame /\ latched' \in Seq(Frame)
    BY <1>3, HeadTailProperties DEF OnRxDone, RestInv
  <2>2. EstimateAirtime(FrameOf[Head(latched)].size) \in Nat
    <3>1. FrameOf[Head(latched)].size \in Nat
      BY <2>1, NodeAssumption
    <3> QED BY <3>1, AirtimeTyped
  <2>3. totalRxAirtime' \in Nat /\ packetCount' \in Nat
    BY <1>3, <2>2 DEF OnRxDone, RestInv
  <2> QED BY <1>3, <2>1, <2>3 DEF OnRxDone, workVars, RestInv
<1>4. CASE IrqDone \/ QueueDone \/ StayAwake \/ Sleep \/ Wake
  BY <1>4 DEF IrqDone, QueueDone, StayAwake, Sleep, Wake, GoOn, OtherVars,
              rxVars, workVars, RestInv
<1>5. CASE Forward
  BY <1>5 DEF Forward, SendForward, PassForward, GoOn, OtherVars, rxVars, workVars, RestInv
<1>6. CASE Answer
  <2>1. 0 \in 0..NumChannels
    BY ChannelAssumption DEF NumChannels
  <2> QED BY <1>6, <2>1 DEF Answer, SendAnswer, PassAnswer, NoAnswer, GoOn, OtherVars,
                            rxVars, workVars, RestInv
<1>7. CASE Discover
  BY <1>7 DEF Discover, SendDiscovery, PassDiscovery, GoOn, OtherVars, rxVars, workVars,
              RestInv
<1>8. CASE TimePasses
  BY <1>8 DEF TimePasses, loopVars, rxVars, workVars, RestInv
<1>9. CASE UNCHANGED vars
  BY <1>9 DEF vars, loopVars, rxVars, workVars, RestInv
<1> QED BY <1>1, <1>2, <1>3, <1>4, <1>5, <1>6, <1>7, <1>8, <1>9 DEF Next, Loop

----------------------------------------------------------------------------
\* The invariant of the whole node.

NodeInv == QueueInv /\ TableInv /\ TimeInv /\ SleepInv /\ RestInv

LEMMA NodeStart == Init => NodeInv
<1> SUFFICES ASSUME Init PROVE NodeInv
  OBVIOUS
<1>1. QueueInv
  BY QueueStart DEF Init
<1>2. TableInv
  BY NeighborAssumption DEF Init, NeighborInit, TableInv, NeighborTypeOK, Table, TableSound,
                            OneEntryEach, AverageWithinSamples
<1>3. TimeInv
  BY ClockAssumption, TimeSyncAssumption
     DEF Init, ClockInit, TimeInit, TimeInv, ClockTypeOK, TimeTypeOK, Epoch, Since
<1>4. SleepInv
  BY ClockAssumption DEF Init, SleepInv, Phase
<1>5. RestInv
  <2>1. 0 \in 0..NumChannels
    BY ChannelAssumption DEF NumChannels
  <2>2. answer.channel = 0
    BY DEF Init, NoAnswer
  <2>3. latched \in Seq(Frame) /\ air \in Seq(Frame)
    BY NodeAssumption DEF Init
  <2> QED BY <2>1, <2>2, <2>3 DEF Init, RestInv
<1> QED BY <1>1, <1>2, <1>3, <1>4, <1>5 DEF NodeInv

LEMMA QueueChange ==
    ASSUME NodeInv, [Next]_vars
    PROVE  QueueInv' /\ [Abstract!Next]_<<Contents, droppedCount>>
<1>1. CASE UNCHANGED queueVars
  BY <1>1 DEF queueVars, NodeInv, QueueInv, QueueTypeOK, Contents
<1>2. ASSUME NEW x \in QueueItems, Enqueue(x)
      PROVE  QueueInv' /\ Abstract!Next
  BY <1>2, Enqueued DEF NodeInv, Abstract!Next
<1>3. ASSUME NEW x \in QueueItems, Dequeue(x)
      PROVE  QueueInv' /\ Abstract!Next
  BY <1>3, Dequeued DEF NodeInv, Abstract!Next
<1> QED BY <1>1, <1>2, <1>3, QueueStep DEF NodeInv, RestInv

LEMMA NodeChange == NodeInv /\ [Next]_vars => NodeInv'
<1> SUFFICES ASSUME NodeInv, [Next]_vars PROVE NodeInv'
  OBVIOUS
<1>1. QueueInv'
  BY QueueChange
<1>2. TableInv'
  <2>1. CASE UNCHANGED nbVars
    BY <2>1 DEF nbVars, NodeInv, TableInv, NeighborTypeOK, Table, TableSound, OneEntryEach,
                AverageWithinSamples
  <2> QED BY <2>1, NeighborStep, TableChange DEF NodeInv
<1>3. TimeInv'
  BY TimeChange DEF NodeInv
<1>4. SleepInv'
  BY SleepChange DEF NodeInv, TimeInv
<1>5. RestInv'
  BY RestChange DEF NodeInv
<1> QED BY <1>1, <1>2, <1>3, <1>4, <1>5 DEF NodeInv

LEMMA NodeInvariant == Spec => []NodeInv
BY NodeStart, NodeChange, PTL DEF Spec

\* Every variable of the node keeps its type.
THEOREM NodeTyped == Spec => []TypeOK
<1>1. NodeInv => TypeOK
  BY DEF NodeInv, QueueInv, TableInv, TimeInv, SleepInv, RestInv, TypeOK
<1> QED BY <1>1, NodeInvariant, PTL

\* The ring of a node that runs is a bounded first-in first-out queue: for every
\* size of the ring, wherever its two indices have wrapped.
THEOREM RingIsFifo == Spec => QueueIsFifo
<1>1. Init => Abstract!Init
  BY QueueStart DEF Init, QueueInit, Abstract!Init
<1>2. NodeInv /\ [Next]_vars => [Abstract!Next]_<<Contents, droppedCount>>
  BY QueueChange
<1> QED BY <1>1, <1>2, NodeInvariant, PTL DEF Spec, QueueIsFifo, Abstract!Spec

\* dequeue() never finds a slot that is not valid, which it would skip while
\* telling processQueue() that there is nothing left.
NoSlotSkipped == count > 0 => queue[readIndex].valid

THEOREM SlotsValid == Spec => []NoSlotSkipped
<1>1. NodeInv => NoSlotSkipped
  <2> SUFFICES ASSUME NodeInv, count > 0 PROVE queue[readIndex].valid
    BY DEF NoSlotSkipped
  <2>1. readIndex \in Index /\ count \in 0..QueueSize
    BY DEF NodeInv, QueueInv, QueueTypeOK
  <2>2. 1 \in 1..count /\ 1 \in 1..QueueSize
    BY <2>1, QueueAssumption
  <2>3. Place(readIndex, 1) = readIndex
    BY <2>1, <2>2, PlaceIs, QueueAssumption DEF Index
  <2> QED BY <2>2, <2>3 DEF NodeInv, QueueInv
<1> QED BY <1>1, NodeInvariant, PTL

\* A node has one entry in the neighbour table, and its average lies between two
\* signals heard of it, for every order in which signals come in.
THEOREM TableStaysSound == Spec => []TableSound
<1>1. NodeInv => TableSound
  BY DEF NodeInv, TableInv
<1> QED BY <1>1, NodeInvariant, PTL

\* A node leaves the table only for one heard better than its average, when no
\* entry is weaker.
THEOREM WeakestLeaves == Spec => OnlyWeakestLeaves
<1>1. NodeInv /\ [Next]_vars =>
         [\A i \in 1..Len(neighbors) :
             ~ Listed(neighbors', neighbors[i].nodeHash) =>
                /\ \A j \in 1..Len(neighbors) : neighbors[i].avgSnr <= neighbors[j].avgSnr
                /\ neighbors'[i].avgSnr > neighbors[i].avgSnr]_nbVars
  BY NeighborStep, TableReplace DEF NodeInv
<1> QED BY <1>1, NodeInvariant, PTL DEF Spec, OnlyWeakestLeaves

\* From one synchronisation to the next the time runs with the uptime, also when
\* millis() returns to 0 in between, for every width of the clock and the epoch.
THEOREM TimeRunsOn == Spec => []TimeRuns
<1>1. NodeInv => TimeRuns
  BY DEF NodeInv, TimeInv, TimeRuns, Now
<1> QED BY <1>1, NodeInvariant, PTL

\* The sleep reported is never more than the sleep there was.
THEOREM SleepIsTrue == Spec => []SleepNeverOverstated
<1>1. NodeInv => SleepNeverOverstated
  <2> SUFFICES ASSUME NodeInv PROVE totalSleepTime <= slept
    BY DEF SleepNeverOverstated
  <2>1. /\ totalSleepTime \in Nat /\ slept \in Nat /\ Since(sleepStart) \in Nat
    BY ClockAssumption DEF NodeInv, SleepInv, TimeInv, ClockTypeOK, Since
  <2> QED BY <2>1 DEF NodeInv, SleepInv
<1> QED BY <1>1, NodeInvariant, PTL

----------------------------------------------------------------------------
\* What a message does to the time.

\* No frame holds two messages: the first channel that can read it decides.
LEMMA OneMessage ==
    ASSUME NEW f \in Frame, NEW m \in Message(f), NEW n \in Message(f)
    PROVE  m = n
<1> DEFINE p == FrameOf[f].payload
<1>1. m \in Received(p) /\ n \in Received(p)
  BY DEF Message, Inbox
<1> HIDE DEF p
<1>2. PICK c \in FirstReader(p) : \E d \in Decoded(p, Secret(c)) :
               m = [channel |-> c, time |-> d.time, text |-> d.text]
  BY <1>1 DEF Received
<1>3. PICK c2 \in FirstReader(p) : \E d \in Decoded(p, Secret(c2)) :
               n = [channel |-> c2, time |-> d.time, text |-> d.text]
  BY <1>1 DEF Received
<1>4. c = c2
  <2>1. c \in 1..NumChannels /\ c2 \in 1..NumChannels /\ c <= c2 /\ c2 <= c
    BY DEF FirstReader, Readers
  <2>2. \A a, b \in Int : a <= b /\ b <= a => a = b
    OBVIOUS
  <2> QED BY <2>1, <2>2, ChannelAssumption DEF NumChannels
<1>5. ASSUME NEW a \in Decoded(p, Secret(c)), NEW b \in Decoded(p, Secret(c))
      PROVE  a = b
  <2>1. Opened(p, Secret(c)) \subseteq {Decrypt(Secret(c), p.cipher)}
    BY DEF Opened
  <2> QED BY <2>1 DEF Decoded
<1> QED BY <1>2, <1>3, <1>4, <1>5

\* A packet leaves the ring only when processQueue() takes it.
LEMMA OnlyDispatch ==
    ASSUME NodeInv, [Next]_vars, NEW item \in QueueItems, phase = "queue", Dequeue(item)
    PROVE  /\ UNCHANGED clockVars
           /\ seen' = seen \cup {item.frame}
           /\ HandleForward(item.frame) /\ ReadTime(item.frame)
           /\ HandleCommand(item.frame) /\ HandleDiscovery(item.frame)
           /\ MonitorNeighbors(item.frame, item.snr)
<1>1. count' # count
  BY DEF Dequeue, Advance, NodeInv, QueueInv, QueueTypeOK
<1>2. Dispatch
  <2>1. CASE Hear \/ OnRxDone \/ IrqDone \/ QueueDone \/ StayAwake \/ Sleep \/ Wake \/ TimePasses
    BY <1>1, <2>1 DEF Hear, OnRxDone, IrqDone, QueueDone, StayAwake, Sleep, Wake, TimePasses,
                      GoOn, OtherVars, queueVars
  <2>2. CASE Forward \/ Answer \/ Discover
    BY <1>1, <2>2 DEF Forward, SendForward, PassForward, Answer, SendAnswer, PassAnswer,
                      Discover, SendDiscovery, PassDiscovery, GoOn, OtherVars, queueVars
  <2>3. CASE UNCHANGED vars
    BY <1>1, <2>3 DEF vars, queueVars
  <2> QED BY <2>1, <2>2, <2>3 DEF Next, Loop
<1>3. PICK x \in QueueItems :
         /\ Dequeue(x)
         /\ seen' = seen \cup {x.frame}
         /\ HandleForward(x.frame) /\ ReadTime(x.frame)
         /\ HandleCommand(x.frame) /\ HandleDiscovery(x.frame)
         /\ MonitorNeighbors(x.frame, x.snr)
  BY <1>2 DEF Dispatch
<1>4. x = item
  BY <1>3 DEF Dequeue
<1> QED BY <1>2, <1>3, <1>4 DEF Dispatch

\* Differences modulo the epoch.
LEMMA AheadBothWays ==
    ASSUME NEW a \in Epoch, NEW b \in Epoch
    PROVE  /\ Ahead(a, b) \in Epoch /\ Ahead(a, a) = 0
           /\ Ahead(a, b) = 0 <=> Ahead(b, a) = 0
           /\ Ahead(a, b) # 0 => Ahead(b, a) = EpochMod - Ahead(a, b)
<1>1. ASSUME NEW x \in Epoch, NEW y \in Epoch
      PROVE  Ahead(x, y) = IF x >= y THEN x - y ELSE (x - y) + EpochMod
  <2>1. CASE x >= y
    <3>1. x - y \in 0..(EpochMod - 1)
      BY <2>1, TimeSyncAssumption DEF Epoch
    <3>2. \A d \in 0..(EpochMod - 1) : d % EpochMod = d
      BY TimeSyncAssumption
    <3> QED BY <2>1, <3>1, <3>2 DEF Ahead
  <2>2. CASE x < y
    <3>1. x - y \in (1 - EpochMod)..(-1)
      BY <2>2, TimeSyncAssumption DEF Epoch
    <3>2. \A d \in (1 - EpochMod)..(-1) : d % EpochMod = d + EpochMod
      BY TimeSyncAssumption
    <3> QED BY <2>2, <3>1, <3>2, TimeSyncAssumption DEF Ahead, Epoch
  <2> QED BY <2>1, <2>2, TimeSyncAssumption DEF Epoch
<1> QED BY <1>1, TimeSyncAssumption DEF Epoch

LEMMA NowTyped == ASSUME TimeInv PROVE Now \in Epoch
<1>1. \A x \in Int : x % EpochMod \in Epoch
  BY TimeSyncAssumption DEF Epoch
<1>2. millis \div Second \in Int /\ Since(syncedMillis) \div Second \in Int
  BY TimeSyncAssumption, ClockAssumption DEF TimeInv, ClockTypeOK, TimeTypeOK, Since
<1>3. syncedEpoch \in Int
  BY TimeSyncAssumption DEF TimeInv, TimeTypeOK, Epoch
<1> QED BY <1>1, <1>2, <1>3 DEF Now

LEMMA FollowsWithin ==
    ASSUME TimeInv, NEW r \in Epoch, r # 0, UpdateFromRemote(r), UNCHANGED clockVars
    PROVE  Ahead(Now', r) <= Tolerance
<1>1. CASE Follows(r)
  <2>1. syncedEpoch' = r /\ syncedMillis' = millis /\ millis' = millis
    BY <1>1 DEF UpdateFromRemote, clockVars
  <2>2. Since(syncedMillis)' = 0
    BY <2>1 DEF Since, TimeInv, ClockTypeOK
  <2>3. 0 \div Second = 0 /\ r + 0 = r /\ r % EpochMod = r
    BY TimeSyncAssumption DEF Epoch
  <2>4. Now' = r
    BY <2>1, <2>2, <2>3 DEF Now
  <2> QED BY <2>4, AheadBothWays, TimeSyncAssumption
<1>2. CASE ~ Follows(r)
  <2>1. Now' = Now
    BY <1>2 DEF UpdateFromRemote, clockVars, timeVars, Now, Since
  <2>2. ~ (SignedAhead(r, Now) > 0) /\ ~ (SignedAhead(r, Now) < -Tolerance)
    BY <1>2 DEF Follows
  <2>3. /\ Ahead(r, Now) \in Epoch /\ Ahead(Now, r) \in Epoch
        /\ Ahead(r, Now) = 0 => Ahead(Now, r) = 0
        /\ Ahead(r, Now) # 0 => Ahead(Now, r) = EpochMod - Ahead(r, Now)
    BY NowTyped, AheadBothWays
  <2>4. CASE Ahead(r, Now) < EpochMod \div 2
    BY <2>1, <2>2, <2>3, <2>4, TimeSyncAssumption DEF SignedAhead, Epoch
  <2>5. CASE ~ (Ahead(r, Now) < EpochMod \div 2)
    BY <2>1, <2>2, <2>3, <2>5, TimeSyncAssumption DEF SignedAhead, Epoch
  <2> QED BY <2>4, <2>5
<1> QED BY <1>1, <1>2

\* After a message the node's time is the sender's or at most Tolerance ahead of
\* it, for every epoch, also where one of the two has returned to 0.
THEOREM TimeFollows == Spec => NowFollowsRemote
<1>1. ASSUME NodeInv, [Next]_vars, NEW item \in QueueItems, phase = "queue", Dequeue(item),
             NEW m \in Message(item.frame), m.time # 0
      PROVE  Ahead(Now', m.time) <= Tolerance
  <2>1. item.frame \in Frame
    BY ItemsTyped
  <2>2. m.time \in Epoch
    BY <2>1, TimesTyped
  <2>3. UpdateFromRemote(m.time) /\ UNCHANGED clockVars
    <3>1. ReadTime(item.frame) /\ UNCHANGED clockVars
      BY <1>1, OnlyDispatch
    <3>2. PICK n \in Message(item.frame) : UpdateFromRemote(n.time)
      BY <3>1 DEF ReadTime
    <3>3. n = m
      BY <2>1, OneMessage
    <3> QED BY <3>1, <3>2, <3>3
  <2> QED BY <1>1, <2>2, <2>3, FollowsWithin DEF NodeInv
<1>2. NodeInv /\ [Next]_vars =>
         [\A item \in QueueItems :
             phase = "queue" /\ Dequeue(item) =>
                \A m \in Message(item.frame) :
                   m.time # 0 => Ahead(Now', m.time) <= Tolerance]_vars
  BY <1>1
<1> QED BY <1>2, NodeInvariant, PTL DEF Spec, NowFollowsRemote

----------------------------------------------------------------------------
\* The list of "!neighbors": what the two loops of buildNeighborList() do to
\* the order of the slots.

\* An order of the slots of a table: each of them once.
IsOrder(n, order) ==
    /\ order \in [1..n -> 1..n]
    /\ \A k \in 1..n : \E p \in 1..n : order[p] = k

\* Up to slot i the order has what is strongest.
SortedUpTo(t, order, i) ==
    \A p, q \in 1..Len(t) : p <= i /\ p < q => t[order[p]].avgSnr >= t[order[q]].avgSnr

LEMMA ExchangeOrder ==
    ASSUME NEW n \in Nat, NEW t, NEW order, IsOrder(n, order),
           NEW i \in 1..n, NEW j \in 1..n, i # j
    PROVE  IsOrder(n, Exchange(t, order, i, j))
<1> DEFINE swapped == [order EXCEPT ![i] = order[j], ![j] = order[i]]
<1>1. order \in [1..n -> 1..n] /\ \A k \in 1..n : \E p \in 1..n : order[p] = k
  BY DEF IsOrder
<1>2. /\ swapped \in [1..n -> 1..n]
      /\ swapped[i] = order[j] /\ swapped[j] = order[i]
      /\ \A p \in 1..n : p # i /\ p # j => swapped[p] = order[p]
  BY <1>1
<1> HIDE DEF swapped
<1>3. ASSUME NEW k \in 1..n PROVE \E p \in 1..n : swapped[p] = k
  <2>1. PICK p \in 1..n : order[p] = k
    BY <1>1
  <2>2. CASE p = i
    BY <1>2, <2>1, <2>2
  <2>3. CASE p = j
    BY <1>2, <2>1, <2>3
  <2>4. CASE p # i /\ p # j
    BY <1>2, <2>1, <2>4
  <2> QED BY <2>2, <2>3, <2>4
<1>4. IsOrder(n, swapped)
  BY <1>2, <1>3 DEF IsOrder
<1> QED BY <1>4 DEF Exchange, swapped

\* The table's entries have numbers for averages.
LEMMA Strengths ==
    ASSUME NEW t \in Table
    PROVE  Len(t) \in Nat /\ \A k \in 1..Len(t) : t[k].avgSnr \in Int
<1>1. t \in Seq(Neighbor)
  BY DEF Table
<1>2. \A k \in 1..Len(t) : t[k] \in Neighbor
  BY <1>1, ElementOfSeq
<1> QED BY <1>1, <1>2, LenProperties DEF Neighbor

\* The inner loop as a recursive function.
PassTo(t, order, i, pass) ==
    pass = [j \in 0..Len(t) |-> IF j <= i THEN order
                                          ELSE Exchange(t, pass[j - 1], i, j)]

LEMMA PassExists ==
    ASSUME NEW t \in Table, NEW order, IsOrder(Len(t), order), NEW i \in 1..Len(t)
    PROVE  \E pass : /\ PassTo(t, order, i, pass)
                     /\ SortPass(t, order, i) = pass[Len(t)]
<1>0. PICK n \in Nat : n = Len(t)
  BY Strengths
<1> DEFINE V == {o \in [1..n -> 1..n] : IsOrder(n, o)}
           F == [x \in V \X Nat |-> IF x[2] <= i \/ x[2] > n THEN x[1]
                                    ELSE Exchange(t, x[1], i, x[2])]
<1>1. order \in V
  BY <1>0 DEF IsOrder
<1>2. F \in [V \X Nat -> V]
  <2>1. ASSUME NEW o \in V, NEW j \in Nat, j > i, j <= n
        PROVE  Exchange(t, o, i, j) \in V
    <3>1. IsOrder(n, Exchange(t, o, i, j))
      BY <1>0, <2>1, ExchangeOrder
    <3> QED BY <3>1 DEF IsOrder
  <2>2. ASSUME NEW x \in V \X Nat
        PROVE  (IF x[2] <= i \/ x[2] > n THEN x[1] ELSE Exchange(t, x[1], i, x[2])) \in V
    <3>1. x[1] \in V /\ x[2] \in Nat
      BY <2>2
    <3> HIDE DEF V
    <3> QED BY <1>0, <2>1, <3>1
  <2> QED BY <2>2
<1>3. \A o \in V, j \in Nat :
         F[<<o, j>>] = IF j <= i \/ j > n THEN o ELSE Exchange(t, o, i, j)
  OBVIOUS
<1> HIDE DEF F
<1>4. PICK f : RecursionTo(n, V, order, F, f)
  BY <1>1, <1>2, RecursionToExists
<1>5. /\ f \in [0..n -> V] /\ f[0] = order
      /\ \A k \in 1..n : f[k] = F[<<f[k - 1], k>>]
  BY <1>4 DEF RecursionTo
<1>6. \A k \in 1..n : f[k - 1] \in V /\ f[k] = IF k <= i THEN f[k - 1] ELSE Exchange(t, f[k - 1], i, k)
  <2> SUFFICES ASSUME NEW k \in 1..n
               PROVE  f[k - 1] \in V /\ f[k] = IF k <= i THEN f[k - 1] ELSE Exchange(t, f[k - 1], i, k)
    OBVIOUS
  <2>1. k - 1 \in 0..n /\ k \in Nat /\ ~ (k > n)
    OBVIOUS
  <2>2. f[k - 1] \in V
    BY <1>5, <2>1
  <2> HIDE DEF V
  <2>3. F[<<f[k - 1], k>>] = IF k <= i \/ k > n THEN f[k - 1] ELSE Exchange(t, f[k - 1], i, k)
    BY <1>3, <2>1, <2>2
  <2> QED BY <1>5, <2>1, <2>2, <2>3
<1>7. \A k \in 0..n : k <= i => f[k] = order
  <2> DEFINE S == {k \in 0..n : k <= i => f[k] = order}
  <2>1. 0 \in S
    BY <1>5
  <2>2. ASSUME NEW k \in 1..n, k - 1 \in S PROVE k \in S
    BY <1>6, <2>2
  <2> HIDE DEF S
  <2>3. 0..n \subseteq S
    BY <2>1, <2>2, InductionUpTo
  <2> QED BY <2>3 DEF S
<1>8. PassTo(t, order, i, f)
  <2>1. \A j \in 0..n : f[j] = IF j <= i THEN order ELSE Exchange(t, f[j - 1], i, j)
    BY <1>0, <1>6, <1>7
  <2>2. f = [j \in 0..n |-> IF j <= i THEN order ELSE Exchange(t, f[j - 1], i, j)]
    BY <1>5, <2>1
  <2> QED BY <1>0, <2>2 DEF PassTo
<1> DEFINE pass == CHOOSE p : PassTo(t, order, i, p)
<1>9. PassTo(t, order, i, pass)
  BY <1>8
<1>10. SortPass(t, order, i) = pass[Len(t)]
  BY DEF SortPass, PassTo
<1> QED BY <1>9, <1>10

LEMMA PassOrder ==
    ASSUME NEW t \in Table, NEW order, NEW i \in 1..Len(t), IsOrder(Len(t), order)
    PROVE  IsOrder(Len(t), SortPass(t, order, i))
<1>0. PICK n \in Nat : n = Len(t)
  BY Strengths
<1>1. PICK pass : PassTo(t, order, i, pass) /\ SortPass(t, order, i) = pass[n]
  BY <1>0, PassExists
<1>2. \A j \in 0..n : pass[j] = IF j <= i THEN order ELSE Exchange(t, pass[j - 1], i, j)
  BY <1>0, <1>1 DEF PassTo
<1> DEFINE S == {j \in 0..n : IsOrder(n, pass[j])}
<1>3. 0 \in S
  BY <1>0, <1>2
<1>4. ASSUME NEW j \in 1..n, j - 1 \in S PROVE j \in S
  <2>1. IsOrder(n, pass[j - 1])
    BY <1>4
  <2>2. CASE j <= i
    BY <1>0, <1>2, <2>2
  <2>3. CASE j > i
    <3>1. i # j /\ i \in 1..n
      BY <1>0, <2>3
    <3>2. IsOrder(n, Exchange(t, pass[j - 1], i, j))
      BY <2>1, <3>1, ExchangeOrder
    <3> QED BY <1>2, <2>3, <3>2
  <2> QED BY <1>0, <2>2, <2>3
<1> HIDE DEF S
<1>5. 0..n \subseteq S
  BY <1>3, <1>4, InductionUpTo
<1>6. n \in S
  BY <1>5
<1> QED BY <1>0, <1>1, <1>6 DEF S

\* What holds between two steps of the inner loop: slot i is the strongest of
\* those compared, and the slots in front of it stay in order.
LEMMA PassSteps ==
    ASSUME NEW t \in Table, NEW order, NEW i \in 1..Len(t), NEW pass,
           IsOrder(Len(t), order), SortedUpTo(t, order, i - 1),
           PassTo(t, order, i, pass)
    PROVE  \A j \in 0..Len(t) :
              /\ IsOrder(Len(t), pass[j])
              /\ SortedUpTo(t, pass[j], i - 1)
              /\ \A q \in (i + 1)..Len(t) :
                    q <= j => t[pass[j][i]].avgSnr >= t[pass[j][q]].avgSnr
<1>0. PICK n \in Nat : n = Len(t)
  BY Strengths
<1> DEFINE Snrs(o, p) == t[o[p]].avgSnr
           Good(j) == /\ IsOrder(n, pass[j])
                      /\ SortedUpTo(t, pass[j], i - 1)
                      /\ \A q \in (i + 1)..n : q <= j => Snrs(pass[j], i) >= Snrs(pass[j], q)
           S == {j \in 0..n : Good(j)}
<1>1. \A j \in 0..n : pass[j] = IF j <= i THEN order ELSE Exchange(t, pass[j - 1], i, j)
  BY <1>0 DEF PassTo
<1>2. 0 \in S
  <2>1. pass[0] = order
    BY <1>0, <1>1
  <2>2. \A q \in (i + 1)..n : ~ (q <= 0)
    BY <1>0
  <2> QED BY <1>0, <2>1, <2>2
<1>3. ASSUME NEW j \in 1..n, j - 1 \in S PROVE j \in S
  <2>1. CASE j <= i
    <3>1. pass[j] = order
      BY <1>1, <2>1
    <3>2. \A q \in (i + 1)..n : ~ (q <= j)
      BY <1>0, <2>1
    <3> QED BY <1>0, <3>1, <3>2
  <2>2. CASE j > i
    <3>1. PICK o : o = pass[j - 1]
      OBVIOUS
    <3>2. IsOrder(n, o) /\ SortedUpTo(t, o, i - 1)
          /\ \A q \in (i + 1)..n : q <= j - 1 => Snrs(o, i) >= Snrs(o, q)
      BY <1>3, <3>1
    <3>3. i \in 1..n /\ j \in 1..n /\ i # j
      BY <1>0, <2>2
    <3>4. pass[j] = Exchange(t, o, i, j)
      BY <1>1, <2>2, <3>1
    <3>5. PICK r : r = pass[j]
      OBVIOUS
    <3>6. IsOrder(n, r)
      BY <3>2, <3>3, <3>4, <3>5, ExchangeOrder
    <3>7. o \in [1..n -> 1..n] /\ r \in [1..n -> 1..n]
      BY <3>2, <3>6 DEF IsOrder
    <3>8. \A p \in 1..n : Snrs(o, p) \in Int /\ Snrs(r, p) \in Int
      BY <1>0, <3>7, Strengths
    <3>9. IF Snrs(o, j) > Snrs(o, i)
          THEN r = [o EXCEPT ![i] = o[j], ![j] = o[i]] ELSE r = o
      BY <3>4, <3>5 DEF Exchange
    <3>10. IF Snrs(o, j) > Snrs(o, i)
           THEN /\ Snrs(r, i) = Snrs(o, j) /\ Snrs(r, j) = Snrs(o, i)
                /\ \A p \in 1..n : p # i /\ p # j => Snrs(r, p) = Snrs(o, p)
           ELSE \A p \in 1..n : Snrs(r, p) = Snrs(o, p)
      BY <3>3, <3>7, <3>9
    <3>11. \A p, q \in 1..n : p <= i - 1 /\ p < q => Snrs(o, p) >= Snrs(o, q)
      BY <1>0, <3>2 DEF SortedUpTo
    <3> HIDE DEF Snrs
    <3>12. \A p, q \in 1..n : p <= i - 1 /\ p < q => Snrs(r, p) >= Snrs(r, q)
      <4> SUFFICES ASSUME NEW p \in 1..n, NEW q \in 1..n, p <= i - 1, p < q
                   PROVE  Snrs(r, p) >= Snrs(r, q)
        OBVIOUS
      <4>1. p # i /\ p # j /\ p < i /\ p < j
        BY <2>2, <3>3
      <4>2. Snrs(r, p) = Snrs(o, p)
        BY <3>10, <4>1
      <4>3. Snrs(r, q) = Snrs(o, q) \/ Snrs(r, q) = Snrs(o, i) \/ Snrs(r, q) = Snrs(o, j)
        BY <3>10
      <4> QED BY <3>3, <3>11, <4>1, <4>2, <4>3
    <3>13. \A q \in (i + 1)..n : q <= j => Snrs(r, i) >= Snrs(r, q)
      <4> SUFFICES ASSUME NEW q \in (i + 1)..n, q <= j
                   PROVE  Snrs(r, i) >= Snrs(r, q)
        OBVIOUS
      <4>1. q \in 1..n /\ q # i /\ (q # j => q <= j - 1)
        BY <3>3
      <4>2. Snrs(o, q) \in Int /\ Snrs(o, i) \in Int /\ Snrs(o, j) \in Int
        BY <3>3, <3>8, <4>1
      <4>3. q # j => Snrs(o, i) >= Snrs(o, q)
        BY <3>2, <4>1
      <4>4. CASE Snrs(o, j) > Snrs(o, i)
        <5>1. Snrs(r, i) = Snrs(o, j) /\ (q = j => Snrs(r, q) = Snrs(o, i))
              /\ (q # j => Snrs(r, q) = Snrs(o, q))
          BY <3>10, <4>1, <4>4
        <5> QED BY <4>2, <4>3, <4>4, <5>1
      <4>5. CASE ~ (Snrs(o, j) > Snrs(o, i))
        <5>1. Snrs(r, i) = Snrs(o, i) /\ Snrs(r, q) = Snrs(o, q)
          BY <3>3, <3>10, <4>1, <4>5
        <5> QED BY <4>2, <4>3, <4>5, <5>1
      <4> QED BY <4>4, <4>5
    <3>14. SortedUpTo(t, r, i - 1)
      BY <1>0, <3>12 DEF SortedUpTo, Snrs
    <3> QED BY <3>5, <3>6, <3>13, <3>14
  <2> QED BY <1>0, <2>1, <2>2
<1> HIDE DEF S
<1>4. 0..n \subseteq S
  BY <1>2, <1>3, InductionUpTo
<1> QED BY <1>0, <1>4 DEF S

\* A pass finds the strongest of the slots behind.
LEMMA PassSorts ==
    ASSUME NEW t \in Table, NEW order, NEW i \in 1..Len(t),
           IsOrder(Len(t), order), SortedUpTo(t, order, i - 1)
    PROVE  /\ IsOrder(Len(t), SortPass(t, order, i))
           /\ SortedUpTo(t, SortPass(t, order, i), i)
<1>0. PICK n \in Nat : n = Len(t)
  BY Strengths
<1>1. PICK pass : PassTo(t, order, i, pass) /\ SortPass(t, order, i) = pass[Len(t)]
  BY PassExists
<1>2. PICK r : r = SortPass(t, order, i)
  OBVIOUS
<1>3. /\ IsOrder(n, r) /\ SortedUpTo(t, r, i - 1)
      /\ \A q \in (i + 1)..n : t[r[i]].avgSnr >= t[r[q]].avgSnr
  <2>1. n \in 0..n /\ \A q \in (i + 1)..n : q <= n
    OBVIOUS
  <2>2. \A j \in 0..n :
              /\ IsOrder(n, pass[j])
              /\ SortedUpTo(t, pass[j], i - 1)
              /\ \A q \in (i + 1)..n :
                    q <= j => t[pass[j][i]].avgSnr >= t[pass[j][q]].avgSnr
    BY <1>0, <1>1, PassSteps
  <2> QED BY <1>0, <1>1, <1>2, <2>1, <2>2
<1>4. ASSUME NEW p \in 1..n, NEW q \in 1..n, p <= i, p < q
      PROVE  t[r[p]].avgSnr >= t[r[q]].avgSnr
  <2>1. CASE p = i
    <3>1. q \in (i + 1)..n
      BY <1>4, <2>1
    <3> QED BY <1>3, <2>1, <3>1
  <2>2. CASE p # i
    <3>1. p <= i - 1
      BY <1>0, <1>4, <2>2
    <3> QED BY <1>0, <1>3, <1>4, <3>1 DEF SortedUpTo
  <2> QED BY <2>1, <2>2
<1> QED BY <1>0, <1>2, <1>3, <1>4 DEF SortedUpTo

\* The outer loop as a recursive function.
SortTo(t, sorted) ==
    sorted = [i \in 0..Len(t) |-> IF i = 0 THEN [k \in 1..Len(t) |-> k]
                                           ELSE SortPass(t, sorted[i - 1], i)]

LEMMA SortExists ==
    ASSUME NEW t \in Table
    PROVE  \E sorted : SortTo(t, sorted) /\ SortedIndices(t) = sorted[Len(t)]
<1>0. PICK n \in Nat : n = Len(t)
  BY Strengths
<1> DEFINE V == {o \in [1..n -> 1..n] : IsOrder(n, o)}
           first == [k \in 1..n |-> k]
           F == [x \in V \X Nat |-> IF x[2] \in 1..n THEN SortPass(t, x[1], x[2]) ELSE x[1]]
<1>1. first \in V
  BY DEF IsOrder
<1>2. F \in [V \X Nat -> V]
  <2>1. ASSUME NEW o \in V, NEW i \in 1..n
        PROVE  SortPass(t, o, i) \in V
    <3>1. IsOrder(n, SortPass(t, o, i))
      BY <1>0, PassOrder
    <3> QED BY <3>1 DEF IsOrder
  <2>2. ASSUME NEW x \in V \X Nat
        PROVE  (IF x[2] \in 1..n THEN SortPass(t, x[1], x[2]) ELSE x[1]) \in V
    <3>1. x[1] \in V
      BY <2>2
    <3> HIDE DEF V
    <3> QED BY <2>1, <3>1
  <2> QED BY <2>2
<1>3. \A o \in V, i \in 1..n : F[<<o, i>>] = SortPass(t, o, i)
  OBVIOUS
<1> HIDE DEF F, V
<1>4. PICK f : RecursionTo(n, V, first, F, f)
  BY <1>1, <1>2, RecursionToExists
<1>5. /\ f \in [0..n -> V] /\ f[0] = first
      /\ \A k \in 1..n : f[k] = F[<<f[k - 1], k>>]
  BY <1>4 DEF RecursionTo
<1>6. \A k \in 1..n : f[k] = SortPass(t, f[k - 1], k)
  <2> SUFFICES ASSUME NEW k \in 1..n PROVE f[k] = SortPass(t, f[k - 1], k)
    OBVIOUS
  <2>1. f[k - 1] \in V
    <3>1. k - 1 \in 0..n
      OBVIOUS
    <3> QED BY <1>5, <3>1
  <2> QED BY <1>3, <1>5, <2>1
<1>7. SortTo(t, f)
  <2>1. \A i \in 0..n : f[i] = IF i = 0 THEN first ELSE SortPass(t, f[i - 1], i)
    BY <1>5, <1>6
  <2>2. f = [i \in 0..n |-> IF i = 0 THEN first ELSE SortPass(t, f[i - 1], i)]
    BY <1>5, <2>1
  <2> QED BY <1>0, <2>2 DEF SortTo
<1> DEFINE sorted == CHOOSE s : SortTo(t, s)
<1>8. SortTo(t, sorted)
  BY <1>7
<1>9. SortedIndices(t) = sorted[Len(t)]
  BY DEF SortedIndices, SortTo
<1> QED BY <1>8, <1>9

\* The two loops put the table in order, the strongest first.
LEMMA IndicesSorted ==
    ASSUME NEW t \in Table
    PROVE  /\ IsOrder(Len(t), SortedIndices(t))
           /\ SortedUpTo(t, SortedIndices(t), Len(t))
<1>0. PICK n \in Nat : n = Len(t)
  BY Strengths
<1>1. PICK sorted : SortTo(t, sorted) /\ SortedIndices(t) = sorted[n]
  BY <1>0, SortExists
<1>2. \A i \in 0..n : sorted[i] = IF i = 0 THEN [k \in 1..n |-> k]
                                           ELSE SortPass(t, sorted[i - 1], i)
  BY <1>0, <1>1 DEF SortTo
<1> DEFINE S == {i \in 0..n : IsOrder(n, sorted[i]) /\ SortedUpTo(t, sorted[i], i)}
<1>3. 0 \in S
  <2>1. sorted[0] = [k \in 1..n |-> k]
    <3>1. 0 \in 0..n
      OBVIOUS
    <3> QED BY <1>2, <3>1, Zenon
  <2>2. IsOrder(n, sorted[0])
    BY <2>1 DEF IsOrder
  <2>3. SortedUpTo(t, sorted[0], 0)
    <3>1. \A p \in 1..n : ~ (p <= 0)
      OBVIOUS
    <3> QED BY <1>0, <3>1 DEF SortedUpTo
  <2> QED BY <2>2, <2>3
<1>4. ASSUME NEW i \in 1..n, i - 1 \in S PROVE i \in S
  <2>1. sorted[i] = SortPass(t, sorted[i - 1], i)
    <3>1. i \in 0..n /\ i # 0
      OBVIOUS
    <3> QED BY <1>2, <3>1, Zenon
  <2>2. IsOrder(n, sorted[i - 1]) /\ SortedUpTo(t, sorted[i - 1], i - 1)
    BY <1>4
  <2> QED BY <1>0, <2>1, <2>2, PassSorts
<1> HIDE DEF S
<1>5. n \in S
  BY <1>3, <1>4, InductionUpTo
<1> QED BY <1>0, <1>1, <1>5 DEF S

LEMMA ListSorted ==
    ASSUME NeighborTypeOK
    PROVE  ListedByStrength
<1> DEFINE t == neighbors
           o == SortedIndices(t)
           list == NeighborList(t)
<1>0. t \in Table
  BY DEF NeighborTypeOK
<1>1. PICK n \in Nat : n = Len(t)
  BY <1>0, Strengths
<1>2. IsOrder(n, o) /\ SortedUpTo(t, o, n)
  BY <1>0, <1>1, IndicesSorted
<1>3. /\ DOMAIN list = 1..n
      /\ \A i \in 1..n : list[i].nodeHash = t[o[i]].nodeHash /\ list[i].avgSnr = t[o[i]].avgSnr
  BY <1>1 DEF NeighborList
<1>4. DOMAIN t = 1..n
  BY <1>0, <1>1, LenProperties DEF Table
<1> HIDE DEF list, o
<1>5. /\ \A i \in 1..n : o[i] \in 1..n
      /\ \A k \in 1..n : \E p \in 1..n : o[p] = k
  BY <1>2 DEF IsOrder
<1>6. {list[i].nodeHash : i \in DOMAIN list} = {t[i].nodeHash : i \in DOMAIN t}
  <2>1. ASSUME NEW i \in DOMAIN list
        PROVE  list[i].nodeHash \in {t[k].nodeHash : k \in DOMAIN t}
    BY <1>3, <1>4, <1>5
  <2>2. ASSUME NEW k \in DOMAIN t
        PROVE  t[k].nodeHash \in {list[i].nodeHash : i \in DOMAIN list}
    <3>1. PICK p \in 1..n : o[p] = k
      BY <1>4, <1>5, <2>2
    <3>2. list[p].nodeHash = t[k].nodeHash
      BY <1>3, <3>1
    <3> QED BY <1>3, <3>2
  <2> QED BY <2>1, <2>2
<1>7. \A i, j \in DOMAIN list : i < j => list[i].avgSnr >= list[j].avgSnr
  BY <1>1, <1>2, <1>3 DEF SortedUpTo
<1> QED BY <1>6, <1>7 DEF ListedByStrength, list

\* "!neighbors" lists every entry of the table once, the strongest first, for
\* every table.
THEOREM NeighborsListed == Spec => []ListedByStrength
<1>1. NodeInv => ListedByStrength
  BY ListSorted DEF NodeInv, TableInv
<1> QED BY <1>1, NodeInvariant, PTL

----------------------------------------------------------------------------
\* The order of the processors, and what a duplicate gets to.

LEMMA InsertedBehind ==
    ASSUME NEW S, NEW s \in Seq(S), NEW e \in S, NEW i \in 2..(Len(s) + 1), Len(s) >= 1
    PROVE  InsertAt(s, i, e) \in Seq(S) /\ Len(InsertAt(s, i, e)) >= 1
           /\ InsertAt(s, i, e)[1] = s[1]
<1>0. Len(s) \in Nat /\ s \in [1..Len(s) -> S]
  BY LenProperties
<1> DEFINE front == SubSeq(s, 1, i - 1)
           back == SubSeq(s, i, Len(s))
<1>1. front \in Seq(S) /\ Len(front) = i - 1 /\ front[1] = s[1]
  <2>1. \A k \in 1..(i - 1) : s[k] \in S
    BY <1>0
  <2>2. /\ front \in Seq(S) /\ Len(front) = IF 1 <= i - 1 THEN (i - 1) - 1 + 1 ELSE 0
        /\ \A k \in 1..((i - 1) - 1 + 1) : front[k] = s[1 + k - 1]
    BY <2>1, SubSeqProperties
  <2> QED BY <2>2
<1>2. back \in Seq(S)
  <2>1. \A k \in i..Len(s) : s[k] \in S
    BY <1>0
  <2> QED BY <1>0, <2>1, SubSeqProperties
<1>3. <<e>> \in Seq(S) /\ Len(<<e>>) = 1
  OBVIOUS
<1> HIDE DEF front, back
<1>4. /\ front \o <<e>> \in Seq(S) /\ Len(front \o <<e>>) = i
      /\ (front \o <<e>>)[1] = s[1]
  BY <1>1, <1>3, ConcatProperties
<1>5. /\ (front \o <<e>>) \o back \in Seq(S)
      /\ Len((front \o <<e>>) \o back) = i + Len(back)
      /\ ((front \o <<e>>) \o back)[1] = s[1]
  <2> DEFINE first == front \o <<e>>
  <2>1. Len(back) \in Nat /\ Len(first) = i /\ first \in Seq(S) /\ first[1] = s[1]
    BY <1>2, <1>4, LenProperties
  <2> HIDE DEF first
  <2>2. /\ first \o back \in Seq(S) /\ Len(first \o back) = Len(first) + Len(back)
        /\ \A k \in 1..(Len(first) + Len(back)) :
              (first \o back)[k] = IF k <= Len(first) THEN first[k] ELSE back[k - Len(first)]
    BY <1>2, <2>1, ConcatProperties
  <2>3. (first \o back)[1] = s[1]
    BY <2>1, <2>2
  <2>4. Len(first \o back) = i + Len(back)
    BY <2>1, <2>2
  <2> QED BY <2>2, <2>3, <2>4 DEF first
<1>6. Len(back) \in Nat
  BY <1>2, LenProperties
<1> QED BY <1>5, <1>6 DEF InsertAt, front, back

\* No processor goes in front of the deduplicator.
LEMMA BehindFirst ==
    ASSUME NEW s \in Seq(DOMAIN Priority), Len(s) >= 1, s[1] = "Deduplicator",
           NEW p \in DOMAIN Priority
    PROVE  /\ AddProcessor(s, p) \in Seq(DOMAIN Priority)
           /\ Len(AddProcessor(s, p)) >= 1 /\ AddProcessor(s, p)[1] = "Deduplicator"
<1> DEFINE later == {i \in DOMAIN s : Priority[s[i]] > Priority[p]}
           place == IF later = {} THEN Len(s) + 1
                                  ELSE CHOOSE i \in later : \A j \in later : i <= j
<1>1. Len(s) \in Nat /\ DOMAIN s = 1..Len(s)
  BY LenProperties
<1>2. 1 \notin later
  BY DEF Priority
<1>3. place \in 2..(Len(s) + 1)
  <2>1. CASE later = {}
    BY <1>1, <2>1
  <2>2. CASE later # {}
    <3>1. later \in SUBSET Nat
      BY <1>1
    <3>2. \E i \in later : \A j \in later : i <= j
      BY <2>2, <3>1, SmallestNat
    <3>3. place \in later
      BY <2>2, <3>2
    <3> QED BY <1>1, <1>2, <3>3
  <2> QED BY <2>1, <2>2
<1> HIDE DEF place
<1>4. CASE Len(s) >= MaxProcessors \/ Contains(s, p)
  <2>1. AddProcessor(s, p) = s
    BY <1>4 DEF AddProcessor
  <2> QED BY <2>1
<1>5. CASE ~ (Len(s) >= MaxProcessors \/ Contains(s, p))
  <2>1. AddProcessor(s, p) = InsertAt(s, place, p)
    BY <1>5 DEF AddProcessor, place
  <2> QED BY <1>3, <2>1, InsertedBehind
<1> QED BY <1>4, <1>5

LEMMA FirstAdded == AddProcessor(<<>>, "Deduplicator") = <<"Deduplicator">>
<1> DEFINE later == {i \in DOMAIN <<>> : Priority[<<>>[i]] > Priority["Deduplicator"]}
           place == IF later = {} THEN Len(<<>>) + 1
                                  ELSE CHOOSE i \in later : \A j \in later : i <= j
<1>1. later = {} /\ Len(<<>>) = 0
  OBVIOUS
<1>2. place = 1
  BY <1>1
<1>3. ~ (Len(<<>>) >= MaxProcessors) /\ ~ Contains(<<>>, "Deduplicator")
  BY DEF MaxProcessors, Contains
<1>4. AddProcessor(<<>>, "Deduplicator") = InsertAt(<<>>, place, "Deduplicator")
  BY <1>3 DEF AddProcessor
<1> HIDE DEF place
<1>5. InsertAt(<<>>, 1, "Deduplicator") = <<"Deduplicator">>
  <2>1. SubSeq(<<>>, 1, 1 - 1) = <<>> /\ SubSeq(<<>>, 1, Len(<<>>)) = <<>>
    OBVIOUS
  <2>2. (<<>> \o <<"Deduplicator">>) \o <<>> = <<"Deduplicator">>
    OBVIOUS
  <2> QED BY <2>1, <2>2 DEF InsertAt
<1> QED BY <1>2, <1>4, <1>5

\* Added is the recursion it is written as.
AddedIn(f) == f = [k \in 0..Len(Registered) |->
                      IF k = 0 THEN <<>> ELSE AddProcessor(f[k - 1], Registered[k])]

LEMMA RegisteredTyped ==
    /\ Len(Registered) = 7 /\ Registered[1] = "Deduplicator"
    /\ \A k \in 1..7 : Registered[k] \in DOMAIN Priority
BY DEF Registered, Priority


DeduplicatorFirst(s) == s \in Seq(DOMAIN Priority) /\ Len(s) >= 1 /\ s[1] = "Deduplicator"

LEMMA AddedExists == \E f : AddedIn(f)
<1> DEFINE V == {s \in Seq(DOMAIN Priority) : DeduplicatorFirst(s)}
           F == [x \in V \X Nat |-> IF x[2] \in 1..6 THEN AddProcessor(x[1], Registered[x[2] + 1])
                                                     ELSE x[1]]
<1>1. ASSUME NEW x \in V \X Nat
      PROVE  (IF x[2] \in 1..6 THEN AddProcessor(x[1], Registered[x[2] + 1]) ELSE x[1]) \in V
  <2>1. x[1] \in V /\ x[2] \in Nat
    OBVIOUS
  <2>2. CASE x[2] \in 1..6
    <3>1. Registered[x[2] + 1] \in DOMAIN Priority
      <4>1. x[2] + 1 \in 1..7
        BY <2>2
      <4> QED BY <4>1, RegisteredTyped
    <3>2. DeduplicatorFirst(AddProcessor(x[1], Registered[x[2] + 1]))
      BY <2>1, <3>1, BehindFirst DEF DeduplicatorFirst
    <3> QED BY <2>2, <3>2 DEF DeduplicatorFirst
  <2>3. CASE x[2] \notin 1..6
    BY <2>1, <2>3
  <2> QED BY <2>2, <2>3
<1>2. F \in [V \X Nat -> V]
  BY <1>1
<1>3. <<"Deduplicator">> \in V
  BY DEF DeduplicatorFirst, Priority
<1> HIDE DEF V
<1>4. PICK h : RecursionTo(6, V, <<"Deduplicator">>, F, h)
  BY <1>2, <1>3, RecursionToExists
<1>5. /\ h \in [0..6 -> V] /\ h[0] = <<"Deduplicator">>
      /\ \A k \in 1..6 : h[k] = F[<<h[k - 1], k>>]
  BY <1>4 DEF RecursionTo
<1>6. ASSUME NEW k \in 1..6 PROVE h[k] = AddProcessor(h[k - 1], Registered[k + 1])
  <2>1. k - 1 \in 0..6 /\ h[k - 1] \in V
    BY <1>5
  <2>2. <<h[k - 1], k>> \in V \X Nat
    BY <2>1
  <2>3. F[<<h[k - 1], k>>] = AddProcessor(h[k - 1], Registered[k + 1])
    BY <2>2
  <2> QED BY <1>5, <2>3
<1> HIDE DEF F
<1> DEFINE f == [k \in 0..7 |-> IF k = 0 THEN <<>> ELSE h[k - 1]]
<1>7. ASSUME NEW k \in 0..7
      PROVE  f[k] = IF k = 0 THEN <<>> ELSE AddProcessor(f[k - 1], Registered[k])
  <2>1. CASE k = 0
    BY <2>1
  <2>2. CASE k = 1
    <3>1. f[1] = <<"Deduplicator">> /\ f[0] = <<>>
      BY <1>5
    <3> QED BY <2>2, <3>1, FirstAdded, RegisteredTyped
  <2>3. CASE k \notin {0, 1}
    <3>1. PICK j \in 1..6 : j = k - 1
      BY <2>3
    <3>2. k = j + 1 /\ f[k] = h[j] /\ f[j] = h[j - 1]
      BY <3>1
    <3>3. h[j] = AddProcessor(h[j - 1], Registered[j + 1])
      BY <1>6
    <3> QED BY <2>3, <3>1, <3>2, <3>3
  <2> QED BY <2>1, <2>2, <2>3
<1>8. f = [k \in 0..7 |-> IF k = 0 THEN <<>> ELSE AddProcessor(f[k - 1], Registered[k])]
  BY <1>7
<1>9. AddedIn(f)
  BY <1>8, RegisteredTyped DEF AddedIn
<1> QED BY <1>9

\* In the order setup() registers the processors, packets come to the
\* deduplicator first.
LEMMA ProcessorsBegin == DeduplicatorFirst(Processors)
<1> DEFINE f == CHOOSE p : AddedIn(p)
           S == {0} \cup {k \in 1..7 : DeduplicatorFirst(f[k])}
<1>1. AddedIn(f)
  BY AddedExists
<1>2. Added = f
  BY DEF Added, AddedIn
<1> HIDE DEF f
<1>3. \A k \in 0..7 : f[k] = IF k = 0 THEN <<>> ELSE AddProcessor(f[k - 1], Registered[k])
  BY <1>1, RegisteredTyped DEF AddedIn
<1>4. ASSUME NEW k \in 1..7, k - 1 \in S PROVE k \in S
  <2>1. f[k] = AddProcessor(f[k - 1], Registered[k])
    BY <1>3
  <2>2. CASE k = 1
    <3>1. f[0] = <<>>
      BY <1>3
    <3>2. f[1] = <<"Deduplicator">>
      BY <2>1, <2>2, <3>1, FirstAdded, RegisteredTyped
    <3>3. "Deduplicator" \in DOMAIN Priority
      BY DEF Priority
    <3>4. DeduplicatorFirst(<<"Deduplicator">>)
      BY <3>3 DEF DeduplicatorFirst
    <3> QED BY <2>2, <3>2, <3>4
  <2>3. CASE k # 1
    <3>1. DeduplicatorFirst(f[k - 1])
      BY <1>4, <2>3
    <3>2. Registered[k] \in DOMAIN Priority
      BY RegisteredTyped
    <3> QED BY <2>1, <3>1, <3>2, BehindFirst DEF DeduplicatorFirst
  <2> QED BY <2>2, <2>3
<1>5. 7 \in S
  BY <1>4, InductionUpTo
<1> QED BY <1>2, <1>5, RegisteredTyped DEF Processors

LEMMA DuplicateStops ==
    ASSUME NEW f \in seen
    PROVE  Reached(f) \subseteq {"Deduplicator"}
<1>1. /\ DOMAIN Processors = 1..Len(Processors) /\ Len(Processors) \in Nat
      /\ Processors[1] = "Deduplicator"
  BY ProcessorsBegin, LenProperties DEF DeduplicatorFirst
<1>2. ASSUME NEW i \in DOMAIN Processors, \A j \in 1..(i - 1) : ~ Stops(Processors[j], f)
      PROVE  i = 1
  <2>1. Stops(Processors[1], f)
    BY <1>1 DEF Stops
  <2> QED BY <1>1, <1>2, <2>1
<1>3. Reached(f) = {Processors[i] : i \in {k \in DOMAIN Processors :
                                       \A j \in 1..(k - 1) : ~ Stops(Processors[j], f)}}
  BY DEF Reached
<1> QED BY <1>1, <1>2, <1>3

LEMMA DuplicateIdle ==
    ASSUME NEW item \in QueueItems, item.frame \in seen, seen' = seen \cup {item.frame},
           HandleForward(item.frame), ReadTime(item.frame), HandleCommand(item.frame),
           HandleDiscovery(item.frame), MonitorNeighbors(item.frame, item.snr)
    PROVE  UNCHANGED <<workVars, nbVars, timeVars, rxVars, sleepVars>>
<1>1. /\ "PacketForwarder" \notin Reached(item.frame)
      /\ "CommandHandler" \notin Reached(item.frame)
      /\ "DiscoveryResponder" \notin Reached(item.frame)
      /\ "NeighborMonitor" \notin Reached(item.frame)
  BY DuplicateStops
<1>2. Message(item.frame) = {}
  BY <1>1 DEF Message
<1>3. UNCHANGED <<seen, forwards>>
  BY <1>1 DEF HandleForward
<1>4. UNCHANGED timeVars
  BY <1>2 DEF ReadTime
<1>5. UNCHANGED <<answer, coordinates, sleepVars, rxVars>>
  BY <1>2 DEF HandleCommand, KeepStats
<1>6. UNCHANGED discovery
  BY <1>1 DEF HandleDiscovery
<1>7. UNCHANGED nbVars
  BY <1>1 DEF MonitorNeighbors
<1> QED BY <1>3, <1>4, <1>5, <1>6, <1>7 DEF workVars

\* A packet that was seen before changes neither the neighbours, the clock, the
\* answers nor the statistics: once setup() has registered the processors, the
\* deduplicator is the first, and drops it.
THEOREM DuplicatesChangeNothing == Spec => DuplicatesIgnored
<1>1. ASSUME NodeInv, [Next]_vars, NEW item \in QueueItems,
             phase = "queue", Dequeue(item), item.frame \in seen
      PROVE  UNCHANGED <<workVars, nbVars, timeVars, rxVars, sleepVars>>
  <2>1. /\ seen' = seen \cup {item.frame}
        /\ HandleForward(item.frame) /\ ReadTime(item.frame)
        /\ HandleCommand(item.frame) /\ HandleDiscovery(item.frame)
        /\ MonitorNeighbors(item.frame, item.snr)
    BY <1>1, OnlyDispatch
  <2> QED BY <1>1, <2>1, DuplicateIdle
<1>2. NodeInv /\ [Next]_vars =>
         [\A item \in QueueItems :
             phase = "queue" /\ Dequeue(item) /\ item.frame \in seen =>
                UNCHANGED <<workVars, nbVars, timeVars, rxVars, sleepVars>>]_vars
  BY <1>1
<1> QED BY <1>2, NodeInvariant, PTL DEF Spec, DuplicatesIgnored

----------------------------------------------------------------------------
\* A text on its way through encrypt() and decrypt().

LEMMA Divided ==
    ASSUME NEW a \in Nat, NEW d \in Nat \ {0}
    PROVE  a \div d \in Nat /\ a % d \in 0..(d - 1) /\ a = d * (a \div d) + (a % d)
OBVIOUS

LEMMA BlocksHold ==
    ASSUME NEW n \in Nat \ {0}
    PROVE  BlocksOf(n) \in Nat \ {0} /\ n <= BlockSize * BlocksOf(n)
<1> DEFINE q == (n + BlockSize - 1) \div BlockSize
           r == (n + BlockSize - 1) % BlockSize
<1>0. BlockSize \in Nat \ {0}
  BY ChannelAssumption
<1>1. n + BlockSize - 1 \in Nat
  BY <1>0
<1>2. q \in Nat /\ r \in 0..(BlockSize - 1) /\ n + BlockSize - 1 = BlockSize * q + r
  BY <1>0, <1>1, Divided
<1> HIDE DEF q, r
<1>3. n <= BlockSize * q
  BY <1>0, <1>2
<1>4. q # 0
  BY <1>0, <1>3
<1> QED BY <1>2, <1>3, <1>4 DEF BlocksOf, q

LEMMA BlocksGrow ==
    ASSUME NEW m \in Nat \ {0}, NEW n \in Nat, m <= n
    PROVE  BlocksOf(m) <= BlocksOf(n)
<1>0. BlockSize \in Nat \ {0} /\ n \in Nat \ {0}
  BY ChannelAssumption
<1> DEFINE a == m + BlockSize - 1
           b == n + BlockSize - 1
           p == a \div BlockSize
           q == b \div BlockSize
           r == a % BlockSize
           s == b % BlockSize
<1>1. a \in Nat /\ b \in Nat /\ a <= b
  BY <1>0
<1>2. /\ p \in Nat /\ r \in 0..(BlockSize - 1) /\ a = BlockSize * p + r
      /\ q \in Nat /\ s \in 0..(BlockSize - 1) /\ b = BlockSize * q + s
  BY <1>0, <1>1, Divided
<1> HIDE DEF p, q, r, s
<1>3. BlockSize * p < BlockSize * q + BlockSize
  BY <1>0, <1>1, <1>2
<1>4. SUFFICES ASSUME q < p PROVE FALSE
  BY <1>2 DEF BlocksOf, p, q
<1>5. PICK k \in Nat : p = q + 1 + k
  <2>1. p - q - 1 \in Nat /\ p = q + 1 + (p - q - 1)
    BY <1>2, <1>4
  <2> QED BY <2>1
<1>6. BlockSize * p = BlockSize * q + BlockSize + BlockSize * k /\ BlockSize * k \in Nat
      /\ BlockSize * q \in Nat
  BY <1>0, <1>2, <1>5
<1> QED BY <1>0, <1>3, <1>6

\* The place of byte i in block b.
LEMMA BytePlace ==
    ASSUME NEW n \in Nat, NEW i \in 1..(BlockSize * n)
    PROVE  /\ ((i - 1) \div BlockSize) + 1 \in 1..n
           /\ ((i - 1) % BlockSize) + 1 \in 1..BlockSize
           /\ BlockSize * ((((i - 1) \div BlockSize) + 1) - 1) + (((i - 1) % BlockSize) + 1) = i
<1> DEFINE q == (i - 1) \div BlockSize
           r == (i - 1) % BlockSize
<1>0. BlockSize \in Nat \ {0}
  BY ChannelAssumption
<1>1. i - 1 \in Nat
  OBVIOUS
<1>2. q \in Nat /\ r \in 0..(BlockSize - 1) /\ i - 1 = BlockSize * q + r
  BY <1>0, <1>1, Divided
<1> HIDE DEF q, r
<1>3. q < n
  <2> SUFFICES ASSUME q >= n PROVE FALSE
    BY <1>2
  <2>1. PICK k \in Nat : q = n + k
    <3>1. q - n \in Nat /\ q = n + (q - n)
      BY <1>2
    <3> QED BY <3>1
  <2>2. BlockSize * q = BlockSize * n + BlockSize * k /\ BlockSize * k \in Nat
        /\ BlockSize * n \in Nat
    BY <1>0, <2>1
  <2> QED BY <1>0, <1>2, <2>2
<1>4. BlockSize * ((q + 1) - 1) + (r + 1) = i
  <2>1. (q + 1) - 1 = q
    BY <1>2
  <2>2. BlockSize * q \in Nat
    BY <1>0, <1>2
  <2> QED BY <1>0, <1>2, <2>1, <2>2
<1>5. q + 1 \in 1..n /\ r + 1 \in 1..BlockSize
  BY <1>0, <1>2, <1>3
<1> QED BY <1>4, <1>5 DEF q, r

LEMMA DecryptUndoes ==
    ASSUME NEW key, NEW plain, Len(plain) \in Nat \ {0}
    PROVE  Decrypt(key, Encrypt(key, plain)) = Padded(plain)
<1> DEFINE n == BlocksOf(Len(plain))
           cipher == Encrypt(key, plain)
<1>1. n \in Nat
  BY BlocksHold
<1>2. Len(cipher) = n
  BY <1>1 DEF Encrypt
<1>3. ASSUME NEW i \in 1..(BlockSize * n)
      PROVE  (LET from == cipher[((i - 1) \div BlockSize) + 1]
              IN IF from.key = key THEN from.block[((i - 1) % BlockSize) + 1] ELSE "?")
             = Padded(plain)[i]
  <2> DEFINE b == ((i - 1) \div BlockSize) + 1
             k == ((i - 1) % BlockSize) + 1
  <2>1. b \in 1..n /\ k \in 1..BlockSize /\ BlockSize * (b - 1) + k = i
    BY <1>1, BytePlace
  <2> HIDE DEF b, k
  <2>2. cipher[b].key = key /\ cipher[b].block[k] = Padded(plain)[BlockSize * (b - 1) + k]
    BY <2>1 DEF Encrypt
  <2> QED BY <2>1, <2>2 DEF b, k
<1>4. Decrypt(key, cipher) =
         [i \in 1..(BlockSize * n) |->
            LET from == cipher[((i - 1) \div BlockSize) + 1]
            IN IF from.key = key THEN from.block[((i - 1) % BlockSize) + 1] ELSE "?"]
  BY <1>2 DEF Decrypt
<1>5. Padded(plain) = [i \in 1..(BlockSize * n) |-> Padded(plain)[i]]
  BY DEF Padded
<1> HIDE DEF cipher, n
<1>6. [i \in 1..(BlockSize * n) |->
            LET from == cipher[((i - 1) \div BlockSize) + 1]
            IN IF from.key = key THEN from.block[((i - 1) % BlockSize) + 1] ELSE "?"]
       = [i \in 1..(BlockSize * n) |-> Padded(plain)[i]]
  BY <1>3
<1> QED BY <1>4, <1>5, <1>6 DEF cipher

\* memcpy() of the time into the packet and back.
LEMMA StampUndone ==
    ASSUME NEW t \in Word32
    PROVE  Stamped(Stamp(t)) = t
<1> DEFINE a == t \div 256
           b == t \div 65536
           c == t \div 16777216
<1>0. t \in Nat /\ c < 256
  BY DEF Word32
<1>1. /\ a \in Nat /\ b \in Nat /\ c \in Nat
      /\ b = a \div 256 /\ c = b \div 256
  BY <1>0
<1>2. t = 256 * a + (t % 256) /\ a = 256 * b + (a % 256) /\ b = 256 * c + (b % 256) /\ c % 256 = c
  BY <1>0, <1>1
<1>3. t % 256 \in Nat /\ a % 256 \in Nat /\ b % 256 \in Nat
  BY <1>0, <1>1
<1> HIDE DEF a, b, c
<1>4. (t % 256) + 256 * (a % 256) + 65536 * (b % 256) + 16777216 * (c % 256) = t
  BY <1>0, <1>1, <1>2, <1>3
<1> QED BY <1>4 DEF Stamp, Stamped, a, b, c

\* The plaintext of a text and a time.
Plain(text, time) == Stamp(time) \o << 0 >> \o Fitted(text)
ReplyText == {text \in Seq(Symbol) : Len(text) <= MaxMessageLen - 1}

LEMMA FittedText ==
    ASSUME NEW text \in Seq(Symbol)
    PROVE  /\ Fitted(text) \in ReplyText
           /\ Len(text) <= MaxMessageLen - 1 => Fitted(text) = text
<1>0. MaxMessageLen \in Nat \ {0} /\ Len(text) \in Nat
  BY LenProperties, ChannelAssumption
<1>6. text \in [1..Len(text) -> Symbol]
  BY LenProperties
<1>1. PICK m \in Nat : m = IF Len(text) < MaxMessageLen - 1 THEN Len(text)
                                                            ELSE MaxMessageLen - 1
  BY <1>0
<1>2. Fitted(text) = SubSeq(text, 1, m)
  BY <1>1 DEF Fitted
<1>3. /\ Fitted(text) \in Seq(Symbol) /\ Len(Fitted(text)) = m
      /\ \A k \in 1..m : Fitted(text)[k] = text[k]
  <2>1. ASSUME NEW k \in 1..m PROVE text[k] \in Symbol
    <3>1. k \in 1..Len(text)
      BY <1>0, <1>1
    <3> QED BY <1>6, <3>1
  <2>2. /\ SubSeq(text, 1, m) \in Seq(Symbol)
        /\ Len(SubSeq(text, 1, m)) = IF 1 <= m THEN m - 1 + 1 ELSE 0
        /\ \A k \in 1..(m - 1 + 1) : SubSeq(text, 1, m)[k] = text[1 + k - 1]
    <3>1. m \in Int /\ 1 \in Int
      BY <1>0, <1>1
    <3>2. \A k \in 1..m : text[k] \in Symbol
      BY <2>1
    <3> QED BY <3>1, <3>2, SubSeqProperties
  <2> QED BY <1>1, <1>2, <2>2
<1>4. Fitted(text) \in ReplyText
  BY <1>0, <1>1, <1>3 DEF ReplyText
<1>5. ASSUME Len(text) <= MaxMessageLen - 1 PROVE Fitted(text) = text
  <2>1. m = Len(text)
    BY <1>0, <1>1, <1>5
  <2>2. Fitted(text) \in [1..m -> Symbol] /\ text \in [1..m -> Symbol]
    BY <1>0, <1>1, <1>3, <2>1, LenProperties
  <2> QED BY <1>3, <2>2
<1> QED BY <1>4, <1>5

LEMMA PlainIs ==
    ASSUME NEW text \in ReplyText, NEW time
    PROVE  /\ Len(Plain(text, time)) = Len(text) + 5
           /\ \A i \in 1..4 : Plain(text, time)[i] = Stamp(time)[i]
           /\ \A k \in 1..Len(text) : Plain(text, time)[k + 5] = text[k]
<1> DEFINE S == {Stamp(time)[1], Stamp(time)[2], Stamp(time)[3], Stamp(time)[4], 0} \cup Symbol
           head == Stamp(time) \o << 0 >>
<1>1. /\ Stamp(time) \in Seq(S) /\ Len(Stamp(time)) = 4
      /\ << 0 >> \in Seq(S) /\ Len(<< 0 >>) = 1
  BY DEF Stamp
<1>2. text \in Seq(S) /\ Len(text) \in Nat /\ Fitted(text) = text
  <2>1. text \in Seq(Symbol) /\ Len(text) <= MaxMessageLen - 1
    BY DEF ReplyText
  <2>2. Fitted(text) = text
    BY <2>1, FittedText
  <2> QED BY <2>1, <2>2, LenProperties
<1> HIDE DEF S
<1>3. /\ head \in Seq(S) /\ Len(head) = 5
      /\ \A i \in 1..4 : head[i] = Stamp(time)[i]
  <2>1. /\ head \in Seq(S) /\ Len(head) = Len(Stamp(time)) + Len(<< 0 >>)
        /\ \A i \in 1..(Len(Stamp(time)) + Len(<< 0 >>)) :
              head[i] = IF i <= Len(Stamp(time)) THEN Stamp(time)[i]
                                                 ELSE << 0 >>[i - Len(Stamp(time))]
    BY <1>1, ConcatProperties
  <2> HIDE DEF head
  <2> QED BY <1>1, <2>1
<1> HIDE DEF head
<1>4. /\ Len(head \o text) = 5 + Len(text)
      /\ \A i \in 1..(5 + Len(text)) :
            (head \o text)[i] = IF i <= 5 THEN head[i] ELSE text[i - 5]
  <2>1. /\ Len(head \o text) = Len(head) + Len(text)
        /\ \A i \in 1..(Len(head) + Len(text)) :
              (head \o text)[i] = IF i <= Len(head) THEN head[i] ELSE text[i - Len(head)]
    BY <1>2, <1>3, ConcatProperties
  <2> QED BY <1>3, <2>1
<1>5. Plain(text, time) = head \o text
  BY <1>2 DEF Plain, head
<1>6. \A k \in 1..Len(text) : k + 5 \in 1..(5 + Len(text)) /\ ~ (k + 5 <= 5) /\ (k + 5) - 5 = k
  BY <1>2
<1> QED BY <1>2, <1>3, <1>4, <1>5, <1>6

LEMMA PaddedIs ==
    ASSUME NEW text \in ReplyText, NEW time, NEW p, p = Padded(Plain(text, time))
    PROVE  /\ Len(p) \in Nat /\ Len(p) >= Len(text) + 5
           /\ Len(p) = BlockSize * BlocksOf(Len(text) + 5)
           /\ \A i \in 1..4 : p[i] = Stamp(time)[i]
           /\ \A k \in 1..Len(text) : p[k + 5] = text[k]
           /\ \A i \in (Len(text) + 6)..Len(p) : p[i] = NUL
<1> DEFINE q == Plain(text, time)
           n == BlockSize * BlocksOf(Len(q))
<1>1. text \in Seq(Symbol) /\ Len(text) \in Nat
  BY LenProperties DEF ReplyText
<1>2. /\ Len(q) = Len(text) + 5
      /\ \A i \in 1..4 : q[i] = Stamp(time)[i]
      /\ \A k \in 1..Len(text) : q[k + 5] = text[k]
  BY PlainIs
<1>3. n \in Nat /\ Len(q) <= n
  <2>1. Len(q) \in Nat \ {0}
    BY <1>1, <1>2
  <2>2. BlocksOf(Len(q)) \in Nat /\ Len(q) <= BlockSize * BlocksOf(Len(q))
    BY <2>1, BlocksHold
  <2> QED BY <2>2, ChannelAssumption
<1>4. p = [i \in 1..n |-> IF i <= Len(q) THEN q[i] ELSE NUL]
  BY DEF Padded
<1>5. n = BlockSize * BlocksOf(Len(text) + 5)
  BY <1>2
<1> HIDE DEF q, n
<1>6. Len(p) = n /\ \A i \in 1..n : p[i] = IF i <= Len(q) THEN q[i] ELSE NUL
  BY <1>3, <1>4
<1> QED BY <1>1, <1>2, <1>3, <1>5, <1>6

LEMMA TextUndone ==
    ASSUME NEW text \in ReplyText, NEW time, NEW p, p = Padded(Plain(text, time))
    PROVE  TextOf(p) = text
<1> DEFINE n == Len(text)
           ends == {i \in (HeaderSize + 1)..Len(p) : p[i] = NUL} \cup {Len(p) + 1}
           length == CHOOSE i \in ends : \A j \in ends : i <= j
<1>1. text \in [1..n -> Symbol] /\ n \in Nat /\ n <= MaxMessageLen - 1 /\ text \in Seq(Symbol)
  BY LenProperties DEF ReplyText
<1>2. /\ Len(p) \in Nat /\ Len(p) >= n + 5
      /\ \A k \in 1..n : p[k + 5] = text[k]
      /\ \A i \in (n + 6)..Len(p) : p[i] = NUL
  BY PaddedIs
<1>3. n + 6 \in ends /\ \A j \in ends : n + 6 <= j
  <2>1. n + 6 \in ends
    BY <1>1, <1>2 DEF HeaderSize
  <2>2. ASSUME NEW j \in ends, j < n + 6 PROVE FALSE
    <3>1. j \in 6..Len(p) /\ p[j] = NUL
      BY <1>1, <1>2, <2>2 DEF HeaderSize
    <3>2. PICK k \in 1..n : j = k + 5
      <4>1. j - 5 \in 1..n /\ j = (j - 5) + 5
        BY <1>1, <2>2, <3>1
      <4> QED BY <4>1
    <3>3. text[k] = NUL /\ text[k] \in Symbol
      BY <1>1, <1>2, <3>1, <3>2
    <3> QED BY <3>3, ChannelAssumption DEF Symbol
  <2>3. \A j \in ends : j \in Int
    BY <1>2 DEF HeaderSize
  <2> QED BY <1>1, <2>1, <2>2, <2>3
<1>4. length = n + 6
  <2>1. length \in ends /\ \A j \in ends : length <= j
    BY <1>3
  <2> HIDE DEF length
  <2>2. length <= n + 6 /\ n + 6 <= length
    BY <1>3, <2>1
  <2>3. length \in Int
    BY <1>2, <2>1 DEF HeaderSize
  <2> QED BY <1>1, <2>2, <2>3
<1>5. TextOf(p) = SubSeq(p, HeaderSize + 1, IF length - 1 <= HeaderSize + TextBuffer - 1
                                            THEN length - 1 ELSE HeaderSize + TextBuffer - 1)
  BY DEF TextOf
<1> HIDE DEF length
<1>6. TextOf(p) = SubSeq(p, 6, n + 5)
  BY <1>1, <1>4, <1>5, ChannelAssumption DEF HeaderSize, TextBuffer
<1>7. /\ SubSeq(p, 6, n + 5) \in Seq(Symbol)
      /\ Len(SubSeq(p, 6, n + 5)) = n
      /\ \A k \in 1..n : SubSeq(p, 6, n + 5)[k] = text[k]
  <2>1. \A i \in 6..(n + 5) : p[i] \in Symbol
    <3>1. ASSUME NEW i \in 6..(n + 5) PROVE p[i] \in Symbol
      <4>1. PICK k \in 1..n : i = k + 5
        <5>1. i - 5 \in 1..n /\ i = (i - 5) + 5
          BY <1>1
        <5> QED BY <5>1
      <4> QED BY <1>1, <1>2, <4>1
    <3> QED BY <3>1
  <2>2. /\ SubSeq(p, 6, n + 5) \in Seq(Symbol)
        /\ Len(SubSeq(p, 6, n + 5)) = IF 6 <= n + 5 THEN (n + 5) - 6 + 1 ELSE 0
        /\ \A k \in 1..((n + 5) - 6 + 1) : SubSeq(p, 6, n + 5)[k] = p[6 + k - 1]
    BY <1>1, <2>1, SubSeqProperties
  <2>3. \A k \in 1..n : 6 + k - 1 = k + 5 /\ k \in 1..((n + 5) - 6 + 1)
    BY <1>1
  <2>4. ASSUME NEW k \in 1..n PROVE SubSeq(p, 6, n + 5)[k] = text[k]
    <3>1. SubSeq(p, 6, n + 5)[k] = p[k + 5]
      BY <2>2, <2>3
    <3>2. p[k + 5] = text[k]
      BY <1>2
    <3> QED BY <3>1, <3>2
  <2>5. Len(SubSeq(p, 6, n + 5)) = n
    BY <1>1, <2>2
  <2> QED BY <2>2, <2>4, <2>5
<1>8. SubSeq(p, 6, n + 5) \in [1..n -> Symbol]
  BY <1>7, LenProperties
<1> QED BY <1>1, <1>6, <1>7, <1>8

LEMMA BuiltIs ==
    ASSUME NEW text \in ReplyText, NEW time, NEW key
    PROVE  LET cipher == Encrypt(key, Plain(text, time))
           IN Built(text, time, key) = {Payload(ChannelHash[key], Mac(key, cipher), cipher)}
<1> DEFINE plain == Plain(text, time)
           cipher == Encrypt(key, plain)
           payload == Payload(ChannelHash[key], Mac(key, cipher), cipher)
           n == Len(text) + 5
           most == HeaderSize + MaxMessageLen - 1
<1>1. Len(plain) = n /\ n \in Nat \ {0} /\ most \in Nat /\ n <= most
  <2>1. Len(text) \in Nat /\ Len(text) <= MaxMessageLen - 1
    BY LenProperties DEF ReplyText
  <2>2. Len(plain) = n
    BY PlainIs
  <2> QED BY <2>1, <2>2, ChannelAssumption DEF HeaderSize
<1>2. BlocksOf(n) \in Nat /\ BlocksOf(most) \in Nat /\ BlocksOf(n) <= BlocksOf(most)
  <2>1. most \in Nat \ {0}
    BY <1>1
  <2> QED BY <1>1, <2>1, BlocksHold, BlocksGrow
<1>3. Len(cipher) = BlocksOf(n)
  BY <1>1, <1>2 DEF Encrypt
<1>4. PayloadLength(payload) = PathHashSize + MacSize + BlockSize * BlocksOf(n)
  BY <1>3 DEF PayloadLength, Payload
<1>5. BlockSize * BlocksOf(n) <= BlockSize * BlocksOf(most)
  <2>1. PICK d \in Nat : BlocksOf(most) = BlocksOf(n) + d
    <3>1. BlocksOf(most) - BlocksOf(n) \in Nat
          /\ BlocksOf(most) = BlocksOf(n) + (BlocksOf(most) - BlocksOf(n))
      BY <1>2
    <3> QED BY <3>1
  <2>2. BlockSize \in Nat
    BY ChannelAssumption
  <2>3. BlockSize * BlocksOf(most) = BlockSize * BlocksOf(n) + BlockSize * d
        /\ BlockSize * d \in Nat /\ BlockSize * BlocksOf(n) \in Nat
    BY <1>2, <2>1, <2>2
  <2> QED BY <2>3
<1>6. ~ (PayloadLength(payload) > MaxPayload)
  <2>1. /\ PathHashSize + MacSize + BlockSize * BlocksOf(most) <= MaxPayload
        /\ MaxPayload \in Nat /\ MacSize \in Nat /\ BlockSize \in Nat
    BY ChannelAssumption
  <2>2. BlockSize * BlocksOf(most) \in Nat /\ BlockSize * BlocksOf(n) \in Nat
    BY <1>2, <2>1
  <2> QED BY <1>4, <1>5, <2>1, <2>2 DEF PathHashSize
<1>7. Built(text, time, key) = IF PayloadLength(payload) > MaxPayload THEN {} ELSE {payload}
  BY DEF Built, Plain
<1> QED BY <1>6, <1>7

\* What is built is read back under its key, and not at all under another.
LEMMA ReadBack ==
    ASSUME NEW text \in ReplyText, NEW time \in Word32,
           NEW key, NEW p \in Built(text, time, key), NEW other
    PROVE  Decoded(p, other) = IF other = key THEN {[time |-> time, text |-> text]} ELSE {}
<1> DEFINE plain == Plain(text, time)
           cipher == Encrypt(key, plain)
<1>1. p = Payload(ChannelHash[key], Mac(key, cipher), cipher)
  BY BuiltIs
<1>2. p.hash = ChannelHash[key] /\ p.mac = Mac(key, cipher) /\ p.cipher = cipher
  BY <1>1 DEF Payload
<1>3. Len(plain) = Len(text) + 5 /\ Len(text) \in Nat
  BY PlainIs, LenProperties DEF ReplyText
<1>4. /\ Len(cipher) = BlocksOf(Len(plain)) /\ BlocksOf(Len(plain)) \in Nat \ {0}
      /\ Len(plain) <= BlockSize * BlocksOf(Len(plain))
  <2>1. Len(plain) \in Nat \ {0}
    BY <1>3
  <2>2. BlocksOf(Len(plain)) \in Nat \ {0} /\ Len(plain) <= BlockSize * BlocksOf(Len(plain))
    BY <2>1, BlocksHold
  <2>3. Len(cipher) = BlocksOf(Len(plain))
    BY <2>2 DEF Encrypt
  <2> QED BY <2>2, <2>3
<1>5. CASE other # key
  <2>1. Mac(key, cipher) # Mac(other, cipher)
    BY <1>5 DEF Mac
  <2>2. Opened(p, other) = {}
    BY <1>2, <2>1 DEF Opened
  <2> QED BY <1>5, <2>2 DEF Decoded
<1>6. CASE other = key
  <2> DEFINE open == Padded(plain)
  <2>1. ~ (PayloadLength(p) <= PathHashSize + MacSize) /\ ~ (Len(cipher) * BlockSize < HeaderSize)
    <3> DEFINE b == BlocksOf(Len(plain))
    <3>1. BlockSize \in Nat \ {0} /\ MacSize \in Nat /\ b \in Nat
      BY <1>4, ChannelAssumption
    <3>2. PayloadLength(p) = 1 + MacSize + BlockSize * b
      BY <1>2, <1>4 DEF PayloadLength, PathHashSize
    <3>3. BlockSize * b \in Nat /\ Len(text) + 5 <= BlockSize * b /\ b * BlockSize = BlockSize * b
      BY <1>3, <1>4, <3>1
    <3>4. Len(cipher) * BlockSize = BlockSize * b
      BY <1>4, <3>3
    <3> HIDE DEF b
    <3> QED BY <1>3, <3>1, <3>2, <3>3, <3>4 DEF HeaderSize, PathHashSize
  <2>2. Opened(p, other) = {open}
    <3>1. Decrypt(key, cipher) = open
      BY <1>3, DecryptUndoes
    <3> QED BY <1>2, <1>6, <2>1, <3>1 DEF Opened
  <2>3. TextOf(open) = text
    BY TextUndone
  <2>4. Stamped(open) = time
    <3>1. \A i \in 1..4 : open[i] = Stamp(time)[i]
      BY PaddedIs
    <3>2. Stamped(open) = Stamped(Stamp(time))
      BY <3>1 DEF Stamped
    <3> QED BY <3>2, StampUndone
  <2> HIDE DEF open
  <2> QED BY <1>6, <2>2, <2>3, <2>4 DEF Decoded
<1> QED BY <1>5, <1>6

----------------------------------------------------------------------------
\* The replies.

LEMMA ReplyTyped ==
    ASSUME NEW words \in Seq(Symbol)
    PROVE  Reply(words) \in ReplyText
<1>1. <<"node", HashWord, ":", " ">> \in Seq(Symbol)
  <2>1. "node" \in Symbol /\ ":" \in Symbol /\ " " \in Symbol /\ HashWord \in Symbol
    BY NodeAssumption DEF ReplyWords, Symbol
  <2>2. \A a, b, c, d \in Symbol : <<a, b, c, d>> \in Seq(Symbol)
    OBVIOUS
  <2> QED BY <2>1, <2>2
<1>2. <<"node", HashWord, ":", " ">> \o words \in Seq(Symbol)
  BY <1>1, ConcatProperties
<1> QED BY <1>2, FittedText DEF Reply

LEMMA ListTyped ==
    ASSUME NEW t \in Table
    PROVE  /\ DOMAIN NeighborList(t) = 1..Len(t) /\ Len(NeighborList(t)) = Len(t)
           /\ Len(t) \in Nat
           /\ \A i \in 1..Len(t) : /\ NeighborList(t)[i].nodeHash \in Int
                                   /\ NeighborList(t)[i].avgSnr \in Int
<1> DEFINE o == SortedIndices(t)
<1>1. t \in [1..Len(t) -> Neighbor] /\ Len(t) \in Nat
  BY LenProperties DEF Table
<1>2. \A i \in 1..Len(t) : o[i] \in 1..Len(t)
  BY IndicesSorted DEF IsOrder
<1> HIDE DEF o
<1>3. ASSUME NEW i \in 1..Len(t)
      PROVE  t[o[i]].nodeHash \in Int /\ t[o[i]].avgSnr \in Int
  <2>1. t[o[i]] \in Neighbor
    BY <1>1, <1>2
  <2>2. t[o[i]].nodeHash \in NodeHashes /\ t[o[i]].avgSnr \in Int
    BY <2>1 DEF Neighbor
  <2>3. \A h \in NodeHashes : h \in Int
    BY NeighborAssumption
  <2> QED BY <2>2, <2>3
<1>4. NeighborList(t) = [i \in 1..Len(t) |-> [nodeHash |-> t[o[i]].nodeHash,
                                              avgSnr |-> t[o[i]].avgSnr]]
  BY DEF NeighborList, o
<1> QED BY <1>1, <1>3, <1>4

LEMMA NeighborsTextTyped ==
    ASSUME NeighborTypeOK
    PROVE  NeighborsText \in ReplyText
<1> DEFINE list == NeighborList(neighbors)
           n == Len(neighbors)
           head == Reply(<<"N:", Len(list)>>)
           shown == {i \in DOMAIN list : Len(head) + 2 * (i - 1) < MaxMessageLen - EntryRoom}
           c == Cardinality(shown)
           entries == [k \in 1..(2 * c) |-> IF k % 2 = 1 THEN list[(k + 1) \div 2].nodeHash
                                                        ELSE list[k \div 2].avgSnr]
<1>1. /\ DOMAIN list = 1..n /\ Len(list) = n /\ n \in Nat
      /\ \A i \in 1..n : list[i].nodeHash \in Int /\ list[i].avgSnr \in Int
  BY ListTyped DEF NeighborTypeOK
<1>2. head \in ReplyText
  <2>1. <<"N:", Len(list)>> \in Seq(Symbol)
    <3>1. Len(list) \in Symbol
      BY <1>1 DEF Symbol
    <3>2. "N:" \in Symbol
      BY NodeAssumption DEF ReplyWords, Symbol
    <3> QED BY <3>1, <3>2
  <2> QED BY <2>1, ReplyTyped
<1>3. head \in Seq(Symbol) /\ Len(head) \in Nat /\ Len(head) <= MaxMessageLen - 1
  BY <1>2, LenProperties DEF ReplyText
<1>4. NeighborsText = head \o entries
  BY DEF NeighborsText
<1> HIDE DEF list, head
<1>5. c \in 0..n /\ Len(head) + 2 * c <= MaxMessageLen - 1
  <2>0. MaxMessageLen \in Nat \ {0} /\ EntryRoom \in Nat \ {0, 1}
    BY ChannelAssumption, NodeAssumption
  <2>1. PICK m \in Nat : m = IF Len(head) < MaxMessageLen - EntryRoom
                             THEN (MaxMessageLen - EntryRoom - Len(head) + 1) \div 2 ELSE 0
    <3>1. CASE Len(head) < MaxMessageLen - EntryRoom
      <4>1. MaxMessageLen - EntryRoom - Len(head) + 1 \in Nat
        BY <1>3, <2>0, <3>1
      <4>2. \A x \in Nat : x \div 2 \in Nat
        OBVIOUS
      <4> QED BY <3>1, <4>1, <4>2
    <3>2. CASE ~ (Len(head) < MaxMessageLen - EntryRoom)
      BY <3>2
    <3> QED BY <3>1, <3>2
  <2>2. Len(head) + 2 * m <= MaxMessageLen - 1
    BY <1>3, <2>0, <2>1
  <2>3. shown \subseteq 1..m /\ shown \subseteq 1..n
    <3>1. ASSUME NEW i \in 1..n, Len(head) + 2 * (i - 1) < MaxMessageLen - EntryRoom
          PROVE  i <= m
      BY <1>1, <1>3, <2>0, <2>1, <3>1
    <3> QED BY <1>1, <3>1
  <2>4. /\ IsFiniteSet(1..m) /\ Cardinality(1..m) = m
        /\ IsFiniteSet(1..n) /\ Cardinality(1..n) = n
    <3>1. \A x \in Nat : IsFiniteSet(1..x) /\ Cardinality(1..x) = x
      BY FS_Interval
    <3> QED BY <1>1, <3>1
  <2>5. c \in Nat /\ c <= m /\ c <= n
    BY <2>3, <2>4, FS_Subset, FS_CardinalityType
  <2> HIDE DEF shown, c
  <2> QED BY <1>1, <1>3, <2>0, <2>2, <2>5
<1> HIDE DEF shown, c
<1>6. entries \in Seq(Symbol) /\ Len(entries) = 2 * c
  <2>1. ASSUME NEW k \in 1..(2 * c)
        PROVE  (IF k % 2 = 1 THEN list[(k + 1) \div 2].nodeHash ELSE list[k \div 2].avgSnr) \in Symbol
    <3>1. k % 2 = 1 => (k + 1) \div 2 \in 1..n
      BY <1>1, <1>5
    <3>2. k % 2 # 1 => k \div 2 \in 1..n
      BY <1>1, <1>5
    <3> QED BY <1>1, <3>1, <3>2 DEF Symbol
  <2>2. 2 * c \in Nat
    BY <1>5
  <2>3. entries \in Seq(Symbol)
    BY <2>1, <2>2
  <2>4. Len(entries) = 2 * c
    BY <2>2
  <2> QED BY <2>3, <2>4
<1> HIDE DEF entries
<1>7. head \o entries \in Seq(Symbol) /\ Len(head \o entries) = Len(head) + 2 * c
  BY <1>3, <1>6, ConcatProperties
<1> QED BY <1>4, <1>5, <1>7 DEF ReplyText

\* A reply that waits was built by its channel from a text a packet can hold;
\* an advert takes no channel.
AnswerBuilt(a) ==
    \/ a.channel = 0 /\ a.packet = {}
    \/ /\ a.channel \in 1..NumChannels /\ Ready(a.channel)
       /\ a.text \in ReplyText /\ a.time \in Word32
       /\ a.packet = BuiltOn(a.channel, a.text, a.time)
ReplyInv == coordinates \in Seq(Int) /\ AnswerBuilt(answer)

LEMMA BuiltSome ==
    ASSUME NEW text \in ReplyText, NEW time, NEW key
    PROVE  Built(text, time, key) # {}
<1> DEFINE cipher == Encrypt(key, Plain(text, time))
<1>1. Built(text, time, key) = {Payload(ChannelHash[key], Mac(key, cipher), cipher)}
  BY BuiltIs
<1> QED BY <1>1

LEMMA EpochIsWord == Epoch \subseteq Word32
<1>1. EpochMod - 1 \in Word32
  BY NodeAssumption
<1>2. ASSUME NEW t \in Epoch PROVE t \in Word32
  <2>1. t \in Nat /\ t <= EpochMod - 1 /\ EpochMod - 1 \in Nat
    BY TimeSyncAssumption DEF Epoch
  <2> QED BY <1>1, <2>1 DEF Word32
<1> QED BY <1>2

LEMMA TimeNow == TimeInv => Now \in Epoch
BY NowTyped

LEMMA TimeAfter == TimeInv' => Now' \in Word32
<1>1. TimeInv' => (Now \in Epoch)'
  BY TimeNow, PTL
<1> QED BY <1>1, EpochIsWord

LEMMA QueuedBuilt ==
    ASSUME NEW ch \in 1..NumChannels, Ready(ch), NEW text \in ReplyText, TimeInv',
           Queue(ch, text)
    PROVE  AnswerBuilt(answer')
<1>1. Now' \in Word32
  BY TimeAfter
<1>2. answer' = [channel |-> ch, time |-> Now', text |-> text, packet |-> BuiltOn(ch, text, Now')]
  BY DEF Queue
<1> QED BY <1>1, <1>2 DEF AnswerBuilt

LEMMA CarryBuilt ==
    ASSUME ReplyInv, TimeInv', NeighborTypeOK, packetCount \in Nat,
           NEW ch \in 1..NumChannels, Ready(ch), NEW asked, Carry(ch, asked)
    PROVE  ReplyInv'
<1>1. ASSUME NEW text \in ReplyText, Queue(ch, text) PROVE AnswerBuilt(answer')
  BY <1>1, QueuedBuilt
<1>2. /\ \A w \in Symbol : Reply(<<w>>) \in ReplyText
      /\ \A w, x \in Symbol : Reply(<<w, x>>) \in ReplyText
      /\ \A w, x, y \in Symbol : Reply(<<w, x, y>>) \in ReplyText
      /\ \A w, x, y, z \in Symbol : Reply(<<w, x, y, z>>) \in ReplyText
  <2>1. /\ \A w \in Symbol : <<w>> \in Seq(Symbol)
        /\ \A w, x \in Symbol : <<w, x>> \in Seq(Symbol)
        /\ \A w, x, y \in Symbol : <<w, x, y>> \in Seq(Symbol)
        /\ \A w, x, y, z \in Symbol : <<w, x, y, z>> \in Seq(Symbol)
    OBVIOUS
  <2> QED BY <2>1, ReplyTyped
<1>3. /\ "Stats" \in Symbol /\ "cleared" \in Symbol /\ "No" \in Symbol /\ "loc" \in Symbol
      /\ "Loc" \in Symbol /\ "set" \in Symbol /\ "Bad" \in Symbol /\ "lat" \in Symbol
      /\ "RX:" \in Symbol /\ "TX:" \in Symbol /\ "Air:" \in Symbol
      /\ "!cmd[@XX]" \in Symbol /\ " " \in Symbol /\ "|" \in Symbol
      /\ "!status[clear]" \in Symbol
      /\ packetCount \in Symbol
  <2>1. ReplyWords \subseteq Symbol /\ packetCount \in Symbol
    BY NodeAssumption DEF Symbol
  <2> QED BY <2>1 DEF ReplyWords
<1>4. CASE Status(ch, asked.operands)
  <2>1. StatusText \in ReplyText /\ Reply(<<"Stats", "cleared">>) \in ReplyText
    BY <1>2, <1>3 DEF StatusText
  <2>2. Queue(ch, StatusText) \/ Queue(ch, Reply(<<"Stats", "cleared">>))
    BY <1>4 DEF Status
  <2>3. coordinates' = coordinates
    BY <1>4 DEF Status
  <2> QED BY <1>1, <2>1, <2>2, <2>3 DEF ReplyInv
<1>5. CASE SendAdvert(ch)
  <2>1. answer'.channel = 0 /\ answer'.packet = {}
    BY <1>5 DEF SendAdvert, NoAnswer
  <2>2. coordinates' = coordinates
    BY <1>5 DEF SendAdvert
  <2> QED BY <2>1, <2>2 DEF ReplyInv, AnswerBuilt
<1>6. CASE Location(ch, asked.operands)
  <2>1. /\ Reply(<<"No", "loc">>) \in ReplyText /\ Reply(<<"Loc", "cleared">>) \in ReplyText
        /\ Reply(<<"Loc", "set">>) \in ReplyText /\ Reply(<<"Bad", "lat">>) \in ReplyText
    BY <1>2, <1>3
  <2>2. LocationText \in ReplyText
    <3>1. <<"Loc">> \in Seq(Symbol) /\ coordinates \in Seq(Symbol)
      <4>1. coordinates \in Seq(Int) /\ \A n \in Int : n \in Symbol
        BY DEF ReplyInv, Symbol
      <4>2. coordinates \in Seq(Symbol)
        BY <4>1
      <4>3. \A w \in Symbol : <<w>> \in Seq(Symbol)
        OBVIOUS
      <4> QED BY <1>3, <4>2, <4>3
    <3>2. <<"Loc">> \o coordinates \in Seq(Symbol)
      BY <3>1, ConcatProperties
    <3>3. Reply(<<"Loc">> \o coordinates) \in ReplyText
      BY <3>2, ReplyTyped
    <3> QED BY <2>1, <3>3 DEF LocationText
  <2>3. CASE Queue(ch, LocationText) /\ UNCHANGED coordinates
    BY <1>1, <2>2, <2>3 DEF ReplyInv
  <2>4. CASE coordinates' = NoLocation /\ Queue(ch, Reply(<<"Loc", "cleared">>))
    <3>1. coordinates' \in Seq(Int)
      BY <2>4 DEF NoLocation
    <3> QED BY <1>1, <2>1, <2>4, <3>1 DEF ReplyInv
  <2>5. CASE SetLocation(ch, asked.operands)
    <3> DEFINE words == SelectSeq(asked.operands, LAMBDA w : w # " ")
               lat == NumberWords[words[1]]
               lon == IF Number(words, 2) THEN NumberWords[words[2]] ELSE 0
    <3>1. \/ Number(words, 1) /\ coordinates' = <<lat, lon>> /\ Queue(ch, Reply(<<"Loc", "set">>))
          \/ Queue(ch, Reply(<<"Bad", "lat">>)) /\ UNCHANGED coordinates
      BY <2>5 DEF SetLocation
    <3> HIDE DEF words
    <3>2. CASE Number(words, 1) /\ coordinates' = <<lat, lon>> /\ Queue(ch, Reply(<<"Loc", "set">>))
      <4>1. lat \in Int /\ lon \in Int
        BY <3>2, NodeAssumption DEF Number
      <4> HIDE DEF lat, lon
      <4>2. coordinates' \in Seq(Int)
        BY <3>2, <4>1
      <4> QED BY <1>1, <2>1, <3>2, <4>2 DEF ReplyInv
    <3>3. CASE Queue(ch, Reply(<<"Bad", "lat">>)) /\ UNCHANGED coordinates
      BY <1>1, <2>1, <3>3 DEF ReplyInv
    <3> QED BY <3>1, <3>2, <3>3
  <2> QED BY <1>6, <2>3, <2>4, <2>5 DEF Location
<1>7. ASSUME NEW text \in ReplyText, Tell(ch, text) PROVE ReplyInv'
  BY <1>1, <1>7 DEF Tell, ReplyInv
<1>8. /\ NeighborsText \in ReplyText
      /\ Reply(<<"!cmd[@XX]", " ", "|", "!status[clear]">>) \in ReplyText
  BY <1>2, <1>3, NeighborsTextTyped
<1>9. CASE UNCHANGED answer /\ UNCHANGED coordinates
  BY <1>9 DEF ReplyInv
<1>10. \/ Status(ch, asked.operands) \/ SendAdvert(ch) \/ Location(ch, asked.operands)
       \/ Tell(ch, NeighborsText)
       \/ Tell(ch, Reply(<<"!cmd[@XX]", " ", "|", "!status[clear]">>))
       \/ UNCHANGED answer /\ UNCHANGED coordinates
  BY DEF Carry
<1> QED BY <1>4, <1>5, <1>6, <1>7, <1>8, <1>9, <1>10

LEMMA CommandBuilt ==
    ASSUME ReplyInv, TimeInv', NeighborTypeOK, packetCount \in Nat, NEW f \in Frame,
           HandleCommand(f)
    PROVE  ReplyInv'
<1>1. CASE UNCHANGED answer /\ KeepStats /\ UNCHANGED coordinates
  BY <1>1 DEF ReplyInv
<1>2. CASE \E m \in Message(f) : \E asked \in Requests[f] : Carry(m.channel, asked)
  <2>1. PICK m \in Message(f), asked \in Requests[f] : Carry(m.channel, asked)
    BY <1>2
  <2>2. m.channel \in 1..NumChannels /\ Ready(m.channel)
    <3>1. m \in Inbox[f]
      BY DEF Message
    <3>2. m \in Received(FrameOf[f].payload)
      BY <3>1 DEF Inbox
    <3> QED BY <3>2 DEF Received, FirstReader, Readers
  <2> QED BY <2>1, <2>2, CarryBuilt
<1> QED BY <1>1, <1>2 DEF HandleCommand

LEMMA ReplyChange ==
    ASSUME NodeInv, ReplyInv, [Next]_vars
    PROVE  ReplyInv'
<1>0. TimeInv' /\ NeighborTypeOK /\ packetCount \in Nat
  BY NodeChange DEF NodeInv, TableInv, RestInv
<1>1. CASE Dispatch
  <2>1. PICK item \in QueueItems : HandleCommand(item.frame)
    BY <1>1 DEF Dispatch
  <2> QED BY <1>0, <2>1, ItemsTyped, CommandBuilt
<1>2. CASE SendAnswer
  <2>1. answer' = NoAnswer /\ coordinates' = coordinates
    BY <1>2 DEF SendAnswer
  <2> QED BY <2>1 DEF ReplyInv, AnswerBuilt, NoAnswer
<1>3. CASE UNCHANGED <<answer, coordinates>>
  BY <1>3 DEF ReplyInv
<1>4. CASE Hear \/ OnRxDone \/ IrqDone \/ QueueDone \/ StayAwake \/ Sleep \/ Wake \/ TimePasses
  BY <1>3, <1>4 DEF Hear, OnRxDone, IrqDone, QueueDone, StayAwake, Sleep, Wake, TimePasses,
                    workVars
<1>5. CASE Forward \/ PassAnswer \/ Discover \/ UNCHANGED vars
  BY <1>3, <1>5 DEF Forward, SendForward, PassForward, PassAnswer, Discover, SendDiscovery,
                    PassDiscovery, workVars, vars
<1> QED BY <1>1, <1>2, <1>4, <1>5 DEF Next, Loop, Answer

\* The reply that waits for its time is in the slot as a packet, which its own
\* channel's key, and no other, opens to the text and the time it was built from,
\* for every block size, message length and table of neighbours.
THEOREM RepliesReadBack == Spec => []ReplyReadable
<1>1. Init => ReplyInv
  BY DEF Init, ReplyInv, AnswerBuilt, NoAnswer, NoLocation
<1>2. ReplyInv => ReplyReadable
  <2> SUFFICES ASSUME ReplyInv PROVE ReplyReadable
    OBVIOUS
  <2> DEFINE a == answer
  <2>1. CASE a.channel = 0 /\ a.packet = {}
    BY <2>1 DEF ReplyReadable, ReplyReadBack, ReplyBuilt
  <2>2. CASE /\ a.channel \in 1..NumChannels /\ Ready(a.channel)
             /\ a.text \in ReplyText /\ a.time \in Word32
             /\ a.packet = BuiltOn(a.channel, a.text, a.time)
    <3>1. a.packet = Built(a.text, a.time, Secret(a.channel))
      BY <2>2 DEF BuiltOn
    <3>2. ReplyBuilt
      <4>1. Built(a.text, a.time, Secret(a.channel)) # {}
        BY <2>2, BuiltSome
      <4> QED BY <3>1, <4>1 DEF ReplyBuilt
    <3>3. ASSUME NEW p \in a.packet, NEW ch \in 1..NumChannels
          PROVE  Decoded(p, Secret(ch)) = IF Secret(ch) = Secret(a.channel)
                                          THEN {[time |-> a.time, text |-> a.text]} ELSE {}
      BY <2>2, <3>1, ReadBack
    <3>4. ReplyReadBack
      BY <3>3 DEF ReplyReadBack
    <3> QED BY <3>2, <3>4 DEF ReplyReadable
  <2> QED BY <2>1, <2>2 DEF ReplyInv, AnswerBuilt
<1> QED BY <1>1, <1>2, ReplyChange, NodeInvariant, PTL DEF Spec
=============================================================================
