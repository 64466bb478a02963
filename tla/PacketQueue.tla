----------------------------- MODULE PacketQueue -----------------------------
(***************************************************************************)
(* mesh/PacketQueue.cpp: the ring between the radio's callback, which puts *)
(* received packets in, and processQueue(), which takes them out.          *)
(***************************************************************************)
EXTENDS Naturals, Sequences

CONSTANTS QueueSize,     \* Config::Queue::PACKET_QUEUE_SIZE
          QueueItems     \* what may be put in

ASSUME QueueAssumption == QueueSize \in Nat \ {0} /\ QueueItems # {}

VARIABLES queue, readIndex, writeIndex, count, droppedCount

queueVars == <<queue, readIndex, writeIndex, count, droppedCount>>

Index == 0..(QueueSize - 1)
QueuedPacket == [packet : QueueItems, valid : BOOLEAN]

QueueTypeOK ==
    /\ queue \in [Index -> QueuedPacket]
    /\ readIndex \in Index /\ writeIndex \in Index
    /\ count \in 0..QueueSize
    /\ droppedCount \in Nat

\* The packets in the slots are not initialized, so they may be anything; none
\* is read while valid is FALSE.
Unset == [packet |-> CHOOSE x \in QueueItems : TRUE, valid |-> FALSE]

QueueInit ==
    /\ queue = [i \in Index |-> Unset]
    /\ readIndex = 0 /\ writeIndex = 0
    /\ count = 0
    /\ droppedCount = 0

\* A faulty increment that does not wrap.
IndexAfter(i) == i + 1

NextIndex(i) == (i + 1) % QueueSize

\* A faulty isFull(), off by one.
QueueFullLate == count > QueueSize

QueueFull == count >= QueueSize

\* enqueue()
Enqueue(x) ==
    IF QueueFull
    THEN droppedCount' = droppedCount + 1
         /\ UNCHANGED <<queue, readIndex, writeIndex, count>>
    ELSE /\ queue' = [queue EXCEPT ![writeIndex] = [packet |-> x, valid |-> TRUE]]
         /\ writeIndex' = NextIndex(writeIndex)
         /\ count' = count + 1
         /\ UNCHANGED <<readIndex, droppedCount>>

Advance == /\ readIndex' = NextIndex(readIndex)
           /\ count' = count - 1
           /\ UNCHANGED <<writeIndex, droppedCount>>

\* dequeue(), when it returns a packet.
Dequeue(x) ==
    /\ count > 0
    /\ queue[readIndex].valid
    /\ x = queue[readIndex].packet
    /\ queue' = [queue EXCEPT ![readIndex].valid = FALSE]
    /\ Advance

\* dequeue() on a slot that is not valid: it is skipped, and the caller told
\* that there is nothing.
SkipInvalid ==
    /\ count > 0
    /\ ~ queue[readIndex].valid
    /\ Advance
    /\ UNCHANGED queue

QueueEmpty == count = 0

----------------------------------------------------------------------------
\* The slots from readIndex on, as many as count says, in order.
Contents == [k \in 1..count |-> queue[(readIndex + k - 1) % QueueSize].packet]

Abstract == INSTANCE Fifo WITH Items <- QueueItems, Size <- QueueSize,
                               fifo <- Contents, refused <- droppedCount

\* The ring keeps the promise of a queue, wherever its indices have wrapped.
QueueIsFifo == Abstract!Spec
============================================================================
