---------------------------- MODULE DelayQueue ----------------------------
(***************************************************************************)
(* core/containers/PriorityQueue.h: the fixed-size array of items kept     *)
(* sorted by a key, smallest key first.  A queue is the sequence of the    *)
(* first `count' slots; the slots behind it are never read.                *)
(***************************************************************************)
EXTENDS Naturals, Sequences, SequencesExt

Entry(S) == [item : S, key : Nat]

\* The slots an entry with key k is put in front of.
Later(q, k) == {i \in DOMAIN q : q[i].key > k}

\* The loop at PriorityQueue.h:41 stops at the first larger key; entries with
\* an equal key stay in front, so equal keys leave in arrival order.
InsertPosition(q, k) == IF Later(q, k) = {} THEN Len(q) + 1
                                            ELSE Min(Later(q, k))

\* A faulty insert() that puts the entry behind all others.
InsertLast(q, item, k) == Append(q, [item |-> item, key |-> k])

\* insert() on a queue that has room: shift right from the position, store.
Insert(q, item, k) ==
    InsertAt(q, InsertPosition(q, k), [item |-> item, key |-> k])

\* A faulty isFull(), off by one.
IsFullTooLate(q, size) == Len(q) > size

\* isFull(), the test insert() refuses on.
IsFull(q, size) == Len(q) >= size

\* What popFront() leaves, and the key peekFrontKey() reports.
PopFront(q) == Tail(q)
FrontKey(q) == Head(q).key
FrontItem(q) == Head(q).item

\* The items a queue holds.
Items(q) == {q[i].item : i \in DOMAIN q}

SortedByKey(q) == \A i, j \in DOMAIN q : i < j => q[i].key <= q[j].key
DistinctItems(q) == \A i, j \in DOMAIN q : i # j => q[i].item # q[j].item
============================================================================
