-------------------------- MODULE ForwarderProofs --------------------------
(***************************************************************************)
(* What Forwarder.tla promises, for every queue size, delay, clock width   *)
(* and stream of packets; first, what the delay queue's operations do.     *)
(***************************************************************************)
EXTENDS Forwarder, TransmitterProofs, Induction, SequenceTheorems,
        FiniteSetTheorems

LEMMA QueueEntries ==
    ASSUME NEW S, NEW q \in Seq(Entry(S))
    PROVE  /\ Len(q) \in Nat
           /\ DOMAIN q = 1..Len(q)
           /\ \A i \in 1..Len(q) : q[i] \in Entry(S)
           /\ \A i \in 1..Len(q) : q[i].key \in Nat /\ q[i].item \in S
<1>1. Len(q) \in Nat /\ DOMAIN q = 1..Len(q)
  BY LenProperties
<1>2. \A i \in 1..Len(q) : q[i] \in Entry(S)
  BY ElementOfSeq
<1> QED BY <1>1, <1>2 DEF Entry

\* Where insert() puts an entry: behind every key that is not larger, and in
\* front of a larger one when there is one.
LEMMA InsertPositionBounds ==
    ASSUME NEW S, NEW q \in Seq(Entry(S)), NEW k \in Nat
    PROVE  /\ InsertPosition(q, k) \in 1..(Len(q) + 1)
           /\ \A i \in 1..(InsertPosition(q, k) - 1) : q[i].key <= k
           /\ InsertPosition(q, k) <= Len(q) => q[InsertPosition(q, k)].key > k
<1>1. CASE Later(q, k) = {}
  BY <1>1, QueueEntries DEF InsertPosition, Later
<1>2. CASE Later(q, k) # {}
  <2>1. Later(q, k) \in SUBSET Nat
    BY QueueEntries DEF Later
  <2>2. \E m \in Later(q, k) : \A n \in Later(q, k) : m <= n
    BY <1>2, <2>1, SmallestNat
  <2>3. /\ Min(Later(q, k)) \in Later(q, k)
        /\ \A n \in Later(q, k) : Min(Later(q, k)) <= n
    BY <2>2, Zenon DEF Min
  <2>4. PICK p : p = InsertPosition(q, k)
    OBVIOUS
  <2>5. p \in Later(q, k) /\ \A n \in Later(q, k) : p <= n
    BY <1>2, <2>3, <2>4 DEF InsertPosition
  <2>6. p \in 1..Len(q) /\ q[p].key > k
    BY <2>5, QueueEntries DEF Later
  <2>7. ASSUME NEW i \in 1..(p - 1) PROVE q[i].key <= k
    <3>1. i \in 1..Len(q) /\ i < p
      BY <2>6, QueueEntries
    <3>2. ~ (q[i].key > k)
      BY <3>1, <2>5, <2>6, QueueEntries DEF Later
    <3> QED BY <3>1, <3>2, QueueEntries
  <2> QED BY <2>4, <2>6, <2>7, QueueEntries
<1> QED BY <1>1, <1>2

\* insert() entry by entry: the entries in front of position p stay, the
\* others move one slot back.
InsertedAt(q, x, k, p) ==
    /\ \A i \in 1..(p - 1) : q[i].key <= k
    /\ p <= Len(q) => q[p].key > k
    /\ Len(Insert(q, x, k)) = Len(q) + 1
    /\ \A i \in 1..(Len(q) + 1) :
          Insert(q, x, k)[i] = IF i < p THEN q[i]
                               ELSE IF i = p THEN [item |-> x, key |-> k]
                               ELSE q[i - 1]

LEMMA InsertShape ==
    ASSUME NEW S, NEW q \in Seq(Entry(S)), NEW x \in S, NEW k \in Nat
    PROVE  /\ Insert(q, x, k) \in Seq(Entry(S))
           /\ \E p \in 1..(Len(q) + 1) : InsertedAt(q, x, k, p)
<1>0. PICK p : p = InsertPosition(q, k)
  OBVIOUS
<1> DEFINE e == [item |-> x, key |-> k]
           a == SubSeq(q, 1, p - 1)
           b == SubSeq(q, p, Len(q))
<1>1. /\ p \in 1..(Len(q) + 1) /\ Len(q) \in Nat
      /\ \A i \in 1..(p - 1) : q[i].key <= k
      /\ p <= Len(q) => q[p].key > k
  BY <1>0, InsertPositionBounds, QueueEntries
<1>2. e \in Entry(S)
  BY DEF Entry
<1>3. /\ a \in Seq(Entry(S)) /\ Len(a) = p - 1
      /\ \A i \in 1..(p - 1) : a[i] = q[i]
  <2>1. \A i \in 1..(p - 1) : q[i] \in Entry(S)
    BY <1>1, QueueEntries
  <2> HIDE DEF a
  <2>2. /\ a \in Seq(Entry(S)) /\ Len(a) = IF 1 <= p - 1 THEN p - 1 - 1 + 1 ELSE 0
        /\ \A i \in 1..(p - 1 - 1 + 1) : a[i] = q[1 + i - 1]
    BY <1>1, <2>1, SubSeqProperties DEF a
  <2> QED BY <1>1, <2>2
<1>4. /\ b \in Seq(Entry(S)) /\ Len(b) = Len(q) + 1 - p
      /\ \A i \in 1..(Len(q) + 1 - p) : b[i] = q[p + i - 1]
  <2>1. \A i \in p..Len(q) : q[i] \in Entry(S)
    BY <1>1, QueueEntries
  <2> HIDE DEF b
  <2>2. /\ b \in Seq(Entry(S))
        /\ Len(b) = IF p <= Len(q) THEN Len(q) - p + 1 ELSE 0
        /\ \A i \in 1..(Len(q) - p + 1) : b[i] = q[p + i - 1]
    BY <1>1, <2>1, SubSeqProperties DEF b
  <2> QED BY <1>1, <2>2
<1>5. /\ <<e>> \in Seq(Entry(S)) /\ Len(<<e>>) = 1 /\ <<e>>[1] = e
  BY <1>2
<1> HIDE DEF e, a, b
<1> DEFINE c == a \o <<e>>
           d == c \o b
           n == Len(q)
<1>6. /\ c \in Seq(Entry(S)) /\ Len(c) = p
      /\ \A i \in 1..p : c[i] = IF i < p THEN q[i] ELSE e
  <2>1. /\ c \in Seq(Entry(S)) /\ Len(c) = Len(a) + 1
        /\ \A i \in 1..(Len(a) + 1) :
             c[i] = IF i <= Len(a) THEN a[i] ELSE <<e>>[i - Len(a)]
    BY <1>3, <1>5, ConcatProperties
  <2> HIDE DEF c
  <2>2. \A i \in 1..p : c[i] = IF i <= p - 1 THEN a[i] ELSE <<e>>[i - (p - 1)]
    BY <1>1, <1>3, <2>1
  <2>3. ASSUME NEW i \in 1..p PROVE c[i] = IF i < p THEN q[i] ELSE e
    <3>1. CASE i < p
      BY <1>1, <1>3, <2>2, <3>1
    <3>2. CASE i = p
      BY <1>1, <1>5, <2>2, <3>2
    <3> QED BY <1>1, <3>1, <3>2
  <2> QED BY <1>1, <1>3, <2>1, <2>3
<1> HIDE DEF c
<1>7. /\ d \in Seq(Entry(S)) /\ Len(d) = n + 1
      /\ \A i \in 1..(n + 1) : d[i] = IF i <= p THEN c[i] ELSE b[i - p]
  <2>1. /\ d \in Seq(Entry(S)) /\ Len(d) = Len(c) + Len(b)
        /\ \A i \in 1..(Len(c) + Len(b)) :
             d[i] = IF i <= Len(c) THEN c[i] ELSE b[i - Len(c)]
    BY <1>4, <1>6, ConcatProperties
  <2> HIDE DEF d
  <2>2. Len(c) + Len(b) = n + 1
    BY <1>1, <1>4, <1>6
  <2> QED BY <1>6, <2>1, <2>2
<1>8. Insert(q, x, k) = d
  BY <1>0 DEF Insert, InsertAt, a, b, c, e
<1> HIDE DEF d
<1>9. ASSUME NEW i \in 1..(n + 1)
      PROVE  d[i] = IF i < p THEN q[i] ELSE IF i = p THEN e ELSE q[i - 1]
  <2>1. CASE i < p
    BY <1>1, <1>6, <1>7, <2>1
  <2>2. CASE i = p
    BY <1>1, <1>6, <1>7, <2>2
  <2>3. CASE i > p
    <3>1. i - p \in 1..(n + 1 - p) /\ p + (i - p) - 1 = i - 1
      BY <1>1, <2>3
    <3>2. d[i] = b[i - p]
      BY <1>1, <1>7, <2>3
    <3>3. b[i - p] = q[p + (i - p) - 1]
      BY <1>4, <3>1
    <3>4. d[i] = q[i - 1]
      BY <3>1, <3>2, <3>3
    <3> QED BY <1>1, <2>3, <3>4
  <2> QED BY <1>1, <2>1, <2>2, <2>3
<1>10. InsertedAt(q, x, k, p)
  BY <1>1, <1>7, <1>8, <1>9, Zenon DEF e, InsertedAt
<1> QED BY <1>1, <1>7, <1>8, <1>10

\* A key not after one that is before another is not after that other.
LEMMA KeysThrough ==
    ASSUME NEW a \in Nat, NEW b \in Nat, NEW c \in Nat, a <= b, b < c
    PROVE  a <= c
OBVIOUS

\* insert() keeps the array sorted by key (PriorityQueue.h:10: "Items are kept
\* sorted by a key field, smallest key first").
LEMMA InsertSorted ==
    ASSUME NEW S, NEW q \in Seq(Entry(S)), NEW x \in S, NEW k \in Nat,
           SortedByKey(q)
    PROVE  SortedByKey(Insert(q, x, k))
<1> DEFINE r == Insert(q, x, k)
<1>0. PICK p \in 1..(Len(q) + 1) : InsertedAt(q, x, k, p)
  BY InsertShape
<1>1. /\ Len(q) \in Nat
      /\ \A i \in 1..(p - 1) : q[i].key <= k
      /\ p <= Len(q) => q[p].key > k
      /\ \A i \in 1..Len(q) : q[i].key \in Nat
  BY <1>0, QueueEntries DEF InsertedAt
<1>2. /\ Len(r) = Len(q) + 1
      /\ \A i \in 1..(Len(q) + 1) :
            r[i] = IF i < p THEN q[i]
                   ELSE IF i = p THEN [item |-> x, key |-> k] ELSE q[i - 1]
  BY <1>0 DEF InsertedAt
<1>21. r \in Seq(Entry(S))
  BY InsertShape
<1> HIDE DEF r
<1>3. \A i, j \in 1..Len(q) : i < j => q[i].key <= q[j].key
  BY QueueEntries DEF SortedByKey
<1>4. \A i \in p..Len(q) : q[i].key > k
  BY <1>1, <1>3
<1>5. \A i \in 1..(Len(q) + 1) :
         r[i].key = IF i < p THEN q[i].key ELSE IF i = p THEN k ELSE q[i - 1].key
  BY <1>2
<1>6. ASSUME NEW i \in 1..(Len(q) + 1), NEW j \in 1..(Len(q) + 1), i < j
      PROVE  r[i].key <= r[j].key
  <2>1. CASE j < p
    <3>1. i < p /\ i \in 1..Len(q) /\ j \in 1..Len(q)
      BY <1>1, <1>6, <2>1
    <3>2. r[i].key = q[i].key /\ r[j].key = q[j].key
      BY <1>5, <2>1, <3>1
    <3> QED BY <1>3, <1>6, <3>1, <3>2
  <2>2. CASE j = p
    <3>1. i < p /\ i \in 1..(p - 1) /\ ~ (j < p)
      BY <1>6, <2>2
    <3>2. r[i].key = q[i].key /\ r[j].key = k
      BY <1>5, <2>2, <3>1
    <3> QED BY <1>1, <3>1, <3>2
  <2>3. CASE j > p /\ i < p
    <3>1. r[i].key = q[i].key /\ r[j].key = q[j - 1].key /\ j - 1 \in p..Len(q)
      BY <1>1, <1>5, <1>6, <2>3
    <3>2. i \in 1..(p - 1) /\ i \in 1..Len(q) /\ j - 1 \in 1..Len(q)
      BY <1>1, <2>3, <3>1
    <3>3. q[i].key <= k /\ k < q[j - 1].key
      BY <1>1, <1>4, <3>1, <3>2
    <3>4. q[i].key \in Nat /\ q[j - 1].key \in Nat
      BY <1>1, <3>2
    <3>5. q[i].key <= q[j - 1].key
      BY <3>3, <3>4, KeysThrough, Zenon
    <3> QED BY <3>1, <3>5, Zenon
  <2>4. CASE i = p
    <3>1. r[i].key = k /\ r[j].key = q[j - 1].key /\ j - 1 \in p..Len(q)
      BY <1>1, <1>5, <1>6, <2>4
    <3> QED BY <1>1, <1>4, <3>1
  <2>5. CASE i > p
    <3>1. r[i].key = q[i - 1].key /\ r[j].key = q[j - 1].key
      <4>1. ~ (i < p) /\ i # p /\ ~ (j < p) /\ j # p
        BY <1>6, <2>5
      <4> QED BY <1>5, <4>1
    <3>2. i - 1 \in 1..Len(q) /\ j - 1 \in 1..Len(q) /\ i - 1 < j - 1
      BY <1>1, <1>6, <2>5
    <3> QED BY <1>3, <3>1, <3>2
  <2> QED BY <1>1, <1>6, <2>1, <2>2, <2>3, <2>4, <2>5
<1>7. DOMAIN r = 1..(Len(q) + 1)
  BY <1>2, <1>21, QueueEntries
<1> QED BY <1>6, <1>7 DEF SortedByKey, r

\* insert() adds the one item and loses none.
LEMMA InsertItems ==
    ASSUME NEW S, NEW q \in Seq(Entry(S)), NEW x \in S, NEW k \in Nat
    PROVE  /\ Items(Insert(q, x, k)) = Items(q) \cup {x}
           /\ x \notin Items(q) /\ DistinctItems(q)
                => DistinctItems(Insert(q, x, k))
<1> DEFINE r == Insert(q, x, k)
<1>0. PICK p \in 1..(Len(q) + 1) : InsertedAt(q, x, k, p)
  BY InsertShape
<1>1. Len(q) \in Nat /\ p \in 1..(Len(q) + 1)
  BY <1>0, QueueEntries
<1>2. /\ Len(r) = Len(q) + 1
      /\ \A i \in 1..(Len(q) + 1) :
            r[i] = IF i < p THEN q[i]
                   ELSE IF i = p THEN [item |-> x, key |-> k] ELSE q[i - 1]
  BY <1>0 DEF InsertedAt
<1>21. r \in Seq(Entry(S))
  BY InsertShape
<1> HIDE DEF r
<1>3. DOMAIN r = 1..(Len(q) + 1) /\ DOMAIN q = 1..Len(q)
  BY <1>1, <1>2, <1>21, QueueEntries
<1>4. \A i \in 1..(Len(q) + 1) :
         r[i].item = IF i < p THEN q[i].item
                     ELSE IF i = p THEN x ELSE q[i - 1].item
  BY <1>2
<1>5. ASSUME NEW y \in Items(r) PROVE y \in Items(q) \cup {x}
  <2>1. PICK i \in 1..(Len(q) + 1) : y = r[i].item
    BY <1>3, <1>5 DEF Items
  <2>2. CASE i < p
    <3>1. i \in DOMAIN q /\ y = q[i].item
      BY <1>1, <1>3, <1>4, <2>1, <2>2
    <3> QED BY <3>1 DEF Items
  <2>3. CASE i = p
    BY <1>1, <1>4, <2>1, <2>3
  <2>4. CASE i > p
    <3>1. i - 1 \in DOMAIN q /\ y = q[i - 1].item
      BY <1>1, <1>3, <1>4, <2>1, <2>4
    <3> QED BY <3>1 DEF Items
  <2> QED BY <1>1, <2>2, <2>3, <2>4
<1>6. ASSUME NEW y \in Items(q) PROVE y \in Items(r)
  <2>1. PICK i \in 1..Len(q) : y = q[i].item
    BY <1>3, <1>6 DEF Items
  <2>2. CASE i < p
    <3>1. i \in DOMAIN r /\ y = r[i].item
      BY <1>1, <1>3, <1>4, <2>1, <2>2
    <3> QED BY <3>1 DEF Items
  <2>3. CASE i >= p
    <3>1. i + 1 \in DOMAIN r /\ y = r[i + 1].item
      BY <1>1, <1>3, <1>4, <2>1, <2>3
    <3> QED BY <3>1 DEF Items
  <2> QED BY <1>1, <2>2, <2>3
<1>7. x \in Items(r)
  BY <1>1, <1>3, <1>4 DEF Items
<1>8. ASSUME x \notin Items(q), DistinctItems(q),
             NEW i \in 1..(Len(q) + 1), NEW j \in 1..(Len(q) + 1), i < j
      PROVE  r[i].item # r[j].item
  <2>1. \A m \in 1..Len(q) : q[m].item # x
    BY <1>3, <1>8 DEF Items
  <2>2. \A m, n \in 1..Len(q) : m # n => q[m].item # q[n].item
    BY <1>3, <1>8 DEF DistinctItems
  <2>3. CASE j < p
    BY <1>1, <1>4, <1>8, <2>2, <2>3
  <2>4. CASE j = p
    BY <1>1, <1>4, <1>8, <2>1, <2>4
  <2>5. CASE j > p /\ i < p
    BY <1>1, <1>4, <1>8, <2>2, <2>5
  <2>6. CASE i = p
    BY <1>1, <1>4, <1>8, <2>1, <2>6
  <2>7. CASE i > p
    BY <1>1, <1>4, <1>8, <2>2, <2>7
  <2> QED BY <1>1, <1>8, <2>3, <2>4, <2>5, <2>6, <2>7
<1>9. x \notin Items(q) /\ DistinctItems(q) => DistinctItems(r)
  <2>1. ASSUME x \notin Items(q), DistinctItems(q),
               NEW i \in DOMAIN r, NEW j \in DOMAIN r, i # j
        PROVE  r[i].item # r[j].item
    <3>1. i < j \/ j < i
      BY <1>1, <1>3, <2>1
    <3> QED BY <1>3, <1>8, <2>1, <3>1
  <2> QED BY <2>1 DEF DistinctItems
<1> QED BY <1>5, <1>6, <1>7, <1>9 DEF r

\* What insert() does, in one place: r is q with x at key k put in.
IsInsertion(S, q, x, k, r) ==
    /\ r \in Seq(Entry(S))
    /\ Len(r) = Len(q) + 1
    /\ SortedByKey(r)
    /\ DistinctItems(r)
    /\ Items(r) = Items(q) \cup {x}
    /\ \A i \in DOMAIN r : \/ r[i] = [item |-> x, key |-> k]
                           \/ \E j \in DOMAIN q : r[i] = q[j]

LEMMA InsertKeeps ==
    ASSUME NEW S, NEW q \in Seq(Entry(S)), NEW x \in S, NEW k \in Nat,
           SortedByKey(q), DistinctItems(q), x \notin Items(q)
    PROVE  IsInsertion(S, q, x, k, Insert(q, x, k))
<1> DEFINE r == Insert(q, x, k)
<1> HIDE DEF r
<1>1. PICK p \in 1..(Len(q) + 1) : InsertedAt(q, x, k, p)
  BY InsertShape
<1>2. r \in Seq(Entry(S))
  BY InsertShape DEF r
<1>3. Len(r) = Len(q) + 1
  BY <1>1 DEF InsertedAt, r
<1>4. SortedByKey(r)
  BY InsertSorted DEF r
<1>5. DistinctItems(r) /\ Items(r) = Items(q) \cup {x}
  BY InsertItems DEF r
<1>6. DOMAIN r = 1..(Len(q) + 1) /\ DOMAIN q = 1..Len(q) /\ Len(q) \in Nat
  BY <1>2, <1>3, QueueEntries
<1>7. ASSUME NEW i \in DOMAIN r
      PROVE  \/ r[i] = [item |-> x, key |-> k]
             \/ \E j \in DOMAIN q : r[i] = q[j]
  <2>1. r[i] = IF i < p THEN q[i]
               ELSE IF i = p THEN [item |-> x, key |-> k] ELSE q[i - 1]
    BY <1>1, <1>6 DEF InsertedAt, r
  <2>2. CASE i < p
    BY <1>6, <2>1, <2>2
  <2>3. CASE i = p
    BY <2>1, <2>3
  <2>4. CASE i > p
    <3>1. i - 1 \in DOMAIN q /\ r[i] = q[i - 1]
      BY <1>6, <2>1, <2>4
    <3> QED BY <3>1
  <2> QED BY <1>6, <2>2, <2>3, <2>4
<1> QED BY <1>2, <1>3, <1>4, <1>5, <1>7, Zenon DEF IsInsertion, r

\* popFront() takes the smallest key, keeps the rest in order and the item it
\* returns is the only one that leaves.
LEMMA PopFrontEntries ==
    ASSUME NEW S, NEW q \in Seq(Entry(S)), q # <<>>
    PROVE  /\ PopFront(q) \in Seq(Entry(S))
           /\ Len(PopFront(q)) = Len(q) - 1
           /\ FrontItem(q) \in S /\ FrontKey(q) \in Nat
           /\ Items(q) = Items(PopFront(q)) \cup {FrontItem(q)}
           /\ SortedByKey(q) => /\ SortedByKey(PopFront(q))
                                /\ \A i \in DOMAIN q : FrontKey(q) <= q[i].key
           /\ DistinctItems(q) => /\ DistinctItems(PopFront(q))
                                  /\ FrontItem(q) \notin Items(PopFront(q))
<1> DEFINE r == PopFront(q)
<1>1. /\ Len(q) \in Nat \ {0} /\ DOMAIN q = 1..Len(q)
      /\ q[1] \in Entry(S) /\ Head(q) = q[1]
  BY EmptySeq, QueueEntries, HeadTailProperties
<1>2. /\ r \in Seq(Entry(S)) /\ Len(r) = Len(q) - 1
      /\ \A i \in 1..(Len(q) - 1) : r[i] = q[i + 1]
  BY HeadTailProperties DEF PopFront
<1> HIDE DEF r
<1>3. DOMAIN r = 1..(Len(q) - 1)
  BY <1>1, <1>2, QueueEntries
<1>4. FrontItem(q) = q[1].item /\ FrontKey(q) = q[1].key
  BY <1>1 DEF FrontItem, FrontKey
<1>5. FrontItem(q) \in S /\ FrontKey(q) \in Nat
  BY <1>1, <1>4 DEF Entry
<1>6. \A i \in 1..Len(q) : i = 1 \/ (i - 1 \in DOMAIN r /\ q[i] = r[i - 1])
  BY <1>1, <1>2, <1>3
<1>7. Items(q) = Items(r) \cup {FrontItem(q)}
  <2>1. \A i \in DOMAIN r : i + 1 \in DOMAIN q /\ r[i] = q[i + 1]
    BY <1>1, <1>2, <1>3
  <2>2. 1 \in DOMAIN q
    BY <1>1
  <2>3. Items(r) \cup {FrontItem(q)} \subseteq Items(q)
    BY <1>4, <2>1, <2>2 DEF Items
  <2>4. Items(q) \subseteq Items(r) \cup {FrontItem(q)}
    BY <1>1, <1>4, <1>6 DEF Items
  <2> QED BY <2>3, <2>4
<1>8. SortedByKey(q) => SortedByKey(r)
  <2>1. ASSUME SortedByKey(q), NEW i \in DOMAIN r, NEW j \in DOMAIN r, i < j
        PROVE  r[i].key <= r[j].key
    <3>1. /\ i + 1 \in DOMAIN q /\ j + 1 \in DOMAIN q /\ i + 1 < j + 1
          /\ r[i] = q[i + 1] /\ r[j] = q[j + 1]
      BY <1>1, <1>2, <1>3, <2>1
    <3> QED BY <2>1, <3>1 DEF SortedByKey
  <2> QED BY <2>1 DEF SortedByKey
<1>9. SortedByKey(q) => \A i \in DOMAIN q : FrontKey(q) <= q[i].key
  BY <1>1, <1>4, <1>5 DEF SortedByKey
<1>10. DistinctItems(q) => DistinctItems(r)
  <2>1. ASSUME DistinctItems(q), NEW i \in DOMAIN r, NEW j \in DOMAIN r, i # j
        PROVE  r[i].item # r[j].item
    <3>1. /\ i + 1 \in DOMAIN q /\ j + 1 \in DOMAIN q /\ i + 1 # j + 1
          /\ r[i] = q[i + 1] /\ r[j] = q[j + 1]
      BY <1>1, <1>2, <1>3, <2>1
    <3> QED BY <2>1, <3>1 DEF DistinctItems
  <2> QED BY <2>1 DEF DistinctItems
<1>11. DistinctItems(q) => FrontItem(q) \notin Items(r)
  <2>1. ASSUME DistinctItems(q), NEW i \in DOMAIN r
        PROVE  r[i].item # FrontItem(q)
    <3>1. 1 \in DOMAIN q /\ i + 1 \in DOMAIN q /\ 1 # i + 1 /\ r[i] = q[i + 1]
      BY <1>1, <1>2, <1>3, <2>1
    <3>2. q[1].item # q[i + 1].item
      BY <2>1, <3>1, Zenon DEF DistinctItems
    <3> QED BY <1>4, <3>1, <3>2
  <2> QED BY <2>1 DEF Items
<1> QED BY <1>2, <1>5, <1>7, <1>8, <1>9, <1>10, <1>11 DEF r

----------------------------------------------------------------------------

\* Of each queued packet due before the clock wraps: its slot's key has not
\* come before its time, or its time is already past (a retry gets a later
\* key, which may have wrapped).
KeysAreDue ==
    \A i \in DOMAIN delayQueue :
        LET e == delayQueue[i]
        IN due[e.item] < ClockMod => e.key >= due[e.item] \/ uptime >= due[e.item]

\* The inductive invariant.
IInv == /\ TypeOK
        /\ EveryPacketOnce
        /\ CountersAgree
        /\ QueueSorted
        /\ ClockIsTrue
        /\ KeysAreDue


\* The delay of a packet is short enough not to wrap twice.
LEMMA DelayBound ==
    ASSUME NEW p \in Packets, NEW delay \in TotalDelays(p)
    PROVE  delay \in Nat /\ delay < ClockMod
BY ForwarderAssumption DEF TotalDelays, TxJitter

LEMMA FiniteIds ==
    ASSUME NEW S, S \subseteq 1..MaxAccepted
    PROVE  IsFiniteSet(S) /\ Cardinality(S) \in Nat
<1>1. IsFiniteSet(1..MaxAccepted)
  BY ForwarderAssumption, FS_Interval
<1>2. IsFiniteSet(S)
  BY <1>1, FS_Subset
<1> QED BY <1>2, FS_CardinalityType

\* One id more in a set of ids, one more in its size.
LEMMA CountOne ==
    ASSUME NEW S, S \subseteq 1..MaxAccepted, NEW id, id \notin S
    PROVE  Cardinality(S \cup {id}) = Cardinality(S) + 1
<1>1. IsFiniteSet(S)
  BY FiniteIds
<1> QED BY <1>1, FS_AddElement

FwdTypeOK ==
    /\ delayQueue \in Seq(Entry(1..MaxAccepted))
    /\ Len(delayQueue) <= DelayQueueSize
    /\ forwardedCount \in Nat /\ droppedCount \in Nat /\ delayedCount \in Nat
    /\ accepted \in 0..MaxAccepted
    /\ sent \subseteq 1..MaxAccepted
    /\ lost \subseteq 1..MaxAccepted
    /\ due \in [1..MaxAccepted -> Nat]

\* The part of the invariant that is about the forwarder's packets.
PacketsInv == FwdTypeOK /\ EveryPacketOnce /\ CountersAgree /\ QueueSorted
                        /\ KeysAreDue

LEMMA InvParts ==
    IInv <=> ClockTypeOK /\ TxTypeOK /\ ClockIsTrue /\ PacketsInv
BY DEF IInv, PacketsInv, TypeOK, FwdTypeOK

LEMMA FreshId ==
    ASSUME FwdTypeOK, EveryPacketOnce, accepted < MaxAccepted
    PROVE  /\ NewId \in 1..MaxAccepted
           /\ NewId \notin sent /\ NewId \notin lost
           /\ NewId \notin Items(delayQueue)
           /\ 1..NewId = (1..accepted) \cup {NewId}
BY ForwarderAssumption DEF FwdTypeOK, EveryPacketOnce, NewId

\* An accepted packet that is sent at once.
LEMMA SendNew ==
    ASSUME PacketsInv, accepted < MaxAccepted, accepted' = NewId, Sent(NewId),
           UNCHANGED <<delayQueue, droppedCount, delayedCount, lost, due, uptime>>
    PROVE  PacketsInv'
<1>1. FwdTypeOK'
  BY FreshId DEF PacketsInv, FwdTypeOK, Sent, NewId
<1>2. EveryPacketOnce'
  BY FreshId DEF PacketsInv, EveryPacketOnce, Sent
<1>3. CountersAgree'
  BY FreshId, CountOne DEF PacketsInv, FwdTypeOK, CountersAgree, Sent
<1>4. QueueSorted' /\ KeysAreDue'
  BY DEF PacketsInv, QueueSorted, KeysAreDue
<1> QED BY <1>1, <1>2, <1>3, <1>4 DEF PacketsInv

\* An accepted packet that is given up at once.
LEMMA LoseNew ==
    ASSUME PacketsInv, accepted < MaxAccepted, accepted' = NewId, Lose(NewId),
           UNCHANGED <<delayQueue, forwardedCount, delayedCount, sent, due, uptime>>
    PROVE  PacketsInv'
<1>1. FwdTypeOK'
  BY FreshId DEF PacketsInv, FwdTypeOK, Lose, NewId
<1>2. EveryPacketOnce'
  BY FreshId DEF PacketsInv, EveryPacketOnce, Lose
<1>3. CountersAgree'
  BY FreshId, CountOne DEF PacketsInv, FwdTypeOK, CountersAgree, Lose
<1>4. QueueSorted' /\ KeysAreDue'
  BY DEF PacketsInv, QueueSorted, KeysAreDue
<1> QED BY <1>1, <1>2, <1>3, <1>4 DEF PacketsInv

QueueStep(delay) ==
    /\ accepted < MaxAccepted /\ accepted' = NewId
    /\ ~ IsFull(delayQueue, DelayQueueSize)
    /\ delayQueue' = Insert(delayQueue, NewId, Plus(millis, delay))
    /\ due' = [due EXCEPT ![NewId] = uptime + delay]
    /\ delayedCount' = delayedCount + 1
    /\ UNCHANGED <<forwardedCount, droppedCount, sent, lost, uptime>>

\* An accepted packet that is queued: it gets a key of its own time.
LEMMA QueueNew ==
    ASSUME PacketsInv, ClockTypeOK, ClockIsTrue,
           NEW delay \in Nat, delay < ClockMod, QueueStep(delay)
    PROVE  PacketsInv'
<1>1. PICK k : k = Plus(millis, delay)
  OBVIOUS
<1>2. k \in Nat /\ (uptime + delay < ClockMod => k >= uptime + delay)
  BY <1>1, ClockAssumption DEF Plus, ClockTypeOK, ClockIsTrue
<1>3. PICK id : id = NewId
  OBVIOUS
<1>4. /\ id \in 1..MaxAccepted
      /\ id \notin sent /\ id \notin lost
      /\ id \notin Items(delayQueue)
      /\ 1..id = (1..accepted) \cup {id}
      /\ id = accepted + 1
  BY <1>3, FreshId DEF PacketsInv, QueueStep, NewId
<1>5. /\ delayQueue \in Seq(Entry(1..MaxAccepted))
      /\ Len(delayQueue) \in Nat
      /\ SortedByKey(delayQueue) /\ DistinctItems(delayQueue)
  BY QueueEntries DEF PacketsInv, FwdTypeOK, QueueSorted, EveryPacketOnce
<1>6. delayQueue' = Insert(delayQueue, id, k)
  BY <1>1, <1>3 DEF QueueStep
<1>7. /\ delayQueue' \in Seq(Entry(1..MaxAccepted))
      /\ Len(delayQueue') = Len(delayQueue) + 1
      /\ SortedByKey(delayQueue')
      /\ DistinctItems(delayQueue')
      /\ Items(delayQueue') = Items(delayQueue) \cup {id}
      /\ \A i \in DOMAIN delayQueue' :
            \/ delayQueue'[i] = [item |-> id, key |-> k]
            \/ \E j \in DOMAIN delayQueue : delayQueue'[i] = delayQueue[j]
  <2>1. IsInsertion(1..MaxAccepted, delayQueue, id, k, delayQueue')
    BY <1>2, <1>4, <1>5, <1>6, InsertKeeps
  <2> QED BY <2>1, Zenon DEF IsInsertion
<1>8. due \in [1..MaxAccepted -> Nat] /\ uptime \in Nat
  BY DEF PacketsInv, FwdTypeOK, ClockTypeOK
<1>9. due' = [due EXCEPT ![id] = uptime + delay] /\ uptime' = uptime
  BY <1>3 DEF QueueStep
<1>10. FwdTypeOK'
  <2>1. Len(delayQueue') <= DelayQueueSize
    BY <1>5, <1>7, ForwarderAssumption DEF IsFull, QueueStep
  <2>2. due' \in [1..MaxAccepted -> Nat]
    <3>1. uptime + delay \in Nat
      BY <1>8
    <3> QED BY <1>8, <1>9, <3>1
  <2>3. accepted' \in 0..MaxAccepted
    BY <1>3, <1>4 DEF QueueStep
  <2>4. delayedCount' \in Nat
    BY DEF QueueStep, PacketsInv, FwdTypeOK
  <2>5. /\ forwardedCount' \in Nat /\ droppedCount' \in Nat
        /\ sent' \subseteq 1..MaxAccepted /\ lost' \subseteq 1..MaxAccepted
    BY DEF QueueStep, PacketsInv, FwdTypeOK
  <2> QED BY <1>7, <2>1, <2>2, <2>3, <2>4, <2>5 DEF FwdTypeOK
<1>11. EveryPacketOnce'
  <2>1. accepted' = id /\ sent' = sent /\ lost' = lost
    BY <1>3 DEF QueueStep
  <2> QED BY <1>4, <1>7, <2>1 DEF PacketsInv, EveryPacketOnce
<1>12. CountersAgree'
  BY DEF PacketsInv, CountersAgree, QueueStep
<1>13. KeysAreDue'
  <2>1. SUFFICES ASSUME NEW i \in DOMAIN delayQueue'
                 PROVE  due'[delayQueue'[i].item] < ClockMod
                          => \/ delayQueue'[i].key >= due'[delayQueue'[i].item]
                             \/ uptime' >= due'[delayQueue'[i].item]
    BY DEF KeysAreDue
  <2>2. CASE delayQueue'[i] = [item |-> id, key |-> k]
    BY <1>2, <1>4, <1>8, <1>9, <2>2
  <2>3. ASSUME NEW j \in DOMAIN delayQueue, delayQueue'[i] = delayQueue[j]
        PROVE  due'[delayQueue'[i].item] < ClockMod
                 => \/ delayQueue'[i].key >= due'[delayQueue'[i].item]
                    \/ uptime' >= due'[delayQueue'[i].item]
    <3>1. delayQueue[j].item \in Items(delayQueue)
      BY DEF Items
    <3>2. delayQueue[j].item \in 1..MaxAccepted
      BY <1>5, QueueEntries
    <3>3. due'[delayQueue[j].item] = due[delayQueue[j].item]
      BY <1>4, <1>8, <1>9, <3>1, <3>2
    <3> QED BY <1>9, <2>3, <3>3 DEF PacketsInv, KeysAreDue
  <2> QED BY <1>7, <2>2, <2>3
<1> QED BY <1>7, <1>10, <1>11, <1>12, <1>13 DEF PacketsInv, QueueSorted

\* What the pop leaves of the invariant: everything but the popped packet.
LEMMA Popped ==
    ASSUME PacketsInv, delayQueue # <<>>, NEW rest, rest = PopFront(delayQueue),
           NEW id, id = FrontItem(delayQueue)
    PROVE  /\ rest \in Seq(Entry(1..MaxAccepted))
           /\ Len(rest) = Len(delayQueue) - 1
           /\ Len(delayQueue) \in Nat
           /\ id \in 1..MaxAccepted
           /\ Items(delayQueue) = Items(rest) \cup {id}
           /\ id \notin Items(rest)
           /\ id \notin sent \cup lost
           /\ SortedByKey(rest)
           /\ DistinctItems(rest)
           /\ FrontKey(delayQueue) \in Nat
           /\ \A i \in DOMAIN rest : \E j \in DOMAIN delayQueue :
                 rest[i] = delayQueue[j]
           /\ due[id] < ClockMod =>
                 FrontKey(delayQueue) >= due[id] \/ uptime >= due[id]
<1>1. delayQueue \in Seq(Entry(1..MaxAccepted))
  BY DEF PacketsInv, FwdTypeOK
<1>2. SortedByKey(delayQueue) /\ DistinctItems(delayQueue)
  BY DEF PacketsInv, QueueSorted, EveryPacketOnce
<1>3. /\ rest \in Seq(Entry(1..MaxAccepted))
      /\ Len(rest) = Len(delayQueue) - 1
      /\ id \in 1..MaxAccepted
      /\ Items(delayQueue) = Items(rest) \cup {id}
      /\ id \notin Items(rest)
      /\ SortedByKey(rest)
      /\ DistinctItems(rest)
      /\ FrontKey(delayQueue) \in Nat
  BY <1>1, <1>2, PopFrontEntries
<1>4. id \notin sent \cup lost
  BY <1>3 DEF PacketsInv, EveryPacketOnce
<1>5. Len(delayQueue) \in Nat \ {0} /\ DOMAIN delayQueue = 1..Len(delayQueue)
  BY <1>1, QueueEntries, EmptySeq
<1>6. \A i \in DOMAIN rest : \E j \in DOMAIN delayQueue : rest[i] = delayQueue[j]
  <2>1. DOMAIN rest = 1..(Len(delayQueue) - 1)
    BY <1>3, QueueEntries
  <2>2. \A i \in 1..(Len(delayQueue) - 1) : rest[i] = delayQueue[i + 1]
    BY <1>1, <1>5, HeadTailProperties DEF PopFront
  <2> QED BY <1>5, <2>1, <2>2
<1>7. 1 \in DOMAIN delayQueue /\ Head(delayQueue) = delayQueue[1]
  BY <1>1, <1>5, HeadTailProperties
<1>8. due[id] < ClockMod => FrontKey(delayQueue) >= due[id] \/ uptime >= due[id]
  BY <1>7 DEF PacketsInv, KeysAreDue, FrontItem, FrontKey
<1> QED BY <1>3, <1>4, <1>5, <1>6, <1>8

\* The front packet is popped and sent.
LEMMA SendFrontStep ==
    ASSUME PacketsInv, uptime' = uptime, SendFront
    PROVE  PacketsInv'
<1>1. PICK id : id = FrontItem(delayQueue)
  OBVIOUS
<1>2. PICK rest : rest = PopFront(delayQueue)
  OBVIOUS
<1>3. delayQueue # <<>>
  BY DEF SendFront, FrontReady
<1>4. /\ delayQueue' = rest
      /\ sent' = sent \cup {id}
      /\ forwardedCount' = forwardedCount + 1
      /\ UNCHANGED <<droppedCount, delayedCount, accepted, lost, due>>
  BY <1>1, <1>2 DEF SendFront, Sent
<1>5. /\ rest \in Seq(Entry(1..MaxAccepted))
      /\ Len(rest) = Len(delayQueue) - 1
      /\ Len(delayQueue) \in Nat
      /\ id \in 1..MaxAccepted
      /\ Items(delayQueue) = Items(rest) \cup {id}
      /\ id \notin Items(rest)
      /\ id \notin sent \cup lost
      /\ SortedByKey(rest)
      /\ DistinctItems(rest)
      /\ \A i \in DOMAIN rest : \E j \in DOMAIN delayQueue :
            rest[i] = delayQueue[j]
  BY <1>1, <1>2, <1>3, Popped
<1>6. FwdTypeOK'
  <2>1. Len(rest) <= DelayQueueSize
    BY <1>5, ForwarderAssumption DEF PacketsInv, FwdTypeOK
  <2> QED BY <1>4, <1>5, <2>1 DEF PacketsInv, FwdTypeOK
<1>7. EveryPacketOnce'
  BY <1>4, <1>5 DEF PacketsInv, EveryPacketOnce
<1>8. CountersAgree'
  <2>1. Cardinality(sent \cup {id}) = Cardinality(sent) + 1
    BY <1>5, CountOne DEF PacketsInv, FwdTypeOK
  <2> QED BY <1>4, <2>1 DEF PacketsInv, CountersAgree
<1>9. QueueSorted'
  BY <1>4, <1>5 DEF QueueSorted
<1>10. KeysAreDue'
  BY <1>4, <1>5 DEF PacketsInv, KeysAreDue
<1> QED BY <1>6, <1>7, <1>8, <1>9, <1>10 DEF PacketsInv

\* A slot freed by the pop is free: the retry never meets a full queue.
LEMMA RoomAfterPop ==
    ASSUME PacketsInv, delayQueue # <<>>
    PROVE  ~ IsFull(PopFront(delayQueue), DelayQueueSize)
<1>1. PICK rest : rest = PopFront(delayQueue)
  OBVIOUS
<1>2. Len(rest) = Len(delayQueue) - 1 /\ Len(delayQueue) \in Nat
  BY <1>1, Popped
<1>3. Len(delayQueue) <= DelayQueueSize
  BY DEF PacketsInv, FwdTypeOK
<1> QED BY <1>1, <1>2, <1>3, ForwarderAssumption DEF IsFull

\* The popped packet goes back with a later key.
LEMMA RetryFrontStep ==
    ASSUME PacketsInv, ClockTypeOK, ClockIsTrue, uptime' = uptime, RetryFront
    PROVE  PacketsInv' /\ lost' = lost
<1>1. PICK id : id = FrontItem(delayQueue)
  OBVIOUS
<1>2. PICK rest : rest = PopFront(delayQueue)
  OBVIOUS
<1>3. PICK k : k = Plus(millis, SlotTime)
  OBVIOUS
<1>4. delayQueue # <<>> /\ millis >= FrontKey(delayQueue)
  BY DEF RetryFront, FrontReady
<1>5. k \in Nat
  BY <1>3, ClockAssumption, ForwarderAssumption, ClockType
<1>6. /\ delayQueue' = Insert(rest, id, k)
      /\ UNCHANGED <<forwardedCount, droppedCount, delayedCount, accepted,
                     sent, lost, due>>
  BY <1>1, <1>2, <1>3, <1>4, RoomAfterPop DEF RetryFront
<1>7. /\ rest \in Seq(Entry(1..MaxAccepted))
      /\ Len(rest) = Len(delayQueue) - 1
      /\ Len(delayQueue) \in Nat
      /\ id \in 1..MaxAccepted
      /\ Items(delayQueue) = Items(rest) \cup {id}
      /\ id \notin Items(rest)
      /\ SortedByKey(rest)
      /\ DistinctItems(rest)
      /\ FrontKey(delayQueue) \in Nat
      /\ \A i \in DOMAIN rest : \E j \in DOMAIN delayQueue :
            rest[i] = delayQueue[j]
      /\ due[id] < ClockMod =>
            FrontKey(delayQueue) >= due[id] \/ uptime >= due[id]
  BY <1>1, <1>2, <1>4, Popped
<1>8. /\ delayQueue' \in Seq(Entry(1..MaxAccepted))
      /\ Len(delayQueue') = Len(rest) + 1
      /\ SortedByKey(delayQueue')
      /\ DistinctItems(delayQueue')
      /\ Items(delayQueue') = Items(rest) \cup {id}
      /\ \A i \in DOMAIN delayQueue' :
            \/ delayQueue'[i] = [item |-> id, key |-> k]
            \/ \E j \in DOMAIN rest : delayQueue'[i] = rest[j]
  <2>1. IsInsertion(1..MaxAccepted, rest, id, k, delayQueue')
    BY <1>5, <1>6, <1>7, InsertKeeps
  <2> QED BY <2>1, Zenon DEF IsInsertion
<1>9. FwdTypeOK'
  <2>1. Len(delayQueue') = Len(delayQueue)
    BY <1>7, <1>8
  <2> QED BY <1>6, <1>8, <2>1 DEF PacketsInv, FwdTypeOK
<1>10. EveryPacketOnce'
  BY <1>6, <1>7, <1>8 DEF PacketsInv, EveryPacketOnce
<1>11. CountersAgree'
  BY <1>6 DEF PacketsInv, CountersAgree
<1>12. due[id] < ClockMod => uptime >= due[id]
  <2>1. due[id] \in Nat
    BY <1>7 DEF PacketsInv, FwdTypeOK
  <2> QED BY <1>4, <1>7, <2>1, ClockAssumption DEF ClockTypeOK, ClockIsTrue
<1>13. KeysAreDue'
  <2>1. SUFFICES ASSUME NEW i \in DOMAIN delayQueue'
                 PROVE  due[delayQueue'[i].item] < ClockMod
                          => \/ delayQueue'[i].key >= due[delayQueue'[i].item]
                             \/ uptime >= due[delayQueue'[i].item]
    BY <1>6 DEF KeysAreDue
  <2>2. CASE delayQueue'[i] = [item |-> id, key |-> k]
    BY <1>12, <2>2
  <2>3. CASE \E j \in DOMAIN delayQueue : delayQueue'[i] = delayQueue[j]
    BY <2>3 DEF PacketsInv, KeysAreDue
  <2> QED BY <1>7, <1>8, <2>2, <2>3
<1> QED BY <1>6, <1>8, <1>9, <1>10, <1>11, <1>13 DEF PacketsInv, QueueSorted

\* A packet that leaves the queue for the radio leaves it no earlier than due.
LEMMA SentIsDue ==
    ASSUME PacketsInv, ClockTypeOK, ClockIsTrue, SendFront,
           NEW id \in Items(delayQueue), id \in sent' \ sent,
           due[id] < ClockMod
    PROVE  uptime >= due[id]
<1>1. id = FrontItem(delayQueue)
  BY DEF SendFront, Sent
<1>2. delayQueue # <<>> /\ millis >= FrontKey(delayQueue)
  BY DEF SendFront, FrontReady
<1>3. PICK rest : rest = PopFront(delayQueue)
  OBVIOUS
<1>4. /\ FrontKey(delayQueue) \in Nat
      /\ id \in 1..MaxAccepted
      /\ FrontKey(delayQueue) >= due[id] \/ uptime >= due[id]
  BY <1>1, <1>2, <1>3, Popped
<1>5. due[id] \in Nat
  BY <1>4 DEF PacketsInv, FwdTypeOK
<1> QED BY <1>2, <1>4, <1>5, ClockAssumption DEF ClockTypeOK, ClockIsTrue

LEMMA ForwarderInit == Init => IInv
<1> SUFFICES ASSUME Init PROVE IInv
  OBVIOUS
<1>1. ClockTypeOK /\ ClockIsTrue
  BY ClockAssumption DEF Init, ClockInit, ClockTypeOK, ClockIsTrue
<1>2. TxTypeOK
  <2>1. transmitting \in BOOLEAN
    BY Zenon DEF Init, TxInit
  <2> QED BY <2>1, ClockAssumption DEF Init, TxInit, TxTypeOK
<1>3. /\ delayQueue = <<>> /\ accepted = 0 /\ sent = {} /\ lost = {}
      /\ forwardedCount = 0 /\ droppedCount = 0 /\ delayedCount = 0
      /\ due = [id \in 1..MaxAccepted |-> 0]
  BY DEF Init
<1>4. FwdTypeOK
  <2>1. delayQueue \in Seq(Entry(1..MaxAccepted)) /\ Len(delayQueue) = 0
    BY <1>3, EmptySeq
  <2> QED BY <1>3, <2>1, ForwarderAssumption DEF FwdTypeOK
<1>5. EveryPacketOnce /\ QueueSorted /\ KeysAreDue
  <2>1. DOMAIN delayQueue = {} /\ 1..accepted = {}
    BY <1>3
  <2> QED BY <1>3, <2>1 DEF EveryPacketOnce, QueueSorted, SortedByKey,
                            DistinctItems, Items, KeysAreDue
<1>6. CountersAgree
  BY <1>3, FS_EmptySet DEF CountersAgree
<1> QED BY <1>1, <1>2, <1>4, <1>5, <1>6, InvParts DEF PacketsInv

\* A packet offered by the dispatcher.
LEMMA ProcessPacketStep ==
    ASSUME IInv, NEW p \in Packets, ProcessPacket(p)
    PROVE  IInv'
<1>1. ClockTypeOK /\ TxTypeOK /\ ClockIsTrue /\ PacketsInv
  BY InvParts
<1>2. uptime' = uptime /\ millis' = millis
  BY DEF ProcessPacket, clockVars
<1>3. ClockTypeOK' /\ ClockIsTrue'
  BY <1>1, <1>2 DEF ClockTypeOK, ClockIsTrue
<1>4. CASE IgnorePacket(p)
  <2>1. TxTypeOK'
    BY <1>1, <1>4 DEF IgnorePacket, txVars, TxTypeOK
  <2>2. PacketsInv'
    BY <1>1, <1>2, <1>4 DEF IgnorePacket, fwdVars, PacketsInv, FwdTypeOK,
          EveryPacketOnce, CountersAgree, QueueSorted, KeysAreDue
  <2> QED BY <1>3, <2>1, <2>2, InvParts DEF IInv, PacketsInv, TypeOK, FwdTypeOK
<1>5. CASE AcceptPacket(p)
  <2>1. accepted < MaxAccepted /\ accepted' = NewId
    BY <1>5 DEF AcceptPacket
  <2>2. PICK delay \in TotalDelays(p) :
           IF delay < MinDelayThreshold THEN HandleImmediateForward
                                        ELSE HandleDelayedForward(delay)
    BY <1>5 DEF AcceptPacket
  <2>3. delay \in Nat /\ delay < ClockMod
    BY DelayBound
  <2>4. CASE HandleImmediateForward
    <3>1. UNCHANGED <<delayQueue, delayedCount, due>>
      BY <2>4 DEF HandleImmediateForward
    <3>2. CASE Transmit /\ Sent(NewId) /\ UNCHANGED <<droppedCount, lost>>
      <4>1. TxTypeOK'
        BY <1>1, <3>2, ClockAssumption, TransmitterSteps
      <4>2. PacketsInv'
        BY <1>1, <1>2, <2>1, <3>1, <3>2, SendNew
      <4> QED BY <1>3, <4>1, <4>2 DEF IInv, PacketsInv, TypeOK, FwdTypeOK
    <3>3. CASE Lose(NewId) /\ UNCHANGED <<txVars, forwardedCount, sent>>
      <4>1. TxTypeOK'
        BY <1>1, <3>3 DEF txVars, TxTypeOK
      <4>2. PacketsInv'
        BY <1>1, <1>2, <2>1, <3>1, <3>3, LoseNew
      <4> QED BY <1>3, <4>1, <4>2 DEF IInv, PacketsInv, TypeOK, FwdTypeOK
    <3> QED BY <2>4, <3>2, <3>3 DEF HandleImmediateForward
  <2>5. CASE HandleDelayedForward(delay)
    <3>1. UNCHANGED <<txVars, forwardedCount, sent>>
      BY <2>5 DEF HandleDelayedForward
    <3>2. TxTypeOK'
      BY <1>1, <3>1 DEF txVars, TxTypeOK
    <3>3. PacketsInv'
      <4>1. CASE IsFull(delayQueue, DelayQueueSize)
        <5>1. Lose(NewId) /\ UNCHANGED <<delayQueue, delayedCount, due>>
          BY <2>5, <4>1 DEF HandleDelayedForward
        <5> QED BY <1>1, <1>2, <2>1, <3>1, <5>1, LoseNew
      <4>2. CASE ~ IsFull(delayQueue, DelayQueueSize)
        <5>1. QueueStep(delay)
          BY <1>2, <2>1, <2>5, <3>1, <4>2 DEF HandleDelayedForward, QueueStep
        <5> QED BY <1>1, <2>3, <5>1, QueueNew
      <4> QED BY <4>1, <4>2
    <3> QED BY <1>3, <3>2, <3>3 DEF IInv, PacketsInv, TypeOK, FwdTypeOK
  <2> QED BY <2>2, <2>4, <2>5
<1> QED BY <1>4, <1>5 DEF ProcessPacket

\* loop(): whichever of its two outcomes.
LEMMA LoopStep ==
    ASSUME IInv, Loop
    PROVE  /\ IInv'
           /\ lost' = lost
           /\ \A id \in Items(delayQueue) :
                 id \in sent' \ sent /\ due[id] < ClockMod => uptime >= due[id]
<1>1. ClockTypeOK /\ TxTypeOK /\ ClockIsTrue /\ PacketsInv
  BY InvParts
<1>2. uptime' = uptime /\ millis' = millis
  BY DEF Loop, clockVars
<1>3. ClockTypeOK' /\ ClockIsTrue'
  BY <1>1, <1>2 DEF ClockTypeOK, ClockIsTrue
<1>4. CASE SendFront
  <2>1. TxTypeOK'
    BY <1>1, <1>4, ClockAssumption, TransmitterSteps DEF SendFront
  <2>2. PacketsInv'
    BY <1>1, <1>2, <1>4, SendFrontStep
  <2>3. lost' = lost
    BY <1>4 DEF SendFront
  <2>4. \A id \in Items(delayQueue) :
           id \in sent' \ sent /\ due[id] < ClockMod => uptime >= due[id]
    BY <1>1, <1>4, SentIsDue
  <2> QED BY <1>3, <2>1, <2>2, <2>3, <2>4 DEF IInv, PacketsInv, TypeOK, FwdTypeOK
<1>5. CASE RetryFront
  <2>1. UNCHANGED <<txVars, sent>>
    BY <1>5 DEF RetryFront
  <2>2. TxTypeOK'
    BY <1>1, <2>1 DEF txVars, TxTypeOK
  <2>3. PacketsInv' /\ lost' = lost
    BY <1>1, <1>2, <1>5, RetryFrontStep
  <2> QED BY <1>3, <2>1, <2>2, <2>3 DEF IInv, PacketsInv, TypeOK, FwdTypeOK
<1> QED BY <1>4, <1>5 DEF Loop

\* The forwarder's packets while others act.
LEMMA OthersStep ==
    ASSUME PacketsInv, UNCHANGED fwdVars, uptime \in Nat, uptime' \in Nat,
           uptime' >= uptime
    PROVE  PacketsInv'
<1>1. UNCHANGED <<delayQueue, forwardedCount, droppedCount, delayedCount,
                  accepted, sent, lost, due>>
  BY DEF fwdVars
<1>2. FwdTypeOK' /\ EveryPacketOnce' /\ CountersAgree' /\ QueueSorted'
  BY <1>1 DEF PacketsInv, FwdTypeOK, EveryPacketOnce, CountersAgree, QueueSorted
<1>3. KeysAreDue'
  <2>1. SUFFICES ASSUME NEW i \in DOMAIN delayQueue
                 PROVE  due[delayQueue[i].item] < ClockMod
                          => \/ delayQueue[i].key >= due[delayQueue[i].item]
                             \/ uptime' >= due[delayQueue[i].item]
    BY <1>1 DEF KeysAreDue
  <2>2. due[delayQueue[i].item] \in Nat
    <3>1. delayQueue[i].item \in 1..MaxAccepted
      BY QueueEntries DEF PacketsInv, FwdTypeOK
    <3> QED BY <3>1 DEF PacketsInv, FwdTypeOK
  <2> QED BY <2>2 DEF PacketsInv, KeysAreDue
<1> QED BY <1>2, <1>3 DEF PacketsInv

\* One step of any actor.
LEMMA ForwarderStep ==
    ASSUME IInv, [Next]_vars
    PROVE  IInv'
<1>1. ClockTypeOK /\ TxTypeOK /\ ClockIsTrue /\ PacketsInv
  BY InvParts
<1>2. uptime \in Nat
  BY <1>1 DEF ClockTypeOK
<1>3. ASSUME NEW p \in Packets, ProcessPacket(p) PROVE IInv'
  BY <1>3, ProcessPacketStep
<1>4. CASE Loop
  BY <1>4, LoopStep
<1>5. ASSUME UNCHANGED clockVars, UNCHANGED fwdVars, TxTypeOK' PROVE IInv'
  <2>1. uptime' = uptime /\ millis' = millis
    BY <1>5 DEF clockVars
  <2>2. ClockTypeOK' /\ ClockIsTrue'
    BY <1>1, <2>1 DEF ClockTypeOK, ClockIsTrue
  <2>3. PacketsInv'
    BY <1>1, <1>2, <1>5, <2>1, OthersStep
  <2> QED BY <1>5, <2>2, <2>3 DEF IInv, PacketsInv, TypeOK, FwdTypeOK
<1>6. CASE OtherTransmit
  <2>1. TxTypeOK'
    BY <1>1, <1>6, ClockAssumption, TransmitterSteps DEF OtherTransmit
  <2> QED BY <1>5, <1>6, <2>1 DEF OtherTransmit
<1>7. CASE (RadioReports \/ ResetStats) /\ UNCHANGED <<clockVars, fwdVars>>
  <2>1. TxTypeOK'
    BY <1>1, <1>7, ClockAssumption, TransmitterSteps
  <2> QED BY <1>5, <1>7, <2>1
<1>8. CASE Tick /\ UNCHANGED <<txVars, fwdVars>>
  <2>1. ClockTypeOK' /\ ClockIsTrue' /\ uptime' >= uptime
    BY <1>1, <1>8, ClockAssumption, TickStep
  <2>2. TxTypeOK'
    BY <1>1, <1>8 DEF txVars, TxTypeOK
  <2>3. PacketsInv'
    <3>1. uptime' \in Nat
      BY <2>1 DEF ClockTypeOK
    <3> QED BY <1>1, <1>2, <1>8, <2>1, <3>1, OthersStep
  <2> QED BY <2>1, <2>2, <2>3 DEF IInv, PacketsInv, TypeOK, FwdTypeOK
<1>9. CASE UNCHANGED vars
  <2>1. UNCHANGED clockVars /\ UNCHANGED fwdVars /\ UNCHANGED txVars
    BY <1>9 DEF vars
  <2>2. TxTypeOK'
    BY <1>1, <2>1 DEF txVars, TxTypeOK
  <2> QED BY <1>5, <2>1, <2>2
<1> QED BY <1>3, <1>4, <1>6, <1>7, <1>8, <1>9 DEF Next

THEOREM ForwarderInvariant == Spec => []IInv
<1>1. Init => IInv
  BY ForwarderInit
<1>2. IInv /\ [Next]_vars => IInv'
  BY ForwarderStep
<1> QED BY <1>1, <1>2, PTL DEF Spec

\* The forwarder's state has its types; the delay queue never exceeds its
\* array.
THEOREM TypeCorrect == Spec => []TypeOK
<1>1. IInv => TypeOK
  BY DEF IInv
<1> QED BY <1>1, ForwarderInvariant, PTL

\* Every accepted packet is sent once, given up once, or waits in one slot.
THEOREM PacketsNeitherLostNorDoubled == Spec => []EveryPacketOnce
<1>1. IInv => EveryPacketOnce
  BY DEF IInv
<1> QED BY <1>1, ForwarderInvariant, PTL

\* The counters the node reports count packets.
THEOREM CountersCountPackets == Spec => []CountersAgree
<1>1. IInv => CountersAgree
  BY DEF IInv
<1> QED BY <1>1, ForwarderInvariant, PTL

\* The delay queue stays in the order processDelayQueue() relies on.
THEOREM DelayQueueSorted == Spec => []QueueSorted
<1>1. IInv => QueueSorted
  BY DEF IInv
<1> QED BY <1>1, ForwarderInvariant, PTL

\* The retry path never drops a packet, however full the queue.
THEOREM RetryLosesNothing == Spec => RetryKeepsPacket
<1>1. IInv /\ [Next]_vars => [Loop => lost' = lost]_vars
  BY LoopStep
<1> QED BY <1>1, ForwarderInvariant, PTL DEF Spec, RetryKeepsPacket

\* Only loop() sends a packet that is in the delay queue.
LEMMA OnlyLoopEmpties ==
    ASSUME IInv, [Next]_vars,
           NEW id \in Items(delayQueue), id \in sent' \ sent
    PROVE  Loop
<1>1. id \notin sent /\ id # NewId
  BY ForwarderAssumption DEF IInv, TypeOK, EveryPacketOnce, NewId
<1>2. ASSUME NEW p \in Packets, ProcessPacket(p) PROVE FALSE
  <2>1. CASE IgnorePacket(p)
    BY <2>1, <1>1 DEF IgnorePacket, fwdVars
  <2>2. CASE AcceptPacket(p)
    <3>1. sent' = sent \/ sent' = sent \cup {NewId}
      BY <2>2 DEF AcceptPacket, HandleImmediateForward, HandleDelayedForward, Sent
    <3> QED BY <1>1, <3>1
  <2> QED BY <1>2, <2>1, <2>2 DEF ProcessPacket
<1>3. sent' # sent
  BY <1>1
<1> QED BY <1>2, <1>3 DEF Next, OtherTransmit, vars, fwdVars

\* No delayed packet due before the clock wraps is sent before it is due.
THEOREM DelayedPacketsNeverEarly == Spec => NeverEarly
<1>1. IInv /\ [Next]_vars =>
         [\A id \in Items(delayQueue) :
             id \in sent' \ sent /\ due[id] < ClockMod => uptime >= due[id]]_vars
  BY LoopStep, OnlyLoopEmpties
<1> QED BY <1>1, ForwarderInvariant, PTL DEF Spec, NeverEarly
============================================================================
