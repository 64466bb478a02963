--------------------------- MODULE NeighborTable ---------------------------
(***************************************************************************)
(* mesh/NeighborTracker.cpp: the nodes whose adverts were heard, each with *)
(* a running average of the SNR (in dB) they came in with.  A table is the *)
(* sequence of the first neighborCount entries of neighbors[].             *)
(***************************************************************************)
EXTENDS Integers, SequencesExt

CONSTANTS MaxNeighbors,    \* NeighborTracker::MAX_NEIGHBORS
          MaxSamples,      \* 255, where sampleCount stops
          NodeHashes       \* the first bytes of the nodes' public keys

ASSUME NeighborAssumption == /\ MaxNeighbors \in Nat \ {0}
                             /\ MaxSamples \in Nat \ {0}
                             /\ NodeHashes \subseteq 0..255

Snr == -128..127

Neighbor == [nodeHash : NodeHashes, avgSnr : Int, sampleCount : 1..MaxSamples]
Table == {t \in Seq(Neighbor) : Len(t) <= MaxNeighbors}

NewNeighbor(h, snr) == [nodeHash |-> h, avgSnr |-> snr, sampleCount |-> 1]

\* Integer division in C drops the fraction.
Truncated(a, d) == IF a >= 0 THEN a \div d ELSE -((-a) \div d)

\* (snr + avg * 3) / 4
Average(snr, avg) == Truncated(snr + 3 * avg, 4)

Sampled(n, snr) ==
    [n EXCEPT !.avgSnr = Average(snr, n.avgSnr),
              !.sampleCount = IF n.sampleCount < MaxSamples THEN n.sampleCount + 1
                                                            ELSE n.sampleCount]

\* A faulty findNeighbor() that leaves the last entry out.
IndicesShort(t, h) == {i \in 1..(Len(t) - 1) : t[i].nodeHash = h}

\* findNeighbor(): the entries of a hash (one at most).
Indices(t, h) == {i \in 1..Len(t) : t[i].nodeHash = h}

\* A faulty findWeakestNeighbor() that compares the wrong way.
Strongest(t) == {i \in 1..Len(t) : \A j \in 1..Len(t) : t[j].avgSnr <= t[i].avgSnr}

\* findWeakestNeighbor(): the first of the entries with the lowest average.
Weakest(t) == {i \in 1..Len(t) : /\ \A j \in 1..Len(t) : t[i].avgSnr <= t[j].avgSnr
                                 /\ \A j \in 1..(i - 1) : t[j].avgSnr # t[i].avgSnr}

Ignored(h) == h \in {0, 255}

\* What updateNeighbor(h, snr) may make of table t.
Updates(t, h, snr) ==
    IF Ignored(h) THEN {t}
    ELSE IF Indices(t, h) # {}
         THEN {[t EXCEPT ![i] = Sampled(t[i], snr)] : i \in Indices(t, h)}
    ELSE IF Len(t) < MaxNeighbors THEN {Append(t, NewNeighbor(h, snr))}
    ELSE {IF snr > t[i].avgSnr THEN [t EXCEPT ![i] = NewNeighbor(h, snr)] ELSE t
             : i \in Weakest(t)}

VARIABLES neighbors,
          heardSnr     \* ghost: the SNRs heard of each node

nbVars == <<neighbors, heardSnr>>

NeighborTypeOK == /\ neighbors \in Table
                  /\ heardSnr \in [NodeHashes -> SUBSET Snr]

NeighborInit == /\ neighbors = <<>>
                /\ heardSnr = [h \in NodeHashes |-> {}]

\* updateNeighbor()
UpdateNeighbor(h, snr) ==
    /\ neighbors' \in Updates(neighbors, h, snr)
    /\ heardSnr' = [heardSnr EXCEPT ![h] = @ \cup {snr}]

----------------------------------------------------------------------------
\* A faulty buildNeighborList() that sorts the wrong way.
ExchangeWeaker(t, order, i, j) ==
    IF t[order[j]].avgSnr < t[order[i]].avgSnr
    THEN [order EXCEPT ![i] = order[j], ![j] = order[i]]
    ELSE order

\* buildNeighborList(): the indices of the table, exchanged pair by pair.
Exchange(t, order, i, j) ==
    IF t[order[j]].avgSnr > t[order[i]].avgSnr
    THEN [order EXCEPT ![i] = order[j], ![j] = order[i]]
    ELSE order

\* The inner loop: slot i against each slot behind it.
SortPass(t, order, i) ==
    LET pass[j \in 0..Len(t)] == IF j <= i THEN order
                                          ELSE Exchange(t, pass[j - 1], i, j)
    IN pass[Len(t)]

\* The outer loop; in the pass of the last slot there is nothing to exchange.
SortedIndices(t) ==
    LET sorted[i \in 0..Len(t)] == IF i = 0 THEN [k \in 1..Len(t) |-> k]
                                            ELSE SortPass(t, sorted[i - 1], i)
    IN sorted[Len(t)]

NeighborList(t) ==
    LET order == SortedIndices(t)
    IN [i \in 1..Len(t) |-> [nodeHash |-> t[order[i]].nodeHash,
                             avgSnr |-> t[order[i]].avgSnr]]

----------------------------------------------------------------------------
\* A node has one entry, and its average lies between the weakest and the
\* strongest signal heard of it, however often the entry was rounded.
OneEntryEach ==
    \A i, j \in 1..Len(neighbors) :
       neighbors[i].nodeHash = neighbors[j].nodeHash => i = j
AverageWithinSamples ==
    \A i \in 1..Len(neighbors) :
       \E weak, strong \in heardSnr[neighbors[i].nodeHash] :
          weak <= neighbors[i].avgSnr /\ neighbors[i].avgSnr <= strong
TableSound == OneEntryEach /\ AverageWithinSamples

\* "!neighbors" lists every entry once, the strongest first (the two nested
\* loops of buildNeighborList()).
ListedByStrength ==
    LET list == NeighborList(neighbors)
    IN /\ {list[i].nodeHash : i \in DOMAIN list}
            = {neighbors[i].nodeHash : i \in DOMAIN neighbors}
       /\ \A i, j \in DOMAIN list : i < j => list[i].avgSnr >= list[j].avgSnr

\* A node drops out of the table only for one heard better than its average,
\* when every other entry is at least as strong.
Listed(t, h) == \E i \in 1..Len(t) : t[i].nodeHash = h
OnlyWeakestLeaves ==
    [][\A i \in 1..Len(neighbors) :
          ~ Listed(neighbors', neighbors[i].nodeHash) =>
             /\ \A j \in 1..Len(neighbors) : neighbors[i].avgSnr <= neighbors[j].avgSnr
             /\ neighbors'[i].avgSnr > neighbors[i].avgSnr]_nbVars
============================================================================
