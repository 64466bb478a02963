----------------------------- MODULE Induction -----------------------------
(***************************************************************************)
(* Induction over the naturals, and the functions defined by recursion on  *)
(* them, with a set in the place of a predicate and a function in the      *)
(* place of an operator: in this form the provers can use the facts.       *)
(***************************************************************************)
EXTENDS Naturals, WellFoundedInduction, TLAPS

LEMMA SmallestNat ==
    ASSUME NEW T \in SUBSET Nat, T # {}
    PROVE  \E m \in T : \A n \in T : m <= n
<1>1. IsWellFoundedOn(OpToRel(<, Nat), Nat)
  BY NatLessThanWellFounded
<1>2. PICK m \in T : \A n \in T : ~ (<<n, m>> \in OpToRel(<, Nat))
  BY <1>1, WFMin, Zenon
<1>3. ASSUME NEW a \in Nat, NEW b \in Nat, a < b
      PROVE  <<a, b>> \in OpToRel(<, Nat)
  <2>1. <<a, b>> \in Nat \X Nat
    OBVIOUS
  <2> QED BY <1>3, <2>1, Zenon DEF OpToRel
<1>4. \A n \in T : ~ (n < m)
  BY <1>2, <1>3
<1> QED BY <1>4

\* A set with 0, and with n + 1 whenever it has n, has every natural number.
LEMMA NatSetInduction ==
    ASSUME NEW S, 0 \in S, \A n \in Nat : n \in S => n + 1 \in S
    PROVE  Nat \subseteq S
<1> SUFFICES ASSUME Nat \ S # {} PROVE FALSE
  OBVIOUS
<1>1. PICK m \in Nat \ S : \A n \in Nat \ S : m <= n
  BY SmallestNat
<1>2. m # 0 /\ m \in Nat
  BY <1>1
<1>3. m - 1 \in Nat /\ m - 1 < m /\ (m - 1) + 1 = m
  BY <1>2
<1>4. m - 1 \in S
  BY <1>1, <1>3
<1> QED BY <1>1, <1>3, <1>4

\* The first n + 1 values of the function that starts with a and takes the
\* step F.
FirstValues(V, a, F, n, h) ==
    /\ h \in [0..n -> V]
    /\ h[0] = a
    /\ \A m \in Nat : m < n => h[m + 1] = F[<<h[m], m + 1>>]

LEMMA FirstValuesExist ==
    ASSUME NEW V, NEW a \in V, NEW F \in [V \X Nat -> V], NEW n \in Nat
    PROVE  \E h : FirstValues(V, a, F, n, h)
<1> DEFINE S == {m \in Nat : \E h : FirstValues(V, a, F, m, h)}
<1>1. 0 \in S
  <2>1. FirstValues(V, a, F, 0, [i \in 0..0 |-> a])
    BY DEF FirstValues
  <2> QED BY <2>1
<1>2. ASSUME NEW m \in Nat, m \in S PROVE m + 1 \in S
  <2>1. PICK h : FirstValues(V, a, F, m, h)
    BY <1>2
  <2> DEFINE x == F[<<h[m], m + 1>>]
             g == [i \in 0..(m + 1) |-> IF i = m + 1 THEN x ELSE h[i]]
  <2>2. h \in [0..m -> V] /\ h[m] \in V
    BY <2>1 DEF FirstValues
  <2>3. x \in V
    <3>1. <<h[m], m + 1>> \in V \X Nat
      BY <2>2
    <3> QED BY <3>1
  <2> HIDE DEF x
  <2>4. g \in [0..(m + 1) -> V]
    BY <2>2, <2>3
  <2>5. g[m + 1] = x /\ \A i \in 0..m : g[i] = h[i]
    OBVIOUS
  <2>6. g[0] = a
    BY <2>1, <2>5 DEF FirstValues
  <2> HIDE DEF g
  <2>7. ASSUME NEW k \in Nat, k < m + 1 PROVE g[k + 1] = F[<<g[k], k + 1>>]
    <3>1. CASE k = m
      BY <2>5, <3>1 DEF x
    <3>2. CASE k # m
      <4>1. k < m /\ k \in 0..m /\ k + 1 \in 0..m
        BY <2>7, <3>2
      <4> QED BY <2>1, <2>5, <4>1 DEF FirstValues
    <3> QED BY <3>1, <3>2
  <2>8. FirstValues(V, a, F, m + 1, g)
    BY <2>4, <2>6, <2>7, Zenon DEF FirstValues
  <2> QED BY <2>8
<1> HIDE DEF S
<1>3. n \in S
  BY <1>1, <1>2, NatSetInduction
<1> QED BY <1>3 DEF S

LEMMA FirstValuesAgree ==
    ASSUME NEW V, NEW a \in V, NEW F \in [V \X Nat -> V],
           NEW n \in Nat, NEW m \in Nat, n <= m, NEW g, NEW h,
           FirstValues(V, a, F, n, g), FirstValues(V, a, F, m, h)
    PROVE  g[n] = h[n]
<1> DEFINE S == {i \in Nat : i <= n /\ i <= m => g[i] = h[i]}
<1>1. 0 \in S
  BY DEF FirstValues
<1>2. ASSUME NEW i \in Nat, i \in S PROVE i + 1 \in S
  <2>1. ASSUME i + 1 <= n, i + 1 <= m PROVE g[i + 1] = h[i + 1]
    <3>1. i < n /\ i < m /\ i <= n /\ i <= m
      BY <2>1
    <3>2. g[i] = h[i]
      BY <1>2, <3>1
    <3>3. g[i + 1] = F[<<g[i], i + 1>>] /\ h[i + 1] = F[<<h[i], i + 1>>]
      BY <3>1 DEF FirstValues
    <3> QED BY <3>2, <3>3
  <2> QED BY <2>1
<1> HIDE DEF S
<1>3. Nat \subseteq S
  BY <1>1, <1>2, NatSetInduction
<1> QED BY <1>3 DEF S

\* f starts with a and takes the step F: for ever, or up to n.
Recursion(V, a, F, f) ==
    /\ f \in [Nat -> V]
    /\ f[0] = a
    /\ \A n \in Nat : f[n + 1] = F[<<f[n], n + 1>>]
RecursionTo(n, V, a, F, f) ==
    /\ f \in [0..n -> V]
    /\ f[0] = a
    /\ \A k \in 1..n : f[k] = F[<<f[k - 1], k>>]

LEMMA RecursionExists ==
    ASSUME NEW V, NEW a \in V, NEW F \in [V \X Nat -> V]
    PROVE  \E f : Recursion(V, a, F, f)
<1> DEFINE Values(n) == CHOOSE h : FirstValues(V, a, F, n, h)
           f == [n \in Nat |-> Values(n)[n]]
<1>1. \A n \in Nat : FirstValues(V, a, F, n, Values(n))
  BY FirstValuesExist, Zenon
<1> HIDE DEF Values
<1>2. \A n \in Nat : f[n] = Values(n)[n] /\ f[n] \in V
  BY <1>1 DEF FirstValues
<1>3. f[0] = a
  BY <1>1, <1>2 DEF FirstValues
<1>4. ASSUME NEW n \in Nat PROVE f[n + 1] = F[<<f[n], n + 1>>]
  <2>1. Values(n + 1)[n] = Values(n)[n]
    <3>1. FirstValues(V, a, F, n + 1, Values(n + 1)) /\ FirstValues(V, a, F, n, Values(n))
      BY <1>1
    <3>2. n + 1 \in Nat /\ n <= n + 1
      OBVIOUS
    <3> HIDE DEF f
    <3> QED BY <3>1, <3>2, FirstValuesAgree, SMTT(60)
  <2>2. Values(n + 1)[n + 1] = F[<<Values(n + 1)[n], n + 1>>]
    BY <1>1 DEF FirstValues
  <2> QED BY <1>2, <2>1, <2>2
<1>5. f \in [Nat -> V]
  BY <1>2
<1> HIDE DEF f
<1>6. Recursion(V, a, F, f)
  BY <1>3, <1>4, <1>5 DEF Recursion
<1> QED BY <1>6

LEMMA RecursionToExists ==
    ASSUME NEW V, NEW a \in V, NEW F \in [V \X Nat -> V], NEW n \in Nat
    PROVE  \E f : RecursionTo(n, V, a, F, f)
<1>0. PICK h : Recursion(V, a, F, h)
  BY RecursionExists
<1>1. /\ h \in [Nat -> V] /\ h[0] = a
      /\ \A k \in Nat : h[k + 1] = F[<<h[k], k + 1>>]
  BY <1>0 DEF Recursion
<1> DEFINE f == [k \in 0..n |-> h[k]]
<1>2. f \in [0..n -> V] /\ f[0] = a
  BY <1>1
<1>3. ASSUME NEW k \in 1..n PROVE f[k] = F[<<f[k - 1], k>>]
  <2>1. k - 1 \in Nat /\ (k - 1) + 1 = k /\ k - 1 \in 0..n /\ k \in 0..n
    OBVIOUS
  <2>2. PICK m \in Nat : m = k - 1
    BY <2>1
  <2>3. h[m + 1] = F[<<h[m], m + 1>>]
    BY <1>1, <2>2
  <2>4. m + 1 = k
    BY <2>2
  <2> QED BY <2>1, <2>2, <2>3, <2>4
<1> HIDE DEF f
<1>4. RecursionTo(n, V, a, F, f)
  BY <1>2, <1>3 DEF RecursionTo
<1> QED BY <1>4

\* Induction up to n.
LEMMA InductionUpTo ==
    ASSUME NEW n \in Nat, NEW S, 0 \in S,
           \A k \in 1..n : k - 1 \in S => k \in S
    PROVE  0..n \subseteq S
<1> DEFINE T == {k \in Nat : k <= n => k \in S}
<1>1. 0 \in T
  OBVIOUS
<1>2. ASSUME NEW k \in Nat, k \in T PROVE k + 1 \in T
  <2>1. ASSUME k + 1 <= n PROVE k + 1 \in S
    <3>1. k + 1 \in 1..n /\ (k + 1) - 1 = k /\ k \in S
      BY <1>2, <2>1
    <3> QED BY <3>1
  <2> QED BY <2>1
<1> HIDE DEF T
<1>3. Nat \subseteq T
  BY <1>1, <1>2, NatSetInduction
<1> QED BY <1>3 DEF T
=============================================================================
