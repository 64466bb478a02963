------------------------------ MODULE Ed25519 ------------------------------
(***************************************************************************)
(* lib/ed25519: the keys and signatures of an identity (keypair.c, sign.c),*)
(* over any curve -x^2 + y^2 = 1 + Dx^2y^2 of the shape of Ed25519.  The   *)
(* ten limbs of a field element (fe.c) and the bytes of a scalar (sc.c)    *)
(* stand for a number, so their operations are those of the numbers mod P  *)
(* and mod L; the formulas of the group (ge.c) are taken step by step.     *)
(***************************************************************************)
EXTENDS Digest

CONSTANTS P,             \* 2^255 - 19
          D,             \* -121665/121666
          L,             \* the order of the base point
          BasePoint,     \* [x, y], x even
          SignBit,       \* 2^255, the bit of an encoded point with x's parity
          ScalarBytes,   \* 32
          HashOf(_)      \* the number of a digest

Seconds == 256^ScalarBytes    \* where the second half of a number begins

\* fe.c
FeAdd(f, g) == (f + g) % P
FeSub(f, g) == (f - g) % P
FeNeg(f) == (-f) % P
FeMul(f, g) == (f * g) % P
FeSq(f) == (f * f) % P
FeSq2(f) == (2 * f * f) % P
FeCmov(f, g, b) == IF b THEN g ELSE f
FeIsNegative(f) == f % 2

\* fe_invert(): z^(P-2), by squares
FeInvert(z) ==
    LET power[n \in 0..(P - 2)] ==
            IF n = 0 THEN 1
            ELSE FeMul(FeSq(power[n \div 2]), IF n % 2 = 1 THEN z ELSE 1)
    IN power[P - 2]

\* ge_p3_0()
P3Zero == [X |-> 0, Y |-> 1, Z |-> 1, T |-> 0]

\* ge_madd()
Madd(p, q) ==
    LET a == FeMul(FeAdd(p.Y, p.X), q.yplusx)
        b == FeMul(FeSub(p.Y, p.X), q.yminusx)
        c == FeMul(q.xy2d, p.T)
        z2 == FeAdd(p.Z, p.Z)
    IN [X |-> FeSub(a, b), Y |-> FeAdd(a, b), Z |-> FeAdd(z2, c), T |-> FeSub(z2, c)]

\* ge_p1p1_to_p2() and ge_p1p1_to_p3()
P1P1ToP2(p) == [X |-> FeMul(p.X, p.T), Y |-> FeMul(p.Y, p.Z), Z |-> FeMul(p.Z, p.T)]
P1P1ToP3(p) == [X |-> FeMul(p.X, p.T), Y |-> FeMul(p.Y, p.Z), Z |-> FeMul(p.Z, p.T),
                T |-> FeMul(p.X, p.Y)]

\* ge_p2_dbl() and ge_p3_dbl()
P2Dbl(p) ==
    LET xx == FeSq(p.X)
        yy == FeSq(p.Y)
        sum == FeAdd(yy, xx)
        difference == FeSub(yy, xx)
    IN [X |-> FeSub(FeSq(FeAdd(p.X, p.Y)), sum), Y |-> sum, Z |-> difference,
        T |-> FeSub(FeSq2(p.Z), difference)]
P3Dbl(p) == P2Dbl([X |-> p.X, Y |-> p.Y, Z |-> p.Z])

----------------------------------------------------------------------------
\* The group by its law, in affine coordinates.
Point(x, y) == [x |-> x, y |-> y]
Neutral == Point(0, 1)
Reciprocal[z \in 1..(P - 1)] == CHOOSE i \in 1..(P - 1) : (z * i) % P = 1
Quotient(a, b) == (a * Reciprocal[b % P]) % P

PointSum(p, q) ==
    LET t == (((D * p.x * q.x) % P) * ((p.y * q.y) % P)) % P
    IN Point(Quotient(p.x * q.y + p.y * q.x, 1 + t),
             Quotient(p.y * q.y + p.x * q.x, 1 - t))
Multiple(n, p) ==
    LET times[i \in 0..n] == IF i = 0 THEN Neutral ELSE PointSum(times[i - 1], p)
    IN times[n]

\* The base point is of order L.
ASSUME CurveAssumption ==
    /\ L \in Nat \ {0}
    /\ \A i, j \in 0..(L - 1) :
          Multiple((i + j) % L, BasePoint)
             = PointSum(Multiple(i, BasePoint), Multiple(j, BasePoint))

\* The table of precomp_data.h: base[i - 1][j - 1] holds j * 256^(i - 1) * B.
Precomputed(p) == [yplusx |-> FeAdd(p.y, p.x), yminusx |-> FeSub(p.y, p.x),
                   xy2d |-> FeMul(FeMul(2, FeMul(p.x, p.y)), D)]
Base[i \in 1..ScalarBytes] ==
    [j \in 1..8 |-> Precomputed(Multiple((j * 256^(i - 1)) % L, BasePoint))]

----------------------------------------------------------------------------
\* select(): the table's entry for a digit of -8..8; minus a point is the
\* point with yplusx and yminusx exchanged.
Cmov(t, u, b) == [yplusx |-> FeCmov(t.yplusx, u.yplusx, b),
                  yminusx |-> FeCmov(t.yminusx, u.yminusx, b),
                  xy2d |-> FeCmov(t.xy2d, u.xy2d, b)]
Unit == [yplusx |-> 1, yminusx |-> 1, xy2d |-> 0]
Entry(pos, b) ==
    FoldLeft(LAMBDA u, j : Cmov(u, Base[pos + 1][j], (IF b < 0 THEN -b ELSE b) = j),
             Unit, [j \in 1..8 |-> j])

Select(pos, b) ==
    LET t == Entry(pos, b)
        minust == [yplusx |-> t.yminusx, yminusx |-> t.yplusx, xy2d |-> FeNeg(t.xy2d)]
    IN Cmov(t, minust, b < 0)

\* The digits e[0..63] of a scalar, each between -8 and 8.
Nibble(a, i) == (a \div 16^i) % 16
Digits(a) ==
    LET last == 2 * ScalarBytes - 1
        carried == FoldLeft(LAMBDA s, i :
                       LET e == Nibble(a, i) + s.carry
                           carry == (e + 8) \div 16
                       IN [e |-> Append(s.e, e - 16 * carry), carry |-> carry],
                       [e |-> <<>>, carry |-> 0], [i \in 1..last |-> i - 1])
    IN [i \in 0..last |-> IF i = last THEN Nibble(a, i) + carried.carry ELSE carried.e[i + 1]]

\* ge_scalarmult_base(): the odd digits, times 16, and the even ones.
ScalarmultBase(a) ==
    LET e == Digits(a)
        add(h, i) == P1P1ToP3(Madd(h, Select(i \div 2, e[i])))
        odd == FoldLeft(add, P3Zero, [i \in 1..ScalarBytes |-> 2 * i - 1])
        times8 == FoldLeft(LAMBDA r, i : P2Dbl(P1P1ToP2(r)), P3Dbl(odd), <<1, 2, 3>>)
    IN FoldLeft(add, P1P1ToP3(times8), [i \in 1..ScalarBytes |-> 2 * (i - 1)])

\* ge_p3_tobytes()
P3ToBytes(h) ==
    LET recip == FeInvert(h.Z)
    IN FeMul(h.Y, recip) + SignBit * FeIsNegative(FeMul(h.X, recip))

\* sc.c
ScReduce(s) == s % L
ScMuladd(a, b, c) == (((a % L) * (b % L)) + c) % L

\* The bytes of a private key, &= 248, &= 63 and |= 64.
Clamped(a) ==
    LET top == 256^(ScalarBytes - 1)
    IN (((a \div top) % 64) + 64) * top + ((a % top) \div 8) * 8

\* ed25519_create_keypair()
Keypair(seed) ==
    LET hash == HashOf(Digested(<<<<seed>>>>))
        scalar == Clamped(hash % Seconds)
    IN [scalar |-> scalar, prefix |-> hash \div Seconds,
        public |-> P3ToBytes(ScalarmultBase(scalar))]

\* ed25519_sign()
Sign(message, public, private) ==
    LET r == ScReduce(HashOf(Digested(<<<<private.prefix>>, message>>)))
        R == P3ToBytes(ScalarmultBase(r))
        hram == ScReduce(HashOf(Digested(<<<<R>>, public, message>>)))
    IN <<R, ScMuladd(hram, private.scalar, r)>>

----------------------------------------------------------------------------
\* What a signature promises, by the group's law and the digest of the whole
\* message: S * B = R + H(R, A, M) * A.
Encodes(n, p) == n = p.y + SignBit * (p.x % 2)
Group == {Multiple(n, BasePoint) : n \in 0..(L - 1)}
Verifies(signature, message, public, publicNumber) ==
    \E A \in {p \in Group : Encodes(publicNumber, p)},
       R \in {p \in Group : Encodes(signature[1], p)} :
          Multiple(signature[2], BasePoint)
             = PointSum(R, Multiple(ScReduce(HashOf(PaddedBlocks(<<signature[1]>> \o public \o message))),
                                    A))
============================================================================
