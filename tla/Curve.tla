------------------------------- MODULE Curve -------------------------------
(***************************************************************************)
(* The curve -x^2 + y^2 = 1 + d x^2 y^2 over a small field with the shape of    *)
(* the real one: its size is 5 modulo 8, the points are a cycle of eight times  *)
(* a prime, d is no square.  Two files compute on it, one with four coordinates *)
(* and one with two; what they compute is a sum of positions in that cycle.     *)
(***************************************************************************)
EXTENDS Integers, Sequences, SequencesExt

CONSTANTS
    FieldSize, CurveD, MontgomeryA, RootOfMinus1,
    GroupOrder,             \* of the points that count
    BaseX, BaseY,
    SecondGenerator,        \* compressed
    WholeX, WholeY,         \* a point whose multiples are all the points
    SignBit                 \* above every coordinate

ASSUME CurveAssumption ==
    /\ FieldSize \in Nat /\ FieldSize % 8 = 5 /\ SignBit > FieldSize
    /\ (RootOfMinus1 * RootOfMinus1) % FieldSize = FieldSize - 1

VARIABLES
    spot        \* a compressed point and its position, or bytes that are no point

curveVars == <<spot>>

-----------------------------------------------------------------------------
(* The field. *)

Fe == 0 .. FieldSize - 1
FeAdd(a, b) == (a + b) % FieldSize
FeSub(a, b) == ((a - b) + FieldSize) % FieldSize
FeMul(a, b) == (a * b) % FieldSize
FeNeg(a) == (FieldSize - a) % FieldSize
FeSq(a) == FeMul(a, a)
IsOdd(a) == a % 2 = 1                   \* "negative"

Bits(n) ==
    LET size == CHOOSE k \in 0 .. 20 : n < 2 ^ k /\ (k = 0 \/ n >= 2 ^ (k - 1))
    IN [i \in 1 .. size |-> (n \div 2 ^ (i - 1)) % 2]

\* Bit by bit from the lowest, the base squared each time.
FePow(base, exp) ==
    FoldLeft(LAMBDA s, bit : <<IF bit = 1 THEN FeMul(s[1], s[2]) ELSE s[1], FeSq(s[2])>>,
             <<1, base % FieldSize>>, Bits(exp))[1]
FeInv == [a \in Fe |-> FePow(a, FieldSize - 2)]

NoRoot == FieldSize
FeSqrt == [a \in Fe |->
    LET r == FePow(a, (FieldSize + 3) \div 8)
        turned == FeMul(r, RootOfMinus1)
    IN IF FeSq(r) = a THEN r ELSE IF FeSq(turned) = a THEN turned ELSE NoRoot]

FeDivPowM1(u, v) ==
    LET v3 == FeMul(FeSq(v), v)
        v7 == FeMul(FeSq(FeSq(v)), v3)
    IN FeMul(FeMul(u, v3), FePow(FeMul(u, v7), (FieldSize - 5) \div 8))

-----------------------------------------------------------------------------
(* Four coordinates: x is X/Z, y is Y/Z, and xy is T/Z. *)

NoPoint == [X |-> 0, Y |-> 0, Z |-> 0, T |-> 0]     \* null
PointZero == [X |-> 0, Y |-> 1, Z |-> 1, T |-> 0]
PointFromXY(x, y) == [X |-> x, Y |-> y, Z |-> 1, T |-> FeMul(x, y)]

PointAdd(p, q) ==
    LET a == FeMul(FeSub(p.Y, p.X), FeSub(q.Y, q.X))
        b == FeMul(FeAdd(p.Y, p.X), FeAdd(q.Y, q.X))
        c == FeMul(FeMul(p.T, q.T), FeMul(2, CurveD))
        d == FeMul(2, FeMul(p.Z, q.Z))
        e == FeSub(b, a)  f == FeSub(d, c)  over == FeAdd(d, c)  h == FeAdd(b, a)
    IN [X |-> FeMul(e, f), Y |-> FeMul(over, h), Z |-> FeMul(f, over), T |-> FeMul(e, h)]

PointDouble(p) ==
    LET y3 == FeAdd(FeSq(p.Y), FeSq(p.X))
        z3 == FeSub(FeSq(p.Y), FeSq(p.X))
        x3 == FeSub(FeSq(FeAdd(p.X, p.Y)), y3)
        t3 == FeSub(FeMul(2, FeSq(p.Z)), z3)
    IN [X |-> FeMul(x3, t3), Y |-> FeMul(y3, z3), Z |-> FeMul(z3, t3), T |-> FeMul(x3, y3)]

ScalarMult(p, s) ==
    FoldLeft(LAMBDA r, bit : <<IF bit = 1 THEN PointAdd(r[1], r[2]) ELSE r[1], PointDouble(r[2])>>,
             <<PointZero, p>>, Bits(s))[1]

\* y, with the sign of x in the high bit.
PointCompress(x, y) == y + (IF IsOdd(x) THEN SignBit ELSE 0)
Compressed(p) == PointCompress(p.x, p.y)
PointToBytes(p) == PointCompress(FeMul(p.X, FeInv[p.Z]), FeMul(p.Y, FeInv[p.Z]))

\* x from y; of its two values the one with the sign that is written.
RootX(y) == FeSqrt[FeMul(FeSub(FeSq(y), 1), FeInv[FeAdd(FeMul(CurveD, FeSq(y)), 1)])]
WithSign(x, negative) == IF IsOdd(x) # negative THEN FeNeg(x) ELSE x
PointFromBytes(bytes) ==
    LET y == bytes % SignBit
    IN IF y >= FieldSize THEN NoPoint
       ELSE IF RootX(y) = NoRoot THEN NoPoint
       ELSE PointFromXY(WithSign(RootX(y), bytes >= SignBit), y)

Base == PointFromXY(BaseX, BaseY)
IsOnCurve(x, y) ==
    FeSub(FeSq(y), FeSq(x)) = FeAdd(1, FeMul(CurveD, FeMul(FeSq(x), FeSq(y))))
IsIdentity(bytes) == bytes = 1
IsValidPoint(bytes) ==
    LET p == PointFromBytes(bytes) IN
    /\ p # NoPoint /\ IsOnCurve(p.X, p.Y)
    /\ PointToBytes(ScalarMult(p, GroupOrder)) = 1

NoBytes == 2 * SignBit
PointAddCompressed(a, b) ==
    IF PointFromBytes(a) = NoPoint \/ PointFromBytes(b) = NoPoint THEN NoBytes
    ELSE PointToBytes(PointAdd(PointFromBytes(a), PointFromBytes(b)))
PointNegate(bytes) ==
    LET p == PointFromBytes(bytes) IN
    IF p = NoPoint THEN NoBytes
    ELSE PointToBytes([p EXCEPT !.X = FeNeg(p.X), !.T = FeNeg(p.T)])
PointSubCompressed(a, b) ==
    IF PointNegate(b) = NoBytes THEN NoBytes ELSE PointAddCompressed(a, PointNegate(b))

\* The library multiplies by 1 .. GroupOrder - 1 only and takes one text per point;
\* the multiples of the base fall back on the code here, those of a point are null.
LibraryTakes(bytes) == PointFromBytes(bytes) # NoPoint /\ ~(bytes >= SignBit /\ RootX(bytes % SignBit) = 0)
ScalarMultBase(s) == PointToBytes(ScalarMult(Base, s))
ScalarMultPoint(s, bytes) ==
    IF s \in 1 .. GroupOrder - 1 /\ LibraryTakes(bytes)
    THEN PointToBytes(ScalarMult(PointFromBytes(bytes), s)) ELSE NoBytes
DoubleScalarMultBase(a, p, b) == PointToBytes(PointAdd(ScalarMult(p, a), ScalarMult(Base, b)))
ComputeCarrotSpendPubkey(gi, ps) ==
    PointToBytes(PointAdd(ScalarMult(Base, gi), ScalarMult(PointFromBytes(SecondGenerator), ps)))
ScalarSub(a, b) == (a - b) % GroupOrder

-----------------------------------------------------------------------------
(* Two coordinates, for key images. *)

Identity == [x |-> 0, y |-> 1]
PointDoubleAffine(p) ==
    LET difference == FeSub(FeSq(p.y), FeSq(p.x))
        other == FeSub(2, difference)
    IN IF difference = 0 \/ other = 0 THEN Identity
       ELSE [x |-> FeMul(FeMul(2, FeMul(p.x, p.y)), FeInv[difference]),
             y |-> FeMul(FeAdd(FeSq(p.x), FeSq(p.y)), FeInv[other])]

PointAddAffine(p, q) ==
    LET product == FeMul(CurveD, FeMul(FeMul(p.x, q.x), FeMul(p.y, q.y)))
        over == FeAdd(1, product)
        under == FeSub(1, product)
    IN IF p = Identity THEN q
       ELSE IF q = Identity THEN p
       ELSE IF over = 0 \/ under = 0 THEN Identity
       ELSE [x |-> FeMul(FeAdd(FeMul(p.x, q.y), FeMul(p.y, q.x)), FeInv[over]),
             y |-> FeMul(FeAdd(FeMul(p.y, q.y), FeMul(p.x, q.x)), FeInv[under])]

PointMul8(p) == FoldLeft(LAMBDA q, k : PointDoubleAffine(q), p, <<1, 2, 3>>)

ScalarMultAffine(s, p) ==
    FoldLeft(LAMBDA r, bit :
                 <<IF bit = 1 THEN PointAddAffine(r[1], r[2]) ELSE r[1], PointDoubleAffine(r[2])>>,
             <<Identity, p>>, Bits(s))[1]

PointDecompress(bytes) ==
    LET y == bytes % SignBit
    IN IF y >= FieldSize THEN {}
       ELSE IF RootX(y) = NoRoot THEN {}
       ELSE {[x |-> WithSign(RootX(y), bytes >= SignBit), y |-> y]}

\* A hash to a point: its parameter u, v = 2 u^2 and w = v + 1; then x, the root r of
\* w/x as far as it has one, and y = r^2 x.  Where y is w or -w, r is turned by u and a
\* factor of its own, and the point lies on the sheet of -A v; elsewhere on that of -A.
Times(r, root) == IF root = NoRoot THEN r ELSE FeMul(r, root)
Product == FeMul(MontgomeryA, MontgomeryA + 2)
Factor(w, y) ==
    FeSqrt[IF y = w THEN FeMul(2, Product)
           ELSE IF FeAdd(w, y) = 0 THEN FeNeg(FeMul(2, Product))
           ELSE IF FeMul(y, RootOfMinus1) = w THEN FeMul(RootOfMinus1, Product)
           ELSE FeNeg(FeMul(RootOfMinus1, Product))]
Projected(rX, z, w) ==
    [x |-> FeMul(FeMul(rX, FeAdd(z, w)), FeInv[FeAdd(z, w)]),
     y |-> FeMul(FeSub(z, w), FeInv[FeAdd(z, w)])]
OnSheet(u, v, w, r, y) ==
    IF y = w \/ FeAdd(w, y) = 0
    THEN Projected(WithSign(FeMul(Times(r, Factor(w, y)), u), FALSE), FeMul(FeNeg(MontgomeryA), v), w)
    ELSE Projected(WithSign(Times(r, Factor(w, y)), TRUE), FeNeg(MontgomeryA), w)
FromRoot(u, v, w, x, r) == OnSheet(u, v, w, r, FeMul(FeSq(r), x))
FromRatio(u, v, w, x) == FromRoot(u, v, w, x, FeDivPowM1(w, x))
NegatedSquare == FeNeg(FeSq(MontgomeryA % FieldSize))

\* Seeded fault: the coefficient A is taken for its square.
Elligator2_PlainA(hash) ==
    LET u == hash % FieldSize
        v == FeMul(2, FeSq(u))
        w == FeAdd(v, 1)
    IN FromRatio(u, v, w, FeAdd(FeSq(w), FeMul(FeMul(2, FeNeg(MontgomeryA)), FeSq(u))))

Elligator2(hash) ==
    LET u == hash % FieldSize
        v == FeMul(2, FeSq(u))
        w == FeAdd(v, 1)
    IN FromRatio(u, v, w, FeAdd(FeSq(w), FeMul(FeMul(2, NegatedSquare), FeSq(u))))

Keccak(bytes) == (bytes * 37 + 11) % (2 * SignBit)
HashToPoint == [bytes \in 0 .. 2 * SignBit - 1 |-> Compressed(PointMul8(Elligator2(Keccak(bytes))))]

GenerateKeyImage(publicKey, secret) ==
    {Compressed(ScalarMultAffine(secret % GroupOrder, p)) : p \in PointDecompress(HashToPoint[publicKey])}

IsValidKeyImage(bytes) ==
    \E p \in PointDecompress(bytes) : p # Identity /\ p.y # 0 /\ IsOnCurve(p.x, p.y)

KeyImageToY(bytes) == <<bytes % SignBit, bytes >= SignBit>>
KeyImageFromY(y, sign) == y + (IF sign THEN SignBit ELSE 0)

-----------------------------------------------------------------------------
(* What they stand for: positions in the cycle, found with the law of the curve and   *)
(* inverses that are looked for.                                                       *)

Positions == 8 * GroupOrder
Quotient(a, b) == CHOOSE q \in Fe : FeMul(q, b) = a
Step(p) ==
    LET k == FeMul(CurveD, FeMul(FeMul(p[1], WholeX), FeMul(p[2], WholeY)))
    IN <<Quotient(FeAdd(FeMul(p[1], WholeY), FeMul(p[2], WholeX)), FeAdd(1, k)),
         Quotient(FeAdd(FeMul(p[2], WholeY), FeMul(p[1], WholeX)), FeSub(1, k))>>
Cycle == FoldLeft(LAMBDA s, k : Append(s, Step(s[Len(s)])), <<<<0, 1>>>>, [k \in 1 .. Positions - 1 |-> k])
Encoded(k) == PointCompress(Cycle[k + 1][1], Cycle[k + 1][2])

\* A byte string is the point with its y and the parity of its x; zero has both signs.
Nowhere == Positions
PositionOf(bytes) ==
    LET fits == {k \in 0 .. Positions - 1 :
                    /\ Cycle[k + 1][2] = bytes % SignBit
                    /\ Cycle[k + 1][1] = 0 \/ (IsOdd(Cycle[k + 1][1]) <=> bytes >= SignBit)}
    IN IF fits = {} THEN Nowhere ELSE CHOOSE k \in fits : TRUE
BasePosition == PositionOf(PointCompress(BaseX, BaseY))

AllBytes == 0 .. 2 * SignBit - 1
Scalars == 0 .. GroupOrder + 1

IsPoint == spot.position # Nowhere
Put(bytes, position) == spot' = [bytes |-> bytes, position |-> position % Positions]

AddPoint == \E k \in 0 .. Positions - 1 :
    IsPoint /\ Put(PointAddCompressed(spot.bytes, Encoded(k)), spot.position + k)
SubPoint == \E k \in 0 .. Positions - 1 :
    IsPoint /\ Put(PointSubCompressed(spot.bytes, Encoded(k)), spot.position - k)
AddInAffine == \E k \in 0 .. Positions - 1, p \in PointDecompress(spot.bytes) :
    Put(Compressed(PointAddAffine(p, [x |-> Cycle[k + 1][1], y |-> Cycle[k + 1][2]])), spot.position + k)
MultPoint == \E s \in Scalars :
    /\ ScalarMultPoint(s, spot.bytes) # NoBytes
    /\ Put(ScalarMultPoint(s, spot.bytes), s * spot.position)
DoubleScalar == \E a, b \in Scalars :
    IsPoint /\ Put(DoubleScalarMultBase(a, PointFromBytes(spot.bytes), b),
                   (a * spot.position) + (b * BasePosition))
MakeKeyImage == \E s \in Scalars : \E image \in GenerateKeyImage(spot.bytes, s) :
    Put(image, s * PositionOf(HashToPoint[spot.bytes]))
MakeSpendPubkey == \E gi, ps \in Scalars :
    Put(ComputeCarrotSpendPubkey(gi, ps), (gi * BasePosition) + (ps * PositionOf(SecondGenerator)))

CurveInit == spot \in {[bytes |-> b, position |-> PositionOf(b)] : b \in AllBytes}
CurveNext ==
    \/ AddPoint \/ SubPoint \/ AddInAffine \/ MultPoint \/ DoubleScalar
    \/ MakeKeyImage \/ MakeSpendPubkey

-----------------------------------------------------------------------------
CurveTypeOK == spot.bytes \in AllBytes /\ spot.position \in 0 .. Nowhere

\* Whatever was computed before, the bytes are read as the point at the position that
\* the scalars and the operands add up to, in both files, and are written as it is;
\* how the four coordinates are scaled makes no difference.
PointsAgree ==
    LET p == PointFromBytes(spot.bytes) IN
    /\ IsPoint <=> p # NoPoint
    /\ IsPoint => /\ <<p.X, p.Y>> = Cycle[spot.position + 1]
                  /\ PointDecompress(spot.bytes) = {[x |-> p.X, y |-> p.Y]}
                  /\ PointToBytes(p) = Encoded(spot.position)
                  /\ \A z \in Fe \ {0} :
                       LET q == [c \in {"X", "Y", "Z", "T"} |-> FeMul(z, p[c])] IN
                       /\ PointToBytes(q) = PointToBytes(p)
                       /\ PointToBytes(PointDouble(q)) = Encoded((2 * spot.position) % Positions)
                       /\ PointToBytes(PointAdd(q, p)) = PointToBytes(PointDouble(q))
                  /\ PointNegate(spot.bytes) = Encoded((Positions - spot.position) % Positions)

\* The check of points accepts the subgroup of the base and nothing else.
SubgroupIsChecked == IsValidPoint(spot.bytes) <=> IsPoint /\ spot.position % 8 = 0

\* A hash lands in that subgroup.  The image of a key tells its secrets apart modulo the
\* order, and is accepted unless it is the identity; so is what is written back of it.
ImagesAreUnique ==
    /\ \A hp \in {HashToPoint[spot.bytes]} : IsValidPoint(hp) /\ (hp # 1 =>
         \A s, t \in Scalars : \A image \in GenerateKeyImage(spot.bytes, s) :
             /\ image \in GenerateKeyImage(spot.bytes, t) <=> ScalarSub(s, t) = 0
             /\ IsValidKeyImage(image) <=> s % GroupOrder # 0)
    /\ KeyImageFromY(KeyImageToY(spot.bytes)[1], KeyImageToY(spot.bytes)[2]) = spot.bytes

CurveHolds == PointsAgree /\ SubgroupIsChecked /\ ImagesAreUnique
=============================================================================
