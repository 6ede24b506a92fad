---------------------------- MODULE CurveGadgets ----------------------------
(***************************************************************************)
(* A short Weierstrass curve twice: the group as curve_types.rs computes   *)
(* it in native code, and the point gadgets of curve.rs and                *)
(* curve_windowed_mul.rs, which know affine points other than zero only.   *)
(***************************************************************************)
EXTENDS NonNative

CONSTANTS
    BaseOrder,      \* order of the coordinates' field, the p of the curve
    ScalarOrder,    \* order of the group, a prime
    CurveA, CurveB,
    Generator       \* GENERATOR_AFFINE, a record of x and y

\* Residues modulo either order are a field's, as their types in the code are.
ASSUME FieldAssumption ==
    \A m \in {BaseOrder, ScalarOrder} :
        /\ m \in Nat \ {0, 1}
        /\ \A v \in 1..(m - 1) : \E w \in 0..(m - 1) : (v * w) % m = 1

ASSUME CurveAssumption ==
    /\ BaseOrder > 3
    /\ {CurveA, CurveB} \subseteq 0..(BaseOrder - 1) /\ CurveA # 0

\* As U32AddManyGate::num_ops asserts of the columns of a product: two addends for
\* each limb of a factor.
ASSUME ColumnAssumption ==
    \A m \in {BaseOrder, ScalarOrder} : 2 * NumNonnativeLimbs(m) <= MaxNumAddends

(*************************************************************************)
(* The group.                                                            *)
(*************************************************************************)

Zero == [x |-> 0, y |-> 0, zero |-> TRUE]

OnCurve(P) == (P.y * P.y) % BaseOrder = (((P.x * P.x) % BaseOrder) * P.x + CurveA * P.x + CurveB) % BaseOrder

NegAffine(P) == [P EXCEPT !.y = (BaseOrder - P.y) % BaseOrder]

AddAffine(P, Q) ==
    IF P.zero THEN Q ELSE
    IF Q.zero THEN P ELSE
    IF P = NegAffine(Q) THEN Zero ELSE
    LET over == IF P = Q THEN 2 * P.y ELSE (Q.x - P.x) % BaseOrder
        rise == IF P = Q THEN 3 * P.x * P.x + CurveA ELSE (Q.y - P.y) % BaseOrder
        lambda == ((rise % BaseOrder) * ModInverse(BaseOrder, over % BaseOrder)) % BaseOrder
        x == (lambda * lambda - P.x - Q.x) % BaseOrder
    IN  [x |-> x, y |-> (lambda * (P.x - x) - P.y) % BaseOrder, zero |-> FALSE]

\* All nonzero multiples of the generator, by doubling and adding.
Multiples ==
    LET G == [x |-> Generator.x, y |-> Generator.y, zero |-> FALSE]
        Affine == [x : 0..(BaseOrder - 1), y : 0..(BaseOrder - 1), zero : BOOLEAN]
        double[P \in Affine] == AddAffine(P, P)
        plusG[P \in Affine] == AddAffine(P, G)
        multiple[k \in Nat] ==
            IF k = 1 THEN G
            ELSE IF k % 2 = 0 THEN double[multiple[k \div 2]]
            ELSE plusG[multiple[k - 1]]
    IN  [k \in 1..(ScalarOrder - 1) |-> multiple[k]]

Times(k) == IF k % ScalarOrder = 0 THEN Zero ELSE Multiples[k % ScalarOrder]

\* Points add as the multiples do that they are of the generator: the curve is
\* a group and the generator of order ScalarOrder in it.
ASSUME GroupAssumption ==
    /\ \A k \in 1..(ScalarOrder - 1) :
         Times(k) \in [x : 0..(BaseOrder - 1), y : 0..(BaseOrder - 1), zero : {FALSE}]
    /\ \A j, k \in 0..(ScalarOrder - 1) : AddAffine(Times(j), Times(k)) = Times(j + k)

(*************************************************************************)
(* Points in the circuit.                                                *)
(*************************************************************************)

StuckPoint == [x |-> Stuck, y |-> Stuck]

IsStuck(p) == Stuck \in {p.x, p.y}

ConstantAffinePoint(P) == [x |-> ConstantBiguint(P.x), y |-> ConstantBiguint(P.y)]

VirtualAffinePoint(P) ==
    LET n == NumNonnativeLimbs(BaseOrder)
    IN  [x |-> SetBiguint(n, P.x), y |-> SetBiguint(n, P.y)]

Denotes(p, P) == ~IsStuck(p) /\ ~P.zero /\ ValueOf(p.x) = P.x /\ ValueOf(p.y) = P.y

Plus(a, b)  == AddNonnative(BaseOrder, a, b)
Minus(a, b) == SubNonnative(BaseOrder, a, b)
Mul(a, b)   == MulNonnative(BaseOrder, a, b)
Inv(a)      == InvNonnative(BaseOrder, a)

CurveAssertValid(p) ==
    LET x_cubed == Mul(Mul(p.x, p.x), p.x)
        a_x_plus_b == Plus(Mul(ConstantBiguint(CurveA), p.x), ConstantBiguint(CurveB))
        y_squared == Mul(p.y, p.y)
        rhs == Plus(x_cubed, a_x_plus_b)
    IN  Stuck \notin {y_squared, rhs} /\ ConnectBiguint(y_squared, rhs)

CurveNeg(p) == [x |-> p.x, y |-> NegNonnative(BaseOrder, p.y)]

\* Where the line of the given slope through p, and through a point of
\* coordinate x, meets the curve again, mirrored.
Mirrored(p, x, slope) ==
    LET x3 == Minus(Mul(slope, slope), Plus(x, p.x))
        y3 == Minus(Mul(slope, Minus(p.x, x3)), p.y)
    IN  IF Stuck \in {x3, y3} THEN StuckPoint ELSE [x |-> x3, y |-> y3]

CurveDouble(p) ==
    LET x_squared == Mul(p.x, p.x)
        triple == Plus(Plus(x_squared, x_squared), x_squared)
    IN  Mirrored(p, p.x, Mul(Plus(triple, ConstantBiguint(CurveA)), Inv(Plus(p.y, p.y))))

CurveAdd(p, q) == Mirrored(p, q.x, Mul(Minus(q.y, p.y), Inv(Minus(q.x, p.x))))

\* sum when the flag is set, p otherwise.
Selected(sum, p, b) ==
    LET x == Plus(MulBiguintByBool(sum.x, b), MulBiguintByBool(p.x, ~b))
        y == Plus(MulBiguintByBool(sum.y, b), MulBiguintByBool(p.y, ~b))
    IN  IF Stuck \in {x, y} THEN StuckPoint ELSE [x |-> x, y |-> y]

\* The sum is computed, and constrained, whether it is wanted or not.
CurveConditionalAdd(p, q, b) == Selected(CurveAdd(p, q), p, b)

\* Limb by limb; the limbs that a constant lacks are zero.
RandomAccessCurvePoints(index, points) ==
    LET n == NumNonnativeLimbs(BaseOrder)
        p == points[index + 1]
    IN  [x |-> [i \in 1..n |-> Limb(p.x, i)], y |-> [i \in 1..n |-> Limb(p.y, i)]]
=============================================================================
