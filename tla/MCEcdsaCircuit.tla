--------------------------- MODULE MCEcdsaCircuit ---------------------------
(***************************************************************************)
(* y^2 = x^3 - 3x + 23 over the field of 149 elements: 139 points, a prime *)
(* below the field's order as for P-256, so that coordinates from the      *)
(* scalar order on exist.  Scalars and coordinates have two limbs.         *)
(*                                                                         *)
(* And words of the field below: at a small Radix, before it is proved for *)
(* every one, the operations are right for words around every boundary.    *)
(***************************************************************************)
EXTENDS EcdsaCircuit, GoldilocksWords

MCGenerator == [x |-> 2, y |-> 5]

\* The last two are no scalars.
MCDigest == {0, 3, 64, 77, 138, 139, 240, 43}

\* The last one's point meets the exception of the validity check.
MCSecretKey == {1, 29, 100, 33}

\* The points of the last four have a coordinate above the scalar order.
MCNonce == {2, 5, 40, 88, 6, 20, 41, 111}

Boundaries == {0, Radix, SignBit, Word - 2 * Radix, ORDER - SignBit, ORDER, Word - 1}
SampleWords == {b + k : b \in Boundaries, k \in -2 .. 2} \cap Words
StandsFor(w, n) == w \in Words /\ (w - n) % ORDER = 0

ASSUME WordsStandForResults ==
    \A v, w \in SampleWords :
        /\ \A sum \in {ScalarAdd(v, w), Avx2Add(v, w), Avx512Add(v, w)} : StandsFor(sum, v + w)
        /\ \A diff \in {ScalarSub(v, w), Avx2Sub(v, w), Avx512Sub(v, w)} : StandsFor(diff, v - w)
        /\ \A neg \in {ScalarNeg(v), Avx2Neg(v), Avx512Neg(v)} : StandsFor(neg, -v)
        /\ \A prod \in {ScalarMul(v, w), Avx2Mul(v, w), Avx512Mul(v, w)} : StandsFor(prod, v * w)
        /\ \A square \in {Avx2Square(v), Avx512Square(v)} : StandsFor(square, v * v)
        /\ StandsFor(MultiplyAccumulate(w, v, v), w + v * v)
        /\ LET left == <<v, w, v, w, w>>
               right == <<w, w, v, v, w>>
               From0(list) == [k \in 0 .. 4 |-> list[k + 1]]
           IN  /\ StandsFor(Ext2AddProds0(From0(left), From0(right)), v * w + 7 * (w * w))
               /\ StandsFor(Ext4AddProds1(From0(left), From0(right)),
                            v * w + w * w + 7 * (v * v + w * v))
               /\ StandsFor(Ext5AddProds0(From0(left), From0(right)),
                            v * w + 3 * (w * w + v * v + w * v + w * w))
=============================================================================
