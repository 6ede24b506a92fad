----------------------------- MODULE FieldGates -----------------------------
(***************************************************************************)
(* The gates over field elements and extension elements that the circuits  *)
(* are made of (plonky2's gates/). Of each gate: what a configuration      *)
(* gives it (new_from_config), its columns, its constraints                *)
(* (eval_unfiltered, and the same polynomials for the base field and for   *)
(* the verifier circuit), and what its generators fill in (run_once).      *)
(*                                                                         *)
(* A gate g is a record with its kind and parameters; c are the constants  *)
(* of its row, w the row.                                                  *)
(***************************************************************************)
EXTENDS FieldOps

Lesser(a, b) == Min({a, b})

---------------------------------------------------------------------------
(* ConstantGate. A ConstantGenerator fills in each of its cells. *)

ConstantGate(cf) == [kind |-> "constant", num_consts |-> cf.num_constants]
ConstantHolds(g, c, w) == \A i \in 0..(g.num_consts - 1) : Zero(w, {i}, c[i + 1] - w[i])
ConstantGenerator(col, x) == Cell(col, x)

---------------------------------------------------------------------------
(* ArithmeticGate *)

ArithmeticGate(cf) == [kind |-> "arithmetic", num_ops |-> cf.num_routed_wires \div 4]
ArithmeticWires(i) ==
    [multiplicand_0 |-> 4*i, multiplicand_1 |-> 4*i + 1, addend |-> 4*i + 2, output |-> 4*i + 3]

ArithmeticHolds(g, c, w) ==
    \A i \in 0..(g.num_ops - 1) : LET n == ArithmeticWires(i) IN
        Zero(w, Range(n),
             w[n.output] - w[n.multiplicand_0] * w[n.multiplicand_1] * c[1] - w[n.addend] * c[2])

ArithmeticRun(g, c, w, i) ==
    LET n == ArithmeticWires(i)
    IN  Cell(n.output, w[n.multiplicand_0] * w[n.multiplicand_1] * c[1] + w[n.addend] * c[2])

---------------------------------------------------------------------------
(* ArithmeticExtensionGate and MulExtensionGate *)

ArithmeticExtensionGate(cf) ==
    [kind |-> "arithmetic_extension", num_ops |-> cf.num_routed_wires \div (4 * D)]
ArithmeticExtensionWires(i) ==
    [multiplicand_0 |-> 4*D*i, multiplicand_1 |-> 4*D*i + D,
     addend |-> 4*D*i + 2*D, output |-> 4*D*i + 3*D]
ArithmeticExtensionOutput(c, w, n) ==
    ExtAdd(ScalarMul(ExtMul(ExtAt(w, n.multiplicand_0), ExtAt(w, n.multiplicand_1)), c[1]),
           ScalarMul(ExtAt(w, n.addend), c[2]))
ArithmeticExtensionHolds(g, c, w) ==
    \A i \in 0..(g.num_ops - 1) : LET n == ArithmeticExtensionWires(i) IN
        ExtZero(w, n.multiplicand_0..(n.output + 1),
                ExtSub(ExtAt(w, n.output), ArithmeticExtensionOutput(c, w, n)))
ArithmeticExtensionRun(g, c, w, i) ==
    LET n == ArithmeticExtensionWires(i)
    IN  ExtCell(n.output, ArithmeticExtensionOutput(c, w, n))

MulExtensionGate(cf) == [kind |-> "mul_extension", num_ops |-> cf.num_routed_wires \div (3 * D)]
MulExtensionWires(i) == [multiplicand_0 |-> 3*D*i, multiplicand_1 |-> 3*D*i + D, output |-> 3*D*i + 2*D]
MulExtensionOutput(c, w, n) ==
    ScalarMul(ExtMul(ExtAt(w, n.multiplicand_0), ExtAt(w, n.multiplicand_1)), c[1])
MulExtensionHolds(g, c, w) ==
    \A i \in 0..(g.num_ops - 1) : LET n == MulExtensionWires(i) IN
        ExtZero(w, n.multiplicand_0..(n.output + 1),
                ExtSub(ExtAt(w, n.output), MulExtensionOutput(c, w, n)))
MulExtensionRun(g, c, w, i) ==
    LET n == MulExtensionWires(i) IN ExtCell(n.output, MulExtensionOutput(c, w, n))

---------------------------------------------------------------------------
(* BaseSumGate: a sum and its limbs in base B, least significant first *)

SumWire == 0
LimbWire(i) == 1 + i
LogFloor(n, base) == CHOOSE k \in 0..n : base^k <= n /\ n < base^(k+1)
\* as many limbs as fit below the order of the field, and in the routed wires
BaseSumGate(cf, base) ==
    [kind |-> "base_sum", base |-> base,
     num_limbs |-> Lesser(LogFloor(P - 1, base), cf.num_routed_wires - 1)]

BaseSumHolds(g, c, w) ==
    /\ Zero(w, 0..g.num_limbs,
            ReduceWithPowers([i \in 1..g.num_limbs |-> w[LimbWire(i-1)]], g.base) - w[SumWire])
    /\ \A i \in 0..(g.num_limbs - 1) : RangeChecked(w, LimbWire(i), g.base)

BaseSumRun(g, c, w, k) ==
    [col \in {LimbWire(i) : i \in 0..(g.num_limbs - 1)} |->
        (w[SumWire] \div g.base^(col - 1)) % g.base]

---------------------------------------------------------------------------
(* RandomAccessGate: an index, a list of 2^bits elements and the one at the *)
(* index, several times in a row, and constants in what is left over.       *)

RandomAccessGate(cf, bits) ==
    LET width  == 2 + 2^bits
        copies == Lesser(cf.num_routed_wires \div width, cf.num_wires \div (width + bits))
    IN  [kind |-> "random_access", bits |-> bits, num_copies |-> copies,
         num_extra_constants |-> Lesser(cf.num_routed_wires - width * copies, cf.num_constants)]

ExtraConstantWire(g, i) == (2 + 2^g.bits) * g.num_copies + i
RandomAccessColumns(g, copy, bits_from) ==
    LET start == (2 + 2^g.bits) * copy
    IN  [access_index    |-> start,
         claimed_element |-> start + 1,
         list_items      |-> [i \in 0..(2^g.bits - 1) |-> start + 2 + i],
         bits            |-> [i \in 0..(g.bits - 1) |-> bits_from + copy * g.bits + i]]

\* Mutation of RandomAccessWires: the bits follow the copies, over the extra constants.
RandomAccessWiresClose(g, copy) == RandomAccessColumns(g, copy, ExtraConstantWire(g, 0))

\* The bits have the first columns that are not routed.
RandomAccessWires(g, copy) ==
    RandomAccessColumns(g, copy, ExtraConstantWire(g, g.num_extra_constants))

\* The list is folded bit by bit: of each pair the left or the right item.
FoldList(g, bits, items) ==
    FoldLeft(LAMBDA acc, k : [i \in 0..(2^(g.bits - 1 - k) - 1) |->
                                (acc[2*i] + bits[k] * (acc[2*i + 1] - acc[2*i])) % P],
             items, UpTo(g.bits))[0]

RandomAccessHolds(g, c, w) ==
    /\ \A copy \in 0..(g.num_copies - 1) :
         LET n    == RandomAccessWires(g, copy)
             bit(i) == w[n.bits[i]]
         IN  /\ \A i \in DOMAIN n.bits : Zero(w, {n.bits[i]}, bit(i) * (bit(i) - 1))
             /\ Zero(w, Range(n.bits) \cup {n.access_index},
                     ReduceWithPowers([i \in 1..g.bits |-> bit(i - 1)], 2) - w[n.access_index])
             /\ Zero(w, Range(n.bits) \cup Range(n.list_items) \cup {n.claimed_element},
                     FoldList(g, [i \in DOMAIN n.bits |-> bit(i)],
                              [i \in DOMAIN n.list_items |-> w[n.list_items[i]]])
                     - w[n.claimed_element])
    /\ \A i \in 0..(g.num_extra_constants - 1) :
         Zero(w, {ExtraConstantWire(g, i)}, c[i + 1] - w[ExtraConstantWire(g, i)])

RandomAccessRun(g, c, w, copy) ==
    LET n == RandomAccessWires(g, copy)
        access_index == w[n.access_index]
    IN  Cell(n.claimed_element, w[n.list_items[access_index]])
        @@ [col \in Range(n.bits) |-> (access_index \div 2^(col - n.bits[0])) % 2]

---------------------------------------------------------------------------
(* ExponentiationGate *)

ExponentiationGate(cf) ==
    [kind |-> "exponentiation",
     num_power_bits |-> Lesser(cf.num_routed_wires - 2, (cf.num_wires - 2) \div 2)]
PowerBitWire(i) == 1 + i
PowerOutputWire(g) == 1 + g.num_power_bits
IntermediateValueWire(g, i) == 2 + g.num_power_bits + i

\* Bits are stored from the least significant, and read from the most significant.
ExponentiationHolds(g, c, w) ==
    LET last == g.num_power_bits - 1
        bit(i) == PowerBitWire(last - i)
        value(i) == IntermediateValueWire(g, i)
        prev(i) == IF i = 0 THEN 1 ELSE (w[value(i - 1)] * w[value(i - 1)]) % P
    IN  /\ \A i \in 0..last :
             Zero(w, {0, bit(i), value(i)} \cup {value(j) : j \in {i - 1} \cap Nat},
                  prev(i) * ((w[bit(i)] * w[0] + 1 - w[bit(i)]) % P) - w[value(i)])
        /\ Zero(w, {PowerOutputWire(g), value(last)}, w[PowerOutputWire(g)] - w[value(last)])

ExponentiationRun(g, c, w, k) ==
    LET last == g.num_power_bits - 1
        times(x, i) == IF w[PowerBitWire(last - i)] = 1 THEN (x * w[0]) % P ELSE x
        \* current_intermediate_value after bit i
        value == [i \in 0..last |->
                    FoldLeft(LAMBDA x, j : times(IF j = 0 THEN x ELSE (x * x) % P, j),
                             1, UpTo(i + 1))]
    IN  [col \in {IntermediateValueWire(g, i) : i \in 0..last} |->
            value[col - IntermediateValueWire(g, 0)]]
        @@ Cell(PowerOutputWire(g), value[last])

---------------------------------------------------------------------------
(* ReducingGate and ReducingExtensionGate: coefficients times powers of alpha. *)
(* They differ in the width of a coefficient.                                  *)

ReducingGate(cf) ==
    [kind |-> "reducing", width |-> 1,
     num_coeffs |-> Lesser(cf.num_routed_wires - 3*D, (cf.num_wires - 2*D) \div (D + 1))]
ReducingExtensionGate(cf) ==
    [kind |-> "reducing", width |-> D,
     num_coeffs |-> Lesser((cf.num_routed_wires - 3*D) \div D, (cf.num_wires - 2*D) \div (2*D))]

AlphaWires == D
OldAccWires == 2*D
CoeffWires(g, i) == 3*D + i * g.width
\* The last accumulator is the output.
AccWires(g, i) == IF i = g.num_coeffs - 1 THEN 0 ELSE 3*D + g.num_coeffs * g.width + D*i

Coeff(g, w, i) == IF g.width = 1 THEN ToExt(w[CoeffWires(g, i)]) ELSE ExtAt(w, CoeffWires(g, i))
PrevAcc(g, i) == IF i = 0 THEN OldAccWires ELSE AccWires(g, i - 1)

ReducingHolds(g, c, w) ==
    \A i \in 0..(g.num_coeffs - 1) :
        ExtZero(w, ExtCols(PrevAcc(g, i)) \cup ExtCols(AlphaWires) \cup ExtCols(AccWires(g, i))
                   \cup CoeffWires(g, i)..(CoeffWires(g, i) + g.width - 1),
                ExtSub(ExtAdd(ExtMul(ExtAt(w, PrevAcc(g, i)), ExtAt(w, AlphaWires)), Coeff(g, w, i)),
                       ExtAt(w, AccWires(g, i))))

ReducingRun(g, c, w, k) ==
    FoldLeft(LAMBDA r, i : ExtCell(AccWires(g, i),
                 ExtAdd(ExtMul(ExtAt(r, PrevAcc(g, i)), ExtAt(w, AlphaWires)), Coeff(g, w, i))) @@ r,
             w, UpTo(g.num_coeffs))
---------------------------------------------------------------------------
(* CosetInterpolationGate: the value at a point of the polynomial that has  *)
(* given values on a coset. The barycentric sum is cut into pieces of the   *)
(* gate's degree, and the two accumulators after each piece have wires.     *)

CosetInterpolationGate(subgroup_bits, max_degree) ==
    LET n_points == 2^subgroup_bits
        n_intermediates == (n_points - 2) \div (max_degree - 1)
    IN  [kind |-> "coset_interpolation", subgroup_bits |-> subgroup_bits,
         degree |-> (n_points - 2) \div (n_intermediates + 1) + 2,
         domain |-> Subgroup(n_points),
         barycentric_weights |-> BarycentricWeights(Subgroup(n_points))]

NumPoints(g) == 2^g.subgroup_bits
NumIntermediates(g) == (NumPoints(g) - 2) \div (g.degree - 1)
ShiftWire == 0
ValueWires(i) == 1 + i*D
EvaluationPointWires(g) == 1 + NumPoints(g)*D
EvaluationValueWires(g) == EvaluationPointWires(g) + D
StartIntermediates(g) == EvaluationValueWires(g) + D
IntermediateEvalWires(g, i) == StartIntermediates(g) + D*i
IntermediateProdWires(g, i) == StartIntermediates(g) + D*(NumIntermediates(g) + i)
ShiftedEvaluationPointWires(g) == StartIntermediates(g) + D*2*NumIntermediates(g)

\* The points of piece i, and the columns that its accumulators start from.
Piece(g, i) == IF i = 0 THEN UpTo(g.degree)
               ELSE LET start == 1 + (g.degree - 1)*i
                    IN  SubSeq(UpTo(NumPoints(g)), start + 1, Lesser(start + g.degree - 1, NumPoints(g)))

\* partial_interpolate: the sum and the product so far, over the points of one piece.
PartialInterpolate(g, w, points, x, initial) ==
    LET step(acc, i) ==
            LET term == ExtSub(x, ToExt(g.domain[i]))
                val  == ScalarMul(ExtAt(w, ValueWires(i)), g.barycentric_weights[i])
            IN  [eval |-> ExtAdd(ExtMul(acc.eval, term), ExtMul(val, acc.prod)),
                 prod |-> ExtMul(acc.prod, term)]
    IN  FoldLeft(step, initial, points)

EmptySum == [eval |-> <<0, 0>>, prod |-> <<1, 0>>]
Intermediate(g, w, i) == IF i = 0 THEN EmptySum
                         ELSE [eval |-> ExtAt(w, IntermediateEvalWires(g, i - 1)),
                               prod |-> ExtAt(w, IntermediateProdWires(g, i - 1))]

CosetInterpolationHolds(g, c, w) ==
    LET point   == EvaluationPointWires(g)
        shifted == ShiftedEvaluationPointWires(g)
        last    == NumIntermediates(g)
        after(i) == PartialInterpolate(g, w, Piece(g, i), ExtAt(w, shifted), Intermediate(g, w, i))
        starts(i) == ExtCols(shifted) \cup (UNION {ExtCols(ValueWires(j)) : j \in Range(Piece(g, i))})
                     \cup IF i = 0 THEN {} ELSE ExtCols(IntermediateEvalWires(g, i - 1))
                                                \cup ExtCols(IntermediateProdWires(g, i - 1))
        equals(i, col, a) == ExtZero(w, starts(i) \cup ExtCols(col), ExtSub(ExtAt(w, col), a))
    IN  /\ ExtZero(w, {ShiftWire} \cup ExtCols(point) \cup ExtCols(shifted),
                   ExtSub(ExtAt(w, point), ScalarMul(ExtAt(w, shifted), w[ShiftWire])))
        /\ \A i \in 0..(last - 1) : /\ equals(i, IntermediateEvalWires(g, i), after(i).eval)
                                    /\ equals(i, IntermediateProdWires(g, i), after(i).prod)
        /\ equals(last, EvaluationValueWires(g), after(last).eval)

CosetInterpolationRun(g, c, w, k) ==
    LET x == ScalarMul(ExtAt(w, EvaluationPointWires(g)), Inv(w[ShiftWire]))
        after[i \in 0..NumIntermediates(g)] ==
            PartialInterpolate(g, w, Piece(g, i), x, IF i = 0 THEN EmptySum ELSE after[i - 1])
    IN  ExtCell(ShiftedEvaluationPointWires(g), x)
        @@ FoldLeft(LAMBDA r, i : r @@ ExtCell(IntermediateEvalWires(g, i), after[i].eval)
                                    @@ ExtCell(IntermediateProdWires(g, i), after[i].prod),
                    ExtCell(EvaluationValueWires(g), after[NumIntermediates(g)].eval),
                    UpTo(NumIntermediates(g)))
=============================================================================
