------------------------------- MODULE GateRows -------------------------------
(***************************************************************************)
(* One row of the trace, of one gate, from the values its inputs are given *)
(* to the row a proof is made of. An honest prover runs the gate's         *)
(* generators, each as soon as its dependencies have values; any other     *)
(* prover chooses the values itself, and its row has to satisfy the        *)
(* constraints. The constraints are all a verifier goes by: a row that     *)
(* satisfies them must mean what the gate is for.                          *)
(***************************************************************************)
EXTENDS FieldGates, U32Gates, PoseidonGates

CONSTANT
    Instances   \* records [config, gate, consts, provers, inputs, order]: provers are "honest" or
                \* "any", inputs the rows they start from, order the other columns as "any" fills them

VARIABLES at, prover, row, ran
vars == <<at, prover, row, ran>>

---------------------------------------------------------------------------
(* Dispatch on the gate *)

NumWires(g) ==
    CASE g.kind = "constant"             -> g.num_consts
      [] g.kind = "arithmetic"           -> 4 * g.num_ops
      [] g.kind = "arithmetic_extension" -> 4*D * g.num_ops
      [] g.kind = "mul_extension"        -> 3*D * g.num_ops
      [] g.kind = "base_sum"             -> 1 + g.num_limbs
      [] g.kind = "random_access"        -> ExtraConstantWire(g, g.num_extra_constants)
                                            + g.num_copies * g.bits
      [] g.kind = "exponentiation"       -> IntermediateValueWire(g, g.num_power_bits)
      [] g.kind = "reducing"             -> 2*D + g.num_coeffs * (g.width + D)
      [] g.kind = "coset_interpolation"  -> ShiftedEvaluationPointWires(g) + D
      [] g.kind = "u32_arithmetic"       -> g.num_ops * (RoutedPerArithmetic + 2*WordLimbs)
      [] g.kind = "u32_add_many"         -> g.num_ops * (g.num_addends + 3 + WordLimbs + CarryLimbs)
      [] g.kind = "u32_subtraction"      -> g.num_ops * (5 + WordLimbs)
      [] g.kind = "u32_range_check"      -> AuxLimbWires(g, g.num_input_limbs)
      [] g.kind = "comparison"           -> 4 + 5*g.num_chunks + ChunkBits(g) + 1
      [] g.kind = "poseidon"             -> PoseidonWires
      [] g.kind = "poseidon_mds"         -> PoseidonMdsWires

\* The columns other gates may be connected to: they come first.
NumRouted(g) ==
    CASE g.kind = "random_access"       -> ExtraConstantWire(g, g.num_extra_constants)
      [] g.kind = "exponentiation"      -> 2 + g.num_power_bits
      [] g.kind = "reducing"            -> 3*D + g.num_coeffs * g.width
      [] g.kind = "coset_interpolation" -> StartIntermediates(g)
      [] g.kind = "u32_arithmetic"      -> g.num_ops * RoutedPerArithmetic
      [] g.kind = "u32_add_many"        -> g.num_ops * (g.num_addends + 3)
      [] g.kind = "u32_subtraction"     -> g.num_ops * 5
      [] g.kind = "u32_range_check"     -> g.num_input_limbs
      [] g.kind = "comparison"          -> 3
      [] g.kind = "poseidon"            -> WireSwap + 1
      [] OTHER                          -> NumWires(g)

NumGenerators(g) ==
    CASE g.kind = "constant"      -> g.num_consts
      [] g.kind = "random_access" -> g.num_copies + g.num_extra_constants
      [] g.kind \in {"arithmetic", "arithmetic_extension", "mul_extension",
                     "u32_arithmetic", "u32_add_many", "u32_subtraction"} -> g.num_ops
      [] OTHER -> 1

Dependencies(g, i) ==
    CASE g.kind = "constant"             -> {}
      [] g.kind = "arithmetic"           -> Range(ArithmeticWires(i)) \ {ArithmeticWires(i).output}
      [] g.kind = "arithmetic_extension" -> 4*D*i..(4*D*i + 3*D - 1)
      [] g.kind = "mul_extension"        -> 3*D*i..(3*D*i + 2*D - 1)
      [] g.kind = "base_sum"             -> {SumWire}
      [] g.kind = "random_access"        ->
             IF i >= g.num_copies THEN {}
             ELSE {RandomAccessWires(g, i).access_index} \cup Range(RandomAccessWires(g, i).list_items)
      [] g.kind = "exponentiation"       -> 0..g.num_power_bits
      [] g.kind = "reducing"             -> AlphaWires..(CoeffWires(g, g.num_coeffs) - 1)
      [] g.kind = "coset_interpolation"  -> 0..(EvaluationValueWires(g) - 1)
      [] g.kind = "u32_arithmetic"       -> LET n == U32ArithmeticWires(g, i)
                                            IN  {n.multiplicand_0, n.multiplicand_1, n.addend}
      [] g.kind = "u32_add_many"         -> LET n == U32AddManyWires(g, i)
                                            IN  n.addends \cup {n.carry}
      [] g.kind = "u32_subtraction"      -> LET n == U32SubtractionWires(g, i)
                                            IN  {n.input_x, n.input_y, n.input_borrow}
      [] g.kind = "u32_range_check"      -> 0..(g.num_input_limbs - 1)
      [] g.kind = "comparison"           -> {0, 1}
      [] g.kind = "poseidon"             -> {InputWire(k) : k \in Cells} \cup {WireSwap}
      [] g.kind = "poseidon_mds"         -> 0..(MdsOutput(0) - 1)

RowHolds(g, c, w) ==
    CASE g.kind = "constant"             -> ConstantHolds(g, c, w)
      [] g.kind = "arithmetic"           -> ArithmeticHolds(g, c, w)
      [] g.kind = "arithmetic_extension" -> ArithmeticExtensionHolds(g, c, w)
      [] g.kind = "mul_extension"        -> MulExtensionHolds(g, c, w)
      [] g.kind = "base_sum"             -> BaseSumHolds(g, c, w)
      [] g.kind = "random_access"        -> RandomAccessHolds(g, c, w)
      [] g.kind = "exponentiation"       -> ExponentiationHolds(g, c, w)
      [] g.kind = "reducing"             -> ReducingHolds(g, c, w)
      [] g.kind = "coset_interpolation"  -> CosetInterpolationHolds(g, c, w)
      [] g.kind = "u32_arithmetic"       -> U32ArithmeticHolds(g, c, w)
      [] g.kind = "u32_add_many"         -> U32AddManyHolds(g, c, w)
      [] g.kind = "u32_subtraction"      -> U32SubtractionHolds(g, c, w)
      [] g.kind = "u32_range_check"      -> U32RangeCheckHolds(g, c, w)
      [] g.kind = "comparison"           -> ComparisonHolds(g, c, w)
      [] g.kind = "poseidon"             -> PoseidonHolds("fast", w)
      [] g.kind = "poseidon_mds"         -> PoseidonMdsHolds(w)

\* What the verifier circuit evaluates: the same polynomials, but for Poseidon's.
CircuitHolds(g, c, w, cf) ==
    IF g.kind = "poseidon" THEN PoseidonHolds(CircuitForm(cf), w) ELSE RowHolds(g, c, w)

RunOnce(g, c, w, i) ==
    CASE g.kind = "constant"             -> ConstantGenerator(i, c[i + 1])
      [] g.kind = "arithmetic"           -> ArithmeticRun(g, c, w, i)
      [] g.kind = "arithmetic_extension" -> ArithmeticExtensionRun(g, c, w, i)
      [] g.kind = "mul_extension"        -> MulExtensionRun(g, c, w, i)
      [] g.kind = "base_sum"             -> BaseSumRun(g, c, w, i)
      [] g.kind = "random_access"        ->
             IF i < g.num_copies THEN RandomAccessRun(g, c, w, i)
             ELSE ConstantGenerator(ExtraConstantWire(g, i - g.num_copies), c[i - g.num_copies + 1])
      [] g.kind = "exponentiation"       -> ExponentiationRun(g, c, w, i)
      [] g.kind = "reducing"             -> ReducingRun(g, c, w, i)
      [] g.kind = "coset_interpolation"  -> CosetInterpolationRun(g, c, w, i)
      [] g.kind = "u32_arithmetic"       -> U32ArithmeticRun(g, c, w, i)
      [] g.kind = "u32_add_many"         -> U32AddManyRun(g, c, w, i)
      [] g.kind = "u32_subtraction"      -> U32SubtractionRun(g, c, w, i)
      [] g.kind = "u32_range_check"      -> U32RangeCheckRun(g, c, w, i)
      [] g.kind = "comparison"           -> ComparisonRun(g, c, w, i)
      [] g.kind = "poseidon"             -> PoseidonRun(w)
      [] g.kind = "poseidon_mds"         -> PoseidonMdsRun(w)

---------------------------------------------------------------------------

Generators == 0..(NumGenerators(at.gate) - 1)
Complete == DOMAIN row = 0..(NumWires(at.gate) - 1)

Init ==
    /\ at \in Instances
    /\ prover \in at.provers
    /\ row \in at.inputs
    /\ ran = {}

RunGenerator(i) ==
    /\ prover = "honest"
    /\ i \in Generators \ ran
    /\ Known(row, Dependencies(at.gate, i))
    /\ row' = RunOnce(at.gate, at.consts, row, i) @@ row
    /\ ran' = ran \cup {i}
    /\ UNCHANGED <<at, prover>>

\* A value that already breaks a constraint leads to no proof.
Choose ==
    /\ prover = "any"
    /\ ~Complete
    /\ LET col == SelectInSeq(at.order, LAMBDA k : k \notin DOMAIN row)
       IN  \E x \in Fp : row' = row @@ (at.order[col] :> x)
    /\ RowHolds(at.gate, at.consts, row')
    /\ UNCHANGED <<at, prover, ran>>

Next == (\E i \in Generators : RunGenerator(i)) \/ Choose
Spec == Init /\ [][Next]_vars

---------------------------------------------------------------------------
(* What the gates are for, told without their columns of helpers *)

ExtProduct(f(_), S) == FoldSet(LAMBDA i, acc : ExtMul(f(i), acc), <<1, 0>>, S)
ExtSum(f(_), S) == FoldSet(LAMBDA i, acc : ExtAdd(f(i), acc), <<0, 0>>, S)
ExtPower(a, n) == ExtProduct(LAMBDA i : a, 1..n)
\* The first n cells from col on are the digits of x.
AreDigits(w, col, n, base, x) == \A i \in 0..(n-1) : w[col + i] = (x \div base^i) % base
Ops(g) == 0..(g.num_ops - 1)

\* The product and sum the row's constants select, over the field or its extension.
ArithmeticMeans(g, c, w) ==
    CASE g.kind = "arithmetic" ->
           \A i \in Ops(g) : LET n == ArithmeticWires(i) IN
             w[n.output] = (c[1]*w[n.multiplicand_0]*w[n.multiplicand_1] + c[2]*w[n.addend]) % P
      [] g.kind = "arithmetic_extension" ->
           \A i \in Ops(g) : LET n == ArithmeticExtensionWires(i) IN
             ExtAt(w, n.output) = ArithmeticExtensionOutput(c, w, n)
      [] g.kind = "mul_extension" ->
           \A i \in Ops(g) : LET n == MulExtensionWires(i) IN
             ExtAt(w, n.output) = MulExtensionOutput(c, w, n)

\* The item at the index, of every copy, and the constants in the cells left over.
RandomAccessMeans(g, c, w) ==
    /\ \A copy \in 0..(g.num_copies - 1) : LET n == RandomAccessWires(g, copy) IN
         /\ w[n.access_index] \in DOMAIN n.list_items
         /\ w[n.claimed_element] = w[n.list_items[w[n.access_index]]]
    /\ \A i \in 0..(g.num_extra_constants - 1) : w[ExtraConstantWire(g, i)] = c[i + 1]

\* The power of the base whose exponent has the given bits.
ExponentiationMeans(g, w) ==
    w[PowerOutputWire(g)] =
        Power(w[0], MapThenSumSet(LAMBDA i : w[PowerBitWire(i)] * 2^i, 0..(g.num_power_bits - 1)))

\* old_acc * alpha^n + coeff_0 * alpha^(n-1) + ... + coeff_(n-1)
ReducingMeans(g, w) ==
    LET n == g.num_coeffs
        alpha == ExtAt(w, AlphaWires)
    IN  ExtAt(w, 0) = ExtAdd(ExtMul(ExtAt(w, OldAccWires), ExtPower(alpha, n)),
                             ExtSum(LAMBDA i : ExtMul(Coeff(g, w, i), ExtPower(alpha, n - 1 - i)),
                                    0..(n-1)))

\* Lagrange's formula on the shifted points.
CosetInterpolationMeans(g, w) ==
    LET points   == 0..(NumPoints(g) - 1)
        point(i) == (w[ShiftWire] * g.domain[i]) % P
        x        == ExtAt(w, EvaluationPointWires(g))
        basis(i) == ExtProduct(LAMBDA j : ScalarMul(ExtSub(x, ToExt(point(j))),
                                                    Inv(point(i) - point(j))), points \ {i})
    IN  ExtAt(w, EvaluationValueWires(g))
            = ExtSum(LAMBDA i : ExtMul(basis(i), ExtAt(w, ValueWires(i))), points)

\* Arithmetic of words, for inputs that are words; borrows and comparisons are bits.
WordsMean(g, w) ==
    CASE g.kind = "u32_arithmetic" ->
           \A i \in Ops(g) : LET n == U32ArithmeticWires(g, i) IN
             LET exact == w[n.multiplicand_0] * w[n.multiplicand_1] + w[n.addend]
             IN  /\ w[n.output_low_half] = exact % Base
                 /\ w[n.output_high_half] = exact \div Base
      [] g.kind = "u32_add_many" ->
           \A i \in Ops(g) : LET n == U32AddManyWires(g, i) IN
             LET exact == MapThenSumSet(LAMBDA col : w[col], n.addends \cup {n.carry})
             IN  /\ w[n.output_result] = exact % Base
                 /\ w[n.output_carry] = exact \div Base
      [] g.kind = "u32_subtraction" ->
           \A i \in Ops(g) : LET n == U32SubtractionWires(g, i) IN
             LET exact == w[n.input_x] - w[n.input_y] - w[n.input_borrow]
             IN  /\ w[n.output_result] = exact % Base
                 /\ w[n.output_borrow] = IF exact < 0 THEN 1 ELSE 0
      [] g.kind = "u32_range_check" -> \A i \in 0..(g.num_input_limbs - 1) : w[i] \in Word
      [] g.kind = "comparison"      -> w[2] = IF w[0] <= w[1] THEN 1 ELSE 0

\* The permutation of the inputs, exchanged if swap is one, whichever way it is computed; and the
\* verifier circuit agrees that the row holds.
PoseidonMeans(g, w) ==
    LET swap == w[WireSwap]
        input == [i \in Cells |-> w[InputWire(
                     IF swap = 1 /\ i < 2*SwapWidth THEN (i + SwapWidth) % (2*SwapWidth) ELSE i)]]
    IN  /\ swap \in {0, 1}
        /\ [i \in Cells |-> w[OutputWire(i)]] = Poseidon("naive", input)
        /\ \A form \in {"naive", "fast"} : PoseidonHolds(form, w)

Means(g, c, w) ==
    CASE g.kind = "constant"            -> \A i \in 0..(g.num_consts - 1) : w[i] = c[i + 1]
      [] g.kind \in {"arithmetic", "arithmetic_extension", "mul_extension"} -> ArithmeticMeans(g, c, w)
      [] g.kind = "base_sum"            -> AreDigits(w, LimbWire(0), g.num_limbs, g.base, w[SumWire])
      [] g.kind = "random_access"       -> RandomAccessMeans(g, c, w)
      [] g.kind = "exponentiation"      -> ExponentiationMeans(g, w)
      [] g.kind = "reducing"            -> ReducingMeans(g, w)
      [] g.kind = "coset_interpolation" -> CosetInterpolationMeans(g, w)
      [] g.kind = "poseidon"            -> PoseidonMeans(g, w)
      [] g.kind = "poseidon_mds"        ->
             \A r \in Cells : ExtAt(w, MdsOutput(r)) = MdsRowShfAlgebra(r, w)
      [] OTHER                          -> WordsMean(g, w)

---------------------------------------------------------------------------
(* Properties *)

\* Whatever the inputs, the generators together fill every column of a row that fits the
\* configuration, and the row satisfies the constraints, the prover's and the verifier circuit's
\* (run_once against eval_unfiltered and eval_unfiltered_circuit of every gate).
GeneratedRowsHold ==
    prover = "honest" /\ ran = Generators =>
        /\ Complete
        /\ NumWires(at.gate) <= at.config.num_wires
        /\ NumRouted(at.gate) <= at.config.num_routed_wires
        /\ RowHolds(at.gate, at.consts, row)
        /\ CircuitHolds(at.gate, at.consts, row, at.config)

\* A complete row that satisfies the constraints says what the gate is for, however a prover came
\* by its values: no second pair of halves of a product, no borrow too many, no other item of the
\* list, no other answer to a comparison (eval_unfiltered of every gate).
RowsMeanWhatTheyCompute ==
    Complete /\ RowHolds(at.gate, at.consts, row) => Means(at.gate, at.consts, row)
=============================================================================
