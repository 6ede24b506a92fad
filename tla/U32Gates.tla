------------------------------ MODULE U32Gates ------------------------------
(***************************************************************************)
(* The gates of plonky2_u32: products and sums of words, differences,      *)
(* range checks and comparisons. A word has WordBits bits (32 in the code) *)
(* and is checked in limbs of LimbBits (2); the order of the field is      *)
(* Base^2 - Base + 1, as Goldilocks' is, so that a product of words plus a *)
(* word just fits.                                                         *)
(***************************************************************************)
EXTENDS FieldOps

CONSTANTS WordBits, LimbBits, LogMaxAddends

ASSUME WordAssumption ==
    /\ WordBits \in Nat \ {0} /\ LimbBits \in 1..WordBits /\ WordBits % LimbBits = 0
    /\ LogMaxAddends \in Nat \ {0}
    /\ P = (2^WordBits)^2 - 2^WordBits + 1

Base == 2^WordBits
U32Max == Base - 1
LimbBase == 2^LimbBits
WordLimbs == WordBits \div LimbBits
Word == 0..U32Max
DivCeil(a, b) == (a + b - 1) \div b

\* The limb columns from col on hold digits, and make up the number in column of.
LimbsHold(w, col, n, of) ==
    /\ \A j \in 0..(n-1) : RangeChecked(w, col + j, LimbBase)
    /\ Zero(w, col..(col + n - 1) \cup {of},
            ReduceWithPowers([j \in 1..n |-> w[col + j - 1]], LimbBase) - w[of])
\* The digits of x.
Limbs(x, col, n) == [k \in col..(col + n - 1) |-> (x \div LimbBase^(k - col)) % LimbBase]

---------------------------------------------------------------------------
(* U32ArithmeticGate: two words multiplied, one added, in two words *)

RoutedPerArithmetic == 6
U32ArithmeticGate(cf) ==
    [kind |-> "u32_arithmetic",
     num_ops |-> Min({cf.num_wires \div (RoutedPerArithmetic + 2*WordLimbs),
                      cf.num_routed_wires \div RoutedPerArithmetic})]
U32ArithmeticWires(g, i) ==
    LET start == RoutedPerArithmetic * i
    IN  [multiplicand_0 |-> start, multiplicand_1 |-> start + 1, addend |-> start + 2,
         output_low_half |-> start + 3, output_high_half |-> start + 4, inverse |-> start + 5,
         limbs |-> RoutedPerArithmetic * g.num_ops + 2*WordLimbs * i]

\* Mutation of CanonicalHalves: any halves of the product modulo P will do.
AnyHalves(w, n) == TRUE

\* high * Base + low is below P: the high half is not the greatest word, or the low half is zero.
CanonicalHalves(w, n) ==
    Zero(w, {n.output_low_half, n.output_high_half, n.inverse},
         (w[n.inverse] * (U32Max - w[n.output_high_half]) - 1) * w[n.output_low_half])

U32ArithmeticHolds(g, c, w) ==
    \A i \in 0..(g.num_ops - 1) : LET n == U32ArithmeticWires(g, i) IN
        /\ CanonicalHalves(w, n)
        /\ Zero(w, n.multiplicand_0..n.output_high_half,
                w[n.output_high_half] * Base + w[n.output_low_half]
                - (w[n.multiplicand_0] * w[n.multiplicand_1] + w[n.addend]))
        /\ LimbsHold(w, n.limbs, WordLimbs, n.output_low_half)
        /\ LimbsHold(w, n.limbs + WordLimbs, WordLimbs, n.output_high_half)

U32ArithmeticRun(g, c, w, i) ==
    LET n      == U32ArithmeticWires(g, i)
        output == (w[n.multiplicand_0] * w[n.multiplicand_1] + w[n.addend]) % P
        diff   == U32Max - output \div Base
    IN  Cell(n.output_high_half, output \div Base)
        @@ Cell(n.output_low_half, output % Base)
        @@ Cell(n.inverse, IF diff = 0 THEN 0 ELSE Inv(diff))
        @@ Limbs(output, n.limbs, 2*WordLimbs)

---------------------------------------------------------------------------
(* U32AddManyGate: several words and a carry added, in a word and a carry *)

CarryLimbs == DivCeil(LogMaxAddends, LimbBits)
U32AddManyGate(cf, num_addends) ==
    [kind |-> "u32_add_many", num_addends |-> num_addends,
     num_ops |-> Min({cf.num_wires \div (num_addends + 3 + WordLimbs + CarryLimbs),
                      cf.num_routed_wires \div (num_addends + 3)})]
U32AddManyWires(g, i) ==
    LET start == (g.num_addends + 3) * i
    IN  [addends |-> start..(start + g.num_addends - 1), carry |-> start + g.num_addends,
         output_result |-> start + g.num_addends + 1, output_carry |-> start + g.num_addends + 2,
         limbs |-> (g.num_addends + 3) * g.num_ops + (WordLimbs + CarryLimbs) * i]
AddManySum(w, n) == SumOf(LAMBDA j : w[j], n.addends \cup {n.carry})

U32AddManyHolds(g, c, w) ==
    \A i \in 0..(g.num_ops - 1) : LET n == U32AddManyWires(g, i) IN
        /\ Zero(w, n.addends \cup {n.carry, n.output_result, n.output_carry},
                w[n.output_carry] * Base + w[n.output_result] - AddManySum(w, n))
        /\ LimbsHold(w, n.limbs, WordLimbs, n.output_result)
        /\ LimbsHold(w, n.limbs + WordLimbs, CarryLimbs, n.output_carry)

U32AddManyRun(g, c, w, i) ==
    LET n      == U32AddManyWires(g, i)
        output == AddManySum(w, n)
    IN  Cell(n.output_carry, output \div Base)
        @@ Cell(n.output_result, output % Base)
        @@ Limbs(output % Base, n.limbs, WordLimbs)
        @@ Limbs(output \div Base, n.limbs + WordLimbs, CarryLimbs)

---------------------------------------------------------------------------
(* U32SubtractionGate: a difference of words less a borrow *)

U32SubtractionGate(cf) ==
    [kind |-> "u32_subtraction",
     num_ops |-> Min({cf.num_wires \div (5 + WordLimbs), cf.num_routed_wires \div 5})]
U32SubtractionWires(g, i) ==
    [input_x |-> 5*i, input_y |-> 5*i + 1, input_borrow |-> 5*i + 2,
     output_result |-> 5*i + 3, output_borrow |-> 5*i + 4, limbs |-> 5 * g.num_ops + WordLimbs * i]

U32SubtractionHolds(g, c, w) ==
    \A i \in 0..(g.num_ops - 1) : LET n == U32SubtractionWires(g, i) IN
        /\ Zero(w, n.input_x..n.output_borrow,
                w[n.output_result] - (w[n.input_x] - w[n.input_y] - w[n.input_borrow]
                                      + Base * w[n.output_borrow]))
        /\ LimbsHold(w, n.limbs, WordLimbs, n.output_result)
        /\ Zero(w, {n.output_borrow}, w[n.output_borrow] * (1 - w[n.output_borrow]))

U32SubtractionRun(g, c, w, i) ==
    LET n       == U32SubtractionWires(g, i)
        initial == (w[n.input_x] - w[n.input_y] - w[n.input_borrow]) % P
        borrow  == IF initial > Base THEN 1 ELSE 0
        result  == (initial + Base * borrow) % P
    IN  Cell(n.output_result, result) @@ Cell(n.output_borrow, borrow)
        @@ Limbs(result, n.limbs, WordLimbs)

---------------------------------------------------------------------------
(* U32RangeCheckGate: each of several values is a word *)

U32RangeCheckGate(num_input_limbs) ==
    [kind |-> "u32_range_check", num_input_limbs |-> num_input_limbs]
AuxLimbWires(g, i) == g.num_input_limbs + DivCeil(WordBits, LimbBits) * i

U32RangeCheckHolds(g, c, w) ==
    \A i \in 0..(g.num_input_limbs - 1) : LimbsHold(w, AuxLimbWires(g, i), WordLimbs, i)

\* The generator takes the low bits of its input (as u32).
U32RangeCheckRun(g, c, w, k) ==
    FoldLeft(LAMBDA r, i : Limbs(w[i] % Base, AuxLimbWires(g, i), WordLimbs) @@ r,
             w, UpTo(g.num_input_limbs))

---------------------------------------------------------------------------
(* ComparisonGate: whether one number is at most another, chunk by chunk *)

ComparisonGate(num_bits, num_chunks) ==
    [kind |-> "comparison", num_bits |-> num_bits, num_chunks |-> num_chunks]
ChunkBits(g) == DivCeil(g.num_bits, g.num_chunks)
ComparisonWires(g) ==
    [first_input |-> 0, second_input |-> 1, result_bool |-> 2, most_significant_diff |-> 3,
     first_chunk_val |-> 4, second_chunk_val |-> 4 + g.num_chunks,
     equality_dummy |-> 4 + 2*g.num_chunks, chunks_equal |-> 4 + 3*g.num_chunks,
     intermediate_value |-> 4 + 4*g.num_chunks, most_significant_diff_bit |-> 4 + 5*g.num_chunks]

\* most_significant_diff_so_far before chunk i, and its columns
DiffSoFar(g, w, i) ==
    LET n == ComparisonWires(g)
        k == i - 1
    IN  IF i = 0 THEN 0
        ELSE w[n.intermediate_value + k]
             + (1 - w[n.chunks_equal + k]) * (w[n.second_chunk_val + k] - w[n.first_chunk_val + k])
ChunkCols(g, i) ==
    IF i = 0 THEN {}
    ELSE LET n == ComparisonWires(g)
         IN  {col + i - 1 : col \in {n.intermediate_value, n.chunks_equal,
                                     n.second_chunk_val, n.first_chunk_val}}

ChunksHold(g, w, chunk_val, input) ==
    /\ Zero(w, chunk_val..(chunk_val + g.num_chunks - 1) \cup {input},
            ReduceWithPowers([i \in 1..g.num_chunks |-> w[chunk_val + i - 1]], 2^ChunkBits(g)) - w[input])
    /\ \A i \in 0..(g.num_chunks - 1) : RangeChecked(w, chunk_val + i, 2^ChunkBits(g))

ComparisonHolds(g, c, w) ==
    LET n == ComparisonWires(g)
        bits == n.most_significant_diff_bit
        difference(i) == w[n.second_chunk_val + i] - w[n.first_chunk_val + i]
        equal(i) == w[n.chunks_equal + i]
        vals(i) == {n.first_chunk_val + i, n.second_chunk_val + i, n.chunks_equal + i}
    IN  /\ ChunksHold(g, w, n.first_chunk_val, n.first_input)
        /\ ChunksHold(g, w, n.second_chunk_val, n.second_input)
        /\ \A i \in 0..(g.num_chunks - 1) :
             /\ Zero(w, vals(i) \cup {n.equality_dummy + i},
                     difference(i) * w[n.equality_dummy + i] - (1 - equal(i)))
             /\ Zero(w, vals(i), equal(i) * difference(i))
             /\ Zero(w, ChunkCols(g, i) \cup {n.chunks_equal + i, n.intermediate_value + i},
                     w[n.intermediate_value + i] - equal(i) * DiffSoFar(g, w, i))
        /\ Zero(w, ChunkCols(g, g.num_chunks) \cup {n.most_significant_diff},
                w[n.most_significant_diff] - DiffSoFar(g, w, g.num_chunks))
        /\ \A i \in 0..ChunkBits(g) : Zero(w, {bits + i}, w[bits + i] * (1 - w[bits + i]))
        /\ Zero(w, bits..(bits + ChunkBits(g)) \cup {n.most_significant_diff},
                2^ChunkBits(g) + w[n.most_significant_diff]
                - ReduceWithPowers([i \in 1..(ChunkBits(g) + 1) |-> w[bits + i - 1]], 2))
        /\ Zero(w, {n.result_bool, bits + ChunkBits(g)}, w[n.result_bool] - w[bits + ChunkBits(g)])

ComparisonRun(g, c, w, k) ==
    LET n == ComparisonWires(g)
        chunk(x, i) == (x \div 2^(ChunkBits(g) * i)) % 2^ChunkBits(g)
        first(i)  == chunk(w[n.first_input], i)
        second(i) == chunk(w[n.second_input], i)
        chunks == 0..(g.num_chunks - 1)
        differing(m) == {i \in chunks : i < m /\ first(i) # second(i)}
        \* the difference of the last chunks below m that differ
        so_far(m) == IF differing(m) = {} THEN 0
                     ELSE (second(Max(differing(m))) - first(Max(differing(m)))) % P
        diff == so_far(g.num_chunks)
        sum  == (2^ChunkBits(g) + diff) % P
        column(start, f(_)) == [col \in {start + i : i \in chunks} |-> f(col - start) % P]
    IN  Cell(n.result_bool, IF w[n.first_input] <= w[n.second_input] THEN 1 ELSE 0)
        @@ Cell(n.most_significant_diff, diff)
        @@ column(n.first_chunk_val, first)
        @@ column(n.second_chunk_val, second)
        @@ column(n.equality_dummy, LAMBDA i : IF first(i) = second(i) THEN 1
                                               ELSE Inv(second(i) - first(i)))
        @@ column(n.chunks_equal, LAMBDA i : IF first(i) = second(i) THEN 1 ELSE 0)
        @@ column(n.intermediate_value, LAMBDA i : IF first(i) # second(i) THEN 0 ELSE so_far(i))
        @@ [col \in {n.most_significant_diff_bit + i : i \in 0..ChunkBits(g)} |->
               (sum \div 2^(col - n.most_significant_diff_bit)) % 2]
=============================================================================
