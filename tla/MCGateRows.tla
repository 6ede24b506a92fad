----------------------------- MODULE MCGateRows -----------------------------
(***************************************************************************)
(* Rows of every gate over the field of order 13, whose words have two     *)
(* bits: 13 = 4^2 - 4 + 1, as Goldilocks is for words of 32. The Poseidon  *)
(* permutation has three cells, two full rounds on each side and two       *)
(* partial ones; its fast constants follow from the others.                *)
(***************************************************************************)
EXTENDS GateRows

MCAllRoundConstants == << <<9, 4, 11>>, <<5, 12, 11>>, <<11, 10, 8>>,
                          <<0, 7, 12>>, <<3, 10, 0>>, <<2, 1, 5>> >>
MCMdsMatrixCirc == <<2, 3, 1>>
MCMdsMatrixDiag == <<5, 0, 0>>
MCFastPartialFirstRoundConstant == <<11, 8, 7>>
MCFastPartialRoundConstants == <<1, 0>>
MCFastPartialRoundVs == << <<11, 7>>, <<1, 3>> >>
MCFastPartialRoundWHats == << <<4, 10>>, <<5, 6>> >>
MCFastPartialRoundInitialMatrix == << <<7, 4>>, <<12, 7>> >>

Config(wires, routed, constants) ==
    [num_wires |-> wires, num_routed_wires |-> routed, num_constants |-> constants]
Given(cf, g, c, provers, inputs, order) ==
    [config |-> cf, gate |-> g, consts |-> c, provers |-> provers, inputs |-> inputs, order |-> order]
Both == {"honest", "any"}
GeneratorInputs(g) == UNION {Dependencies(g, i) : i \in 0..(NumGenerators(g) - 1)}
Upward(g, inputs) == SelectSeq(UpTo(NumWires(g)), LAMBDA col : col \notin inputs)
Downward(g, inputs) == Reverse(Upward(g, inputs))
\* The gate's inputs take the values of S.
Sampled(cf, g, c, S) ==
    LET cols == GeneratorInputs(g) IN Given(cf, g, c, Both, [cols -> S], Upward(g, cols))

FieldInstances ==
    LET plain == Config(4, 4, 2)
        two == Config(8, 8, 2)
        six == Config(6, 6, 2)
    IN  { Sampled(plain, ConstantGate(plain), <<7, 12>>, Fp),
          Sampled(two, ArithmeticGate(two), <<3, 12>>, {5, 12}),
          Sampled(two, ArithmeticExtensionGate(two), <<3, 12>>, {0, 11}),
          Sampled(six, MulExtensionGate(six), <<4, 0>>, {0, 5, 12}) }

BaseSumInstances ==
    LET cf == Config(4, 4, 2)
    IN  UNION { LET g == BaseSumGate(cf, base)
                IN  { Given(cf, g, <<0, 0>>, {"honest"}, [{0} -> 0..(base^g.num_limbs - 1)], <<>>),
                      Given(cf, g, <<0, 0>>, {"any"}, [{0} -> Fp], Upward(g, {0})) }
                : base \in 2..4 }

RandomAccessInstances ==
    LET narrow == Config(12, 10, 2)
        wide   == Config(9, 7, 2)
        pairs  == RandomAccessGate(narrow, 1)
        fours  == RandomAccessGate(wide, 2)
        pairRow(i, j) == (0 :> i) @@ (2 :> 7) @@ (3 :> 0) @@ (4 :> j) @@ (6 :> 12) @@ (7 :> 5)
        fourRow(i) == (0 :> i) @@ (2 :> 3) @@ (3 :> 0) @@ (4 :> 12) @@ (5 :> 8)
    IN  { Given(narrow, pairs, <<2, 9>>, {"honest"}, {pairRow(i, j) : i, j \in 0..1}, <<>>),
          Given(narrow, pairs, <<2, 9>>, {"any"}, {pairRow(i, 1) : i \in Fp},
                Upward(pairs, GeneratorInputs(pairs))),
          Given(wide, fours, <<2, 9>>, {"honest"}, {fourRow(i) : i \in 0..3}, <<>>),
          Given(wide, fours, <<2, 9>>, {"any"}, {fourRow(i) : i \in Fp},
                Upward(fours, GeneratorInputs(fours))) }

PowerInstances ==
    LET cf    == Config(8, 5, 2)
        short == Config(13, 9, 2)
        long  == Config(12, 10, 2)
        g     == ExponentiationGate(cf)
        alternating(r, x, y) ==
            LET cols == GeneratorInputs(r)
            IN  Given(cf, r, <<0, 0>>, {"any"}, {[col \in cols |-> IF col % 2 = 0 THEN x ELSE y]},
                      Upward(r, cols))
        honest(c, r) == [Sampled(c, r, <<0, 0>>, {0, 5}) EXCEPT !.provers = {"honest"}]
        base(x) == {(0 :> x) @@ bits : bits \in [1..g.num_power_bits -> {0, 1}]}
    IN  { Given(cf, g, <<0, 0>>, Both, UNION {base(x) : x \in {0, 2, 12}},
                Upward(g, 0..g.num_power_bits)),
          honest(short, ReducingGate(short)), honest(long, ReducingExtensionGate(long)),
          alternating(ReducingGate(short), 5, 12), alternating(ReducingExtensionGate(long), 11, 4) }

CosetInstances ==
    LET start(g, shift, x, seed) ==
            (0 :> shift) @@ [col \in 1..(EvaluationPointWires(g) - 1) |-> (seed * col * col) % P]
                         @@ ExtCell(EvaluationPointWires(g), x)
        pair(col) == <<col, col + 1>>
        order(g) == pair(ShiftedEvaluationPointWires(g))
                    \o FlattenSeq([i \in 1..NumIntermediates(g) |->
                          pair(IntermediateEvalWires(g, i - 1)) \o pair(IntermediateProdWires(g, i - 1))])
                    \o pair(EvaluationValueWires(g))
        given(g, provers, shifts) ==
            Given(Config(30, 14, 2), g, <<0, 0>>, provers,
                  {start(g, shift, x, 9) : shift \in shifts, x \in {<<5, 0>>, <<3, 11>>}},
                  order(g))
    IN  UNION { {given(g, {"honest"}, {1, 7, 12}), given(g, {"any"}, {2})} :
                g \in {CosetInterpolationGate(1, 2), CosetInterpolationGate(2, 2),
                        CosetInterpolationGate(2, 3)} }

WordInstances ==
    LET one  == Config(10, 6, 2)
        two  == Config(20, 12, 2)
        cells(g, S) == [GeneratorInputs(g) -> S]
        given(cf, g, inputs) == Given(cf, g, <<0, 0>>, Both, inputs,
                                      Downward(g, GeneratorInputs(g)))
        mul1 == U32ArithmeticGate(one)
        mul2 == U32ArithmeticGate(two)
        add  == U32AddManyGate(one, 2)
        sub  == U32SubtractionGate(one)
        range(n) == U32RangeCheckGate(n)
    IN  { given(one, mul1, cells(mul1, Word)),
          Given(two, mul2, <<0, 0>>, {"honest"}, cells(mul2, {2, 3}), <<>>),
          given(one, add, {w \in cells(add, Word) : w[add.num_addends] \in {0, 1}}),
          given(one, sub, {w \in cells(sub, Word) : w[2] \in {0, 1}}),
          Given(one, range(2), <<0, 0>>, {"honest"}, cells(range(2), Word), <<>>),
          Given(one, range(1), <<0, 0>>, {"any"}, cells(range(1), Fp), Upward(range(1), {0})) }

ComparisonInstances ==
    LET cf == Config(30, 10, 2)
        inputs(bits) == [{0, 1} -> 0..(2^bits - 1)]
        order(g) ==
            LET n == ComparisonWires(g)
                chunks(start) == [i \in 1..g.num_chunks |-> start + i - 1]
            IN  chunks(n.first_chunk_val) \o chunks(n.second_chunk_val) \o chunks(n.chunks_equal)
                \o chunks(n.equality_dummy) \o chunks(n.intermediate_value)
                \o <<n.most_significant_diff>>
                \o [i \in 1..(ChunkBits(g) + 1) |-> n.most_significant_diff_bit + i - 1]
                \o <<n.result_bool>>
        given(bits, chunks, provers) ==
            LET g == ComparisonGate(bits, chunks)
            IN  Given(cf, g, <<0, 0>>, provers, inputs(bits), order(g))
    IN  {given(2, 2, Both), given(2, 1, Both), given(3, 3, {"honest"})}

PoseidonInstances ==
    LET start(a, b, c, swap) == (0 :> a) @@ (1 :> b) @@ (2 :> c) @@ (WireSwap :> swap)
        rows(S) == {start(a, b, 6, s) : a \in {0, 9}, b \in {1, 12}, s \in S}
        g   == [kind |-> "poseidon"]
        mds == [kind |-> "poseidon_mds"]
        order == Upward(g, GeneratorInputs(g) \cup {OutputWire(i) : i \in Cells})
                 \o [i \in 1..SpongeWidth |-> OutputWire(i - 1)]
    IN  { Given(Config(19, 12, 2), g, <<0, 0>>, {"honest"}, rows({0, 1}), <<>>),
          Given(Config(19, 11, 2), g, <<0, 0>>, {"honest"}, rows({0, 1}), <<>>),
          Given(Config(19, 12, 2), g, <<0, 0>>, {"any"}, rows({0, 1, 12}), order),
          Sampled(Config(12, 12, 2), mds, <<0, 0>>, {0, 5}) }

MCInstances == FieldInstances \cup BaseSumInstances \cup RandomAccessInstances \cup PowerInstances
               \cup CosetInstances \cup WordInstances \cup ComparisonInstances \cup PoseidonInstances
=============================================================================
