---------------------------- MODULE ProveCircuit ----------------------------
(***************************************************************************)
(* A circuit from its builder to a verified proof: the rows and the sigma  *)
(* polynomials that build lays out, the generators that fill the witness,  *)
(* the wires that the lookup argument adds to it, and the polynomials that *)
(* prove_with_partition_witness derives from the trace, up to the check    *)
(* that the verifier, and the recursive verifier, make at zeta.            *)
(*                                                                         *)
(* The trace may be altered before the prover commits to it, as by a       *)
(* prover with another witness.                                            *)
(***************************************************************************)
EXTENDS CircuitBuilder

CONSTANTS
    Instances,     \* a sequence of circuits with their inputs, alterations and challenges
    RandomValues,  \* what a RandomValueGenerator may draw
    Zetas          \* the points the polynomials are opened at

VARIABLES
    circuit,   \* index of the circuit
    data,      \* CommonCircuitData and ProverOnlyCircuitData
    phase,     \* the step of the prover
    pending,   \* generators that have not run
    witness,   \* PartitionWitness: of the representatives that have a value
    trace,     \* MatrixWitness: of each row, the values of its wires
    altered,   \* the alteration
    proof_challenges,
    wires_commitment, zs_commitment, quotient_commitment,
    verdict    \* of the verifier and of the recursive verifier
proof == <<proof_challenges, wires_commitment, zs_commitment, quotient_commitment, verdict>>
vars == <<circuit, data, phase, pending, witness, trace, altered, proof>>

---------------------------------------------------------------------------
(* Witness generation *)

RepOf(target) == data.representative_map[target]
HasValue(target) == RepOf(target) \in DOMAIN witness
Value(target) == witness[RepOf(target)]
RowValues(row) == [col \in {j \in 0..(data.config.num_wires - 1) : HasValue(<<row, j>>)} |->
                    Value(<<row, col>>)]

\* set_target of each target with an output; it fails on a second, different value.
SetAll(known, outputs) ==
    FoldSet(LAMBDA t, acc : (RepOf(t) :> outputs[t]) @@ acc, known, DOMAIN outputs)
Conflict(outputs) ==
    \E t \in DOMAIN outputs :
        \/ HasValue(t) /\ Value(t) # outputs[t]
        \/ \E u \in DOMAIN outputs : RepOf(u) = RepOf(t) /\ outputs[u] # outputs[t]
\* outputs of a gate's columns
InRow(row, outputs) == [t \in {<<row, col>> : col \in DOMAIN outputs} |-> outputs[t[2]]]

Dependencies(g) ==
    LET cells(cols) == {<<g.row, col>> : col \in cols}
    IN  CASE g.kind = "arithmetic" -> cells({4 * g.slot + k : k \in 0..2})
          [] g.kind = "lookup" -> cells({LookingInp(g.slot)})
          [] g.kind = "base_sum" -> cells({SumWire})
          [] g.kind = "exponentiation" ->
                cells({0} \cup {PowerBitWire(i) : i \in 0..(g.gate.num_power_bits - 1)})
          [] g.kind = "random_access" ->
                cells({RandomAccessWires(g.gate, g.slot).access_index}
                      \cup Range(RandomAccessWires(g.gate, g.slot).list_items))
          [] g.kind = "equality" -> {g.x, g.y}
          [] g.kind \in {"wire_split", "low_high"} -> {g.integer}
          [] g.kind = "base_sum_of" -> Range(g.limbs)
          [] OTHER -> {}
Ready(g) == \A t \in Dependencies(g) : HasValue(t)

\* The entry at the input itself when it has that input, or the first with the input.
LookupEntry(lut, x) ==
    IF x < Len(lut) /\ At(lut, x)[1] = x THEN x + 1
    ELSE SelectInSeq(lut, LAMBDA pair : pair[1] = x)
LookupRun(g, x) == Cell(LookingOut(g.slot), g.gate.lut[LookupEntry(g.gate.lut, x)][2])

\* The table from its last row up, padded with its first pair.
LookupTableRun(g) ==
    LET lut == g.gate.lut
        num_slots == NumLutSlots(data.config)
        first_row == g.gate.last_lut_row + CeilDiv(Len(lut), num_slots) - 1
        slot == (first_row - g.row) * num_slots + g.slot
        pair == IF slot < Len(lut) THEN At(lut, slot) ELSE lut[1]
    IN  Cell(LookedInp(g.slot), pair[1]) @@ Cell(LookedOut(g.slot), pair[2])

\* EqualityGenerator, WireSplitGenerator, LowHighGenerator and BaseSumGenerator
EqualityRun(g, x, y) ==
    (g.equal :> (IF x = y THEN 1 ELSE 0)) @@ (g.inv :> (IF x = y THEN 0 ELSE Inv(x - y)))
WireSplitRun(g, integer) ==
    LET sum(i) == (integer \div 2^(g.num_limbs * (i - 1))) % 2^g.num_limbs
    IN  FoldLeft(LAMBDA outs, i : (<<g.gates[i], SumWire>> :> sum(i)) @@ outs, <<>>,
                 [i \in DOMAIN g.gates |-> i])
LowHighRun(g, integer) ==
    (g.low :> integer % 2^g.n_log) @@ (g.high :> integer \div 2^g.n_log)
BaseSumOfRun(g, bits) == <<g.row, SumWire>> :> ReduceWithPowers(bits, 2)

Fails(g) == /\ g.kind = "lookup"
            /\ LookupEntry(g.gate.lut, Value(<<g.row, LookingInp(g.slot)>>)) = 0
GateOutputs(g, w, constants) ==
    CASE g.kind = "arithmetic" -> ArithmeticRun(g.gate, constants, w, g.slot)
      [] g.kind = "base_sum" -> BaseSumRun(g.gate, constants, w, g.slot)
      [] g.kind = "exponentiation" -> ExponentiationRun(g.gate, constants, w, g.slot)
      [] g.kind = "random_access" -> RandomAccessRun(g.gate, constants, w, g.slot)
      [] g.kind = "lookup" -> LookupRun(g, w[LookingInp(g.slot)])
      [] g.kind = "lookup_table" -> LookupTableRun(g)
Outputs(g) ==
    CASE g.kind = "random" -> {<<g.row, g.slot>> :> x : x \in RandomValues}
      [] g.kind = "constant" -> {InRow(g.row, ConstantGenerator(g.slot, g.constant))}
      [] g.kind = "equality" -> {EqualityRun(g, Value(g.x), Value(g.y))}
      [] g.kind = "wire_split" -> {WireSplitRun(g, Value(g.integer))}
      [] g.kind = "low_high" -> {LowHighRun(g, Value(g.integer))}
      [] g.kind = "base_sum_of" -> {BaseSumOfRun(g, [i \in DOMAIN g.limbs |-> Value(g.limbs[i])])}
      [] OTHER -> {InRow(g.row, GateOutputs(g, RowValues(g.row), data.rows[g.row + 1].constants))}

Init ==
    /\ circuit \in DOMAIN Instances
    /\ data = Build(Instances[circuit])
    /\ phase = "generators"
    /\ pending = DOMAIN data.generators
    /\ witness = [r \in {RepOf(t) : t \in DOMAIN Instances[circuit].inputs} |->
                    Instances[circuit].inputs[CHOOSE t \in DOMAIN Instances[circuit].inputs :
                                                RepOf(t) = r]]
    /\ trace = <<>> /\ altered = {} /\ proof_challenges = <<>>
    /\ wires_commitment = <<>> /\ zs_commitment = <<>> /\ quotient_commitment = <<>> /\ verdict = <<>>

\* generate_partial_witness: the first generator whose inputs are known.
RunGenerator ==
    /\ phase = "generators" /\ pending # {}
    /\ LET ready == {k \in pending : Ready(data.generators[k])}
           g == data.generators[Min(ready)]
       IN  IF ready = {} \/ Fails(g) \/ \E out \in Outputs(g) : Conflict(out)
           THEN phase' = "failed" /\ UNCHANGED <<pending, witness>>
           ELSE /\ \E out \in Outputs(g) : witness' = SetAll(witness, out)
                /\ pending' = pending \ {Min(ready)}
                /\ UNCHANGED phase
    /\ UNCHANGED <<circuit, data, trace, altered, proof>>

\* Unused slots of the last row of lookups, that the first pair of the table pads.
RemainingSlots(k) ==
    LET num_entries == NumLuSlots(data.config)
    IN  (num_entries - (Len(data.lut_to_lookups[k]) % num_entries)) % num_entries

\* How often each entry of table k is looked up: an input counts for its last entry, and the padding
\* for the first one.
MultiplicitiesOf(k, padding) ==
    LET lut == data.luts[k]
        index(x) == Max({i \in DOMAIN lut : lut[i][1] = x})
        looked(i) == {j \in DOMAIN data.lut_to_lookups[k] :
                        index(Value(data.lut_to_lookups[k][j][1])) = i}
    IN  [i \in DOMAIN lut |-> Cardinality(looked(i)) + (IF i = 1 THEN padding ELSE 0)]
\* Mutation of Multiplicities: the padding is not counted.
MultiplicitiesUnpadded(k) == MultiplicitiesOf(k, 0)
Multiplicities(k) == MultiplicitiesOf(k, RemainingSlots(k))

\* set_lookup_wires
SetLookupWires ==
    /\ phase = "generators" /\ pending = {}
    /\ LET num_entries == NumLuSlots(data.config)
           slots == NumLutSlots(data.config)
           padded(known, k) ==
               LET S == (num_entries - RemainingSlots(k))..(num_entries - 1)
                   outs == [col \in {LookingInp(s) : s \in S} |-> data.luts[k][1][1]]
                           @@ [col \in {LookingOut(s) : s \in S} |-> data.luts[k][1][2]]
               IN  SetAll(known, InRow(data.lookup_rows[k].last_lut_gate - 1, outs))
           counted(known, k) ==
               FoldLeft(LAMBDA acc, i :
                            SetAll(acc, InRow(data.lookup_rows[k].first_lut_gate - i \div slots,
                                         Cell(Multiplicity(i % slots), Multiplicities(k)[i + 1]))),
                        known, UpTo(Len(data.luts[k])))
       IN  witness' = FoldLeft(LAMBDA known, k : counted(padded(known, k), k), witness,
                              [k \in DOMAIN data.luts |-> k])
    /\ phase' = "witness"
    /\ UNCHANGED <<circuit, data, pending, trace, altered, proof>>

\* full_witness: a wire without a value is zero.
FullWitness ==
    [row \in 1..data.degree |->
        [j \in 1..data.config.num_wires |->
            IF HasValue(<<row - 1, j - 1>>) THEN Value(<<row - 1, j - 1>>) ELSE 0]]
\* An alteration adds to single wires, or to all wires that copy one.
Altered(rows, changes) ==
    [row \in DOMAIN rows |-> Computed([j \in DOMAIN rows[row] |->
        (rows[row][j]
         + MapThenSumSet(LAMBDA c : c.add,
             {c \in changes : \/ c.wire = <<row - 1, j - 1>>
                              \/ c.copies /\ RepOf(c.wire) = RepOf(<<row - 1, j - 1>>)})) % P])]
WireVecs(rows) ==
    [j \in 1..data.config.num_wires |-> [row \in 0..(data.degree - 1) |-> rows[row + 1][j]]]

CommitToWires ==
    /\ phase = "witness"
    /\ \E changes \in {{}} \cup Instances[circuit].alterations :
        /\ altered' = changes
        /\ trace' = Altered(FullWitness, changes)
    /\ wires_commitment' = FromValues(WireVecs(trace'), data.config.rate_bits)
    /\ phase' = "wires"
    /\ UNCHANGED <<circuit, data, pending, witness, proof_challenges, zs_commitment,
                   quotient_commitment, verdict>>

---------------------------------------------------------------------------
(* The polynomials of the permutation and lookup arguments *)

RowDenominators(row, beta, gamma) ==
    Denominators(data, [j \in DOMAIN data.sigmas |-> data.sigmas[j][row]], trace[row + 1], beta,
                 gamma)
\* wires_permutation_partial_products_and_zs: of each row the partial products, and last Z(x): the
\* product Z(g x) that ends the row is kept for the next one.
WiresPermutationPartialProductsAndZs(beta, gamma) ==
    LET num_prods == data.num_partial_products
        products(row) ==
            LET nums == Numerators(data, Subgroup(data.degree)[row], trace[row + 1], beta, gamma)
                invs == BatchInverse(RowDenominators(row, beta, gamma))
            IN  QuotientChunkProducts(Computed([j \in DOMAIN nums |-> (nums[j] * invs[j]) % P]),
                                      data.quotient_degree_factor)
        step(acc, row) ==
            LET accs == PartialProductsAndZGx(acc.z_x, products(row))
            IN  [z_x |-> accs[num_prods + 1],
                 rows |-> Append(acc.rows, [accs EXCEPT ![num_prods + 1] = acc.z_x])]
        rows == FoldLeft(step, [z_x |-> 1, rows |-> <<>>], UpTo(data.degree)).rows
    IN  [k \in 1..(num_prods + 1) |-> [row \in 0..(data.degree - 1) |-> rows[row + 1][k]]]

LookedAt(row, s, challenge) ==
    At(trace[row + 1], LookedInp(s)) + challenge * At(trace[row + 1], LookedOut(s))
LookingAt(row, s, challenge) ==
    At(trace[row + 1], LookingInp(s)) + challenge * At(trace[row + 1], LookingOut(s))
TableRows == UNION {l.last_lut_gate..l.first_lut_gate : l \in Range(data.lookup_rows)}
LookupRows == UNION {l.last_lu_gate..(l.last_lut_gate - 1) : l \in Range(data.lookup_rows)}
LookedDenominators(row, d) ==
    [s \in 1..NumLutSlots(data.config) |-> (d.alpha - LookedAt(row, s - 1, d.a)) % P]
LookingDenominators(row, d) ==
    [s \in 1..NumLuSlots(data.config) |-> (d.alpha - LookingAt(row, s - 1, d.a)) % P]

\* compute_lookup_polys: RE and the partial sums of a row, from those of the row below.
ComputeLookupPolys(d) ==
    LET num_lu == NumLuSlots(data.config)
        num_lut == NumLutSlots(data.config)
        max_lookup_degree == data.config.max_quotient_degree_factor - 1
        num_partial_lookups == CeilDiv(num_lu, max_lookup_degree)
        max_table_degree == CeilDiv(num_lut, num_partial_lookups)
        sums(prev, of(_)) ==
            Computed([k \in 1..num_partial_lookups |->
                (prev + MapThenSumSet(LAMBDA j : of(j), 0..(k - 1))) % P])
        table_row(row, next) ==
            LET invs == BatchInverse(LookedDenominators(row, d))
                term(k) == SumOf(LAMBDA s : At(trace[row + 1], Multiplicity(s)) * At(invs, s),
                                 ChunkOf(k, max_table_degree, num_lut))
            IN  << FoldLeft(LAMBDA acc, s : (acc * d.delta + LookedAt(row, s, d.b)) % P,
                            next[1], UpTo(num_lut)) >>
                \o sums(Last(next), term)
        lookup_row(row, next) ==
            LET invs == BatchInverse(LookingDenominators(row, d))
                term(k) == -SumOf(LAMBDA s : At(invs, s), ChunkOf(k, max_lookup_degree, num_lu))
            IN  <<0>> \o sums(Last(next), term)
        zero == [k \in 1..(num_partial_lookups + 1) |-> 0]
        step(row, below) ==
            << CASE row \in TableRows -> table_row(row, below[1])
                 [] row \in LookupRows -> lookup_row(row, below[1])
                 [] OTHER -> zero >> \o below
        rows == FoldRight(step, UpTo(data.degree), <<zero>>)
    IN  [k \in DOMAIN zero |-> Computed([row \in 0..(data.degree - 1) |-> rows[row + 1][k]])]

\* batch_multiplicative_inverse needs its elements to be invertible.
Divisible(ch) ==
    \A i \in 1..data.config.num_challenges :
        /\ \A row \in 0..(data.degree - 1) :
                Invertible(RowDenominators(row, ch.betas[i], ch.gammas[i]))
        /\ LET d == CurDeltas(Deltas(ch.betas, ch.gammas, ch.additional), i - 1)
           IN  /\ \A row \in TableRows : Invertible(LookedDenominators(row, d))
               /\ \A row \in LookupRows : Invertible(LookingDenominators(row, d))

CommitToZs ==
    /\ phase = "wires"
    /\ \E ch \in Instances[circuit].challenges :
        LET deltas == IF data.luts = <<>> THEN <<>> ELSE Deltas(ch.betas, ch.gammas, ch.additional)
            products == Computed([i \in 1..data.config.num_challenges |->
                            WiresPermutationPartialProductsAndZs(ch.betas[i], ch.gammas[i])])
            lookup_polys == [i \in Challenges(data) |-> ComputeLookupPolys(CurDeltas(deltas, i - 1))]
        IN  IF Divisible(ch)
            THEN /\ proof_challenges' = [betas |-> ch.betas, gammas |-> ch.gammas, deltas |-> deltas,
                                   alphas |-> ch.alphas]
                 /\ zs_commitment' = FromValues([i \in DOMAIN products |-> Last(products[i])]
                                     \o FlattenSeq([i \in DOMAIN products |-> Front(products[i])])
                                     \o FlattenSeq(lookup_polys),
                                     data.config.rate_bits)
                 /\ phase' = "zs"
            ELSE phase' = "failed" /\ UNCHANGED <<proof_challenges, zs_commitment>>
    /\ UNCHANGED <<circuit, data, pending, witness, trace, altered, wires_commitment,
                   quotient_commitment, verdict>>

---------------------------------------------------------------------------
(* The quotient, and the openings *)

\* The ranges of CommonCircuitData: what the values of the batches at a point are values of.
EvaluationVars(constants_sigmas, local_wires, local_zs, next_zs) ==
    LET num_challenges == data.config.num_challenges
        num_zs == num_challenges * (1 + data.num_partial_products)
        num_lookups == num_challenges * data.num_lookup_polys
    IN  [constants |-> Slice(constants_sigmas, 0, data.num_constants),
         sigmas |-> Slice(constants_sigmas, data.num_constants, data.config.num_routed_wires),
         wires |-> local_wires, hash |-> PublicInputsHash,
         zs |-> Slice(local_zs, 0, num_challenges), next_zs |-> Slice(next_zs, 0, num_challenges),
         partial_products |-> Slice(local_zs, num_challenges, num_zs - num_challenges),
         lookup_zs |-> Slice(local_zs, num_zs, num_lookups),
         next_lookup_zs |-> Slice(next_zs, num_zs, num_lookups)]

\* compute_quotient_polys: every step-th value of the commitments, on a coset just large enough.
ComputeQuotientPolys ==
    LET quotient_degree_bits == Log2Ceil(data.quotient_degree_factor)
        step == 2^(data.config.rate_bits - quotient_degree_bits)
        next_step == 2^quotient_degree_bits
        lde_size == data.degree * next_step
        points == Subgroup(lde_size)
        z_h_on_coset == ZeroPolyOnCoset(data.degree, next_step)
        at(i) == [index |-> i, x |-> (CosetShift * points[i]) % P,
                  v |-> EvaluationVars(GetLdeValues(data.constants_sigmas, i, step),
                                       GetLdeValues(wires_commitment, i, step),
                                       GetLdeValues(zs_commitment, i, step),
                                       GetLdeValues(zs_commitment, (i + next_step) % lde_size, step))]
        vanishing == Computed(EvalVanishingPolyBaseBatch(data, [k \in 1..lde_size |-> at(k - 1)],
                                                         proof_challenges, z_h_on_coset))
        inverses == [i \in DOMAIN z_h_on_coset |-> Inv(z_h_on_coset[i])]
    IN  [c \in 1..data.config.num_challenges |->
            CosetIfft(Computed([i \in 0..(lde_size - 1) |->
                        (vanishing[i + 1][c] * inverses[i % next_step]) % P]))]

\* "Quotient has failed, the vanishing polynomial is not divisible by Z_H"
CommitToQuotient ==
    /\ phase = "zs"
    /\ LET polys == Computed(ComputeQuotientPolys)
           chunks == [c \in DOMAIN polys |->
                        Chunks(polys[c], data.quotient_degree_factor, data.degree)]
       IN  IF \A c \in DOMAIN polys : Trimmable(polys[c], data.quotient_degree_factor * data.degree)
           THEN /\ quotient_commitment' = FromCoeffs(FlattenSeq(chunks), data.config.rate_bits)
                /\ phase' = "quotient"
           ELSE phase' = "refused" /\ UNCHANGED quotient_commitment
    /\ UNCHANGED <<circuit, data, pending, witness, trace, altered, proof_challenges,
                   wires_commitment, zs_commitment, verdict>>

\* The opening of every polynomial at zeta, and of the Z and lookup ones at the next point.
Openings(zeta) ==
    EvaluationVars(EvalCommitment(data.constants_sigmas, zeta),
                   EvalCommitment(wires_commitment, zeta), EvalCommitment(zs_commitment, zeta),
                   EvalCommitment(zs_commitment, (RootOfUnity(data.degree) * zeta) % P))
\* vanishing(zeta) = Z_H(zeta) quotient(zeta), for each of the challenges
QuotientCheck(vanishing, zeta) ==
    LET zeta_pow_deg == Power(zeta, data.degree)
        quotient_polys == EvalCommitment(quotient_commitment, zeta)
        chunk(i) == Slice(quotient_polys, (i - 1) * data.quotient_degree_factor,
                          data.quotient_degree_factor)
    IN  \A i \in DOMAIN vanishing :
            vanishing[i] = ((zeta_pow_deg - 1) * ReduceWithPowers(chunk(i), zeta_pow_deg)) % P
VerifyWithChallenges(zeta) ==
    QuotientCheck(EvalVanishingPoly(data, zeta, Openings(zeta), proof_challenges), zeta)
VerifyProofWithChallenges(zeta) ==
    QuotientCheck(EvalVanishingPolyCircuit(data, zeta, Power(zeta, data.degree), Openings(zeta),
                                           proof_challenges), zeta)

\* "Opening point is in the subgroup."
Open ==
    /\ phase = "quotient"
    /\ \E zeta \in Zetas :
        IF Power(zeta, data.degree) = 1 THEN phase' = "failed" /\ UNCHANGED verdict
        ELSE /\ verdict' = [verifier |-> VerifyWithChallenges(zeta),
                            recursive |-> VerifyProofWithChallenges(zeta)]
             /\ phase' = "verified"
    /\ UNCHANGED <<circuit, data, pending, witness, trace, altered, proof_challenges,
                   wires_commitment, zs_commitment, quotient_commitment>>

Next == RunGenerator \/ SetLookupWires \/ CommitToWires \/ CommitToZs \/ CommitToQuotient \/ Open
Spec == Init /\ [][Next]_vars

---------------------------------------------------------------------------
(* What a trace must satisfy, row by row and wire by wire *)

RowsHold ==
    \A row \in 0..(data.degree - 1) :
        LET r == data.rows[row + 1]
            w == [j \in 0..(data.config.num_wires - 1) |-> trace[row + 1][j + 1]]
            c == r.constants \o <<0, 0>>
        IN  CASE r.gate.kind = "arithmetic" -> ArithmeticHolds(r.gate, c, w)
              [] r.gate.kind = "base_sum" -> BaseSumHolds(r.gate, c, w)
              [] r.gate.kind = "constant" -> ConstantHolds(r.gate, c, w)
              [] r.gate.kind = "exponentiation" -> ExponentiationHolds(r.gate, c, w)
              [] r.gate.kind = "random_access" -> RandomAccessHolds(r.gate, c, w)
              [] r.gate.kind = "public_input" -> \A j \in PublicInputsHashWires : w[j] = 0
              [] OTHER -> TRUE
CopiesHold ==
    \A row, other \in 0..(data.degree - 1) : \A j, k \in 0..(data.config.num_routed_wires - 1) :
        RepOf(<<row, j>>) = RepOf(<<other, k>>) => trace[row + 1][j + 1] = trace[other + 1][k + 1]

Pair(row, col) == <<At(trace[row + 1], col), At(trace[row + 1], col + 1)>>
TableHolds(k) ==
    LET l == data.lookup_rows[k]
        num_slots == NumLutSlots(data.config)
    IN  \A row \in l.last_lut_gate..l.first_lut_gate, s \in 0..(num_slots - 1) :
            LET i == (l.first_lut_gate - row) * num_slots + s + 1
            IN  Pair(row, LookedInp(s)) = (IF i \in DOMAIN data.luts[k] THEN data.luts[k][i]
                                           ELSE data.luts[k][1])
\* A pair is looked up as often as the multiplicities of its entries say.
LookupsCounted(k) ==
    LET l == data.lookup_rows[k]
        slots == (l.last_lu_gate..(l.last_lut_gate - 1)) \X (0..(NumLuSlots(data.config) - 1))
        entries == (l.last_lut_gate..l.first_lut_gate) \X (0..(NumLutSlots(data.config) - 1))
        looking(pair) == {t \in slots : Pair(t[1], LookingInp(t[2])) = pair}
        looked(pair) == {t \in entries : Pair(t[1], LookedInp(t[2])) = pair}
    IN  \A pair \in {Pair(t[1], LookingInp(t[2])) : t \in slots} \cup Range(data.luts[k]) :
            Cardinality(looking(pair)) % P
                = MapThenSumSet(LAMBDA t : At(trace[t[1] + 1], Multiplicity(t[2])), looked(pair)) % P
Satisfied ==
    RowsHold /\ CopiesHold /\ \A k \in DOMAIN data.luts : TableHolds(k) /\ LookupsCounted(k)

\* What the author of a circuit reads in a call: a are its arguments' values and r its results'.
IsBit(x) == x \in {0, 1}
BitSum(bits) == MapThenSumSet(LAMBDA i : bits[i] * 2^(i-1), DOMAIN bits)
Means(call, a, r) ==
    LET n == call.params
    IN  CASE call.gadget = "arithmetic" -> r[1] = (n[1] * a[1] * a[2] + n[2] * a[3]) % P
          [] call.gadget = "add_many" -> r[1] = SumOf(LAMBDA i : a[i], DOMAIN a)
          [] call.gadget = "mul_many" -> r[1] = ProductOf(LAMBDA i : a[i], DOMAIN a)
          [] call.gadget = "sub" -> r[1] = (a[1] - a[2]) % P
          [] call.gadget = "neg" -> (r[1] + a[1]) % P = 0
          [] call.gadget = "not" -> IsBit(a[1]) => r[1] = 1 - a[1]
          [] call.gadget = "and" -> IsBit(a[1]) /\ IsBit(a[2]) =>
                                        IsBit(r[1]) /\ (r[1] = 1 <=> a[1] = 1 /\ a[2] = 1)
          [] call.gadget = "or" -> IsBit(a[1]) /\ IsBit(a[2]) =>
                                        IsBit(r[1]) /\ (r[1] = 1 <=> a[1] = 1 \/ a[2] = 1)
          [] call.gadget \in {"if", "select"} ->
                IsBit(a[1]) => r[1] = IF a[1] = 1 THEN a[2] ELSE a[3]
          [] call.gadget = "assert_bool" -> IsBit(a[1])
          [] call.gadget = "conditional_assert_eq" -> a[1] # 0 => a[2] = a[3]
          [] call.gadget = "is_equal" -> IsBit(r[1]) /\ (r[1] = 1 <=> a[1] = a[2])
          [] call.gadget = "split_le" -> /\ \A i \in DOMAIN r : IsBit(r[i])
                                         /\ BitSum(r) % P = a[1]
          [] call.gadget = "split_low_high" -> /\ r[1] < 2^n[1] /\ r[2] < 2^(n[2] - n[1])
                                               /\ (r[1] + 2^n[1] * r[2]) % P = a[1]
          [] call.gadget = "le_sum" -> (\A i \in DOMAIN a : IsBit(a[i])) => r[1] = BitSum(a)
          [] call.gadget = "exp_from_bits" ->
                (\A i \in DOMAIN Tail(a) : IsBit(Tail(a)[i])) => r[1] = Power(a[1], BitSum(Tail(a)))
          [] call.gadget = "exp_u64" -> r[1] = Power(a[1], n[1])
          [] call.gadget = "exp_power_of_2" -> r[1] = Power(a[1], 2^n[1])
          [] call.gadget = "exp_from_bits_const_base" ->
                (\A i \in DOMAIN a : IsBit(a[i])) => r[1] = Power(n[1], BitSum(a))
          [] call.gadget = "random_access" ->
                /\ a[1] < Len(PadList(Tail(a)))
                /\ r[1] = PadList(Tail(a))[a[1] + 1]
\* The value the trace has for a target that some wire is a copy of.
Traced(t) ==
    IF IsConstant(t) THEN t[2]
    ELSE LET w == CHOOSE w \in DOMAIN data.representative_map : w[1] >= 0 /\ RepOf(w) = RepOf(t)
         IN  trace[w[1] + 1][w[2] + 1]
ResultsHold ==
    \A k \in DOMAIN Instances[circuit].calls :
        LET call == Instances[circuit].calls[k]
        IN  Means(call, [i \in DOMAIN call.args |-> Traced(call.args[i])],
                  [i \in DOMAIN call.out |-> Traced(call.out[i])])

\* The generators fill in a witness, unless an input is in no entry of its table. The prover derives a
\* proof from that witness, and from any trace that satisfies the circuit, and both verifiers accept
\* it: whatever the rows that padding, unused slots and lookup wires leave, and however the degrees
\* split the products and the sums.
SatisfiedIsProved ==
    /\ phase = "failed" /\ trace = <<>> =>
        \E k \in pending : Ready(data.generators[k]) /\ Fails(data.generators[k])
    /\ phase \in {"refused", "verified"} /\ (altered = {} \/ Satisfied) =>
        phase = "verified" /\ verdict.verifier /\ verdict.recursive

\* A trace that one of the verifiers accepts satisfies the constraints of its rows, its copies are
\* equal, the rows of tables hold the tables, and each lookup is counted where it is in the table. And
\* the gadgets then say what their callers read in them, although they share rows, constants and
\* earlier results.
ProvedIsSatisfied ==
    phase = "verified" /\ (verdict.verifier \/ verdict.recursive) => Satisfied /\ ResultsHold
=============================================================================
