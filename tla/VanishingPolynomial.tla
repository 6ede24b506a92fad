------------------------- MODULE VanishingPolynomial -------------------------
(***************************************************************************)
(* The vanishing polynomial of a circuit at a point: a random combination  *)
(* of the gates' constraints, each behind the filter of its gate, of the   *)
(* terms of the permutation argument and of those of the lookup argument.  *)
(* The prover evaluates it on a coset, the verifier at zeta, and the       *)
(* recursive verifier in a circuit (plonk/vanishing_poly.rs).              *)
(*                                                                         *)
(* cd is the CommonCircuitData. v holds the polynomials' values at x, and  *)
(* those of the Z and lookup polynomials at g * x.                         *)
(***************************************************************************)
EXTENDS Polynomials, FieldGates

CONSTANT UnusedSelector   \* UNUSED_SELECTOR, the index of no gate
ASSUME UnusedAssumption == UnusedSelector \in Fp

Slice(s, from, n) == SubSeq(s, from + 1, from + n)

---------------------------------------------------------------------------
(* The gates of these circuits, besides FieldGates' *)

NumLuSlots(cf) == cf.num_routed_wires \div 2
LookingInp(s) == 2*s
LookingOut(s) == 2*s + 1

NumLutSlots(cf) == cf.num_routed_wires \div 3
LookedInp(s) == 3*s
LookedOut(s) == 3*s + 1
Multiplicity(s) == 3*s + 2

NoopGate == [kind |-> "noop"]
PublicInputGate == [kind |-> "public_input"]
PublicInputsHashWires == 0..3
LookupGate(lut) == [kind |-> "lookup", lut |-> lut]
LookupTableGate(lut, last_lut_row) ==
    [kind |-> "lookup_table", lut |-> lut, last_lut_row |-> last_lut_row]

\* in the order of their ids
GateNames == <<"arithmetic", "base_sum", "constant", "exponentiation", "lookup", "lookup_table",
               "noop", "public_input", "random_access">>
Degree(g) ==
    CASE g.kind = "arithmetic" -> 3
      [] g.kind = "base_sum" -> g.base
      [] g.kind = "exponentiation" -> 4
      [] g.kind = "random_access" -> g.bits + 1
      [] g.kind \in {"constant", "public_input"} -> 1
      [] OTHER -> 0
NumConstants(g) ==
    CASE g.kind = "arithmetic" -> 2
      [] g.kind = "constant" -> g.num_consts
      [] g.kind = "random_access" -> g.num_extra_constants
      [] OTHER -> 0
NumConstraints(g) ==
    CASE g.kind = "arithmetic" -> g.num_ops
      [] g.kind = "base_sum" -> 1 + g.num_limbs
      [] g.kind = "constant" -> g.num_consts
      [] g.kind = "exponentiation" -> g.num_power_bits + 1
      [] g.kind = "public_input" -> Cardinality(PublicInputsHashWires)
      [] g.kind = "random_access" -> g.num_copies * (g.bits + 2) + g.num_extra_constants
      [] OTHER -> 0

\* eval_unfiltered of each gate
ArithmeticConstraints(g, c, w) ==
    [i \in 1..g.num_ops |->
        LET n == ArithmeticWires(i - 1)
        IN  (At(w, n.output) - At(w, n.multiplicand_0) * At(w, n.multiplicand_1) * c[1]
             - At(w, n.addend) * c[2]) % P]
BaseSumConstraints(g, w) ==
    << (ReduceWithPowers(Slice(w, LimbWire(0), g.num_limbs), g.base) - At(w, SumWire)) % P >>
    \o [i \in 1..g.num_limbs |-> ProductOf(LAMBDA k : At(w, LimbWire(i - 1)) - k, 0..(g.base - 1))]
ExponentiationConstraints(g, w) ==
    LET n == g.num_power_bits
        value(i) == At(w, IntermediateValueWire(g, i))
        cur_bit(i) == At(w, PowerBitWire(n - i - 1))
        prev(i) == IF i = 0 THEN 1 ELSE (value(i - 1) * value(i - 1)) % P
    IN  [k \in 1..n |->
            (prev(k - 1) * ((cur_bit(k - 1) * w[1] + 1 - cur_bit(k - 1)) % P) - value(k - 1)) % P]
        \o << (At(w, PowerOutputWire(g)) - value(n - 1)) % P >>
RandomAccessConstraints(g, c, w) ==
    LET of(n) ==
            [i \in 1..g.bits |-> (At(w, n.bits[i - 1]) * (At(w, n.bits[i - 1]) - 1)) % P]
            \o << (FoldRight(LAMBDA i, acc : 2 * acc + At(w, n.bits[i]), UpTo(g.bits), 0)
                   - At(w, n.access_index)) % P,
                  (FoldList(g, [i \in DOMAIN n.bits |-> At(w, n.bits[i])],
                            [i \in DOMAIN n.list_items |-> At(w, n.list_items[i])])
                   - At(w, n.claimed_element)) % P >>
    IN  FlattenSeq([copy \in 1..g.num_copies |-> of(RandomAccessWires(g, copy - 1))])
        \o [i \in 1..g.num_extra_constants |-> (c[i] - At(w, ExtraConstantWire(g, i - 1))) % P]
GateConstraints(g, c, w, hash) ==
    CASE g.kind = "arithmetic" -> ArithmeticConstraints(g, c, w)
      [] g.kind = "base_sum" -> BaseSumConstraints(g, w)
      [] g.kind = "constant" -> [i \in 1..g.num_consts |-> (c[i] - w[i]) % P]
      [] g.kind = "exponentiation" -> ExponentiationConstraints(g, w)
      [] g.kind = "public_input" -> [i \in 1..4 |-> (w[i] - hash[i]) % P]
      [] g.kind = "random_access" -> RandomAccessConstraints(g, c, w)
      [] OTHER -> <<>>

---------------------------------------------------------------------------
(* Selectors *)

\* The groups of gates that share a selector polynomial, as the index each starts at: a gate joins
\* the current one while the filter and its degree stay below max_degree.
GroupStarts(gates, max_degree) ==
    LET n == Len(gates)
        single == Degree(gates[n]) + n - 1 <= max_degree
        start[i \in 0..(n-1)] ==
            IF i = 0 THEN 0
            ELSE LET s == start[i-1]
                 IN  IF single \/ (i - s) + Degree(At(gates, i)) < max_degree THEN s ELSE i
    IN  [i \in 1..n |-> start[i - 1]]

NumSelectors(cd) == Cardinality(Range(cd.group_starts))
SelectorIndex(cd, i) == Cardinality({s \in Range(cd.group_starts) : s < At(cd.group_starts, i)})
Group(cd, i) == {j \in 0..(Len(cd.gates) - 1) : At(cd.group_starts, j) = At(cd.group_starts, i)}

\* compute_filter: not zero when s is the index i of the gate.
Filter(cd, i, s) ==
    ProductOf(LAMBDA k : k - s,
              (Group(cd, i) \ {i}) \cup (IF NumSelectors(cd) > 1 THEN {UnusedSelector} ELSE {}))

\* LookupSelectors
TransSre == 0
TransLdc == 1
InitSre == 2
LastLdc == 3
StartEnd == 4
LookupSelectors(cd, v) == Slice(v.constants, NumSelectors(cd), cd.num_lookup_selectors)
LocalConstants(cd, v) ==
    LET prefix == NumSelectors(cd) + cd.num_lookup_selectors
    IN  Slice(v.constants, prefix, cd.num_constants - prefix)

\* eval_filtered, of the gate at an index
EvalFiltered(cd, v, i) ==
    LET filter == Filter(cd, i, At(v.constants, SelectorIndex(cd, i)))
        constraints == GateConstraints(At(cd.gates, i), LocalConstants(cd, v), v.wires, v.hash)
    IN  [c \in DOMAIN constraints |-> (filter * constraints[c]) % P]

\* Each gate adds its filtered constraints to the first sums.
EvaluateGateConstraints(cd, v) ==
    LET filtered == [i \in DOMAIN cd.gates |-> EvalFiltered(cd, v, i - 1)]
    IN  [c \in 1..cd.num_gate_constraints |->
            SumOf(LAMBDA i : filtered[i][c], {i \in DOMAIN cd.gates : c <= Len(filtered[i])})]

\* The circuit accumulates gate by gate.
EvaluateGateConstraintsCircuit(cd, v) ==
    LET add(all, i) ==
            LET c == EvalFiltered(cd, v, i)
            IN  [j \in DOMAIN all |->
                    IF j \in DOMAIN c THEN (c[j] + all[j]) % P ELSE all[j]]
    IN  FoldLeft(add, [c \in 1..cd.num_gate_constraints |-> 0], UpTo(Len(cd.gates)))

---------------------------------------------------------------------------
(* The permutation argument *)

NumPartialProducts(n, max_degree) == CeilDiv(n, max_degree) - 1
ChunkOf(k, size, n) == (k * size)..(Lesser((k + 1) * size, n) - 1)
QuotientChunkProducts(values, max_degree) ==
    [c \in 1..CeilDiv(Len(values), max_degree) |->
        ProductOf(LAMBDA j : At(values, j), ChunkOf(c - 1, max_degree, Len(values)))]

\* The products of the fractions so far, from Z(x) to Z(g x).
PartialProductsAndZGx(z_x, chunk_products) ==
    LET accs[i \in 0..Len(chunk_products)] ==
            IF i = 0 THEN z_x ELSE (accs[i - 1] * chunk_products[i]) % P
    IN  [i \in DOMAIN chunk_products |-> accs[i]]

CheckPartialProducts(numerators, denominators, partials, z_x, z_gx, max_degree) ==
    LET accs == <<z_x>> \o partials \o <<z_gx>>
        num == QuotientChunkProducts(numerators, max_degree)
        den == QuotientChunkProducts(denominators, max_degree)
    IN  [c \in DOMAIN num |-> (accs[c] * num[c] - accs[c + 1] * den[c]) % P]

Numerators(cd, x, wires, beta, gamma) ==
    [j \in 1..cd.config.num_routed_wires |->
                (wires[j] + beta * ((cd.k_is[j] * x) % P) + gamma) % P]
Denominators(cd, sigmas, wires, beta, gamma) ==
    [j \in 1..cd.config.num_routed_wires |-> (wires[j] + beta * sigmas[j] + gamma) % P]

---------------------------------------------------------------------------
(* The lookup argument *)

NumCoinsLookup == 4
\* The betas and gammas are used again, before further challenges.
Deltas(betas, gammas, additional) == betas \o gammas \o additional
CurDeltas(deltas, i) ==
    LET d == Slice(deltas, NumCoinsLookup * i, NumCoinsLookup)
    IN  [a |-> d[1], b |-> d[2], alpha |-> d[3], delta |-> d[4]]

LutRowNumber(cd, r) == CeilDiv(Len(cd.luts[r]), NumLutSlots(cd.config))
\* The combinations of the table's pairs, padded with the first one, last to first.
GetLutPoly(cd, r, d) ==
    LET lut == cd.luts[r]
        degree == LutRowNumber(cd, r) * NumLutSlots(cd.config)
        pair(i) == IF i <= Len(lut) THEN lut[i] ELSE lut[1]
    IN  [k \in 0..(degree - 1) |-> (pair(degree - k)[1] + d.b * pair(degree - k)[2]) % P]
LutRePolyEvals(cd, d) ==
    [r \in DOMAIN cd.luts |-> PolyEval(GetLutPoly(cd, r, d), d.delta)]

\* The circuit reads the table in order, by Horner's rule.
GetLutPolyCircuit(cd, r, d) ==
    LET lut == cd.luts[r]
        padding == LutRowNumber(cd, r) * NumLutSlots(cd.config) - Len(lut)
    IN  FoldLeft(LAMBDA acc, pair : (acc * d.delta + pair[2] * d.b + pair[1]) % P, 0,
                 lut \o [i \in 1..padding |-> lut[1]])

Combo(v, inp, out, challenge) == (At(v.wires, inp) + challenge * At(v.wires, out)) % P
LuDegree(cd) == cd.quotient_degree_factor - 1
LutDegree(cd, num_sldc_polys) == CeilDiv(NumLutSlots(cd.config), num_sldc_polys)

\* zs and next hold RE and then the partial sums, that Sum and LDC share.
CheckLookupConstraintsBatch(cd, v, zs, next, d, lut_re_poly_evals) ==
    LET sel == LookupSelectors(cd, v)
        num_lut == NumLutSlots(cd.config)
        num_sldc_polys == Len(zs) - 1
        z(poly) == zs[poly + 2]
        prev(poly) == IF poly = 0 THEN next[num_sldc_polys + 1] ELSE z(poly - 1)
        looked(s) == d.alpha - Combo(v, LookedInp(s), LookedOut(s), d.a)
        looking(s) == d.alpha - Combo(v, LookingInp(s), LookingOut(s), d.a)
        re_line == FoldLeft(LAMBDA acc, s :
                                (acc * d.delta + Combo(v, LookedInp(s), LookedOut(s), d.b)) % P,
                            next[1], UpTo(num_lut))
        sum_line(poly) ==
            LET S == ChunkOf(poly, LutDegree(cd, num_sldc_polys), num_lut)
            IN  ProductOf(looked, S) * (z(poly) - prev(poly))
                - SumOf(LAMBDA i : At(v.wires, Multiplicity(i)) * ProductOf(looked, S \ {i}), S)
        ldc_line(poly) ==
            LET S == ChunkOf(poly, LuDegree(cd), NumLuSlots(cd.config))
            IN  ProductOf(looking, S) * (z(poly) - prev(poly))
                + SumOf(LAMBDA i : ProductOf(looking, S \ {i}), S)
    IN  << (At(sel, LastLdc) * z(num_sldc_polys - 1)) % P,
           (At(sel, InitSre) * z(0)) % P,
           (At(sel, InitSre) * zs[1]) % P >>
        \o [r \in DOMAIN cd.luts |-> (At(sel, StartEnd + r - 1) * (zs[1] - lut_re_poly_evals[r])) % P]
        \o << (At(sel, TransSre) * (zs[1] - re_line)) % P >>
        \o FlattenSeq([p \in 1..num_sldc_polys |->
                        << (At(sel, TransSre) * (sum_line(p - 1) % P)) % P,
                           (At(sel, TransLdc) * (ldc_line(p - 1) % P)) % P >>])
CheckLookupConstraints(cd, v, zs, next, d) ==
    CheckLookupConstraintsBatch(cd, v, zs, next, d, LutRePolyEvals(cd, d))

\* In the circuit: products and sums built up term by term.
CheckLookupConstraintsCircuit(cd, v, zs, next, d) ==
    LET sel == LookupSelectors(cd, v)
        sldcs == Tail(zs)
        next_sldcs == Tail(next)
        lut_degree == LutDegree(cd, Len(sldcs))
        looked_combos == [s \in 1..NumLutSlots(cd.config) |-> Combo(v, 3*(s-1), 3*(s-1) + 1, d.a)]
        looking_combos == [s \in 1..NumLuSlots(cd.config) |-> Combo(v, 2*(s-1), 2*(s-1) + 1, d.a)]
        lookup_combos == [s \in 1..NumLutSlots(cd.config) |-> Combo(v, 3*(s-1), 3*(s-1) + 1, d.b)]
        subs(combos) == [s \in DOMAIN combos |-> d.alpha - combos[s]]
        chunk(s, k, size) == SubSeq(s, k * size + 1, Lesser((k + 1) * size, Len(s)))
        product(s) == FoldLeft(LAMBDA acc, e : (acc * e) % P, 1, s)
        sum_prods(s, factors) ==
            FoldLeft(LAMBDA acc, i : (product(RemoveAt(s, i)) * factors[i] + acc) % P, 0,
                     [i \in DOMAIN s |-> i])
        lines(k) ==
            LET lut_subs == chunk(subs(looked_combos), k, lut_degree)
                lu_subs == chunk(subs(looking_combos), k, LuDegree(cd))
                muls == [i \in DOMAIN lut_subs |-> At(v.wires, 3*(k * lut_degree + i - 1) + 2)]
                cur_sub == sldcs[k + 1] - (IF k = 0 THEN Last(next_sldcs) ELSE sldcs[k])
            IN  << (At(sel, TransSre)
                    * ((product(lut_subs) * cur_sub - sum_prods(lut_subs, muls)) % P)) % P,
                   (At(sel, TransLdc)
                    * ((product(lu_subs) * cur_sub
                        + sum_prods(lu_subs, [i \in DOMAIN lu_subs |-> 1])) % P)) % P >>
        cur_re == FoldLeft(LAMBDA acc, e : (acc * d.delta + e) % P, next[1], lookup_combos)
    IN  << (At(sel, LastLdc) * Last(sldcs)) % P, (At(sel, InitSre) * sldcs[1]) % P,
           (At(sel, InitSre) * zs[1]) % P >>
        \o [r \in DOMAIN cd.luts |->
                (At(sel, StartEnd + r - 1) * (zs[1] - GetLutPolyCircuit(cd, r, d))) % P]
        \o << (At(sel, TransSre) * (zs[1] - cur_re)) % P >>
        \o FlattenSeq([k \in 1..Len(sldcs) |-> lines(k - 1)])

---------------------------------------------------------------------------
(* All the terms *)

\* challenges has the betas, gammas, deltas and alphas; l_0 is L_0(x).
VanishingTerms(cd, x, v, challenges, l_0, lookup_terms, constraint_terms) ==
    LET num_prods == cd.num_partial_products
        products(i) ==
            LET beta == challenges.betas[i]
                gamma == challenges.gammas[i]
            IN  CheckPartialProducts(Numerators(cd, x, v.wires, beta, gamma),
                                     Denominators(cd, v.sigmas, v.wires, beta, gamma),
                                     Slice(v.partial_products, (i - 1) * num_prods, num_prods),
                                     v.zs[i], v.next_zs[i], cd.quotient_degree_factor)
    IN  [i \in DOMAIN v.zs |-> (l_0 * (v.zs[i] - 1)) % P]
        \o FlattenSeq([i \in DOMAIN v.zs |-> products(i)])
        \o FlattenSeq(lookup_terms)
        \o constraint_terms

\* The terms reduced with each alpha.
Reduced(terms, alphas) == [i \in DOMAIN alphas |-> ReduceWithPowers(terms, alphas[i])]

Challenges(cd) == IF cd.num_lookup_polys = 0 THEN {} ELSE 1..cd.config.num_challenges
CurLookupZs(cd, zs, i) == Slice(zs, cd.num_lookup_polys * (i - 1), cd.num_lookup_polys)

EvalVanishingPoly(cd, x, v, challenges) ==
    LET lookup_terms == [i \in Challenges(cd) |->
            CheckLookupConstraints(cd, v, CurLookupZs(cd, v.lookup_zs, i),
                                   CurLookupZs(cd, v.next_lookup_zs, i),
                                   CurDeltas(challenges.deltas, i - 1))]
    IN  Reduced(VanishingTerms(cd, x, v, challenges, EvalL0(cd.degree, x), lookup_terms,
                               EvaluateGateConstraints(cd, v)),
                challenges.alphas)

\* On a batch of points of the coset: L_0 from the values of Z_H there, and each table's polynomial
\* evaluated once.
EvalVanishingPolyBaseBatch(cd, batch, challenges, z_h_on_coset) ==
    LET evals == [i \in Challenges(cd) |-> LutRePolyEvals(cd, CurDeltas(challenges.deltas, i - 1))]
        lookup_terms(v) == [i \in Challenges(cd) |->
            CheckLookupConstraintsBatch(cd, v, CurLookupZs(cd, v.lookup_zs, i),
                                        CurLookupZs(cd, v.next_lookup_zs, i),
                                        CurDeltas(challenges.deltas, i - 1), evals[i])]
        at(p) == VanishingTerms(cd, p.x, p.v, challenges,
                                EvalL0OnCoset(z_h_on_coset, cd.degree, p.index, p.x),
                                lookup_terms(p.v), EvaluateGateConstraints(cd, p.v))
    IN  [k \in DOMAIN batch |-> Reduced(at(batch[k]), challenges.alphas)]

EvalVanishingPolyCircuit(cd, x, x_pow_deg, v, challenges) ==
    LET lookup_terms == [i \in Challenges(cd) |->
            CheckLookupConstraintsCircuit(cd, v, CurLookupZs(cd, v.lookup_zs, i),
                                          CurLookupZs(cd, v.next_lookup_zs, i),
                                          CurDeltas(challenges.deltas, i - 1))]
    IN  Reduced(VanishingTerms(cd, x, v, challenges, EvalL0Circuit(cd.degree, x, x_pow_deg),
                               lookup_terms, EvaluateGateConstraintsCircuit(cd, v)),
                challenges.alphas)
=============================================================================
