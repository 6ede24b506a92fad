---------------------------- MODULE CircuitBuilder ----------------------------
(***************************************************************************)
(* plonky2's CircuitBuilder: rows with their constants, copy constraints   *)
(* between targets, generators, and the gadgets that are made of them      *)
(* (gadgets/arithmetic.rs, select.rs, split_join.rs, split_base.rs,        *)
(* range_check.rs, random_access.rs, lookup.rs). build turns a builder     *)
(* into the data that prover and verifier share.                           *)
(*                                                                         *)
(* A target is a wire <<row, column>>, a virtual target of the caller      *)
(* <<-1, k>>, the virtual target of a constant <<-2, c>>, or one that a    *)
(* gadget made <<-3, k>>. A gadget returns the builder, with the targets   *)
(* it returns in "last".                                                   *)
(***************************************************************************)
EXTENDS VanishingPolynomial

Virtual(k) == <<-1, k>>
ConstantTarget(c) == <<-2, c % P>>
IsConstant(t) == t[1] = -2
ZeroTarget == ConstantTarget(0)
OneTarget == ConstantTarget(1)

NewBuilder(config) ==
    [config |-> config, rows |-> <<>>, copies |-> <<>>, generators |-> <<>>, lookup_rows |-> <<>>,
     constants |-> {},                     \* constants_to_targets
     base_arithmetic_results |-> <<>>,     \* of each operation that has a slot, its output
     virtuals |-> 0, last |-> ZeroTarget]

Return(b, t) == [b EXCEPT !.last = t]
\* f of the builder and of what it returned last
Then(b, f(_, _)) == f(b, b.last)
Row(gate, params, constants) ==
    [gate |-> gate, params |-> params, constants |-> constants, ops |-> 0]
AddGate(b, gate) == [b EXCEPT !.rows = Append(@, Row(gate, <<>>, <<>>))]
Connect(b, pairs) == [b EXCEPT !.copies = @ \o pairs]
AddGenerator(b, g) == [b EXCEPT !.generators = Append(@, g)]
\* add_virtual_target, n times; the first is named by the count so far.
AddVirtuals(b, n) == [b EXCEPT !.virtuals = @ + n]
Fresh(b, i) == <<-3, b.virtuals + i>>
Constant(b, c) == [b EXCEPT !.constants = @ \cup {c % P}, !.last = ConstantTarget(c)]

\* The row of the gate with these parameters that still has a slot, or a new one.
FindSlot(b, gate, num_ops, params, constants) ==
    LET open == {r \in DOMAIN b.rows : /\ b.rows[r].gate = gate /\ b.rows[r].params = params
                                       /\ b.rows[r].ops < num_ops}
        rows == IF open = {} THEN Append(b.rows, Row(gate, params, constants)) ELSE b.rows
        row  == IF open = {} THEN Len(rows) ELSE Max(open)
    IN  [builder |-> [b EXCEPT !.rows = [rows EXCEPT ![row].ops = @ + 1]],
         row |-> row - 1, slot |-> rows[row].ops]

---------------------------------------------------------------------------
(* Arithmetic. An operation is c0 * x * y + c1 * z. *)

Operation(c0, c1, x, y, z) == [c0 |-> c0 % P, c1 |-> c1 % P, x |-> x, y |-> y, z |-> z]

\* arithmetic_special_cases: the target that is known to have the result, if any.
SpecialCase(op) ==
    LET first_term_zero == op.c0 = 0 \/ ZeroTarget \in {op.x, op.y}
        second_term_zero == op.c1 = 0 \/ op.z = ZeroTarget
        first_term_const == CASE first_term_zero -> {0}
                              [] ~first_term_zero /\ IsConstant(op.x) /\ IsConstant(op.y) ->
                                    {(op.x[2] * op.y[2] * op.c0) % P}
                              [] OTHER -> {}
        second_term_const == CASE second_term_zero -> {0}
                               [] ~second_term_zero /\ IsConstant(op.z) -> {(op.z[2] * op.c1) % P}
                               [] OTHER -> {}
        unit(t) == second_term_zero /\ IsConstant(t) /\ (t[2] * op.c0) % P = 1
    IN  IF first_term_const # {} /\ second_term_const # {}
        THEN {ConstantTarget(v + w) : v \in first_term_const, w \in second_term_const}
        ELSE IF first_term_zero /\ op.c1 = 1 THEN {op.z}
        ELSE IF unit(op.x) THEN {op.y}
        ELSE IF unit(op.y) THEN {op.x} ELSE {}

AddBaseArithmeticOperation(b, op) ==
    LET gate == ArithmeticGate(b.config)
        inputs == <<op.x, op.y, op.z>>
        place(found) ==
            Return(Connect(found.builder,
                           [k \in 1..3 |-> <<inputs[k], <<found.row, 4 * found.slot + k - 1>>>>]),
                   <<found.row, 4 * found.slot + 3>>)
    IN  place(FindSlot(b, gate, gate.num_ops, <<op.c0, op.c1>>, <<op.c0, op.c1>>))

\* A result that is known, or that an earlier operation has, or that of a new operation.
ArithmeticOf(b, op) ==
    IF SpecialCase(op) # {}
    THEN LET t == CHOOSE t \in SpecialCase(op) : TRUE
         IN  IF IsConstant(t) THEN Constant(b, t[2]) ELSE Return(b, t)
    ELSE IF op \in DOMAIN b.base_arithmetic_results THEN Return(b, b.base_arithmetic_results[op])
    ELSE Then(AddBaseArithmeticOperation(b, op),
              LAMBDA s, t : [s EXCEPT !.base_arithmetic_results = (op :> t) @@ @])
Arithmetic(b, c0, c1, x, y, z) == ArithmeticOf(Constant(b, 0), Operation(c0, c1, x, y, z))

Mul(b, x, y) == Arithmetic(b, 1, 0, x, y, x)
MulAdd(b, x, y, z) == Arithmetic(b, 1, 1, x, y, z)
MulSub(b, x, y, z) == Arithmetic(b, 1, -1, x, y, z)
MulConstAdd(b, c, x, y) == MulAdd(Constant(b, c), ConstantTarget(c), x, y)
Add(b, x, y) == Arithmetic(Constant(b, 1), 1, 1, x, OneTarget, y)
Sub(b, x, y) == Arithmetic(Constant(b, 1), 1, -1, x, OneTarget, y)
Neg(b, x) == Mul(Constant(b, -1), x, ConstantTarget(-1))
AddMany(b, terms) == FoldLeft(LAMBDA acc, t : Add(acc, acc.last, t), Constant(b, 0), terms)
MulMany(b, terms) == FoldLeft(LAMBDA acc, t : Mul(acc, acc.last, t), Constant(b, 1), terms)

Not(b, x) == Sub(Constant(b, 1), OneTarget, x)
And(b, x, y) == Mul(b, x, y)
Or(b, x, y) == Then(Arithmetic(b, -1, 1, x, y, x), LAMBDA s, res_minus_b2 : Add(s, res_minus_b2, y))
\* _if
If(b, c, x, y) ==
    Then(Not(b, c), LAMBDA s, not_c :
        Then(Mul(s, c, x), LAMBDA t, maybe_x : MulAdd(t, not_c, y, maybe_x)))
Select(b, c, x, y) == Then(MulSub(b, c, y, y), LAMBDA s, tmp : MulSub(s, c, x, tmp))

AssertBool(b, x) ==
    Then(MulSub(b, x, x, x), LAMBDA s, z : Connect(Constant(s, 0), << <<z, ZeroTarget>> >>))
ConditionalAssertEq(b, c, x, y) ==
    Then(Sub(Constant(b, 0), x, y), LAMBDA s, diff :
        Then(Mul(s, c, diff), LAMBDA t, constr : Connect(t, << <<constr, ZeroTarget>> >>)))

\* equal is 1 or there is an inverse of the difference.
IsEqual(b, x, y) ==
    LET equal == Fresh(b, 0)
        inv == Fresh(b, 1)
        generated == [kind |-> "equality", x |-> x, y |-> y, equal |-> equal, inv |-> inv]
        checked(s, not_equal_check, equal_check) ==
            Return(Connect(s, << <<not_equal_check, ZeroTarget>>, <<equal_check, ZeroTarget>> >>),
                   equal)
    IN  Then(Not(AddVirtuals(Constant(b, 0), 2), equal), LAMBDA s, not_equal :
        Then(Sub(AddGenerator(s, generated), x, y), LAMBDA t, diff :
        Then(Mul(t, equal, diff), LAMBDA u, not_equal_check :
        Then(Mul(u, diff, inv), LAMBDA v, diff_normalized :
        Then(Sub(v, diff_normalized, not_equal), LAMBDA w, equal_check :
            checked(w, not_equal_check, equal_check))))))

---------------------------------------------------------------------------
(* Bits *)

\* split_le: the limbs of as many BaseSum rows as the bits need, least significant first.
SplitLe(b, integer, num_bits) ==
    LET gate == BaseSumGate(b.config, 2)
        n == gate.num_limbs
        k == CeilDiv(num_bits, n)
        gates == [i \in 1..k |-> Len(b.rows) + i - 1]
        bits == [i \in 1..(k * n) |-> <<gates[1] + (i - 1) \div n, LimbWire((i - 1) % n)>>]
        rest == [i \in 1..(k * n - num_bits) |-> <<bits[num_bits + i], ZeroTarget>>]
        added == Connect(Constant(FoldLeft(LAMBDA acc, i : AddGate(acc, gate), b, UpTo(k)), 0), rest)
        sum == FoldRight(LAMBDA row, acc : MulConstAdd(acc, 2^n, acc.last, <<row, SumWire>>),
                         gates, Return(added, ZeroTarget))
        split == [kind |-> "wire_split", integer |-> integer, gates |-> gates, num_limbs |-> n]
    IN  IF num_bits = 0 THEN Return(b, <<>>)
        ELSE Then(sum, LAMBDA s, acc :
                Return(AddGenerator(Connect(s, << <<acc, integer>> >>), split),
                       SubSeq(bits, 1, num_bits)))
RangeCheck(b, x, n_log) == SplitLe(b, x, n_log)

SplitLowHigh(b, x, n_log, num_bits) ==
    LET low == Fresh(b, 0)
        high == Fresh(b, 1)
        generated == AddGenerator(AddVirtuals(b, 2), [kind |-> "low_high", integer |-> x,
                                                      n_log |-> n_log, low |-> low, high |-> high])
        checked == RangeCheck(RangeCheck(generated, low, n_log), high, num_bits - n_log)
    IN  Then(MulAdd(Constant(checked, 2^n_log), high, ConstantTarget(2^n_log), low),
             LAMBDA s, comp_x : Return(Connect(s, << <<x, comp_x>> >>), <<low, high>>))

NumBaseArithmeticOps(b) == ArithmeticGate(b.config).num_ops
\* le_sum, of no more bits than a BaseSum row has: by arithmetic if that fits a row, or as the sum
\* of a BaseSum row.
LeSum(b, bits) ==
    LET gate == BaseSumGate(b.config, 2)
        row == Len(b.rows)
        limbs == [i \in 1..gate.num_limbs |->
                    <<IF i \in DOMAIN bits THEN bits[i] ELSE ZeroTarget, <<row, LimbWire(i - 1)>>>>]
    IN  IF Len(bits) - 1 <= NumBaseArithmeticOps(b)
        THEN FoldRight(LAMBDA bit, acc : MulAdd(acc, ConstantTarget(2), acc.last, bit),
                       Front(bits), Return(Constant(b, 2), Last(bits)))
        ELSE Return(AddGenerator(Connect(AddGate(Constant(b, 0), gate), limbs),
                                 [kind |-> "base_sum_of", row |-> row, limbs |-> bits]),
                    <<row, SumWire>>)

\* exp_from_bits, of no more bits than the gate has
ExpFromBits(b, base, exponent_bits) ==
    LET gate == ExponentiationGate(b.config)
        row == Len(b.rows)
        bit(i) == IF i \in DOMAIN exponent_bits THEN exponent_bits[i] ELSE ZeroTarget
    IN  Return(Connect(AddGate(Constant(b, 0), gate),
                       << <<base, <<row, 0>>>> >>
                       \o [i \in 1..gate.num_power_bits |->
                                <<bit(i), <<row, PowerBitWire(i - 1)>>>>]),
               <<row, PowerOutputWire(gate)>>)
BitsOf(n) ==
    [i \in 1..(CHOOSE k \in 0..n : n < 2^k /\ (k = 0 \/ n >= 2^(k-1))) |-> (n \div 2^(i-1)) % 2]
ExpU64(b, base, exponent) ==
    LET bits == BitsOf(exponent)
    IN  ExpFromBits([b EXCEPT !.constants = @ \cup Range(bits)], base,
                    [i \in DOMAIN bits |-> ConstantTarget(bits[i])])
ExpPowerOf2(b, base, power_log) ==
    IF power_log > NumBaseArithmeticOps(b) THEN ExpU64(b, base, 2^power_log)
    ELSE FoldLeft(LAMBDA acc, i : Mul(acc, acc.last, acc.last), Return(b, base), UpTo(power_log))
\* product = (base^pow - 1) * product * bit + product
ExpFromBitsConstBase(b, base, exponent_bits) ==
    IF Len(exponent_bits) > NumBaseArithmeticOps(b)
    THEN ExpFromBits(Constant(b, base), ConstantTarget(base), exponent_bits)
    ELSE FoldLeft(LAMBDA acc, i :
                    Arithmetic(acc, Power(base, 2^i) - 1, 1,
                               acc.last, exponent_bits[i + 1], acc.last),
                  Constant(Constant(b, base), 1), UpTo(Len(exponent_bits)))

\* The list padded to a power of two with its last item.
PadList(v) ==
    LET n == CHOOSE k \in {2^j : j \in 0..Len(v)} : Len(v) <= k /\ k < 2 * Len(v)
    IN  [i \in 1..n |-> IF i <= Len(v) THEN v[i] ELSE Last(v)]
RandomAccess(b, access_index, v) ==
    LET list == PadList(v)
        gate == RandomAccessGate(b.config, Len(BitsOf(Len(list))) - 1)
        claimed_element == Fresh(b, 0)
        place(found) ==
            LET n == RandomAccessWires(gate, found.slot)
            IN  Connect(found.builder,
                        [i \in DOMAIN list |-> <<list[i], <<found.row, n.list_items[i - 1]>>>>]
                        \o << <<access_index, <<found.row, n.access_index>>>>,
                              <<claimed_element, <<found.row, n.claimed_element>>>> >>)
    IN  IF Len(list) = 1 THEN Return(b, v[1])
        ELSE Return(place(FindSlot(AddVirtuals(b, 1), gate, gate.num_copies, <<>>, <<>>)),
                    claimed_element)

---------------------------------------------------------------------------
(* The calls of a circuit's author. What a call returns is connected to the *)
(* author's own targets, so that later calls can name it.                   *)

Apply(b, call) ==
    LET a == call.args
        n == call.params
    IN  CASE call.gadget = "arithmetic" -> Arithmetic(b, n[1], n[2], a[1], a[2], a[3])
          [] call.gadget = "add_many" -> AddMany(b, a)
          [] call.gadget = "mul_many" -> MulMany(b, a)
          [] call.gadget = "sub" -> Sub(b, a[1], a[2])
          [] call.gadget = "neg" -> Neg(b, a[1])
          [] call.gadget = "not" -> Not(b, a[1])
          [] call.gadget = "and" -> And(b, a[1], a[2])
          [] call.gadget = "or" -> Or(b, a[1], a[2])
          [] call.gadget = "if" -> If(b, a[1], a[2], a[3])
          [] call.gadget = "select" -> Select(b, a[1], a[2], a[3])
          [] call.gadget = "assert_bool" -> AssertBool(b, a[1])
          [] call.gadget = "conditional_assert_eq" -> ConditionalAssertEq(b, a[1], a[2], a[3])
          [] call.gadget = "is_equal" -> IsEqual(b, a[1], a[2])
          [] call.gadget = "split_le" -> SplitLe(b, a[1], n[1])
          [] call.gadget = "split_low_high" -> SplitLowHigh(b, a[1], n[1], n[2])
          [] call.gadget = "le_sum" -> LeSum(b, a)
          [] call.gadget = "exp_from_bits" -> ExpFromBits(b, a[1], Tail(a))
          [] call.gadget = "exp_u64" -> ExpU64(b, a[1], n[1])
          [] call.gadget = "exp_power_of_2" -> ExpPowerOf2(b, a[1], n[1])
          [] call.gadget = "exp_from_bits_const_base" -> ExpFromBitsConstBase(b, n[1], a)
          [] call.gadget = "random_access" -> RandomAccess(b, a[1], Tail(a))
Call(b, call) ==
    LET constants == {t[2] : t \in {u \in Range(call.args) : IsConstant(u)}}
    IN  Then(Apply([b EXCEPT !.constants = @ \cup constants], call), LAMBDA s, t :
        Connect(s, CASE Len(call.out) = 0 -> <<>>
                     [] Len(call.out) = 1 /\ call.gadget # "split_le" -> << <<t, call.out[1]>> >>
                     [] OTHER -> [k \in DOMAIN call.out |-> <<t[k], call.out[k]>>]))

---------------------------------------------------------------------------
(* build *)

\* The hash of no public inputs is zero.
PublicInputsHash == <<0, 0, 0, 0>>
AddPublicInputGate(b) ==
    Connect(AddGate(Constant(b, 0), PublicInputGate),
            [j \in 1..4 |-> <<ZeroTarget, <<Len(b.rows), j - 1>>>>])
\* randomize_unused_pi_wires
RandomizeUnusedPiWires(b) ==
    LET pi == CHOOSE r \in DOMAIN b.rows : b.rows[r].gate = PublicInputGate
    IN  [b EXCEPT !.generators = @ \o [k \in 1..(b.config.num_wires - 4) |->
                                        [kind |-> "random", row |-> pi - 1, slot |-> k + 3]]]

\* add_all_lookups, of one table: rows of lookups, rows of the table, and a row of zeros.
PlaceLookup(b, lut, lut_index, pair) ==
    LET place(found) ==
            Connect(found.builder, << <<<<found.row, LookingInp(found.slot)>>, pair[1]>>,
                                      <<<<found.row, LookingOut(found.slot)>>, pair[2]>> >>)
    IN  place(FindSlot(b, LookupGate(lut), NumLuSlots(b.config), <<lut_index>>, <<>>))
AddTable(b, lut, last_lu_gate) ==
    LET last_lut_gate == Len(b.rows)
        num_lut_rows == (Len(lut) - 1) \div NumLutSlots(b.config) + 1
        looked == FoldLeft(LAMBDA acc, k : AddGate(acc, LookupTableGate(lut, last_lut_gate)), b,
                           UpTo(num_lut_rows))
    IN  [AddGate(looked, NoopGate) EXCEPT
            !.lookup_rows = Append(@, [last_lu_gate |-> last_lu_gate, last_lut_gate |-> last_lut_gate,
                                       first_lut_gate |-> last_lut_gate + num_lut_rows - 1])]
AddLookups(b, lut, lookups, lut_index) ==
    AddTable(FoldLeft(LAMBDA acc, pair : PlaceLookup(acc, lut, lut_index, pair), b, lookups),
             lut, Len(b.rows))

\* extra_constant_wires of all rows: the cells that can hold a constant.
ConstantCells(b) ==
    FlattenSeq([r \in DOMAIN b.rows |->
        LET g == b.rows[r].gate
            cells(n, wire(_)) == [i \in 1..n |-> [row |-> r - 1, index |-> i, slot |-> wire(i - 1)]]
        IN  CASE g.kind = "constant" -> cells(g.num_consts, LAMBDA i : i)
              [] g.kind = "random_access" -> cells(g.num_extra_constants,
                                                   LAMBDA i : ExtraConstantWire(g, i))
              [] OTHER -> <<>>])
\* The k-th constant, from the smallest up, is put in the k-th cell.
SetConstant(b, cell, c) ==
    AddGenerator(Connect([b EXCEPT !.rows[cell.row + 1].constants =
                            [i \in 1..Max({cell.index, Len(@)}) |->
                                IF i = cell.index THEN c ELSE IF i <= Len(@) THEN @[i] ELSE 0]],
                         << <<<<cell.row, cell.slot>>, ConstantTarget(c)>> >>),
                 [kind |-> "constant", row |-> cell.row, slot |-> cell.slot, constant |-> c])
SetConstants(b, constants, cells) ==
    FoldLeft(LAMBDA acc, k : SetConstant(acc, cells[k], constants[k]), b,
             [k \in DOMAIN constants |-> k])
AddConstants(b) ==
    LET missing == Cardinality(b.constants) - Len(ConstantCells(b))
        gates == IF missing <= 0 THEN 0 ELSE CeilDiv(missing, b.config.num_constants)
        placed(s) == SetConstants(s, SetToSortSeq(b.constants, <), ConstantCells(s))
    IN  placed(FoldLeft(LAMBDA acc, k : AddGate(acc, ConstantGate(acc.config)), b, UpTo(gates)))

PaddedLength(b) ==
    CHOOSE n \in {2^k : k \in 0..Len(b.rows)} : Len(b.rows) <= n /\ n < 2 * Len(b.rows)
BlindAndPad(b) ==
    FoldLeft(LAMBDA acc, k : AddGate(acc, NoopGate), b, UpTo(PaddedLength(b) - Len(b.rows)))

\* c has the calls, and the lookup tables with the pairs of targets looked up in each.
AllRows(c) ==
    LET calls == FoldLeft(Call, NewBuilder(c.config), c.calls)
        called == RandomizeUnusedPiWires(AddPublicInputGate(calls))
        lookups == FoldLeft(LAMBDA acc, k : AddLookups(acc, c.luts[k + 1], c.lookups[k + 1], k),
                            called, UpTo(Len(c.luts)))
    IN  BlindAndPad(AddConstants(lookups))

\* Forest.merge of all copy constraints
GeneratorTargets(g) ==
    CASE g.kind = "equality" -> {g.x, g.y, g.equal, g.inv}
      [] g.kind = "low_high" -> {g.integer, g.low, g.high}
      [] OTHER -> {}
Representatives(b) ==
    LET targets == ((0..(Len(b.rows) - 1)) \X (0..(b.config.num_wires - 1)))
                   \cup (UNION {Range(b.copies[k]) : k \in DOMAIN b.copies})
                   \cup (UNION {GeneratorTargets(b.generators[k]) : k \in DOMAIN b.generators})
        merge(parents, pair) ==
            LET x == parents[pair[1]]
                y == parents[pair[2]]
            IN  Computed([t \in targets |-> IF parents[t] = y THEN x ELSE parents[t]])
    IN  FoldLeft(merge, [t \in targets |-> t], b.copies)

\* Mutation of SigmaMap: every wire is its own neighbor.
SigmaOfAlone(rep, num_routed_wires, w) == w

\* get_sigma_map: the next routed wire of the partition, row by row, or the first one.
SigmaMap(rep, num_routed_wires, w) ==
    LET routed == {t \in DOMAIN rep : t[1] >= 0 /\ t[2] < num_routed_wires /\ rep[t] = rep[w]}
        place(t) == t[1] * num_routed_wires + t[2]
        later == {t \in routed : place(t) > place(w)}
        from == IF later = {} THEN routed ELSE later
    IN  CHOOSE t \in from : \A u \in from : place(t) <= place(u)

SigmaVecs(b, rep, k_is) ==
    LET n == Len(b.rows)
    IN  [j \in 1..b.config.num_routed_wires |->
            [row \in 0..(n-1) |->
                LET to == SigmaMap(rep, b.config.num_routed_wires, <<row, j - 1>>)
                IN  (At(k_is, to[2]) * Subgroup(n)[to[1]]) % P]]

\* selectors_lookup and selector_ends_lookups
LookupSelectorVecs(b) ==
    LET n == Len(b.rows)
        in(f(_)) == [row \in 0..(n-1) |->
                        IF \E k \in DOMAIN b.lookup_rows : row \in f(b.lookup_rows[k]) THEN 1 ELSE 0]
    IN  << in(LAMBDA l : l.last_lut_gate..l.first_lut_gate),
           in(LAMBDA l : l.last_lu_gate..(l.last_lut_gate - 1)),
           in(LAMBDA l : {l.first_lut_gate + 1}),
           in(LAMBDA l : {l.last_lu_gate}) >>
        \o [k \in DOMAIN b.lookup_rows |->
                [row \in 0..(n-1) |-> IF row = b.lookup_rows[k].last_lut_gate THEN 1 ELSE 0]]

\* selector_polynomials: the gate's index in the polynomial of its group.
SelectorVecs(b, gates, starts) ==
    LET index(row) == CHOOSE i \in DOMAIN gates : gates[i] = b.rows[row + 1].gate
        groups == SetToSortSeq(Range(starts), <)
    IN  [g \in DOMAIN groups |->
            [row \in 0..(Len(b.rows) - 1) |->
                IF starts[index(row)] = groups[g] THEN index(row) - 1 ELSE UnusedSelector]]

ConstantVecs(b, gates) ==
    LET max_constants == Max({NumConstants(gates[i]) : i \in DOMAIN gates})
    IN  [k \in 1..max_constants |->
            [row \in 0..(Len(b.rows) - 1) |->
                IF k \in DOMAIN b.rows[row + 1].constants THEN b.rows[row + 1].constants[k] ELSE 0]]

\* The gates' own generators. A row whose slots are not all used has none for the others.
GateGenerators(b) ==
    LET num(r) ==
            CASE r.gate.kind = "lookup_table" -> NumLutSlots(b.config)
              [] r.gate.kind \in {"base_sum", "exponentiation"} -> 1
              [] OTHER -> r.ops
    IN  FlattenSeq([r \in DOMAIN b.rows |->
            [s \in 1..num(b.rows[r]) |->
                [kind |-> b.rows[r].gate.kind, row |-> r - 1, slot |-> s - 1,
                 gate |-> b.rows[r].gate]]])

TableIndex(c, g) == CHOOSE k \in DOMAIN c.luts : c.luts[k] = g.lut

\* By degree, then by name.
SortedGates(c, b) ==
    LET name(g) == CHOOSE k \in DOMAIN GateNames : GateNames[k] = g.kind
        before(g, h) == \/ Degree(g) < Degree(h)
                        \/ Degree(g) = Degree(h) /\ name(g) < name(h)
                        \/ /\ Degree(g) = Degree(h) /\ name(g) = name(h) /\ g # h
                           /\ CASE g.kind = "lookup_table" -> g.last_lut_row < h.last_lut_row
                                [] g.kind = "lookup" -> TableIndex(c, g) < TableIndex(c, h)
                                [] g.kind = "random_access" -> g.bits < h.bits
    IN  SetToSortSeq({b.rows[r].gate : r \in DOMAIN b.rows}, before)

\* CommonCircuitData and ProverOnlyCircuitData, of the values of the constants and of sigma
CircuitData(c, b, gates, starts, rep, k_is, constants, sigmas) ==
    LET factor == b.config.max_quotient_degree_factor
    IN  [config |-> b.config, degree |-> Len(b.rows), gates |-> gates, group_starts |-> starts,
         quotient_degree_factor |-> factor,
         num_gate_constraints |-> Max({NumConstraints(gates[i]) : i \in DOMAIN gates}),
         num_constants |-> Len(constants), k_is |-> k_is,
         num_partial_products |-> NumPartialProducts(b.config.num_routed_wires, factor),
         num_lookup_polys |-> IF c.luts = <<>> THEN 0
                              ELSE CeilDiv(NumLuSlots(b.config), factor - 1) + 1,
         num_lookup_selectors |-> IF c.luts = <<>> THEN 0 ELSE 4 + Len(c.luts),
         luts |-> c.luts, rows |-> b.rows, representative_map |-> rep, sigmas |-> sigmas,
         lookup_rows |-> b.lookup_rows, lut_to_lookups |-> c.lookups,
         generators |-> b.generators \o GateGenerators(b),
         constants_sigmas |-> FromValues(constants \o sigmas, b.config.rate_bits)]
Preprocessed(c, b, gates, starts, rep, k_is) ==
    CircuitData(c, b, gates, starts, rep, k_is,
                SelectorVecs(b, gates, starts)
                    \o (IF c.luts = <<>> THEN <<>> ELSE LookupSelectorVecs(b))
                    \o ConstantVecs(b, gates),
                SigmaVecs(b, rep, k_is))
WithGates(c, b, gates) ==
    Preprocessed(c, b, gates, GroupStarts(gates, b.config.max_quotient_degree_factor + 1),
                 Representatives(b), CosetShifts(b.config.num_routed_wires))
WithRows(c, b) == WithGates(c, b, SortedGates(c, b))
Build(c) == WithRows(c, AllRows(c))
=============================================================================
