--------------------------- MODULE MCProveCircuit ---------------------------
(***************************************************************************)
(* Circuits of four to sixteen rows over the field of order 769: with one  *)
(* and with several partial products and partial lookup sums, one and      *)
(* several selector polynomials, one and two tables and challenges, with   *)
(* gadgets that share rows.                                                *)
(***************************************************************************)
EXTENDS ProveCircuit

Config(num_wires, routed, factor, rate_bits, num_challenges) ==
    [num_wires |-> num_wires, num_routed_wires |-> routed, num_constants |-> 2,
     max_quotient_degree_factor |-> factor, rate_bits |-> rate_bits,
     num_challenges |-> num_challenges]
V(k) == Virtual(k)
K(c) == ConstantTarget(c)
To(gadget, params, args, out) == [gadget |-> gadget, args |-> args, params |-> params, out |-> out]
Challenge(beta, gamma, a, alpha) ==
    [betas |-> beta, gammas |-> gamma, additional |-> a, alphas |-> alpha]
Single == {Challenge(<<101>>, <<57>>, <<233, 412>>, <<35>>)}
Double == {Challenge(<<101, 7>>, <<57, 613>>, <<233, 412, 88, 71>>, <<35, 290>>)}
One(row, col, add) == [wire |-> <<row, col>>, add |-> add, copies |-> FALSE]
AllOf(row, col, add) == [wire |-> <<row, col>>, add |-> add, copies |-> TRUE]

\* 3 * v1 * v2 + 2 * v1 = 4 and a table of three pairs, looked up twice at v1 and twice at v3. Rows:
\* 0 arithmetic, 1 public inputs, 2 and 3 lookups, 4 and 5 the table, 6 zeros, 7 constants.
Table == << <<0, 5>>, <<1, 7>>, <<4, 2>> >>
Looked(config, challenge, alterations) ==
    [config |-> config,
     calls |-> << To("arithmetic", <<3, 2>>, <<K(1), V(2), K(1)>>, <<V(3)>>) >>,
     luts |-> <<Table>>,
     lookups |-> << << <<K(1), V(4)>>, <<K(1), V(5)>>, <<V(3), V(6)>>, <<V(3), V(7)>> >> >>,
     inputs |-> (V(2) :> 257),
     alterations |-> alterations, challenges |-> challenge]

LookedAlterations ==
    { {One(6, 6, 9)},                    \* a wire nothing reads
      {One(0, 3, 1)},                    \* the output of the gate, but not its copies
      {AllOf(0, 3, 1)},                  \* the output and its copies
      {AllOf(0, 0, 1)}, {One(7, 1, 1)},  \* a constant
      {AllOf(1, 0, 1)},                  \* the public inputs' hash
      {One(5, 2, 1)},                    \* a multiplicity
      {One(5, 0, 1)}, {One(4, 1, 1)},    \* an entry of the table, and of its padding
      {AllOf(2, 1, 1)},                  \* the output of a lookup
      \* a copy of v1 only: another pair looked up, and counted
      {One(2, 0, 3), One(2, 1, -5), One(5, 5, -1), One(4, 2, 1)},
      \* the padding of the lookups: another pair of the table, and counted as one
      {One(3, 4, 1), One(3, 5, 2)},
      {One(3, 4, 1), One(3, 5, 2), One(5, 2, -1), One(5, 5, 1)},
      {One(3, 2, 1), One(3, 3, 2), One(5, 2, -1), One(5, 5, 1)} }

\* Two partial products and two sums of lookups, and three groups of gates.
LowDegreeAlterations ==
    { {One(0, 3, 1)}, {AllOf(0, 3, 1)}, {One(5, 2, 1)}, {One(4, 1, 1)}, {AllOf(2, 1, 1)},
      {One(3, 4, 1), One(3, 5, 2)}, {One(3, 4, 1), One(3, 5, 2), One(5, 2, -1), One(5, 5, 1)} }

\* All lookups in row 2 and the table in row 3.
WideAlterations ==
    { {One(0, 3, 1)}, {AllOf(0, 3, 1)}, {One(3, 2, 1)}, {One(3, 4, 1)}, {AllOf(2, 1, 1)},
      {One(3, 2, 1), One(3, 5, -1)}, {One(7, 8, 3)} }

\* Four rows: v3 = v1 * v2 + 5 and v4 = v3 * v3 + v3, without lookups.
Plain(config, challenge, alterations) ==
    [config |-> config,
     calls |-> << To("arithmetic", <<1, 5>>, <<V(1), V(2), K(1)>>, <<V(3)>>),
                  To("arithmetic", <<1, 1>>, <<V(3), V(3), V(3)>>, <<V(4)>>) >>,
     luts |-> <<>>, lookups |-> <<>>,
     inputs |-> (V(1) :> 700 @@ V(2) :> 2),
     alterations |-> alterations, challenges |-> challenge]
PlainAlterations ==
    { {One(0, 3, 1)}, {AllOf(0, 3, 1)}, {AllOf(1, 3, 1)}, {AllOf(0, 0, 1)}, {AllOf(0, 2, 1)},
      {One(2, 1, 1)}, {One(3, 3, 2)}, {One(1, 5, 4)},
      {One(0, 0, 1), One(0, 3, 2)} }     \* v1 and v3 in one row

\* Two tables, the second with a pair twice, in eight rows: 0 public inputs, 1 lookups, 2 table,
\* 3 zeros, 4 lookups, 5 table, 6 zeros, 7 constants.
Tables(config, first, second, challenge, alterations) ==
    [config |-> config,
     calls |-> <<>>,
     luts |-> <<first, second>>,
     lookups |-> << << <<V(1), V(2)>> >>, << <<V(2), V(3)>>, <<V(1), V(4)>>, <<V(1), V(5)>> >> >>,
     inputs |-> (V(1) :> 1), alterations |-> alterations, challenges |-> challenge]
Second == << <<7, 3>>, <<1, 6>>, <<7, 3>> >>
TablesAlterations ==
    { {AllOf(1, 1, 1)}, {One(2, 2, 1)}, {One(5, 2, 1), One(5, 8, -1)}, {One(5, 2, 1), One(5, 5, -1)},
      {One(4, 6, -6), One(4, 7, 3), One(5, 2, -1), One(5, 5, 1)},
      \* a lookup counted in the other table
      {One(2, 5, 1), One(5, 5, -1)} }

\* The same in sixteen rows: 1 lookups, 2 and 3 table, 5 lookups, 6 and 7 table.
NarrowAlterations ==
    { {AllOf(1, 1, 1)}, {One(3, 2, 1)}, {One(7, 2, 1), One(6, 2, -1)},
      {One(3, 5, 1), One(7, 5, -1)}, {One(6, 4, 1)} }

\* Gadgets in sixteen rows: a comparison and what is chosen by it, bits, and what is made of bits.
\* Rows: 0 to 4, 6 and 9 arithmetic, 5 bits, 7 a power, 8 a list, 10 public inputs, 11 constants.
ComparedAlterations ==
    { {AllOf(0, 2, 1)}, {One(1, 5, 3)}, {AllOf(3, 3, 1)},  \* equal, the inverse, and what is selected
      {AllOf(5, 1, 1)}, {AllOf(5, 1, 2), AllOf(5, 2, -1)}, \* bits, and some with the same sum
      {One(7, 6, 1)}, {AllOf(7, 5, 1)},                    \* the power so far, and at the end
      {AllOf(8, 1, 1)}, {One(8, 8, -1)},                   \* the element, a bit of the index
      {AllOf(8, 0, -1), One(8, 8, -1)},                    \* the index before: the same element
      {One(9, 4, 5)}, {One(4, 7, 1)},                      \* in unused slots, an input and an output
      {AllOf(11, 1, 1)}, {AllOf(8, 7, 1)} }                \* constants of both gates
Compared ==
    [config |-> Config(11, 9, 8, 3, 1),
     calls |-> << To("is_equal", <<>>, <<V(1), V(2)>>, <<V(3)>>),
                  To("select", <<>>, <<V(3), V(1), V(2)>>, <<V(4)>>),
                  To("conditional_assert_eq", <<>>, <<V(3), V(1), V(4)>>, <<>>),
                  To("split_le", <<3>>, <<V(1)>>, <<V(5), V(6), V(7)>>),
                  To("le_sum", <<>>, <<V(7), V(6), V(5)>>, <<V(8)>>),
                  To("exp_from_bits", <<>>, <<V(2), V(5), V(6), V(7)>>, <<V(9)>>),
                  To("random_access", <<>>, <<V(10), V(8), V(2), V(4)>>, <<V(11)>>),
                  To("assert_bool", <<>>, <<V(5)>>, <<>>) >>,
     luts |-> <<>>, lookups |-> <<>>, inputs |-> (V(1) :> 6 @@ V(2) :> 700 @@ V(10) :> 3),
     alterations |-> ComparedAlterations, challenges |-> Single]

\* Rows: 0 and 1 the bits of the parts, 9 those of a sum, 4 a power, 12 a list, 13 public inputs,
\* 14 and 15 constants, the others arithmetic.
SplitAlterations ==
    { {AllOf(0, 0, 4), AllOf(1, 0, -1)},                   \* parts that make the same number
      {One(0, 1, 2), One(0, 2, -1)},                       \* limbs that make the same part
      {One(0, 1, 1), One(0, 3, 1)}, {AllOf(9, 0, 1)}, {One(4, 7, 1)}, {AllOf(4, 5, 1)},
      {AllOf(12, 1, 1)}, {One(12, 9, -1)},
      {One(12, 5, 4)}, {One(12, 5, 4), One(12, 6, 4)},     \* in a list nobody asks for
      {AllOf(14, 0, 1)}, {AllOf(14, 1, 2)}, {AllOf(2, 7, 1)}, {AllOf(8, 3, 2)} }
SplitUp ==
    [config |-> Config(11, 9, 8, 3, 1),
     calls |-> << To("split_low_high", <<2, 5>>, <<V(1)>>, <<V(2), V(3)>>),
                  To("exp_power_of_2", <<2>>, <<V(3)>>, <<V(4)>>),
                  To("exp_u64", <<5>>, <<V(2)>>, <<V(5)>>),
                  To("or", <<>>, <<V(6), V(7)>>, <<V(8)>>),
                  To("if", <<>>, <<V(8), V(2), V(3)>>, <<V(9)>>),
                  To("le_sum", <<>>, <<V(6), V(7), V(8), V(7)>>, <<V(10)>>),
                  To("exp_from_bits_const_base", <<4>>, <<V(6), V(8)>>, <<V(11)>>),
                  To("random_access", <<>>, <<V(7), V(1), V(2)>>, <<V(12)>>),
                  To("add_many", <<>>, <<K(1), K(3), V(3)>>, <<V(13)>>),
                  To("mul_many", <<>>, <<V(3), V(3), K(1)>>, <<V(14)>>) >>,
     luts |-> <<>>, lookups |-> <<>>, inputs |-> (V(1) :> 23 @@ V(6) :> 0 @@ V(7) :> 1),
     alterations |-> SplitAlterations, challenges |-> Single]

\* The input of a lookup is in no entry, and challenges at which a denominator is zero.
Missing == [Looked(Config(7, 6, 4, 2, 1), Single, {}) EXCEPT !.inputs = (V(2) :> 0),
               !.lookups = << << <<V(2), V(4)>>, <<V(3), V(5)>> >> >>]
ZeroDenominator == {Challenge(<<101, 1>>, <<57, 257>>, <<>>, <<35, 290>>)}

MCInstances ==
    << Looked(Config(7, 6, 4, 2, 1), Single, LookedAlterations),
       Looked(Config(7, 6, 3, 2, 1), Single, LowDegreeAlterations),
       Looked(Config(10, 9, 4, 2, 2), Double, WideAlterations),
       Plain(Config(9, 8, 4, 3, 2), Double \cup ZeroDenominator, PlainAlterations),
       Tables(Config(10, 9, 8, 3, 1), Table, Second, Single, TablesAlterations),
       Tables(Config(7, 6, 4, 2, 2), Table, Second, Double, NarrowAlterations),
       Compared, SplitUp, Missing >>
MCRandomValues == {19}
MCZetas == {1, 3}
=============================================================================
