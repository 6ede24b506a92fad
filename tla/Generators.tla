------------------------------ MODULE Generators ------------------------------
(***************************************************************************)
(* What plonky2's witness generation works on: the targets of a circuit,   *)
(* the copy constraints between them, and the generators that compute some *)
(* targets from others.                                                    *)
(***************************************************************************)
EXTENDS Integers, Sequences, FiniteSets

CONSTANTS
    Target,   \* wires and virtual targets of a circuit
    P,        \* modulus of the field
    Circuit   \* circuits with the targets a witness sets before generation

\* A circuit has finitely many targets.
ASSUME TargetAssumption == IsFiniteSet(Target)

Field == 0 .. P - 1

\* A circuit: copy constraints in the order they were made, generators in the
\* order they were added, and the values the caller sets.
ASSUME CircuitAssumption ==
    \A c \in Circuit :
        /\ c.copies \in Seq(Target \X Target)
        /\ DOMAIN c.inputs \subseteq Target
        /\ Len(c.gens) \in Nat /\ DOMAIN c.gens = 1 .. Len(c.gens)
        /\ \A i \in DOMAIN c.gens :
             /\ c.gens[i].deps \in Seq(Target)
             /\ c.gens[i].outs \in Seq(Target)

FieldInverse(x) == CHOOSE y \in Field : (x * y) % P = 1

\* The generators modelled, by what they read and what they write.
Copy(src, dst)          == [kind |-> "copy", deps |-> <<src>>, outs |-> <<dst>>]
Constant(t, c)          == [kind |-> "constant", deps |-> <<>>, outs |-> <<t>>, const |-> c]
RandomValue(t)          == [kind |-> "random", deps |-> <<>>, outs |-> <<t>>]
NonzeroTest(x, dummy)   == [kind |-> "nonzero", deps |-> <<x>>, outs |-> <<dummy>>]
Equality(x, y, eq, inv) == [kind |-> "equality", deps |-> <<x, y>>, outs |-> <<eq, inv>>]
Lookup(inp, out, lut)   == [kind |-> "lookup", deps |-> <<inp>>, outs |-> <<out>>, lut |-> lut]

\* run_once, on the values of the dependencies: the tuples of outputs it may
\* produce, none when it returns an error.
RunOnce(g, a) ==
    CASE g.kind = "copy"     -> {<<a[1]>>}
      [] g.kind = "constant" -> {<<g.const>>}
      [] g.kind = "random"   -> {<<v>> : v \in Field}
      [] g.kind = "nonzero"  -> {<<IF a[1] = 0 THEN 1 ELSE FieldInverse(a[1])>>}
      [] g.kind = "equality" -> IF a[1] = a[2]
                                THEN {<<1, 0>>}
                                ELSE {<<0, FieldInverse((a[1] - a[2]) % P)>>}
      [] g.kind = "lookup"   -> {<<g.lut[v]>> : v \in DOMAIN g.lut \cap {a[1]}}

Targets(s) == {s[i] : i \in DOMAIN s}

\* The targets that a circuit's copy constraints make equal to t.
Connected ==
    [c \in Circuit |-> [t \in Target |->
        LET closed(S) == \A i \in DOMAIN c.copies :
                             c.copies[i][1] \in S <=> c.copies[i][2] \in S
        IN  {u \in Target : \A S \in SUBSET Target : t \in S /\ closed(S) => u \in S}]]

===============================================================================
