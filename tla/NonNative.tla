----------------------------- MODULE NonNative -----------------------------
(***************************************************************************)
(* Arithmetic of a large prime field inside a circuit: u32 operations      *)
(* (plonky2_u32), integers as sequences of limbs, least significant first  *)
(* (biguint.rs), and residues kept in such integers (nonnative.rs).        *)
(*                                                                         *)
(* Each operation stands for the honest prover: the generator computes the *)
(* outputs, and the constraints then have to hold of them.  The value is   *)
(* the outputs' limbs, or Stuck when the generator panics or a constraint  *)
(* fails; an operation on Stuck is Stuck.                                  *)
(***************************************************************************)
EXTENDS Integers, Sequences, FiniteSetsExt, SequencesExt

CONSTANTS
    LimbBits,       \* bits of a limb (32 in the code)
    MaxNumAddends   \* bound of the carry of an addition of many limbs (16)

ASSUME LimbAssumption == LimbBits \in Nat \ {0} /\ MaxNumAddends \in Nat \ {0, 1}

Power(n) == 2^(LimbBits * n)    \* number of values of n limbs
Base == Power(1)

Stuck == <<-1>>

(*************************************************************************)
(* Limbs.                                                                *)
(*************************************************************************)

ValueOf(a) ==
    LET value[i \in 1..(Len(a) + 1)] == IF i > Len(a) THEN 0 ELSE a[i] + Base * value[i + 1]
    IN  value[1]

LimbsOf(n, value) == [i \in 1..n |-> (value \div Power(i - 1)) % Base]

\* A constant has as many limbs as its value needs: zero has none.
ConstantBiguint(value) ==
    LimbsOf(CHOOSE n \in 0..value :
                /\ value < Power(n)
                /\ n = 0 \/ Power(n - 1) <= value, value)

SetBiguint(n, value) == IF value < Power(n) THEN LimbsOf(n, value) ELSE Stuck

Limb(a, i) == IF i <= Len(a) THEN a[i] ELSE 0

MaxLen(a, b) == IF Len(a) > Len(b) THEN Len(a) ELSE Len(b)

(*************************************************************************)
(* u32 gates.                                                            *)
(*************************************************************************)

MulAddU32(x, y, z) == [low |-> (x * y + z) % Base, high |-> (x * y + z) \div Base]

AddManyGate(addends, carry) ==
    [low |-> (addends + carry) % Base, high |-> (addends + carry) \div Base]

\* The column's single entry goes through the arithmetic gate.
AddU32sWithCarry(count, addends, carry) ==
    IF count = 1 THEN MulAddU32(addends, 1, carry) ELSE AddManyGate(addends, carry)

SubU32(x, y, borrow) ==
    LET initial == x - y - borrow
    IN  IF initial < 0 THEN [low |-> initial + Base, high |-> 1]
                       ELSE [low |-> initial, high |-> 0]

(*************************************************************************)
(* Integers.                                                             *)
(*************************************************************************)

\* Mutation of ConnectBiguint: the loop ends one limb early.
ConnectBiguintShort(a, b) == \A i \in 1..(MaxLen(a, b) - 1) : Limb(a, i) = Limb(b, i)

ConnectBiguint(a, b) == \A i \in 1..MaxLen(a, b) : Limb(a, i) = Limb(b, i)

\* Mutation of CmpBiguint: the limbs are compared from the other end.
CmpBiguintReversed(a, b) ==
    LET n == MaxLen(a, b)
        result[i \in 1..(n + 1)] ==
            \/ i = n + 1
            \/ Limb(a, i) < Limb(b, i)
            \/ Limb(a, i) = Limb(b, i) /\ result[i + 1]
    IN  result[1]

\* From the least to the most significant limb: a limb that differs
\* overrides what the limbs below it said.
CmpBiguint(a, b) ==
    LET result[i \in 0..MaxLen(a, b)] ==
            \/ i = 0
            \/ Limb(a, i) < Limb(b, i)
            \/ Limb(a, i) = Limb(b, i) /\ result[i - 1]
    IN  result[MaxLen(a, b)]

AddBiguint(a, b) ==
    LET n == MaxLen(a, b)
        sum[i \in 0..n] ==
            IF i = 0 THEN [low |-> 0, high |-> 0]
                     ELSE AddManyGate(Limb(a, i) + Limb(b, i), sum[i - 1].high)
    IN  [i \in 1..(n + 1) |-> IF i <= n THEN sum[i].low ELSE sum[n].high]

\* A last borrow is dropped ("Borrow should be zero here").
SubBiguint(a, b) ==
    LET diff[i \in 0..MaxLen(a, b)] ==
            IF i = 0 THEN [low |-> 0, high |-> 0]
                     ELSE SubU32(Limb(a, i), Limb(b, i), diff[i - 1].high)
    IN  [i \in 1..MaxLen(a, b) |-> diff[i].low]

\* Column k of a product: low halves of the pairs that meet there, high
\* halves of those one below.
Column(a, b, k) ==
    {c \in (1..Len(a)) \X (1..Len(b)) \X {"low", "high"} :
        c[1] + c[2] = IF c[3] = "low" THEN k + 1 ELSE k}

MulBiguint(a, b) ==
    LET n == Len(a) + Len(b)
        column == [k \in 1..n |-> Column(a, b, k)]
        addends(k) ==
            MapThenSumSet(LAMBDA c : MulAddU32(a[c[1]], b[c[2]], 0)[c[3]], column[k])
        sum[k \in 0..n] ==
            IF k = 0 THEN [low |-> 0, high |-> 0]
                     ELSE AddU32sWithCarry(Cardinality(column[k]), addends(k), sum[k - 1].high)
        limbs == [k \in 1..(n + 1) |-> IF k <= n THEN sum[k].low ELSE sum[n].high]
    IN  IF \A k \in 1..n : sum[k].high < MaxNumAddends THEN limbs ELSE Stuck

MulBiguintByBool(a, b) ==
    IF a = Stuck THEN Stuck ELSE [i \in 1..Len(a) |-> IF b THEN a[i] ELSE 0]

(*************************************************************************)
(* Residues modulo m.                                                    *)
(*************************************************************************)

NumNonnativeLimbs(m) == Len(ConstantBiguint(m))

Canonical(m, a) == ValueOf(a) % m

\* A sum that equals the modulus stays as it is, and the range check
\* admits it.
AdditionGenerator(m, a, b) ==
    LET total == Canonical(m, a) + Canonical(m, b)
    IN  [sum |-> SetBiguint(NumNonnativeLimbs(m), IF total > m THEN total - m ELSE total),
         overflow |-> total > m]

AddNonnative(m, a, b) ==
    IF Stuck \in {a, b} THEN Stuck ELSE
    LET g == AdditionGenerator(m, a, b)
        modulus == ConstantBiguint(m)
    IN  IF /\ ConnectBiguint(AddBiguint(a, b),
                             AddBiguint(g.sum, MulBiguintByBool(modulus, g.overflow)))
           /\ CmpBiguint(g.sum, modulus)
        THEN g.sum ELSE Stuck

SubtractionGenerator(m, a, b) ==
    [diff |-> SetBiguint(NumNonnativeLimbs(m), (Canonical(m, a) - Canonical(m, b)) % m),
     overflow |-> Canonical(m, a) < Canonical(m, b)]

SubNonnative(m, a, b) ==
    IF Stuck \in {a, b} THEN Stuck ELSE
    LET g == SubtractionGenerator(m, a, b)
        modulus == ConstantBiguint(m)
    IN  IF ConnectBiguint(a, SubBiguint(AddBiguint(g.diff, b),
                                        MulBiguintByBool(modulus, g.overflow)))
        THEN g.diff ELSE Stuck

\* The quotient has the limbs that the factors have beyond the modulus.
MultiplicationGenerator(m, a, b) ==
    LET product == Canonical(m, a) * Canonical(m, b)
        n == NumNonnativeLimbs(m)
    IN  [prod |-> SetBiguint(n, product % m),
         overflow |-> SetBiguint(Len(a) + Len(b) - n, product \div m)]

MulNonnative(m, a, b) ==
    IF Stuck \in {a, b} THEN Stuck ELSE
    LET g == MultiplicationGenerator(m, a, b)
        expected == MulBiguint(a, b)
        mod_times_overflow == MulBiguint(ConstantBiguint(m), g.overflow)
    IN  IF /\ Stuck \notin {g.overflow, expected, mod_times_overflow}
           /\ ConnectBiguint(expected, AddBiguint(g.prod, mod_times_overflow))
        THEN g.prod ELSE Stuck

NegNonnative(m, a) == SubNonnative(m, ConstantBiguint(0), a)

ModInverse(m, v) == CHOOSE w \in 0..(m - 1) : (v * w) % m = 1

\* Only of a residue other than zero: x.inverse() panics.
InverseGenerator(m, a) ==
    LET x == Canonical(m, a)
        inv == ModInverse(m, x)
    IN  [inv |-> SetBiguint(Len(a), inv), div |-> SetBiguint(Len(a), (x * inv) \div m)]

InvNonnative(m, a) ==
    IF a = Stuck \/ Canonical(m, a) = 0 THEN Stuck ELSE
    LET g == InverseGenerator(m, a)
        product == MulBiguint(a, g.inv)
        mod_times_div == MulBiguint(ConstantBiguint(m), g.div)
    IN  IF /\ Stuck \notin {g.inv, g.div, product, mod_times_div}
           /\ ConnectBiguint(product, AddBiguint(mod_times_div, ConstantBiguint(1)))
        THEN g.inv ELSE Stuck

(*************************************************************************)
(* Windows of a scalar.                                                  *)
(*************************************************************************)

\* Each limb is split into digits of half a window, and two digits are
\* put together again: the windows of the whole scalar, lowest first.
SplitToWindows(a, digitBits, perLimb) ==
    [w \in 1..(Len(a) * perLimb) |->
        LET limb == a[1 + (w - 1) \div perLimb]
            d == 2 * ((w - 1) % perLimb)
            digitAt(i) == (limb \div 2^(digitBits * i)) % 2^digitBits
        IN  digitAt(d + 1) * 2^digitBits + digitAt(d)]
=============================================================================
