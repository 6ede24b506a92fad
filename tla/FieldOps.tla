------------------------------ MODULE FieldOps ------------------------------
(***************************************************************************)
(* Arithmetic of the prime field and its quadratic extension, and cells of *)
(* a row of the trace. A row is a function from columns to field elements; *)
(* its domain is the columns that have a value so far.                     *)
(***************************************************************************)
EXTENDS Integers, Sequences, FiniteSets, SequencesExt, FiniteSetsExt, Functions, TLC

CONSTANTS
    P,           \* order of the field
    Generator,   \* MULTIPLICATIVE_GROUP_GENERATOR
    W            \* X^2 - W is irreducible: the extension is F[X] / (X^2 - W)

ASSUME FieldAssumption ==
    /\ P \in Nat /\ P > 2
    /\ \A x \in 1..(P-1) : \E y \in 1..(P-1) : (x * y) % P = 1
    /\ W \in 1..(P-1) /\ \A x \in 0..(P-1) : (x * x) % P # W

D == 2
Fp == 0..(P-1)
UpTo(n) == [i \in 1..n |-> i - 1]   \* 0..n of the code
\* The function itself. TLC computes the values of f once, not at every use of one of them.
Computed(f) == f @@ <<>>

\* x.inverse(): the code panics at zero, and here nothing is chosen.
Inverses == Computed([x \in 1..(P-1) |-> CHOOSE y \in Fp : (x * y) % P = 1])
Inv(x) == Inverses[x % P]
ProductOf(f(_), S) == FoldSet(LAMBDA i, acc : (f(i) * acc) % P, 1, S)
\* exp_u64: the squares of x at the one bits of n, multiplied.
Power(x, n) ==
    LET bits == CHOOSE k \in 0..n : n < 2^k /\ (k = 0 \/ n >= 2^(k-1))
        step(acc, j) == [product |-> IF (n \div 2^j) % 2 = 1 THEN (acc.product * acc.current) % P
                                                             ELSE acc.product,
                         current |-> (acc.current * acc.current) % P]
    IN  FoldLeft(step, [product |-> 1, current |-> x % P], UpTo(bits)).product
SumOf(f(_), S) == MapThenSumSet(f, S) % P

\* reduce_with_powers: the value at base of the polynomial with these coefficients, lowest first.
ReduceWithPowers(terms, base) == FoldRight(LAMBDA x, acc : (acc * base + x) % P, terms, 0)

---------------------------------------------------------------------------
(* QuadraticExtension *)

ToExt(x) == <<x % P, 0>>
ExtAdd(a, b) == <<(a[1] + b[1]) % P, (a[2] + b[2]) % P>>
ExtSub(a, b) == <<(a[1] - b[1]) % P, (a[2] - b[2]) % P>>
ScalarMul(a, s) == <<(a[1] * s) % P, (a[2] * s) % P>>
ExtMul(a, b) == <<(a[1] * b[1] + W * a[2] * b[2]) % P, (a[1] * b[2] + a[2] * b[1]) % P>>

---------------------------------------------------------------------------
(* Subgroups and interpolation *)

GeneratorPowers == Computed([k \in 0..(P-2) |-> Power(Generator, k)])
ASSUME GeneratorAssumption == Range(GeneratorPowers) = 1..(P-1)

\* primitive_root_of_unity, of an order n that is a power of two, and two_adic_subgroup, its powers.
RootOfUnity(n) == GeneratorPowers[(P-1) \div n]
Subgroup(n) == [i \in 0..(n-1) |-> GeneratorPowers[((P-1) \div n) * i]]

BarycentricWeights(points) ==
    [i \in DOMAIN points |-> Inv(ProductOf(LAMBDA j : points[i] - points[j], DOMAIN points \ {i}))]

---------------------------------------------------------------------------
(* Cells *)

Cell(col, x) == col :> (x % P)
ExtCell(col, a) == Cell(col, a[1]) @@ Cell(col + 1, a[2])
ExtAt(w, col) == <<w[col], w[col + 1]>>
ExtCols(col) == {col, col + 1}
Known(w, cols) == cols \subseteq DOMAIN w

\* A constraint over some columns: it can be checked once they have values.
Zero(w, cols, x) == Known(w, cols) => x % P = 0
ExtZero(w, cols, a) == Known(w, cols) => a = <<0, 0>>
\* The column holds one of 0, ..., n - 1: the product of its differences to them vanishes.
RangeChecked(w, col, n) == Zero(w, {col}, ProductOf(LAMBDA k : w[col] - k, 0..(n-1)))
=============================================================================
