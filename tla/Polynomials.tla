----------------------------- MODULE Polynomials -----------------------------
(***************************************************************************)
(* Polynomials over the field, as the values they take on a subgroup or as *)
(* their coefficients, and the transforms between the two. A vector of n   *)
(* elements is a function on 0..n-1, a batch of polynomials a sequence.    *)
(***************************************************************************)
EXTENDS FieldOps

Size(v) == Cardinality(DOMAIN v)
At(s, i) == s[i + 1]   \* s[i] of a sequence, as the code counts
CeilDiv(a, b) == (a + b - 1) \div b
Log2Strict(n) == CHOOSE lg \in 0..n : 2^lg = n
Log2Ceil(n) == CHOOSE lg \in 0..n : n <= 2^lg /\ (lg = 0 \/ n > 2^(lg - 1))

ReverseBits(i, lg) == MapThenSumSet(LAMBDA b : ((i \div 2^b) % 2) * 2^(lg - 1 - b), 0..(lg - 1))
ReverseIndexBits(v) == [i \in DOMAIN v |-> v[ReverseBits(i, Log2Strict(Size(v)))]]

---------------------------------------------------------------------------
(* Batched inversion *)

\* The product of the elements is inverted once. Four chains of products, of every fourth element,
\* meet at the end; walking a chain back gives the inverses of its elements.
Width == 4
BatchInverse(x) ==
    LET n     == Len(x)
        width == IF n < Width THEN n ELSE Width
        buf[i \in 1..n] == IF i <= width THEN x[i] ELSE (buf[i - width] * x[i]) % P
        ends  == (n - width + 1)..n
        inverse == Inv(ProductOf(LAMBDA i : buf[i], ends))
        a_inv[i \in 1..n] ==
            IF i \in ends THEN (inverse * ProductOf(LAMBDA j : buf[j], ends \ {i})) % P
            ELSE (a_inv[i + width] * x[i + width]) % P
    IN  [i \in 1..n |-> IF i <= width THEN a_inv[i] ELSE (buf[i - width] * a_inv[i]) % P]
Invertible(x) == \A i \in DOMAIN x : x[i] % P # 0

---------------------------------------------------------------------------
(* The fast Fourier transform *)

\* Row lg_half_m of fft_root_table(2^lg_n): the powers of a root of unity of order 2^(lg_half_m + 1).
RootTable(lg_half_m) == Subgroup(2^(lg_half_m + 1))

\* All but the first 1/2^r of the entries are zero. Their first r rounds only copy.
FftClassic(v, r) ==
    LET n        == Size(v)
        lg_n     == Log2Strict(n)
        reversed == ReverseIndexBits(v)
        round(values, lg_half_m) ==
            LET half  == 2^lg_half_m
                table == RootTable(lg_half_m)
            IN  Computed([i \in 0..(n-1) |->
                    LET j == i % half
                        k == i - (i % (2*half))
                        t == table[j] * values[k + half + j]
                    IN  IF i % (2*half) < half THEN (values[k + j] + t) % P
                                               ELSE (values[k + j] - t) % P])
    IN  FoldLeft(round, [i \in 0..(n-1) |-> reversed[i - (i % 2^r)]],
                 [l \in 1..(lg_n - r) |-> r + l - 1])

Inverse2Exp(lg) == P - (P - 1) \div 2^lg

\* The transform of the values, its entries but the first reversed, over n.
Ifft(v) ==
    LET n      == Size(v)
        buffer == FftClassic(v, 0)
        n_inv  == Inverse2Exp(Log2Strict(n))
    IN  [i \in 0..(n-1) |-> (buffer[(n - i) % n] * n_inv) % P]

CosetShift == Generator
ShiftPower(i) == GeneratorPowers[i % (P - 1)]

CosetFft(coeffs, r) ==
    FftClassic(Computed([i \in DOMAIN coeffs |-> (ShiftPower(i) * coeffs[i]) % P]), r)
CosetIfft(v) ==
    LET shifted == Ifft(v)
    IN  [i \in DOMAIN v |-> (shifted[i] * Inv(ShiftPower(i))) % P]

---------------------------------------------------------------------------
(* Coefficients *)

Padded(coeffs, n) == [i \in 0..(n-1) |-> IF i \in DOMAIN coeffs THEN coeffs[i] ELSE 0]
PolyEval(coeffs, x) ==
    ReduceWithPowers([i \in 1..Size(coeffs) |-> coeffs[i - 1]], x)

\* trim_to_len fails on a nonzero coefficient beyond the length.
Trimmable(coeffs, n) == \A i \in DOMAIN coeffs : i >= n => coeffs[i] = 0
Chunks(coeffs, factor, n) ==
    [c \in 1..factor |-> [i \in 0..(n-1) |-> coeffs[(c - 1)*n + i]]]

\* PolynomialBatch::from_coeffs: the coefficients, and the leaves of the Merkle tree over the values
\* on a coset of a larger subgroup, in the order that keeps cosets of the query rounds together.
LdeValues(coeffs, rate_bits) == CosetFft(Padded(coeffs, Size(coeffs) * 2^rate_bits), rate_bits)
FromCoeffs(polys, rate_bits) ==
    [polynomials |-> polys, rate_bits |-> rate_bits,
     leaves |-> [p \in DOMAIN polys |-> ReverseIndexBits(LdeValues(polys[p], rate_bits))]]
FromValues(values, rate_bits) ==
    FromCoeffs(Computed([p \in DOMAIN values |-> Ifft(values[p])]), rate_bits)

\* The values at the index * step th point.
GetLdeValues(batch, index, step) ==
    Computed([p \in DOMAIN batch.leaves |->
        batch.leaves[p][ReverseBits(index * step, Log2Strict(Size(batch.leaves[p])))]])
EvalCommitment(batch, x) ==
    [p \in DOMAIN batch.polynomials |-> PolyEval(batch.polynomials[p], x)]

---------------------------------------------------------------------------
(* Polynomials of the subgroup of order n *)

\* get_unique_coset_shifts: cosets of these shifts are disjoint.
CosetShifts(num_shifts) == [j \in 1..num_shifts |-> ShiftPower(j - 1)]

\* Z_H on the coset shift * K, where K has rate times the order of H: its values repeat.
ZeroPolyOnCoset(n, rate) ==
    [i \in 0..(rate - 1) |-> (ShiftPower(n) * Subgroup(rate)[i] - 1) % P]
EvalL0OnCoset(z_h, n, i, x) == (z_h[i % Size(z_h)] * Inv(n * (x - 1))) % P

EvalZeroPoly(n, x) == (Power(x, n) - 1) % P
EvalL0(n, x) == IF x = 1 THEN 1 ELSE (EvalZeroPoly(n, x) * Inv(n * (x - 1))) % P
EvalL0Circuit(n, x, x_pow_n) == ((x_pow_n - 1) * Inv(n*x - n)) % P
=============================================================================
