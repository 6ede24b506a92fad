-------------------------- MODULE GoldilocksWords --------------------------
(***************************************************************************)
(* Elements of the Goldilocks field as the code keeps them: machine words  *)
(* that need not be canonical, added, subtracted and multiplied with       *)
(* wrapped sums that are put right by Epsilon. Three implementations:      *)
(* scalar, AVX2 (no unsigned comparison, so words are shifted by the sign  *)
(* bit) and AVX-512. Code and model differ in Radix only, which is 2^32 in *)
(* the code: ORDER is Radix^2 - Radix + 1 there too. Where the code adds   *)
(* without wrapping, so does the model; ArithmeticTheorems proves that the *)
(* result is a word, and the right one.                                    *)
(***************************************************************************)
EXTENDS Integers

CONSTANT Radix \* the number of values of half a word

ASSUME RadixAssumption == Radix \in Nat /\ Radix >= 32 /\ Radix % 2 = 0

Word == Radix * Radix
EPSILON == Radix - 1
ORDER == Word - EPSILON
Words == 0 .. (Word - 1)
SignBit == Word \div 2

HighHalf(x) == x \div Radix
LowHalf(x) == x % Radix

\* A sum or difference of two words, as an instruction leaves it.
Wrapping(n) == IF n < 0 THEN n + Word ELSE IF n >= Word THEN n - Word ELSE n

\* The word x stands for the integer n.
SameElement(x, n) == \E k \in Int : n = x + k * ORDER
Represents(x, n) == x \in Words /\ SameElement(x, n)

---------------------------------------------------------------------------
(* Scalar arithmetic *)

ToCanonicalU64(x) == IF x >= ORDER THEN x - ORDER ELSE x

AddCanonicalU64(x, y) == Wrapping(x + y) + (IF x + y >= Word THEN EPSILON ELSE 0)
SubCanonicalU64(x, y) == Wrapping(x - y) - (IF x < y THEN EPSILON ELSE 0)

DoublyOverflows(x, y) == x + y >= Word /\ Wrapping(x + y) + EPSILON >= Word
ScalarAdd(x, y) ==
    LET over == IF x + y >= Word THEN EPSILON ELSE 0
        sum == Wrapping(Wrapping(x + y) + over)
    IN  sum + (IF DoublyOverflows(x, y) THEN EPSILON ELSE 0)

DoublyUnderflows(x, y) == x < y /\ Wrapping(x - y) < EPSILON
ScalarSub(x, y) ==
    LET under == IF x < y THEN EPSILON ELSE 0
        diff == Wrapping(Wrapping(x - y) - under)
    IN  diff - (IF DoublyUnderflows(x, y) THEN EPSILON ELSE 0)

ScalarNeg(x) == IF ToCanonicalU64(x) = 0 THEN 0 ELSE ORDER - ToCanonicalU64(x)

\* A negative n is cast to the word n + Word.
FromNoncanonicalI64(n) == IF n < 0 THEN Wrapping(ORDER + (n + Word)) ELSE n

\* Right only if x + y < Word + ORDER.
AddNoCanonicalize(x, y) ==
    LET adjustment == IF x + y >= Word THEN EPSILON ELSE 0
    IN  Wrapping(x + y) + adjustment

Reduce96(lo, hi) == AddNoCanonicalize(lo, hi * EPSILON)

SubWithBorrow(x, y) == IF x < y THEN Wrapping(x - y) - EPSILON ELSE x - y
Reduce128(lo, hi) ==
    AddNoCanonicalize(SubWithBorrow(lo, HighHalf(hi)), LowHalf(hi) * EPSILON)
Reduce128Of(n) == Reduce128(n % Word, n \div Word)
ScalarMul(x, y) == Reduce128Of(x * y)
MultiplyAccumulate(z, x, y) == Reduce128Of(z + x * y)

\* lo has two words; right only if lo + hi * Word^2 is below ORDER * Word * Radix.
Reduce160(lo, hi) ==
    LET upper == lo \div (Word * Radix) + hi * Radix
        mid == LowHalf(lo \div Word)
    IN  AddNoCanonicalize(SubWithBorrow(lo % Word, upper), mid * EPSILON)

---------------------------------------------------------------------------
(* Inversion by the power ORDER - 2, for the code's Radix: exponents of the *)
(* squarings and products, the squarings given by the factor they amount to. *)

ExpAcc(base, factor, tail) == base * factor + tail
InverseExponent ==
    LET t3 == 2 * (2 * 1 + 1) + 1
        t6 == ExpAcc(t3, 8, t3)
        t12 == ExpAcc(t6, 64, t6)
        t24 == ExpAcc(t12, 4096, t12)
        t31 == 2 * ExpAcc(t24, 64, t6) + 1
        t63 == ExpAcc(t31, 65536 * 65536, t31)
    IN  2 * t63 + 1

---------------------------------------------------------------------------
(* AVX2: comparisons are signed, so words are kept shifted by the sign bit. *)

Shift(x) == IF x >= SignBit THEN x - SignBit ELSE x + SignBit
Signed(x) == IF x >= SignBit THEN x - Word ELSE x
SignedHalf(h) == IF h >= Radix \div 2 THEN h - Radix ELSE h

CanonicalizeS(x_s) ==
    Wrapping(x_s + (IF Signed(Shift(ORDER)) > Signed(x_s) THEN 0 ELSE EPSILON))

AddNoDoubleOverflowS(x, y_s) ==
    LET res_wrapped_s == Wrapping(x + y_s)
    IN  Wrapping(res_wrapped_s + (IF Signed(y_s) > Signed(res_wrapped_s) THEN EPSILON ELSE 0))

Avx2Add(x, y) == Shift(AddNoDoubleOverflowS(x, CanonicalizeS(Shift(y))))
Avx2Sub(x, y) ==
    LET y_s == CanonicalizeS(Shift(y))
        x_s == Shift(x)
    IN  Wrapping(Wrapping(x_s - y_s) - (IF Signed(y_s) > Signed(x_s) THEN EPSILON ELSE 0))
Avx2Neg(y) == Wrapping(Shift(ORDER) - CanonicalizeS(Shift(y)))

\* The overflow is read off the upper halves alone.
AddSmallS(x_s, y) ==
    LET res_wrapped_s == Wrapping(x_s + y)
        overflowed == SignedHalf(HighHalf(x_s)) > SignedHalf(HighHalf(res_wrapped_s))
    IN  Wrapping(res_wrapped_s + (IF overflowed THEN EPSILON ELSE 0))
SubSmallS(x_s, y) ==
    LET res_wrapped_s == Wrapping(x_s - y)
        underflowed == SignedHalf(HighHalf(res_wrapped_s)) > SignedHalf(HighHalf(x_s))
    IN  Wrapping(res_wrapped_s - (IF underflowed THEN EPSILON ELSE 0))

\* The product of two words from the products of their halves.
Mul64(x, y) ==
    LET ll == LowHalf(x) * LowHalf(y)
        t0 == HighHalf(x) * LowHalf(y) + HighHalf(ll)
        t1 == LowHalf(x) * HighHalf(y) + LowHalf(t0)
        t2 == HighHalf(x) * HighHalf(y) + HighHalf(t0)
    IN  [hi |-> t2 + HighHalf(t1), lo |-> LowHalf(ll) + Radix * LowHalf(t1)]

Square64(x) ==
    LET ll == LowHalf(x) * LowHalf(x)
        lh == LowHalf(x) * HighHalf(x)
        t0 == lh + ll \div (2 * Radix)
    IN  [hi |-> HighHalf(x) * HighHalf(x) + t0 \div (Radix \div 2),
         lo |-> Wrapping(ll + ((2 * Radix * lh) % Word))]

Avx2Reduce128(x) ==
    Shift(AddSmallS(SubSmallS(Shift(x.lo), HighHalf(x.hi)), LowHalf(x.hi) * EPSILON))
Avx2Mul(x, y) == Avx2Reduce128(Mul64(x, y))
Avx2Square(x) == Avx2Reduce128(Square64(x))

---------------------------------------------------------------------------
(* AVX-512 *)

AddNoDoubleOverflow(x, y) ==
    LET res_wrapped == Wrapping(x + y)
    IN  IF res_wrapped < y THEN Wrapping(res_wrapped - ORDER) ELSE res_wrapped
SubNoDoubleOverflow(x, y) ==
    LET res_wrapped == Wrapping(x - y)
    IN  IF x < y THEN Wrapping(res_wrapped + ORDER) ELSE res_wrapped

Avx512Add(x, y) == AddNoDoubleOverflow(x, ToCanonicalU64(y))
Avx512Sub(x, y) == SubNoDoubleOverflow(x, ToCanonicalU64(y))
Avx512Neg(y) == Wrapping(ORDER - ToCanonicalU64(y))
Avx512Reduce128(x) ==
    AddNoDoubleOverflow(SubNoDoubleOverflow(x.lo, HighHalf(x.hi)), LowHalf(x.hi) * EPSILON)
Avx512Mul(x, y) == Avx512Reduce128(Mul64(x, y))
Avx512Square(x) == Avx512Reduce128(Square64(x))

---------------------------------------------------------------------------
(* Extension fields: a coefficient's products are summed on two words and a *)
(* half, and reduced once. *)

DoubleWord == Word * Word

Wide(n) == [lo |-> n, hi |-> 0]
AddTo(c, n) ==
    LET carry == IF c.lo + n >= DoubleWord THEN 1 ELSE 0
    IN  [lo |-> c.lo + n - carry * DoubleWord, hi |-> c.hi + carry]

U160Times7(c) ==
    LET shifted == (8 * c.lo) % DoubleWord
        borrow == IF shifted < c.lo THEN 1 ELSE 0
    IN  [lo |-> shifted - c.lo + borrow * DoubleWord,
         hi |-> 7 * c.hi + ((8 * c.lo) \div DoubleWord) - borrow]
U160Times3(c) ==
    LET shifted == (2 * c.lo) % DoubleWord
        carry == IF shifted + c.lo >= DoubleWord THEN 1 ELSE 0
    IN  [lo |-> shifted + c.lo - carry * DoubleWord,
         hi |-> 3 * c.hi + ((2 * c.lo) \div DoubleWord) + carry]

Reduced(c) == Reduce160(c.lo, c.hi)

Ext2AddProds0(a, b) == Reduced(AddTo(U160Times7(Wide(a[1] * b[1])), a[0] * b[0]))
Ext2AddProds1(a, b) == Reduced(AddTo(Wide(a[0] * b[1]), a[1] * b[0]))

Ext4AddProds0(a, b) ==
    Reduced(AddTo(U160Times7(AddTo(AddTo(Wide(a[1] * b[3]), a[2] * b[2]), a[3] * b[1])),
                 a[0] * b[0]))
Ext4AddProds1(a, b) ==
    Reduced(AddTo(AddTo(U160Times7(AddTo(Wide(a[2] * b[3]), a[3] * b[2])), a[0] * b[1]),
                 a[1] * b[0]))
Ext4AddProds2(a, b) ==
    Reduced(AddTo(AddTo(AddTo(U160Times7(Wide(a[3] * b[3])), a[0] * b[2]), a[1] * b[1]),
                 a[2] * b[0]))
Ext4AddProds3(a, b) ==
    Reduced(AddTo(AddTo(AddTo(Wide(a[0] * b[3]), a[1] * b[2]), a[2] * b[1]), a[3] * b[0]))

Ext5AddProds0(a, b) ==
    Reduced(AddTo(U160Times3(AddTo(AddTo(AddTo(Wide(a[1] * b[4]), a[2] * b[3]), a[3] * b[2]),
                                 a[4] * b[1])),
                 a[0] * b[0]))
Ext5AddProds1(a, b) ==
    Reduced(AddTo(AddTo(U160Times3(AddTo(AddTo(Wide(a[2] * b[4]), a[3] * b[3]), a[4] * b[2])),
                      a[0] * b[1]), a[1] * b[0]))
Ext5AddProds2(a, b) ==
    Reduced(AddTo(AddTo(AddTo(U160Times3(AddTo(Wide(a[3] * b[4]), a[4] * b[3])), a[0] * b[2]),
                      a[1] * b[1]), a[2] * b[0]))
Ext5AddProds3(a, b) ==
    Reduced(AddTo(AddTo(AddTo(AddTo(U160Times3(Wide(a[4] * b[4])), a[0] * b[3]), a[1] * b[2]),
                      a[2] * b[1]), a[3] * b[0]))
Ext5AddProds4(a, b) ==
    Reduced(AddTo(AddTo(AddTo(AddTo(Wide(a[0] * b[4]), a[1] * b[3]), a[2] * b[2]),
                      a[3] * b[1]), a[4] * b[0]))

---------------------------------------------------------------------------
(* Poseidon's MDS layer: the halves of the words, each transformed, multiplied
   by the circulant matrix in the frequency domain and transformed back. *)

Fft4Real(x0, x1, x2, x3) ==
    [y0 |-> (x0 + x2) + (x1 + x3), re |-> x0 - x2, im |-> -(x1 - x3),
     y2 |-> (x0 + x2) - (x1 + x3)]
Ifft4RealUnreduced(y0, re, im, y2) ==
    [x0 |-> (y0 + y2) + re, x1 |-> (y0 - y2) + -im,
     x2 |-> (y0 + y2) - re, x3 |-> (y0 - y2) - -im]

Block1(x0, x1, x2) ==
    [z0 |-> x0 * 16 + x1 * 16 + x2 * 32,
     z1 |-> x0 * 32 + x1 * 16 + x2 * 16,
     z2 |-> x0 * 16 + x1 * 32 + x2 * 16]
Block3(x0, x1, x2) ==
    [z0 |-> x0 * (-1) - x1 * 2 - x2 * (-8),
     z1 |-> x0 * (-8) + x1 * (-1) - x2 * 2,
     z2 |-> x0 * 2 + x1 * (-8) + x2 * (-1)]

\* Complex products by three real ones; the factors are 2 - i, -4 + i and 16 + i.
Karatsuba(r, i, yr, yi) ==
    [re |-> r * yr - i * yi, im |-> (r + i) * (yr + yi) - r * yr - i * yi]
Block2(x0, x1, x2) ==
    LET Y0(x) == Karatsuba(x.re, x.im, 2, -1)
        Y1(x) == Karatsuba(x.re, x.im, -4, 1)
        Y2(x) == Karatsuba(x.re, x.im, 16, 1)
    IN  [z0 |-> [re |-> Y0(x0).re + Y2(x1).im + Y1(x2).im,
                 im |-> Y0(x0).im - Y2(x1).re - Y1(x2).re],
         z1 |-> [re |-> Y1(x0).re + Y0(x1).re + Y2(x2).im,
                 im |-> Y1(x0).im + Y0(x1).im - Y2(x2).re],
         z2 |-> [re |-> Y2(x0).re + Y1(x1).re + Y0(x2).re,
                 im |-> Y2(x0).im + Y1(x1).im + Y0(x2).im]]

MdsMultiplyFreq(s) ==
    LET a == Fft4Real(s[0], s[3], s[6], s[9])
        b == Fft4Real(s[1], s[4], s[7], s[10])
        c == Fft4Real(s[2], s[5], s[8], s[11])
        one == Block1(a.y0, b.y0, c.y0)
        two == Block2(a, b, c)
        three == Block3(a.y2, b.y2, c.y2)
        u == Ifft4RealUnreduced(one.z0, two.z0.re, two.z0.im, three.z0)
        v == Ifft4RealUnreduced(one.z1, two.z1.re, two.z1.im, three.z1)
        w == Ifft4RealUnreduced(one.z2, two.z2.re, two.z2.im, three.z2)
        out == <<u.x0, v.x0, w.x0, u.x1, v.x1, w.x1, u.x2, v.x2, w.x2, u.x3, v.x3, w.x3>>
    IN  [r \in 0 .. 11 |-> out[r + 1]]

\* The rows of the matrix: MDS_MATRIX_CIRC, and 8 on the diagonal's first place.
MdsRow(s, r) ==
    17 * s[r] + 15 * s[(r + 1) % 12] + 41 * s[(r + 2) % 12] + 16 * s[(r + 3) % 12]
      + 2 * s[(r + 4) % 12] + 28 * s[(r + 5) % 12] + 13 * s[(r + 6) % 12]
      + 13 * s[(r + 7) % 12] + 39 * s[(r + 8) % 12] + 18 * s[(r + 9) % 12]
      + 34 * s[(r + 10) % 12] + 20 * s[(r + 11) % 12]
MdsRowShf(s, r) == MdsRow(s, r) + (IF r = 0 THEN 8 * s[0] ELSE 0)

FromNoncanonicalU96(n) == Reduce96(n % Word, n \div Word)
MdsLayer(state) ==
    LET low == MdsMultiplyFreq([r \in 0 .. 11 |-> LowHalf(state[r])])
        high == MdsMultiplyFreq([r \in 0 .. 11 |-> HighHalf(state[r])])
        Product(r) == FromNoncanonicalU96(low[r] + high[r] * Radix)
    IN  [r \in 0 .. 11 |->
           IF r = 0 THEN ScalarAdd(Product(0), FromNoncanonicalU96(8 * state[0]))
                    ELSE Product(r)]

=============================================================================
