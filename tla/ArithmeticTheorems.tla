------------------------- MODULE ArithmeticTheorems -------------------------
(***************************************************************************)
(* Arithmetic that the circuits rest on.  First the words of the field:    *)
(* whatever words the operands are, canonical or not, the three            *)
(* implementations of the field's operations return words that stand for   *)
(* the result: no corrected sum needs a second correction that the code    *)
(* does not make, and no sum that must not overflow does.  Then numbers of *)
(* several limbs, points and windowed products: every stage of the witness *)
(* of a signature's check holds the multiple of the generator that it is   *)
(* meant to hold, so that the circuit's verdict is the library's.  Last    *)
(* the carries, borrows and quotients of those numbers: the witness is     *)
(* stuck at the exceptional points and nowhere else.                       *)
(***************************************************************************)
EXTENDS GoldilocksWords, EcdsaCircuit, FiniteSetTheorems, WellFoundedInduction, TLAPS

---------------------------------------------------------------------------
(* Sizes *)

LEMMA HalfOfRadix == Radix \div 2 \in Nat /\ Radix = 2 * (Radix \div 2) /\ Radix \div 2 >= 8
<1>1. \A n \in Nat : n % 2 = 0 => n = 2 * (n \div 2) /\ n \div 2 \in Nat
  OBVIOUS
<1>2. Radix \in Nat /\ Radix >= 32 /\ Radix % 2 = 0
  BY RadixAssumption
<1>3. Radix = 2 * (Radix \div 2) /\ Radix \div 2 \in Nat
  BY <1>1, <1>2
<1> QED
  BY <1>2, <1>3

LEMMA Sizes ==
    /\ Radix \in Nat /\ Radix >= 32
    /\ Word \in Nat /\ Word >= 16 * Radix
    /\ EPSILON \in Nat /\ EPSILON >= 15 /\ EPSILON = Radix - 1
    /\ ORDER \in Nat /\ ORDER = Word - EPSILON /\ ORDER >= 15 * Radix
    /\ SignBit \in Nat /\ Word = 2 * SignBit
<1>1. PICK h \in Nat : Radix = 2 * h
  BY HalfOfRadix
<1>2. Word = 2 * (h * Radix)
  BY <1>1, RadixAssumption DEF Word
<1>3. h * Radix \in Nat
  BY RadixAssumption
<1>4. Word >= 16 * Radix
  BY RadixAssumption DEF Word
<1> QED
  BY <1>2, <1>3, <1>4, RadixAssumption DEF EPSILON, ORDER, SignBit

LEMMA Halves ==
    ASSUME NEW n \in Nat
    PROVE  /\ n = Radix * HighHalf(n) + LowHalf(n)
           /\ LowHalf(n) \in 0 .. EPSILON
           /\ HighHalf(n) \in Nat
BY RadixAssumption DEF HighHalf, LowHalf, EPSILON

LEMMA HalvesOfWord ==
    ASSUME NEW x \in Words
    PROVE  /\ x = Radix * HighHalf(x) + LowHalf(x)
           /\ LowHalf(x) \in 0 .. EPSILON
           /\ HighHalf(x) \in 0 .. EPSILON
BY RadixAssumption DEF HighHalf, LowHalf, EPSILON, Words, Word

\* Differences that the arithmetic makes: none, or once or twice the order.
LEMMA Shifted ==
    ASSUME NEW x \in Int, NEW n \in Int,
           n \in {x, x + ORDER, x - ORDER, x + 2 * ORDER, x - 2 * ORDER}
    PROVE  SameElement(x, n)
<1>1. ORDER \in Int
  BY Sizes
<1>2. n = x + 0 * ORDER \/ n = x + 1 * ORDER \/ n = x + (-1) * ORDER
        \/ n = x + 2 * ORDER \/ n = x + (-2) * ORDER
  BY <1>1
<1> QED
  BY <1>2 DEF SameElement

---------------------------------------------------------------------------
(* Scalar addition and subtraction *)

\* Add for GoldilocksField: the sum, and the second correction is made only for operands
\* that the code tells the compiler to assume when it gets there.
THEOREM AddIsSum ==
    ASSUME NEW x \in Words, NEW y \in Words
    PROVE  /\ Represents(ScalarAdd(x, y), x + y)
           /\ DoublyOverflows(x, y) => x > ORDER /\ y > ORDER
<1>1. ScalarAdd(x, y) \in Words
  BY Sizes DEF ScalarAdd, DoublyOverflows, Wrapping, Words
<1>2. x + y \in {ScalarAdd(x, y), ScalarAdd(x, y) + ORDER, ScalarAdd(x, y) + 2 * ORDER}
  BY Sizes DEF ScalarAdd, DoublyOverflows, Wrapping, Words
<1>3. DoublyOverflows(x, y) => x > ORDER /\ y > ORDER
  BY Sizes DEF DoublyOverflows, Wrapping, Words
<1>4. ScalarAdd(x, y) \in Int /\ x + y \in Int
  BY <1>1, Sizes DEF Words
<1> QED
  BY <1>1, <1>2, <1>3, <1>4, Shifted DEF Represents

\* Sub for GoldilocksField: the difference, and the second correction is made only for
\* operands that the code tells the compiler to assume when it gets there.
THEOREM SubIsDifference ==
    ASSUME NEW x \in Words, NEW y \in Words
    PROVE  /\ Represents(ScalarSub(x, y), x - y)
           /\ DoublyUnderflows(x, y) => x < EPSILON - 1 /\ y > ORDER
<1>1. ScalarSub(x, y) \in Words
  BY Sizes DEF ScalarSub, DoublyUnderflows, Wrapping, Words
<1>2. x - y \in {ScalarSub(x, y), ScalarSub(x, y) - ORDER, ScalarSub(x, y) - 2 * ORDER}
  BY Sizes DEF ScalarSub, DoublyUnderflows, Wrapping, Words
<1>3. DoublyUnderflows(x, y) => x < EPSILON - 1 /\ y > ORDER
  BY Sizes DEF DoublyUnderflows, Wrapping, Words
<1>4. ScalarSub(x, y) \in Int /\ x - y \in Int
  BY <1>1, Sizes DEF Words
<1> QED
  BY <1>1, <1>2, <1>3, <1>4, Shifted DEF Represents

\* Multiples of the order may be added to what a word stands for.
LEMMA SameShifted ==
    ASSUME NEW x \in Int, NEW m \in Int, NEW j \in Int, SameElement(x, m)
    PROVE  SameElement(x, m + j * ORDER)
<1>1. PICK k \in Int : m = x + k * ORDER
  BY DEF SameElement
<1>2. m + j * ORDER = x + (k + j) * ORDER
  BY <1>1, Sizes
<1> QED
  BY <1>2 DEF SameElement

\* PartialEq and to_canonical_u64: one subtraction makes a word canonical, and words are equal
\* as elements exactly when their canonical forms are.
THEOREM CanonicalFormsDecide ==
    ASSUME NEW x \in Words, NEW y \in Words
    PROVE  /\ ToCanonicalU64(x) \in 0 .. (ORDER - 1)
           /\ SameElement(x, y) <=> ToCanonicalU64(x) = ToCanonicalU64(y)
<1>1. ToCanonicalU64(x) \in 0 .. (ORDER - 1)
  BY Sizes DEF ToCanonicalU64, Words
<1>2. ASSUME SameElement(x, y) PROVE y \in {x, x + ORDER, x - ORDER}
  <2>1. PICK k \in Int : y = x + k * ORDER
    BY <1>2 DEF SameElement
  <2>2. k < 2 /\ k > -2
    <3>1. k >= 2 => k * ORDER >= 2 * ORDER
      BY Sizes
    <3>2. k <= -2 => k * ORDER <= -(2 * ORDER)
      BY Sizes
    <3> QED
      BY <2>1, <3>1, <3>2, Sizes DEF Words
  <2>3. k \in {-1, 0, 1}
    BY <2>2
  <2> QED
    BY <2>1, <2>3, Sizes DEF Words
<1>3. y \in {x, x + ORDER, x - ORDER} <=> ToCanonicalU64(x) = ToCanonicalU64(y)
  BY Sizes DEF ToCanonicalU64, Words
<1>4. y \in {x, x + ORDER, x - ORDER} => SameElement(x, y)
  BY Shifted DEF Words
<1> QED
  BY <1>1, <1>2, <1>3, <1>4

LEMMA CanonicalRepresents ==
    ASSUME NEW x \in Words
    PROVE  /\ ToCanonicalU64(x) \in 0 .. (ORDER - 1)
           /\ x \in {ToCanonicalU64(x), ToCanonicalU64(x) + ORDER}
BY Sizes DEF ToCanonicalU64, Words

\* Neg for GoldilocksField: the negation, of canonical and other words.
THEOREM NegIsNegation ==
    ASSUME NEW x \in Words
    PROVE  Represents(ScalarNeg(x), -x)
<1>1. /\ ScalarNeg(x) \in Words
      /\ -x \in {ScalarNeg(x), ScalarNeg(x) - ORDER, ScalarNeg(x) - 2 * ORDER}
  BY Sizes, CanonicalRepresents DEF ScalarNeg, Words
<1> QED
  BY <1>1, Shifted DEF Represents, Words

\* from_noncanonical_i64: every signed word becomes a canonical one (the debug assertion of
\* from_canonical_u64 holds).
THEOREM CastIsCanonical ==
    ASSUME NEW n \in (-SignBit) .. (SignBit - 1)
    PROVE  Represents(FromNoncanonicalI64(n), n) /\ FromNoncanonicalI64(n) < ORDER
<1>1. /\ FromNoncanonicalI64(n) \in Words /\ FromNoncanonicalI64(n) < ORDER
      /\ n \in {FromNoncanonicalI64(n), FromNoncanonicalI64(n) - ORDER}
  BY Sizes DEF FromNoncanonicalI64, Wrapping, Words
<1> QED
  BY <1>1, Sizes, Shifted DEF Represents, Words

---------------------------------------------------------------------------
(* Reductions *)

LEMMA AddNoCanonicalizeFits ==
    ASSUME NEW x \in Words, NEW y \in Words, x + y < Word + ORDER
    PROVE  /\ AddNoCanonicalize(x, y) \in Words
           /\ x + y \in {AddNoCanonicalize(x, y), AddNoCanonicalize(x, y) + ORDER}
BY Sizes DEF AddNoCanonicalize, Wrapping, Words

LEMMA SubWithBorrowFits ==
    ASSUME NEW x \in Words, NEW y \in 0 .. (ORDER - 1)
    PROVE  /\ SubWithBorrow(x, y) \in Words
           /\ x - y \in {SubWithBorrow(x, y), SubWithBorrow(x, y) - ORDER}
BY Sizes DEF SubWithBorrow, Wrapping, Words

\* add_canonical_u64, sub_canonical_u64: with a canonical second operand one correction is
\* enough.
THEOREM CanonicalOperands ==
    ASSUME NEW x \in Words, NEW y \in 0 .. (ORDER - 1)
    PROVE  /\ Represents(AddCanonicalU64(x, y), x + y)
           /\ Represents(SubCanonicalU64(x, y), x - y)
<1>1. /\ AddCanonicalU64(x, y) \in Words
      /\ x + y \in {AddCanonicalU64(x, y), AddCanonicalU64(x, y) + ORDER}
  BY Sizes DEF AddCanonicalU64, Wrapping, Words
<1>2. /\ SubCanonicalU64(x, y) \in Words
      /\ x - y \in {SubCanonicalU64(x, y), SubCanonicalU64(x, y) - ORDER}
  BY Sizes DEF SubCanonicalU64, Wrapping, Words
<1>3. x + y \in Int /\ x - y \in Int /\ \A w \in Words : w \in Int
  BY Sizes DEF Words
<1> QED
  BY <1>1, <1>2, <1>3, Shifted DEF Represents

LEMMA SmallProduct ==
    ASSUME NEW h \in 0 .. EPSILON
    PROVE  /\ h * EPSILON \in Words /\ h * EPSILON <= Word - 2 * Radix + 1
           /\ h * Word = h * EPSILON + h * ORDER
<1>1. h * EPSILON \in Nat /\ h * EPSILON <= EPSILON * EPSILON
  BY Sizes
<1>2. EPSILON * EPSILON = Word - 2 * Radix + 1
  BY RadixAssumption DEF EPSILON, Word
<1>3. h * Word = h * EPSILON + h * ORDER
  BY Sizes
<1> QED
  BY <1>1, <1>2, <1>3, Sizes DEF Words

\* reduce96: a word and a half are reduced to a word, which the addition's condition allows.
THEOREM Reduce96IsRight ==
    ASSUME NEW lo \in Words, NEW hi \in 0 .. EPSILON
    PROVE  Represents(Reduce96(lo, hi), lo + hi * Word)
<1> DEFINE t1 == hi * EPSILON
           r == AddNoCanonicalize(lo, t1)
<1>1. t1 \in Words /\ t1 <= Word - 2 * Radix + 1 /\ hi * Word = t1 + hi * ORDER
  BY SmallProduct
<1> HIDE DEF t1
<1>2. r \in Words /\ lo + t1 \in {r, r + ORDER}
  BY <1>1, AddNoCanonicalizeFits, Sizes DEF Words
<1>3. r \in Int /\ lo + t1 \in Int /\ hi \in Int /\ hi * ORDER \in Int
  BY <1>1, <1>2, Sizes DEF Words
<1>4. SameElement(r, lo + t1 + hi * ORDER)
  BY <1>2, <1>3, Shifted, SameShifted
<1>5. lo + t1 + hi * ORDER = lo + hi * Word
  BY <1>1, <1>3, Sizes DEF Words
<1> QED
  BY <1>2, <1>4, <1>5 DEF Represents, Reduce96, t1

\* Word * Radix is the order's companion: one more, and it is a multiple of it.
LEMMA CubeOfRadix == Word * Radix + 1 = (Radix + 1) * ORDER
BY RadixAssumption DEF ORDER, EPSILON, Word

\* What all reductions compute of lo + mid * Word + upper * Word * Radix.
LEMMA ReducedParts ==
    ASSUME NEW lo \in Int, NEW mid \in Int, NEW upper \in Int, NEW r \in Int,
           SameElement(r, lo - upper + mid * EPSILON)
    PROVE  SameElement(r, lo + mid * Word + upper * (Word * Radix))
<1> DEFINE k == mid + upper * (Radix + 1)
<1>1. k \in Int /\ lo - upper + mid * EPSILON \in Int
  BY Sizes
<1>2. SameElement(r, lo - upper + mid * EPSILON + k * ORDER)
  BY <1>1, SameShifted
<1>3. upper * (Word * Radix) = upper * ((Radix + 1) * ORDER) - upper
  <2>1. upper * (Word * Radix + 1) = upper * (Word * Radix) + upper
    BY Sizes
  <2> QED
    BY <2>1, CubeOfRadix, Sizes
<1>4. mid * Word = mid * EPSILON + mid * ORDER
  BY Sizes
<1>5. k * ORDER = mid * ORDER + upper * ((Radix + 1) * ORDER)
  BY Sizes
<1>6. lo - upper + mid * EPSILON + k * ORDER = lo + mid * Word + upper * (Word * Radix)
  <2> HIDE DEF k
  <2> QED
    BY <1>1, <1>3, <1>4, <1>5, Sizes
<1> QED
  BY <1>2, <1>6

LEMMA SubtractThenAdd ==
    ASSUME NEW lo \in Words, NEW mid \in 0 .. EPSILON, NEW upper \in 0 .. (ORDER - 1)
    PROVE  Represents(AddNoCanonicalize(SubWithBorrow(lo, upper), mid * EPSILON),
                      lo + mid * Word + upper * (Word * Radix))
<1> DEFINE t0 == SubWithBorrow(lo, upper)
           t1 == mid * EPSILON
           r == AddNoCanonicalize(t0, t1)
<1>1. t0 \in Words /\ lo - upper \in {t0, t0 - ORDER}
  BY SubWithBorrowFits
<1>2. t1 \in Words /\ t1 <= Word - 2 * Radix + 1
  BY SmallProduct
<1> HIDE DEF t0, t1
<1>3. r \in Words /\ t0 + t1 \in {r, r + ORDER}
  BY <1>1, <1>2, AddNoCanonicalizeFits, Sizes DEF Words
<1>4. lo - upper + t1 \in {r, r + ORDER, r - ORDER}
  BY <1>1, <1>2, <1>3, Sizes DEF Words
<1>5. lo \in Int /\ mid \in Int /\ upper \in Int /\ r \in Int /\ lo - upper + t1 \in Int
  BY <1>2, <1>3, Sizes DEF Words
<1>6. SameElement(r, lo - upper + t1)
  BY <1>4, <1>5, Shifted
<1>7. SameElement(r, lo + mid * Word + upper * (Word * Radix))
  BY <1>5, <1>6, ReducedParts DEF t1
<1> QED
  BY <1>3, <1>7 DEF Represents, t0, t1

\* reduce128: two words, whatever they are, are reduced to a word.
THEOREM Reduce128IsRight ==
    ASSUME NEW lo \in Words, NEW hi \in Words
    PROVE  Represents(Reduce128(lo, hi), lo + hi * Word)
<1>1. /\ hi = Radix * HighHalf(hi) + LowHalf(hi)
      /\ LowHalf(hi) \in 0 .. EPSILON
      /\ HighHalf(hi) \in 0 .. (ORDER - 1)
  BY HalvesOfWord, Sizes
<1>2. Represents(Reduce128(lo, hi), lo + LowHalf(hi) * Word + HighHalf(hi) * (Word * Radix))
  BY <1>1, SubtractThenAdd DEF Reduce128
<1>3. LowHalf(hi) * Word + HighHalf(hi) * (Word * Radix) = hi * Word
  BY <1>1, Sizes
<1>4. lo \in Int /\ LowHalf(hi) * Word \in Int /\ HighHalf(hi) * (Word * Radix) \in Int
  BY <1>1, Sizes DEF Words
<1> QED
  BY <1>2, <1>3, <1>4

LEMMA SplitInWords ==
    ASSUME NEW n \in Nat, n < Word * Word
    PROVE  /\ n % Word \in Words /\ n \div Word \in Words
           /\ n = (n % Word) + (n \div Word) * Word
<1>1. Word \in Nat /\ Word > 0
  BY Sizes
<1>2. n = Word * (n \div Word) + (n % Word) /\ n % Word \in 0 .. (Word - 1) /\ n \div Word \in Nat
  BY <1>1
<1>3. n \div Word < Word
  <2>1. n \div Word >= Word => Word * (n \div Word) >= Word * Word
    BY <1>1, <1>2
  <2> QED
    BY <1>1, <1>2, <2>1
<1> QED
  BY <1>1, <1>2, <1>3 DEF Words

LEMMA Distribute ==
    ASSUME NEW a \in Int, NEW b \in Int, NEW c \in Int
    PROVE  (a + b) * c = a * c + b * c
OBVIOUS

LEMMA ProductsFit ==
    ASSUME NEW x \in Words, NEW y \in Words
    PROVE  x * y \in Nat /\ x * y <= (Word - 1) * (Word - 1)
BY Sizes DEF Words

LEMMA Reduce128OfIsRight ==
    ASSUME NEW n \in Nat, n < Word * Word
    PROVE  Represents(Reduce128Of(n), n)
BY SplitInWords, Reduce128IsRight DEF Reduce128Of

\* Mul for GoldilocksField: the product of any two words.
THEOREM MulIsProduct ==
    ASSUME NEW x \in Words, NEW y \in Words
    PROVE  Represents(ScalarMul(x, y), x * y)
<1>1. x * y \in Nat /\ x * y < Word * Word
  BY ProductsFit, Sizes
<1> QED
  BY <1>1, Reduce128OfIsRight DEF ScalarMul

\* multiply_accumulate: adding a word to the product does not overflow two words.
THEOREM AccumulateIsRight ==
    ASSUME NEW x \in Words, NEW y \in Words, NEW z \in Words
    PROVE  Represents(MultiplyAccumulate(z, x, y), z + x * y)
<1>1. z + x * y \in Nat /\ z + x * y < Word * Word
  BY ProductsFit, Sizes DEF Words
<1> QED
  BY <1>1, Reduce128OfIsRight DEF MultiplyAccumulate

\* reduce160: right as long as the words above the third half-word are canonical, as its
\* comment asks.
THEOREM Reduce160IsRight ==
    ASSUME NEW lo \in Nat, NEW hi \in Nat, lo < Word * Word,
           hi * Radix + lo \div (Word * Radix) < ORDER
    PROVE  Represents(Reduce160(lo, hi), lo + hi * (Word * Word))
<1> DEFINE high == lo \div Word
           upper == lo \div (Word * Radix) + hi * Radix
<1>1. lo % Word \in Words /\ high \in Words /\ lo = (lo % Word) + high * Word
  BY SplitInWords
<1>2. /\ high = Radix * HighHalf(high) + LowHalf(high)
      /\ LowHalf(high) \in 0 .. EPSILON /\ HighHalf(high) \in Nat
  BY <1>1, HalvesOfWord, Sizes
<1>3. lo \div (Word * Radix) = HighHalf(high)
  <2> DEFINE q == HighHalf(high)
             s == (lo % Word) + LowHalf(high) * Word
  <2>1. lo = q * (Word * Radix) + s
    <3> HIDE DEF high
    <3>1. high * Word = (Radix * HighHalf(high)) * Word + LowHalf(high) * Word
      BY <1>1, <1>2, Distribute, Sizes
    <3> QED
      BY <1>1, <1>2, <3>1, Sizes DEF Words
  <2>2. s \in 0 .. (Word * Radix - 1)
    <3>1. LowHalf(high) * Word <= EPSILON * Word
      BY <1>2, Sizes
    <3>2. EPSILON * Word = Word * Radix - Word
      BY Sizes
    <3>3. LowHalf(high) * Word \in Nat
      BY <1>2, Sizes
    <3> QED
      BY <1>1, <3>1, <3>2, <3>3, Sizes DEF Words
  <2>3. Word * Radix \in Nat /\ Word * Radix > 0 /\ q \in Nat
    BY <1>2, Sizes
  <2> HIDE DEF q, s
  <2>4. \A d \in Nat \ {0}, a \in Nat : \A b \in 0 .. (d - 1) : (a * d + b) \div d = a
    OBVIOUS
  <2>5. lo \div (Word * Radix) = q
    BY <2>1, <2>2, <2>3, <2>4
  <2> QED
    BY <2>5 DEF q
<1>4. upper \in 0 .. (ORDER - 1)
  BY <1>2, <1>3, Sizes
<1>5. Represents(Reduce160(lo, hi),
                 (lo % Word) + LowHalf(high) * Word + upper * (Word * Radix))
  BY <1>1, <1>2, <1>4, SubtractThenAdd DEF Reduce160
<1>6. upper * (Word * Radix) = (Radix * HighHalf(high)) * Word + hi * (Word * Word)
  <2>1. upper = HighHalf(high) + hi * Radix
    BY <1>3
  <2>2. Radix * (Word * Radix) = Word * Word
    BY Sizes DEF Word
  <2>3. upper * (Word * Radix)
          = HighHalf(high) * (Word * Radix) + (hi * Radix) * (Word * Radix)
    <3> HIDE DEF upper, high
    <3>1. HighHalf(high) \in Int /\ hi * Radix \in Int /\ Word * Radix \in Int
      BY <1>2, Sizes
    <3> QED
      BY <2>1, <3>1, Distribute
  <2>4. HighHalf(high) * (Word * Radix) = (Radix * HighHalf(high)) * Word
    <3> HIDE DEF high
    <3> QED
      BY <1>2, Sizes
  <2>5. (hi * Radix) * (Word * Radix) = hi * (Radix * (Word * Radix))
    BY Sizes
  <2> QED
    BY <2>2, <2>3, <2>4, <2>5
<1>7. (lo % Word) + LowHalf(high) * Word + upper * (Word * Radix) = lo + hi * (Word * Word)
  <2> HIDE DEF high, upper
  <2>1. high * Word = (Radix * HighHalf(high)) * Word + LowHalf(high) * Word
    BY <1>1, <1>2, Distribute, Sizes
  <2> QED
    BY <1>1, <1>2, <1>6, <2>1, Sizes DEF Words
<1> QED
  BY <1>5, <1>7

\* try_inverse: the chain of squarings and products is the power ORDER - 2.
THEOREM InverseIsFermat ==
    ASSUME Radix = 65536 * 65536
    PROVE  InverseExponent = ORDER - 2
BY DEF InverseExponent, ExpAcc, ORDER, EPSILON, Word

---------------------------------------------------------------------------
(* Products of words from products of halves *)

LEMMA HalfProducts ==
    ASSUME NEW a \in 0 .. EPSILON, NEW b \in 0 .. EPSILON
    PROVE  a * b \in Nat /\ a * b <= Word - 2 * Radix + 1
<1>1. a * b \in Nat /\ a * b <= EPSILON * EPSILON
  BY Sizes
<1> QED
  BY <1>1, RadixAssumption DEF EPSILON, Word

\* mul64_64: no sum of half products overflows, and the result is the product.
THEOREM Mul64IsProduct ==
    ASSUME NEW x \in Words, NEW y \in Words
    PROVE  LET product == Mul64(x, y)
           IN  /\ product.hi \in Words /\ product.lo \in Words
               /\ product.lo + product.hi * Word = x * y
<1> DEFINE xh == HighHalf(x)  xl == LowHalf(x)  yh == HighHalf(y)  yl == LowHalf(y)
           ll == xl * yl
           t0 == xh * yl + HighHalf(ll)
           t1 == xl * yh + LowHalf(t0)
           t2 == xh * yh + HighHalf(t0)
<1>1. /\ x = Radix * xh + xl /\ xh \in 0 .. EPSILON /\ xl \in 0 .. EPSILON
      /\ y = Radix * yh + yl /\ yh \in 0 .. EPSILON /\ yl \in 0 .. EPSILON
  BY HalvesOfWord
<1>2. Mul64(x, y) = [hi |-> t2 + HighHalf(t1), lo |-> LowHalf(ll) + Radix * LowHalf(t1)]
  BY DEF Mul64
<1> HIDE DEF xh, xl, yh, yl
<1>3. /\ ll \in Nat /\ ll <= Word - 2 * Radix + 1
      /\ xh * yl \in Nat /\ xh * yl <= Word - 2 * Radix + 1
      /\ xl * yh \in Nat /\ xl * yh <= Word - 2 * Radix + 1
      /\ xh * yh \in Nat /\ xh * yh <= Word - 2 * Radix + 1
  BY <1>1, HalfProducts
<1> HIDE DEF ll
<1>4. /\ ll = Radix * HighHalf(ll) + LowHalf(ll) /\ LowHalf(ll) \in 0 .. EPSILON
      /\ HighHalf(ll) \in 0 .. EPSILON
  BY <1>3, HalvesOfWord, Sizes DEF Words
<1>5. t0 \in Words
  BY <1>3, <1>4, Sizes DEF Words
<1> HIDE DEF t0
<1>6. /\ t0 = Radix * HighHalf(t0) + LowHalf(t0) /\ LowHalf(t0) \in 0 .. EPSILON
      /\ HighHalf(t0) \in 0 .. EPSILON
  BY <1>5, HalvesOfWord
<1>7. t1 \in Words
  BY <1>3, <1>6, Sizes DEF Words
<1>8. t2 \in Words /\ t2 <= Word - Radix
  BY <1>3, <1>6, Sizes DEF Words
<1> HIDE DEF t1, t2
<1>9. /\ t1 = Radix * HighHalf(t1) + LowHalf(t1) /\ LowHalf(t1) \in 0 .. EPSILON
      /\ HighHalf(t1) \in 0 .. EPSILON
  BY <1>7, HalvesOfWord
<1>10. t2 + HighHalf(t1) \in Words
  BY <1>8, <1>9, Sizes DEF Words
<1>11. LowHalf(ll) + Radix * LowHalf(t1) \in Words
  <2>1. Radix * LowHalf(t1) \in Nat /\ Radix * LowHalf(t1) <= Radix * EPSILON
    BY <1>9, Sizes
  <2>2. Radix * EPSILON = Word - Radix
    BY RadixAssumption DEF EPSILON, Word
  <2> QED
    BY <1>4, <2>1, <2>2, Sizes DEF Words
<1>12. LowHalf(ll) + Radix * LowHalf(t1) + (t2 + HighHalf(t1)) * Word = x * y
  <2> DEFINE a == HighHalf(ll)  b == LowHalf(ll)  c == HighHalf(t0)  d == LowHalf(t0)
             e == HighHalf(t1)  f == LowHalf(t1)
  <2>1. /\ xl * yl = Radix * a + b /\ xh * yl + a = Radix * c + d
        /\ xl * yh + d = Radix * e + f /\ t2 = xh * yh + c
    BY <1>4, <1>6, <1>9 DEF ll, t0, t1, t2
  <2>2. a \in Int /\ b \in Int /\ c \in Int /\ d \in Int /\ e \in Int /\ f \in Int
        /\ xh \in Int /\ xl \in Int /\ yh \in Int /\ yl \in Int /\ Radix \in Int
    BY <1>1, <1>4, <1>6, <1>9, Sizes
  <2> HIDE DEF a, b, c, d, e, f
  <2>3. x * y = Word * (xh * yh) + Radix * (xh * yl) + Radix * (xl * yh) + xl * yl
    BY <1>1, <2>2 DEF Word
  <2>4. /\ Radix * (xh * yl) = Radix * (Radix * c + d - a)
        /\ Radix * (xl * yh) = Radix * (Radix * e + f - d)
    <3>1. xh * yl = Radix * c + d - a /\ xl * yh = Radix * e + f - d
      BY <2>1, <2>2
    <3> QED
      BY <3>1
  <2>5. /\ Radix * (Radix * c + d - a) = Word * c + Radix * d - Radix * a
        /\ Radix * (Radix * e + f - d) = Word * e + Radix * f - Radix * d
    BY <2>2 DEF Word
  <2>6. (t2 + e) * Word = Word * (xh * yh) + Word * c + Word * e
    BY <2>1, <2>2 DEF Word
  <2>7. b + Radix * f + (t2 + e) * Word = x * y
    BY <2>1, <2>2, <2>3, <2>4, <2>5, <2>6, Sizes
  <2> QED
    BY <2>7 DEF b, e, f
<1> QED
  BY <1>2, <1>10, <1>11, <1>12

LEMMA Division ==
    ASSUME NEW d \in Nat, d > 0, NEW n \in Nat
    PROVE  n = d * (n \div d) + (n % d) /\ n % d \in 0 .. (d - 1) /\ n \div d \in Nat
OBVIOUS

LEMMA Remainder ==
    ASSUME NEW d \in Nat, d > 0, NEW q \in Int, NEW r \in 0 .. (d - 1)
    PROVE  (d * q + r) % d = r
OBVIOUS

\* square64: half the products, the cross product doubled by shifting by one bit more.
THEOREM Square64IsSquare ==
    ASSUME NEW x \in Words
    PROVE  LET square == Square64(x)
           IN  /\ square.hi \in Words /\ square.lo \in Words
               /\ square.lo + square.hi * Word = x * x
<1> DEFINE xh == HighHalf(x)  xl == LowHalf(x)
           ll == xl * xl
           lh == xl * xh
           a == ll \div (2 * Radix)  b == ll % (2 * Radix)
           t0 == lh + a
           c == t0 \div (Radix \div 2)  d == t0 % (Radix \div 2)
           v == 2 * Radix * d + b
<1>0. PICK r \in Nat : Radix = 2 * r /\ Radix \div 2 = r /\ r >= 8
  BY HalfOfRadix
<1>1. /\ x = Radix * xh + xl /\ xh \in 0 .. EPSILON /\ xl \in 0 .. EPSILON
  BY HalvesOfWord
<1>2. Square64(x) = [hi |-> xh * xh + c, lo |-> Wrapping(ll + ((2 * Radix * lh) % Word))]
  BY DEF Square64
<1>3. xh * xh \in Nat /\ xh * xh <= Word - 2 * Radix + 1
      /\ ll \in Nat /\ ll <= Word - 2 * Radix + 1 /\ lh \in Nat /\ lh <= Word - 2 * Radix + 1
  <2> HIDE DEF xh, xl
  <2> QED
    BY <1>1, HalfProducts
<1>4. Word = 2 * Radix * r /\ 2 * Radix \in Nat /\ 2 * Radix > 0
  BY <1>0, Sizes DEF Word
<1>5. ll = 2 * Radix * a + b /\ a \in Nat /\ b \in 0 .. (2 * Radix - 1)
  <2> HIDE DEF ll
  <2> QED
    BY <1>3, <1>4, Division
<1>6. a < r
  <2> HIDE DEF a, b, ll
  <2>1. a >= r => 2 * Radix * a >= 2 * Radix * r
    BY <1>0, <1>5, Sizes
  <2> QED
    BY <1>0, <1>3, <1>4, <1>5, <2>1, Sizes
<1>7. t0 = r * c + d /\ c \in Nat /\ d \in 0 .. (r - 1)
  <2> HIDE DEF a, lh
  <2>1. t0 \in Nat
    BY <1>3, <1>5
  <2> HIDE DEF t0
  <2> QED
    BY <1>0, <2>1, Division
<1> HIDE DEF xh, xl, ll, lh, a, b, c, d
<1>8. v \in Words
  <2>1. 2 * Radix * d <= 2 * Radix * (r - 1) /\ 2 * Radix * d \in Nat
    BY <1>0, <1>7, Sizes
  <2>2. 2 * Radix * (r - 1) = Word - 2 * Radix
    BY <1>0, <1>4, Sizes
  <2> QED
    BY <1>5, <2>1, <2>2, Sizes DEF Words
<1>9. 2 * Radix * lh = Word * c + 2 * Radix * (d - a)
  <2>1. lh = r * c + d - a
    BY <1>0, <1>3, <1>5, <1>7
  <2>2. 2 * Radix * (r * c + d - a) = (2 * Radix * r) * c + 2 * Radix * (d - a)
    BY <1>0, <1>5, <1>7, Sizes
  <2> QED
    BY <1>4, <2>1, <2>2
<1>10. /\ d >= a => 2 * Radix * (d - a) \in 0 .. (Word - 1)
       /\ d < a => Word + 2 * Radix * (d - a) \in 0 .. (Word - 1)
  <2>1. d >= a => 2 * Radix * (d - a) >= 0 /\ 2 * Radix * (d - a) < 2 * Radix * r
    BY <1>0, <1>5, <1>7, Sizes
  <2>2. d < a => 2 * Radix * (d - a) < 0 /\ 2 * Radix * (d - a) >= 2 * Radix * (-r)
    BY <1>0, <1>5, <1>6, <1>7, Sizes
  <2>3. 2 * Radix * (-r) = -Word
    BY <1>0, <1>4, Sizes
  <2>4. 2 * Radix * (d - a) \in Int
    BY <1>0, <1>5, <1>7, Sizes
  <2> QED
    BY <1>4, <2>1, <2>2, <2>3, <2>4, Sizes
<1>11. (2 * Radix * lh) % Word = IF d >= a THEN 2 * Radix * (d - a)
                                 ELSE Word + 2 * Radix * (d - a)
  <2>1. CASE d >= a
    BY <1>7, <1>9, <1>10, <2>1, Remainder, Sizes
  <2>2. CASE d < a
    <3>1. 2 * Radix * lh = Word * (c - 1) + (Word + 2 * Radix * (d - a))
      <4>1. Word * (c - 1) = Word * c - Word
        BY <1>7, Sizes
      <4>2. 2 * Radix * (d - a) \in Int /\ Word * c \in Int
        BY <1>5, <1>7, Sizes
      <4> QED
        BY <1>9, <4>1, <4>2, Sizes
    <3>2. Word + 2 * Radix * (d - a) \in 0 .. (Word - 1) /\ c - 1 \in Int
      BY <1>7, <1>10, <2>2
    <3>3. (Word * (c - 1) + (Word + 2 * Radix * (d - a))) % Word = Word + 2 * Radix * (d - a)
      BY <3>2, Remainder, Sizes
    <3> QED
      BY <1>5, <1>7, <2>2, <3>1, <3>3
  <2> QED
    BY <1>5, <1>7, <2>1, <2>2
<1>12. Wrapping(ll + ((2 * Radix * lh) % Word)) = v
  <2>1. ll + 2 * Radix * (d - a) = v
    BY <1>5, <1>7, Sizes
  <2>2. 2 * Radix * (d - a) \in Int /\ ll \in Nat
    BY <1>3, <1>5, <1>7, Sizes
  <2> HIDE DEF v
  <2> QED
    BY <1>5, <1>7, <1>8, <1>11, <2>1, <2>2, Sizes DEF Words, Wrapping
<1>13. v + (xh * xh + c) * Word = x * x
  <2>1. x * x = Word * (xh * xh) + (2 * Radix * lh) + ll
    BY <1>1, Sizes DEF Word, lh, ll
  <2>2. (xh * xh + c) * Word = Word * (xh * xh) + Word * c
    BY <1>3, <1>7, Sizes
  <2>3. ll + 2 * Radix * (d - a) = v
    BY <1>5, <1>7, Sizes
  <2>4. /\ Word * (xh * xh) \in Int /\ Word * c \in Int /\ 2 * Radix * (d - a) \in Int
        /\ v \in Int /\ ll \in Int
    BY <1>3, <1>5, <1>7, <1>8, Sizes DEF Words
  <2> HIDE DEF v
  <2> QED
    BY <1>9, <2>1, <2>2, <2>3, <2>4
<1>14. xh * xh + c \in Words
  <2>1. Radix = 2 * r /\ Word = 4 * (r * r) /\ r * r \in Nat
    BY <1>0, <1>4
  <2>2. r * c <= 4 * (r * r) - 3 * r
    BY <1>0, <1>3, <1>5, <1>6, <1>7, <2>1
  <2>3. c <= 4 * r - 3
    <3>1. c > 4 * r - 3 => r * c >= r * (4 * r - 2)
      BY <1>0, <1>7
    <3>2. r * (4 * r - 2) = 4 * (r * r) - 2 * r
      BY <1>0
    <3> QED
      BY <1>0, <1>7, <2>1, <2>2, <3>1, <3>2
  <2> QED
    BY <1>0, <1>3, <1>7, <2>1, <2>3, Sizes DEF Words
<1> QED
  BY <1>2, <1>8, <1>12, <1>13, <1>14

---------------------------------------------------------------------------
(* Shifted words *)

LEMMA ShiftTwice ==
    ASSUME NEW x \in Words
    PROVE  /\ Shift(x) \in Words /\ Shift(Shift(x)) = x
           /\ Signed(Shift(x)) = x - SignBit
BY Sizes DEF Shift, Signed, Words

LEMMA CanonicalizeShifted ==
    ASSUME NEW x \in Words
    PROVE  CanonicalizeS(Shift(x)) = Shift(ToCanonicalU64(x))
<1>1. Signed(Shift(ORDER)) > Signed(Shift(x)) <=> x < ORDER
  BY ShiftTwice, Sizes DEF Words
<1> QED
  BY <1>1, Sizes DEF CanonicalizeS, Shift, Wrapping, ToCanonicalU64, Words

LEMMA AddShifted ==
    ASSUME NEW x \in Words, NEW y \in Words, x + y < Word + ORDER
    PROVE  AddNoDoubleOverflowS(x, Shift(y)) = Shift(AddNoCanonicalize(x, y))
<1> DEFINE w == Wrapping(x + y)
<1>1. Wrapping(x + Shift(y)) = Shift(w) /\ w \in Words
  BY Sizes DEF Wrapping, Shift, Words
<1>2. Signed(Shift(y)) > Signed(Shift(w)) <=> x + y >= Word
  BY <1>1, ShiftTwice, Sizes DEF Wrapping, Words
<1>3. Wrapping(Shift(w) + (IF x + y >= Word THEN EPSILON ELSE 0))
        = Shift(AddNoCanonicalize(x, y))
  BY Sizes DEF AddNoCanonicalize, Wrapping, Shift, Words
<1> QED
  BY <1>1, <1>2, <1>3 DEF AddNoDoubleOverflowS

\* add of the AVX2 field: right with only the second operand made canonical.
THEOREM Avx2AddIsSum ==
    ASSUME NEW x \in Words, NEW y \in Words
    PROVE  Represents(Avx2Add(x, y), x + y)
<1> DEFINE c == ToCanonicalU64(y)
           r == AddNoCanonicalize(x, c)
<1>1. c \in 0 .. (ORDER - 1) /\ y \in {c, c + ORDER} /\ c \in Words
  BY CanonicalRepresents, Sizes DEF Words
<1>2. CanonicalizeS(Shift(y)) = Shift(c)
  BY CanonicalizeShifted
<1>3. Avx2Add(x, y) = Shift(AddNoDoubleOverflowS(x, Shift(c)))
  BY <1>2 DEF Avx2Add
<1> HIDE DEF c
<1>4. x + c < Word + ORDER
  BY <1>1, Sizes DEF Words
<1>5. AddNoDoubleOverflowS(x, Shift(c)) = Shift(r)
  BY <1>1, <1>4, AddShifted
<1>6. r \in Words /\ x + c \in {r, r + ORDER}
  BY <1>1, <1>4, AddNoCanonicalizeFits
<1> HIDE DEF r
<1>7. Avx2Add(x, y) = r
  BY <1>3, <1>5, <1>6, ShiftTwice
<1>8. x + y \in {r, r + ORDER, r + 2 * ORDER} /\ r \in Int /\ x + y \in Int
  BY <1>1, <1>6, Sizes DEF Words
<1> QED
  BY <1>6, <1>7, <1>8, Shifted DEF Represents

\* sub of the AVX2 field: right with only the second operand made canonical.
THEOREM Avx2SubIsDifference ==
    ASSUME NEW x \in Words, NEW y \in Words
    PROVE  Represents(Avx2Sub(x, y), x - y)
<1> DEFINE c == ToCanonicalU64(y)
           r == SubWithBorrow(x, c)
<1>1. c \in 0 .. (ORDER - 1) /\ y \in {c, c + ORDER} /\ c \in Words
  BY CanonicalRepresents, Sizes DEF Words
<1> HIDE DEF c
<1>2. Signed(Shift(c)) > Signed(Shift(x)) <=> x < c
  BY <1>1, ShiftTwice, Sizes DEF Words
<1>3. Wrapping(Shift(x) - Shift(c)) = Wrapping(x - c)
  BY <1>1, Sizes DEF Shift, Wrapping, Words
<1>4. Wrapping(Wrapping(x - c) - (IF x < c THEN EPSILON ELSE 0)) = r
  BY <1>1, Sizes DEF SubWithBorrow, Wrapping, Words
<1>5. Avx2Sub(x, y) = r
  BY <1>2, <1>3, <1>4, CanonicalizeShifted DEF Avx2Sub, c
<1>6. r \in Words /\ x - c \in {r, r - ORDER}
  BY <1>1, SubWithBorrowFits
<1> HIDE DEF r
<1>7. x - y \in {r, r - ORDER, r - 2 * ORDER} /\ r \in Int /\ x - y \in Int
  BY <1>1, <1>6, Sizes DEF Words
<1> QED
  BY <1>5, <1>6, <1>7, Shifted DEF Represents

\* neg of the AVX2 field: a word that stands for zero is negated to ORDER, which is zero too.
THEOREM Avx2NegIsNegation ==
    ASSUME NEW y \in Words
    PROVE  Represents(Avx2Neg(y), -y)
<1> DEFINE c == ToCanonicalU64(y)
<1>1. c \in 0 .. (ORDER - 1) /\ y \in {c, c + ORDER}
  BY CanonicalRepresents
<1>2. Avx2Neg(y) = Wrapping(Shift(ORDER) - Shift(c))
  BY CanonicalizeShifted DEF Avx2Neg
<1> HIDE DEF c
<1>3. Wrapping(Shift(ORDER) - Shift(c)) = ORDER - c
  BY <1>1, Sizes DEF Shift, Wrapping
<1>4. ORDER - c \in Words /\ -y \in Int
  BY <1>1, Sizes DEF Words
<1>5. -y \in {(ORDER - c) - ORDER, (ORDER - c) - 2 * ORDER}
  BY <1>1, Sizes
<1> QED
  BY <1>2, <1>3, <1>4, <1>5, Shifted DEF Represents, Words

\* The upper halves order words that are a whole Radix apart.
LEMMA HighHalfOrders ==
    ASSUME NEW x \in Words, NEW y \in Words
    PROVE  /\ x <= y => HighHalf(x) <= HighHalf(y)
           /\ x + Radix <= y => HighHalf(x) < HighHalf(y)
<1> DEFINE a == HighHalf(x)  b == HighHalf(y)
<1>1. /\ x >= Radix * a /\ x < Radix * a + Radix /\ a \in Nat
      /\ y >= Radix * b /\ y < Radix * b + Radix /\ b \in Nat
  BY HalvesOfWord, Sizes
<1> HIDE DEF a, b
<1>2. a > b => Radix * a >= Radix * b + Radix
  BY <1>1, Sizes
<1>3. a = b => Radix * a = Radix * b
  OBVIOUS
<1>4. a \in Nat /\ b \in Nat /\ Radix * a \in Nat /\ Radix * b \in Nat
  BY <1>1, Sizes
<1> QED
  BY <1>1, <1>2, <1>3, <1>4, Sizes DEF Words, a, b

LEMMA SignedHighHalf ==
    ASSUME NEW x \in Words
    PROVE  SignedHalf(HighHalf(Shift(x))) = HighHalf(x) - Radix \div 2
<1>0. PICK r \in Nat : Radix = 2 * r /\ Radix \div 2 = r /\ SignBit = Radix * r
  <2>1. PICK r \in Nat : Radix = 2 * r /\ Radix \div 2 = r
    BY HalfOfRadix
  <2>2. Word = 2 * (Radix * r)
    BY <2>1 DEF Word
  <2> QED
    BY <2>1, <2>2, Sizes
<1> DEFINE a == HighHalf(x)  b == LowHalf(x)
<1>1. x = Radix * a + b /\ a \in 0 .. EPSILON /\ b \in 0 .. EPSILON
  BY HalvesOfWord
<1>2. \A q \in Nat, d \in 0 .. EPSILON : HighHalf(Radix * q + d) = q
  BY RadixAssumption DEF HighHalf, EPSILON
<1> HIDE DEF a, b
<1>3. x >= SignBit <=> a >= r
  <2>1. a >= r => Radix * a >= Radix * r
    BY <1>0, <1>1, Sizes
  <2>2. a < r => Radix * a <= Radix * r - Radix
    BY <1>0, <1>1, Sizes
  <2> QED
    BY <1>0, <1>1, <2>1, <2>2, Sizes
<1>4. HighHalf(Shift(x)) = IF a >= r THEN a - r ELSE a + r
  <2>1. CASE a >= r
    <3>1. Shift(x) = Radix * (a - r) + b /\ a - r \in Nat
      BY <1>0, <1>1, <1>3, <2>1, Sizes DEF Shift
    <3> QED
      BY <1>1, <1>2, <2>1, <3>1
  <2>2. CASE a < r
    <3>1. Shift(x) = Radix * (a + r) + b /\ a + r \in Nat
      BY <1>0, <1>1, <1>3, <2>2, Sizes DEF Shift
    <3> QED
      BY <1>0, <1>1, <1>2, <2>2, <3>1
  <2> QED
    BY <1>0, <1>1, <2>1, <2>2
<1>5. SignedHalf(HighHalf(Shift(x))) = a - r
  BY <1>0, <1>1, <1>4, Sizes DEF SignedHalf
<1> QED
  BY <1>0, <1>5 DEF a

LEMMA AddSmallShifted ==
    ASSUME NEW x \in Words, NEW y \in 0 .. (Word - Radix)
    PROVE  AddSmallS(Shift(x), y) = Shift(AddNoCanonicalize(x, y))
<1> DEFINE w == Wrapping(x + y)
<1>1. Wrapping(Shift(x) + y) = Shift(w) /\ w \in Words
  BY Sizes DEF Wrapping, Shift, Words
<1>2. HighHalf(x) > HighHalf(w) <=> x + y >= Word
  <2>1. x + y >= Word => w + Radix <= x
    BY Sizes DEF Wrapping, Words
  <2>2. x + y < Word => x <= w
    BY Sizes DEF Wrapping, Words
  <2>3. HighHalf(x) \in Int /\ HighHalf(w) \in Int
    BY <1>1, HalvesOfWord, Sizes
  <2> HIDE DEF w
  <2> QED
    BY <1>1, <2>1, <2>2, <2>3, HighHalfOrders, Sizes DEF Words
<1>3. SignedHalf(HighHalf(Shift(x))) > SignedHalf(HighHalf(Shift(w))) <=> x + y >= Word
  <2>1. HighHalf(x) \in Int /\ HighHalf(w) \in Int /\ Radix \div 2 \in Int
    BY <1>1, HalvesOfWord, Sizes
  <2> HIDE DEF w
  <2> QED
    BY <1>1, <1>2, <2>1, SignedHighHalf
<1>4. Wrapping(Shift(w) + (IF x + y >= Word THEN EPSILON ELSE 0))
        = Shift(AddNoCanonicalize(x, y))
  BY Sizes DEF AddNoCanonicalize, Wrapping, Shift, Words
<1> QED
  BY <1>1, <1>3, <1>4 DEF AddSmallS

LEMMA SubSmallShifted ==
    ASSUME NEW x \in Words, NEW y \in 0 .. (Word - Radix)
    PROVE  SubSmallS(Shift(x), y) = Shift(SubWithBorrow(x, y))
<1> DEFINE w == Wrapping(x - y)
<1>1. Wrapping(Shift(x) - y) = Shift(w) /\ w \in Words
  BY Sizes DEF Wrapping, Shift, Words
<1>2. HighHalf(w) > HighHalf(x) <=> x < y
  <2>1. x < y => x + Radix <= w
    BY Sizes DEF Wrapping, Words
  <2>2. x >= y => w <= x
    BY Sizes DEF Wrapping, Words
  <2>3. HighHalf(x) \in Int /\ HighHalf(w) \in Int
    BY <1>1, HalvesOfWord, Sizes
  <2> HIDE DEF w
  <2> QED
    BY <1>1, <2>1, <2>2, <2>3, HighHalfOrders, Sizes DEF Words
<1>3. SignedHalf(HighHalf(Shift(w))) > SignedHalf(HighHalf(Shift(x))) <=> x < y
  <2>1. HighHalf(x) \in Int /\ HighHalf(w) \in Int /\ Radix \div 2 \in Int
    BY <1>1, HalvesOfWord, Sizes
  <2> HIDE DEF w
  <2> QED
    BY <1>1, <1>2, <2>1, SignedHighHalf
<1>4. Wrapping(Shift(w) - (IF x < y THEN EPSILON ELSE 0)) = Shift(SubWithBorrow(x, y))
  BY Sizes DEF SubWithBorrow, Wrapping, Shift, Words
<1> QED
  BY <1>1, <1>3, <1>4 DEF SubSmallS

LEMMA Avx2Reduce128IsRight ==
    ASSUME NEW lo \in Words, NEW hi \in Words
    PROVE  Represents(Avx2Reduce128([hi |-> hi, lo |-> lo]), lo + hi * Word)
<1> DEFINE t0 == SubWithBorrow(lo, HighHalf(hi))
           t1 == LowHalf(hi) * EPSILON
           r == AddNoCanonicalize(t0, t1)
<1>1. /\ LowHalf(hi) \in 0 .. EPSILON /\ HighHalf(hi) \in 0 .. EPSILON
  BY HalvesOfWord
<1>2. HighHalf(hi) \in 0 .. (Word - Radix) /\ HighHalf(hi) \in 0 .. (ORDER - 1)
  BY <1>1, Sizes
<1>3. t1 \in Words /\ t1 <= Word - 2 * Radix + 1
  BY <1>1, SmallProduct
<1>4. t1 \in 0 .. (Word - Radix)
  <2> HIDE DEF t1
  <2> QED
    BY <1>3, Sizes DEF Words
<1>5. t0 \in Words
  BY <1>2, SubWithBorrowFits
<1>6. SubSmallS(Shift(lo), HighHalf(hi)) = Shift(t0)
  BY <1>2, SubSmallShifted
<1>7. Avx2Reduce128([hi |-> hi, lo |-> lo]) = Shift(AddSmallS(Shift(t0), t1))
  BY <1>6 DEF Avx2Reduce128
<1>8. r = Reduce128(lo, hi)
  BY DEF Reduce128
<1> HIDE DEF t0, t1
<1>9. AddSmallS(Shift(t0), t1) = Shift(r)
  BY <1>4, <1>5, AddSmallShifted
<1>10. Represents(r, lo + hi * Word)
  BY <1>8, Reduce128IsRight
<1>11. Avx2Reduce128([hi |-> hi, lo |-> lo]) = r
  BY <1>7, <1>9, <1>10, ShiftTwice DEF Represents
<1> QED
  BY <1>10, <1>11

\* mul and square of the AVX2 field: the overflow of each correction is read off the upper
\* halves alone, and rightly so.
THEOREM Avx2MulIsProduct ==
    ASSUME NEW x \in Words, NEW y \in Words
    PROVE  Represents(Avx2Mul(x, y), x * y) /\ Represents(Avx2Square(x), x * x)
<1>1. PICK m : m = Mul64(x, y)
  OBVIOUS
<1>2. m.hi \in Words /\ m.lo \in Words /\ m.lo + m.hi * Word = x * y
  BY <1>1, Mul64IsProduct
<1>3. m = [hi |-> m.hi, lo |-> m.lo]
  BY <1>1 DEF Mul64
<1>4. PICK s : s = Square64(x)
  OBVIOUS
<1>5. s.hi \in Words /\ s.lo \in Words /\ s.lo + s.hi * Word = x * x
  BY <1>4, Square64IsSquare
<1>6. s = [hi |-> s.hi, lo |-> s.lo]
  BY <1>4 DEF Square64
<1>7. Represents(Avx2Reduce128(m), x * y)
  BY <1>2, <1>3, Avx2Reduce128IsRight
<1>8. Represents(Avx2Reduce128(s), x * x)
  BY <1>5, <1>6, Avx2Reduce128IsRight
<1> QED
  BY <1>1, <1>4, <1>7, <1>8 DEF Avx2Mul, Avx2Square

---------------------------------------------------------------------------
(* AVX-512 *)

LEMMA NoDoubleOverflow ==
    ASSUME NEW x \in Words, NEW y \in Words
    PROVE  /\ x + y < Word + ORDER => AddNoDoubleOverflow(x, y) = AddNoCanonicalize(x, y)
           /\ y < ORDER => SubNoDoubleOverflow(x, y) = SubWithBorrow(x, y)
<1>1. ASSUME x + y < Word + ORDER
      PROVE  AddNoDoubleOverflow(x, y) = AddNoCanonicalize(x, y)
  <2>1. Wrapping(x + y) < y <=> x + y >= Word
    BY Sizes DEF Wrapping, Words
  <2>2. CASE x + y >= Word
    BY <1>1, <2>1, <2>2, Sizes DEF AddNoDoubleOverflow, AddNoCanonicalize, Wrapping, Words
  <2>3. CASE x + y < Word
    BY <2>1, <2>3, Sizes DEF AddNoDoubleOverflow, AddNoCanonicalize, Wrapping, Words
  <2> QED
    BY <2>2, <2>3, Sizes DEF Words
<1>2. ASSUME y < ORDER PROVE SubNoDoubleOverflow(x, y) = SubWithBorrow(x, y)
  BY <1>2, Sizes DEF SubNoDoubleOverflow, SubWithBorrow, Wrapping, Words
<1> QED
  BY <1>1, <1>2

\* add, sub and neg of the AVX-512 field, which detect an overflow by comparing the sum.
THEOREM Avx512AddsAndSubtracts ==
    ASSUME NEW x \in Words, NEW y \in Words
    PROVE  /\ Represents(Avx512Add(x, y), x + y)
           /\ Represents(Avx512Sub(x, y), x - y)
           /\ Represents(Avx512Neg(y), -y)
<1> DEFINE c == ToCanonicalU64(y)
           sum == AddNoCanonicalize(x, c)
           diff == SubWithBorrow(x, c)
<1>1. c \in 0 .. (ORDER - 1) /\ y \in {c, c + ORDER} /\ c \in Words
  BY CanonicalRepresents, Sizes DEF Words
<1>2. /\ Avx512Add(x, y) = AddNoDoubleOverflow(x, c)
      /\ Avx512Sub(x, y) = SubNoDoubleOverflow(x, c)
      /\ Avx512Neg(y) = Wrapping(ORDER - c)
  BY DEF Avx512Add, Avx512Sub, Avx512Neg
<1> HIDE DEF c
<1>3. x + c < Word + ORDER /\ c < ORDER
  BY <1>1, Sizes DEF Words
<1>4. Avx512Add(x, y) = sum /\ Avx512Sub(x, y) = diff
  BY <1>1, <1>2, <1>3, NoDoubleOverflow
<1>5. sum \in Words /\ x + c \in {sum, sum + ORDER}
  BY <1>1, <1>3, AddNoCanonicalizeFits
<1>6. diff \in Words /\ x - c \in {diff, diff - ORDER}
  BY <1>1, SubWithBorrowFits
<1>7. Wrapping(ORDER - c) = ORDER - c /\ ORDER - c \in Words
  BY <1>1, Sizes DEF Wrapping, Words
<1> HIDE DEF sum, diff
<1>8. x + y \in {sum, sum + ORDER, sum + 2 * ORDER}
  BY <1>1, <1>5, Sizes DEF Words
<1>9. x - y \in {diff, diff - ORDER, diff - 2 * ORDER}
  BY <1>1, <1>6, Sizes DEF Words
<1>10. -y \in {(ORDER - c) - ORDER, (ORDER - c) - 2 * ORDER}
  BY <1>1, Sizes
<1>11. x + y \in Int /\ x - y \in Int /\ -y \in Int /\ \A w \in Words : w \in Int
  BY Sizes DEF Words
<1>12. SameElement(sum, x + y) /\ SameElement(diff, x - y) /\ SameElement(ORDER - c, -y)
  BY <1>5, <1>6, <1>7, <1>8, <1>9, <1>10, <1>11, Shifted
<1> QED
  BY <1>2, <1>4, <1>5, <1>6, <1>7, <1>12 DEF Represents

\* mul and square of the AVX-512 field.
THEOREM Avx512MulIsProduct ==
    ASSUME NEW x \in Words, NEW y \in Words
    PROVE  Represents(Avx512Mul(x, y), x * y) /\ Represents(Avx512Square(x), x * x)
<1>1. ASSUME NEW lo \in Words, NEW hi \in Words
      PROVE  Represents(Avx512Reduce128([hi |-> hi, lo |-> lo]), lo + hi * Word)
  <2> DEFINE t0 == SubWithBorrow(lo, HighHalf(hi))
             t1 == LowHalf(hi) * EPSILON
  <2>1. LowHalf(hi) \in 0 .. EPSILON /\ HighHalf(hi) \in 0 .. EPSILON
    BY HalvesOfWord
  <2>2. HighHalf(hi) \in Words /\ HighHalf(hi) < ORDER /\ HighHalf(hi) \in 0 .. (ORDER - 1)
    BY <2>1, Sizes DEF Words
  <2>3. t1 \in Words /\ t1 <= Word - 2 * Radix + 1
    BY <2>1, SmallProduct
  <2>4. t0 \in Words
    BY <2>2, SubWithBorrowFits
  <2>5. SubNoDoubleOverflow(lo, HighHalf(hi)) = t0
    BY <2>2, NoDoubleOverflow
  <2>6. Avx512Reduce128([hi |-> hi, lo |-> lo]) = AddNoDoubleOverflow(t0, t1)
    BY <2>5 DEF Avx512Reduce128
  <2>7. Reduce128(lo, hi) = AddNoCanonicalize(t0, t1)
    BY DEF Reduce128
  <2> HIDE DEF t0, t1
  <2>8. t0 + t1 < Word + ORDER
    BY <2>3, <2>4, Sizes DEF Words
  <2>9. AddNoDoubleOverflow(t0, t1) = AddNoCanonicalize(t0, t1)
    BY <2>3, <2>4, <2>8, NoDoubleOverflow
  <2> QED
    BY <2>6, <2>7, <2>9, Reduce128IsRight
<1>2. PICK m : m = Mul64(x, y)
  OBVIOUS
<1>3. m.hi \in Words /\ m.lo \in Words /\ m.lo + m.hi * Word = x * y
  BY <1>2, Mul64IsProduct
<1>4. m = [hi |-> m.hi, lo |-> m.lo]
  BY <1>2 DEF Mul64
<1>5. PICK s : s = Square64(x)
  OBVIOUS
<1>6. s.hi \in Words /\ s.lo \in Words /\ s.lo + s.hi * Word = x * x
  BY <1>5, Square64IsSquare
<1>7. s = [hi |-> s.hi, lo |-> s.lo]
  BY <1>5 DEF Square64
<1>8. Represents(Avx512Reduce128(m), x * y)
  BY <1>1, <1>3, <1>4
<1>9. Represents(Avx512Reduce128(s), x * x)
  BY <1>1, <1>6, <1>7
<1> QED
  BY <1>2, <1>5, <1>8, <1>9 DEF Avx512Mul, Avx512Square

---------------------------------------------------------------------------
(* Extension fields *)

Accumulated(c, n) ==
    c.lo \in 0 .. (DoubleWord - 1) /\ c.hi \in Nat /\ n = c.lo + c.hi * DoubleWord

LEMMA DoubleWordSize == DoubleWord \in Nat /\ DoubleWord >= 32
BY Sizes DEF DoubleWord

LEMMA WideHolds ==
    ASSUME NEW p \in 0 .. (DoubleWord - 1)
    PROVE  Accumulated(Wide(p), p)
BY DoubleWordSize DEF Accumulated, Wide

LEMMA PlusAdds ==
    ASSUME NEW c, NEW n \in Nat, NEW p \in 0 .. (DoubleWord - 1), Accumulated(c, n)
    PROVE  Accumulated(AddTo(c, p), n + p)
<1> DEFINE l == c.lo  h == c.hi
<1>1. l \in 0 .. (DoubleWord - 1) /\ h \in Nat /\ n = l + h * DoubleWord
  BY DEF Accumulated
<1>2. /\ AddTo(c, p).lo = IF l + p >= DoubleWord THEN l + p - DoubleWord ELSE l + p
      /\ AddTo(c, p).hi = IF l + p >= DoubleWord THEN h + 1 ELSE h
  <2> DEFINE carry == IF l + p >= DoubleWord THEN 1 ELSE 0
  <2>1. AddTo(c, p) = [lo |-> l + p - carry * DoubleWord, hi |-> h + carry]
    BY DEF AddTo
  <2> HIDE DEF l, h
  <2> QED
    BY <1>1, <2>1, DoubleWordSize
<1> HIDE DEF l, h
<1>3. (h + 1) * DoubleWord = h * DoubleWord + DoubleWord /\ h * DoubleWord \in Nat
  BY <1>1, DoubleWordSize
<1> QED
  BY <1>1, <1>2, <1>3, DoubleWordSize DEF Accumulated

\* Multiples by shifting: seven is eight less one, three is two and one.
LEMMA MultiplesHold ==
    ASSUME NEW c, NEW n \in Nat, Accumulated(c, n)
    PROVE  Accumulated(U160Times7(c), 7 * n) /\ Accumulated(U160Times3(c), 3 * n)
<1> DEFINE l == c.lo  h == c.hi
           q8 == (8 * l) \div DoubleWord  r8 == (8 * l) % DoubleWord
           q2 == (2 * l) \div DoubleWord  r2 == (2 * l) % DoubleWord
<1>1. l \in 0 .. (DoubleWord - 1) /\ h \in Nat /\ n = l + h * DoubleWord
  BY DEF Accumulated
<1>2. /\ U160Times7(c) = [lo |-> r8 - l + (IF r8 < l THEN 1 ELSE 0) * DoubleWord,
                          hi |-> 7 * h + q8 - (IF r8 < l THEN 1 ELSE 0)]
      /\ U160Times3(c) = [lo |-> r2 + l - (IF r2 + l >= DoubleWord THEN 1 ELSE 0) * DoubleWord,
                          hi |-> 3 * h + q2 + (IF r2 + l >= DoubleWord THEN 1 ELSE 0)]
  BY DEF U160Times7, U160Times3
<1> HIDE DEF l, h
<1>3. /\ 8 * l = DoubleWord * q8 + r8 /\ r8 \in 0 .. (DoubleWord - 1) /\ q8 \in Nat
      /\ 2 * l = DoubleWord * q2 + r2 /\ r2 \in 0 .. (DoubleWord - 1) /\ q2 \in Nat
  BY <1>1, DoubleWordSize, Division
<1> HIDE DEF q8, r8, q2, r2
<1>4. q8 = 0 => r8 >= l
  BY <1>1, <1>3, DoubleWordSize
<1>5. /\ (7 * h + q8) * DoubleWord = 7 * (h * DoubleWord) + DoubleWord * q8
      /\ (7 * h + q8 - 1) * DoubleWord = 7 * (h * DoubleWord) + DoubleWord * q8 - DoubleWord
      /\ (3 * h + q2) * DoubleWord = 3 * (h * DoubleWord) + DoubleWord * q2
      /\ (3 * h + q2 + 1) * DoubleWord = 3 * (h * DoubleWord) + DoubleWord * q2 + DoubleWord
      /\ h * DoubleWord \in Nat /\ DoubleWord * q8 \in Nat /\ DoubleWord * q2 \in Nat
  BY <1>1, <1>3, DoubleWordSize
<1>6. Accumulated(U160Times7(c), 7 * n)
  <2>1. CASE r8 < l
    <3>1. U160Times7(c) = [lo |-> r8 - l + DoubleWord, hi |-> 7 * h + q8 - 1]
      BY <1>1, <1>2, <1>3, <2>1, DoubleWordSize
    <3>2. 7 * n = (r8 - l + DoubleWord) + (7 * h + q8 - 1) * DoubleWord
      BY <1>1, <1>3, <1>5, DoubleWordSize
    <3> QED
      BY <1>1, <1>3, <1>4, <2>1, <3>1, <3>2, DoubleWordSize DEF Accumulated
  <2>2. CASE r8 >= l
    <3>1. U160Times7(c) = [lo |-> r8 - l, hi |-> 7 * h + q8]
      BY <1>1, <1>2, <1>3, <2>2, DoubleWordSize
    <3>2. 7 * n = (r8 - l) + (7 * h + q8) * DoubleWord
      BY <1>1, <1>3, <1>5, DoubleWordSize
    <3> QED
      BY <1>1, <1>3, <2>2, <3>1, <3>2, DoubleWordSize DEF Accumulated
  <2> QED
    BY <1>1, <1>3, <2>1, <2>2
<1>7. Accumulated(U160Times3(c), 3 * n)
  <2>1. CASE r2 + l >= DoubleWord
    <3>1. U160Times3(c) = [lo |-> r2 + l - DoubleWord, hi |-> 3 * h + q2 + 1]
      BY <1>1, <1>2, <1>3, <2>1, DoubleWordSize
    <3>2. 3 * n = (r2 + l - DoubleWord) + (3 * h + q2 + 1) * DoubleWord
      BY <1>1, <1>3, <1>5, DoubleWordSize
    <3> QED
      BY <1>1, <1>3, <2>1, <3>1, <3>2, DoubleWordSize DEF Accumulated
  <2>2. CASE r2 + l < DoubleWord
    <3>1. U160Times3(c) = [lo |-> r2 + l, hi |-> 3 * h + q2]
      BY <1>1, <1>2, <1>3, <2>2, DoubleWordSize
    <3>2. 3 * n = (r2 + l) + (3 * h + q2) * DoubleWord
      BY <1>1, <1>3, <1>5, DoubleWordSize
    <3> QED
      BY <1>1, <1>3, <2>2, <3>1, <3>2, DoubleWordSize DEF Accumulated
  <2> QED
    BY <1>1, <1>3, <2>1, <2>2, DoubleWordSize
<1> QED
  BY <1>6, <1>7

\* The widest sum, of 1 + 3 * 7 products, leaves reduce160 canonical upper words.
LEMMA ReducedIsRight ==
    ASSUME NEW c, NEW n \in Nat, Accumulated(c, n), n < 22 * DoubleWord
    PROVE  Represents(Reduced(c), n)
<1> DEFINE l == c.lo  h == c.hi  d == Word * Radix
           q == l \div d  r == l % d
<1>1. l \in 0 .. (DoubleWord - 1) /\ h \in Nat /\ n = l + h * DoubleWord
  BY DEF Accumulated
<1>2. d \in Nat /\ d > 0 /\ DoubleWord = Radix * d
  BY Sizes DEF Word, DoubleWord
<1> HIDE DEF l, h, d
<1>3. l = d * q + r /\ r \in 0 .. (d - 1) /\ q \in Nat
  BY <1>1, <1>2, Division
<1> HIDE DEF q, r
<1>4. h * DoubleWord = d * (h * Radix) /\ h * Radix \in Nat
  BY <1>1, <1>2, Sizes
<1>5. d * (h * Radix + q) < d * (22 * Radix)
  <2>1. d * (h * Radix + q) = d * (h * Radix) + d * q
    BY <1>1, <1>2, <1>3, <1>4
  <2>2. d * (22 * Radix) = 22 * DoubleWord
    BY <1>2, Sizes
  <2>3. d * q \in Nat
    BY <1>2, <1>3
  <2> QED
    BY <1>1, <1>2, <1>3, <1>4, <2>1, <2>2, <2>3
<1>6. h * Radix + q < 22 * Radix
  <2>1. h * Radix + q >= 22 * Radix => d * (h * Radix + q) >= d * (22 * Radix)
    BY <1>2, <1>3, <1>4, Sizes
  <2>2. h * Radix + q \in Nat /\ 22 * Radix \in Nat
    BY <1>3, <1>4, Sizes
  <2>3. d * (h * Radix + q) \in Nat /\ d * (22 * Radix) \in Nat
    BY <1>2, <2>2
  <2> QED
    BY <1>5, <2>1, <2>2, <2>3
<1>7. ORDER >= 31 * Radix
  <2>1. Word >= 32 * Radix
    BY Sizes DEF Word
  <2> QED
    BY <2>1, Sizes
<1>8. h * Radix + l \div (Word * Radix) < ORDER
  BY <1>3, <1>4, <1>6, <1>7, Sizes DEF q, d
<1>9. l \in Nat /\ l < Word * Word /\ n = l + h * (Word * Word)
  BY <1>1, DoubleWordSize DEF DoubleWord
<1> QED
  BY <1>1, <1>8, <1>9, Reduce160IsRight DEF Reduced, l, h

LEMMA ProductOfWords ==
    ASSUME NEW x \in Words, NEW y \in Words
    PROVE  x * y \in 0 .. (DoubleWord - 1)
BY ProductsFit, Sizes DEF DoubleWord

\* ext2_mul: the products of a coefficient, summed on two words and a half with the carries
\* counted, reduce to the coefficient of the product modulo X^2 - 7.
THEOREM QuadraticProduct ==
    ASSUME NEW a \in [0 .. 1 -> Words], NEW b \in [0 .. 1 -> Words]
    PROVE  /\ Represents(Ext2AddProds0(a, b), a[0] * b[0] + 7 * (a[1] * b[1]))
           /\ Represents(Ext2AddProds1(a, b), a[0] * b[1] + a[1] * b[0])
<1> DEFINE P == 0 .. (DoubleWord - 1)
           p(i, j) == a[i] * b[j]
<1>1. \A i, j \in 0 .. 1 : p(i, j) \in P
  BY ProductOfWords
<1>2. /\ p(0, 0) \in P /\ p(1, 1) \in P /\ p(0, 1) \in P /\ p(1, 0) \in P
  BY <1>1
<1>3. /\ Ext2AddProds0(a, b) = Reduced(AddTo(U160Times7(Wide(p(1, 1))), p(0, 0)))
      /\ Ext2AddProds1(a, b) = Reduced(AddTo(Wide(p(0, 1)), p(1, 0)))
  BY DEF Ext2AddProds0, Ext2AddProds1
<1> HIDE DEF p
<1>4. Represents(Ext2AddProds0(a, b), p(0, 0) + 7 * p(1, 1))
  <2>1. Accumulated(U160Times7(Wide(p(1, 1))), 7 * p(1, 1))
    BY <1>2, WideHolds, MultiplesHold
  <2>2. Accumulated(AddTo(U160Times7(Wide(p(1, 1))), p(0, 0)), 7 * p(1, 1) + p(0, 0))
    BY <1>2, <2>1, PlusAdds
  <2>3. 7 * p(1, 1) + p(0, 0) \in Nat /\ 7 * p(1, 1) + p(0, 0) < 22 * DoubleWord
        /\ 7 * p(1, 1) + p(0, 0) = p(0, 0) + 7 * p(1, 1)
    BY <1>2, DoubleWordSize
  <2> QED
    BY <1>3, <2>2, <2>3, ReducedIsRight
<1>5. Represents(Ext2AddProds1(a, b), p(0, 1) + p(1, 0))
  <2>1. Accumulated(AddTo(Wide(p(0, 1)), p(1, 0)), p(0, 1) + p(1, 0))
    BY <1>2, WideHolds, PlusAdds
  <2>2. p(0, 1) + p(1, 0) \in Nat /\ p(0, 1) + p(1, 0) < 22 * DoubleWord
    BY <1>2, DoubleWordSize
  <2> QED
    BY <1>3, <2>1, <2>2, ReducedIsRight
<1> QED
  BY <1>4, <1>5 DEF p

\* ext4_mul: the coefficients of the product modulo X^4 - 7; the widest sum still meets
\* reduce160's condition.
THEOREM QuarticProduct ==
    ASSUME NEW a \in [0 .. 3 -> Words], NEW b \in [0 .. 3 -> Words]
    PROVE  /\ Represents(Ext4AddProds0(a, b),
                         7 * (a[1] * b[3] + a[2] * b[2] + a[3] * b[1]) + a[0] * b[0])
           /\ Represents(Ext4AddProds1(a, b),
                         7 * (a[2] * b[3] + a[3] * b[2]) + a[0] * b[1] + a[1] * b[0])
           /\ Represents(Ext4AddProds2(a, b),
                         7 * (a[3] * b[3]) + a[0] * b[2] + a[1] * b[1] + a[2] * b[0])
           /\ Represents(Ext4AddProds3(a, b),
                         a[0] * b[3] + a[1] * b[2] + a[2] * b[1] + a[3] * b[0])
<1> DEFINE P == 0 .. (DoubleWord - 1)
           p(i, j) == a[i] * b[j]
<1>1. \A i, j \in 0 .. 3 : p(i, j) \in P
  BY ProductOfWords
<1>2. /\ p(0, 0) \in P /\ p(0, 1) \in P /\ p(0, 2) \in P /\ p(0, 3) \in P
      /\ p(1, 0) \in P /\ p(1, 1) \in P /\ p(1, 2) \in P /\ p(1, 3) \in P
      /\ p(2, 0) \in P /\ p(2, 1) \in P /\ p(2, 2) \in P /\ p(2, 3) \in P
      /\ p(3, 0) \in P /\ p(3, 1) \in P /\ p(3, 2) \in P /\ p(3, 3) \in P
  BY <1>1
<1> HIDE DEF p
<1>3. Represents(Ext4AddProds0(a, b), 7 * (p(1, 3) + p(2, 2) + p(3, 1)) + p(0, 0))
  <2> DEFINE c0 == Wide(p(1, 3))
             c1 == AddTo(c0, p(2, 2))
             c2 == AddTo(c1, p(3, 1))
             c3 == U160Times7(c2)
             c4 == AddTo(c3, p(0, 0))
  <2>0. Ext4AddProds0(a, b) = Reduced(c4)
    BY DEF Ext4AddProds0, p
  <2>1. Accumulated(c0, p(1, 3))
    BY <1>2, WideHolds
  <2> HIDE DEF c0
  <2>2. Accumulated(c1, p(1, 3) + p(2, 2))
    BY <1>2, <2>1, PlusAdds, DoubleWordSize
  <2> HIDE DEF c1
  <2>3. Accumulated(c2, p(1, 3) + p(2, 2) + p(3, 1))
    BY <1>2, <2>2, PlusAdds, DoubleWordSize
  <2> HIDE DEF c2
  <2>4. Accumulated(c3, 7 * (p(1, 3) + p(2, 2) + p(3, 1)))
    BY <1>2, <2>3, MultiplesHold, DoubleWordSize
  <2> HIDE DEF c3
  <2>5. Accumulated(c4, 7 * (p(1, 3) + p(2, 2) + p(3, 1)) + p(0, 0))
    BY <1>2, <2>4, PlusAdds, DoubleWordSize
  <2> HIDE DEF c4
  <2>6. /\ 7 * (p(1, 3) + p(2, 2) + p(3, 1)) + p(0, 0) \in Nat
       /\ 7 * (p(1, 3) + p(2, 2) + p(3, 1)) + p(0, 0) < 22 * DoubleWord
    BY <1>2, DoubleWordSize
  <2> QED
    BY <2>0, <2>5, <2>6, ReducedIsRight
<1>4. Represents(Ext4AddProds1(a, b), 7 * (p(2, 3) + p(3, 2)) + p(0, 1) + p(1, 0))
  <2> DEFINE c0 == Wide(p(2, 3))
             c1 == AddTo(c0, p(3, 2))
             c2 == U160Times7(c1)
             c3 == AddTo(c2, p(0, 1))
             c4 == AddTo(c3, p(1, 0))
  <2>0. Ext4AddProds1(a, b) = Reduced(c4)
    BY DEF Ext4AddProds1, p
  <2>1. Accumulated(c0, p(2, 3))
    BY <1>2, WideHolds
  <2> HIDE DEF c0
  <2>2. Accumulated(c1, p(2, 3) + p(3, 2))
    BY <1>2, <2>1, PlusAdds, DoubleWordSize
  <2> HIDE DEF c1
  <2>3. Accumulated(c2, 7 * (p(2, 3) + p(3, 2)))
    BY <1>2, <2>2, MultiplesHold, DoubleWordSize
  <2> HIDE DEF c2
  <2>4. Accumulated(c3, 7 * (p(2, 3) + p(3, 2)) + p(0, 1))
    BY <1>2, <2>3, PlusAdds, DoubleWordSize
  <2> HIDE DEF c3
  <2>5. Accumulated(c4, 7 * (p(2, 3) + p(3, 2)) + p(0, 1) + p(1, 0))
    BY <1>2, <2>4, PlusAdds, DoubleWordSize
  <2> HIDE DEF c4
  <2>6. /\ 7 * (p(2, 3) + p(3, 2)) + p(0, 1) + p(1, 0) \in Nat
       /\ 7 * (p(2, 3) + p(3, 2)) + p(0, 1) + p(1, 0) < 22 * DoubleWord
    BY <1>2, DoubleWordSize
  <2> QED
    BY <2>0, <2>5, <2>6, ReducedIsRight
<1>5. Represents(Ext4AddProds2(a, b), 7 * (p(3, 3)) + p(0, 2) + p(1, 1) + p(2, 0))
  <2> DEFINE c0 == Wide(p(3, 3))
             c1 == U160Times7(c0)
             c2 == AddTo(c1, p(0, 2))
             c3 == AddTo(c2, p(1, 1))
             c4 == AddTo(c3, p(2, 0))
  <2>0. Ext4AddProds2(a, b) = Reduced(c4)
    BY DEF Ext4AddProds2, p
  <2>1. Accumulated(c0, p(3, 3))
    BY <1>2, WideHolds
  <2> HIDE DEF c0
  <2>2. Accumulated(c1, 7 * (p(3, 3)))
    BY <1>2, <2>1, MultiplesHold, DoubleWordSize
  <2> HIDE DEF c1
  <2>3. Accumulated(c2, 7 * (p(3, 3)) + p(0, 2))
    BY <1>2, <2>2, PlusAdds, DoubleWordSize
  <2> HIDE DEF c2
  <2>4. Accumulated(c3, 7 * (p(3, 3)) + p(0, 2) + p(1, 1))
    BY <1>2, <2>3, PlusAdds, DoubleWordSize
  <2> HIDE DEF c3
  <2>5. Accumulated(c4, 7 * (p(3, 3)) + p(0, 2) + p(1, 1) + p(2, 0))
    BY <1>2, <2>4, PlusAdds, DoubleWordSize
  <2> HIDE DEF c4
  <2>6. /\ 7 * (p(3, 3)) + p(0, 2) + p(1, 1) + p(2, 0) \in Nat
       /\ 7 * (p(3, 3)) + p(0, 2) + p(1, 1) + p(2, 0) < 22 * DoubleWord
    BY <1>2, DoubleWordSize
  <2> QED
    BY <2>0, <2>5, <2>6, ReducedIsRight
<1>6. Represents(Ext4AddProds3(a, b), p(0, 3) + p(1, 2) + p(2, 1) + p(3, 0))
  <2> DEFINE c0 == Wide(p(0, 3))
             c1 == AddTo(c0, p(1, 2))
             c2 == AddTo(c1, p(2, 1))
             c3 == AddTo(c2, p(3, 0))
  <2>0. Ext4AddProds3(a, b) = Reduced(c3)
    BY DEF Ext4AddProds3, p
  <2>1. Accumulated(c0, p(0, 3))
    BY <1>2, WideHolds
  <2> HIDE DEF c0
  <2>2. Accumulated(c1, p(0, 3) + p(1, 2))
    BY <1>2, <2>1, PlusAdds, DoubleWordSize
  <2> HIDE DEF c1
  <2>3. Accumulated(c2, p(0, 3) + p(1, 2) + p(2, 1))
    BY <1>2, <2>2, PlusAdds, DoubleWordSize
  <2> HIDE DEF c2
  <2>4. Accumulated(c3, p(0, 3) + p(1, 2) + p(2, 1) + p(3, 0))
    BY <1>2, <2>3, PlusAdds, DoubleWordSize
  <2> HIDE DEF c3
  <2>5. /\ p(0, 3) + p(1, 2) + p(2, 1) + p(3, 0) \in Nat
       /\ p(0, 3) + p(1, 2) + p(2, 1) + p(3, 0) < 22 * DoubleWord
    BY <1>2, DoubleWordSize
  <2> QED
    BY <2>0, <2>4, <2>5, ReducedIsRight
<1> QED
  BY <1>3, <1>4, <1>5, <1>6 DEF p

\* ext5_mul: the coefficients of the product modulo X^5 - 3.
THEOREM QuinticProduct ==
    ASSUME NEW a \in [0 .. 4 -> Words], NEW b \in [0 .. 4 -> Words]
    PROVE  /\ Represents(Ext5AddProds0(a, b),
                         3 * (a[1] * b[4] + a[2] * b[3] + a[3] * b[2] + a[4] * b[1]) + a[0] * b[0])
           /\ Represents(Ext5AddProds1(a, b),
                         3 * (a[2] * b[4] + a[3] * b[3] + a[4] * b[2]) + a[0] * b[1] + a[1] * b[0])
           /\ Represents(Ext5AddProds2(a, b),
                         3 * (a[3] * b[4] + a[4] * b[3]) + a[0] * b[2] + a[1] * b[1] + a[2] * b[0])
           /\ Represents(Ext5AddProds3(a, b),
                         3 * (a[4] * b[4]) + a[0] * b[3] + a[1] * b[2] + a[2] * b[1] + a[3] * b[0])
           /\ Represents(Ext5AddProds4(a, b),
                         a[0] * b[4] + a[1] * b[3] + a[2] * b[2] + a[3] * b[1] + a[4] * b[0])
<1> DEFINE P == 0 .. (DoubleWord - 1)
           p(i, j) == a[i] * b[j]
<1>1. \A i, j \in 0 .. 4 : p(i, j) \in P
  BY ProductOfWords
<1>2. /\ p(0, 0) \in P /\ p(0, 1) \in P /\ p(0, 2) \in P /\ p(0, 3) \in P /\ p(0, 4) \in P
      /\ p(1, 0) \in P /\ p(1, 1) \in P /\ p(1, 2) \in P /\ p(1, 3) \in P /\ p(1, 4) \in P
      /\ p(2, 0) \in P /\ p(2, 1) \in P /\ p(2, 2) \in P /\ p(2, 3) \in P /\ p(2, 4) \in P
      /\ p(3, 0) \in P /\ p(3, 1) \in P /\ p(3, 2) \in P /\ p(3, 3) \in P /\ p(3, 4) \in P
      /\ p(4, 0) \in P /\ p(4, 1) \in P /\ p(4, 2) \in P /\ p(4, 3) \in P /\ p(4, 4) \in P
  BY <1>1
<1> HIDE DEF p
<1>3. Represents(Ext5AddProds0(a, b), 3 * (p(1, 4) + p(2, 3) + p(3, 2) + p(4, 1)) + p(0, 0))
  <2> DEFINE c0 == Wide(p(1, 4))
             c1 == AddTo(c0, p(2, 3))
             c2 == AddTo(c1, p(3, 2))
             c3 == AddTo(c2, p(4, 1))
             c4 == U160Times3(c3)
             c5 == AddTo(c4, p(0, 0))
  <2>0. Ext5AddProds0(a, b) = Reduced(c5)
    BY DEF Ext5AddProds0, p
  <2>1. Accumulated(c0, p(1, 4))
    BY <1>2, WideHolds
  <2> HIDE DEF c0
  <2>2. Accumulated(c1, p(1, 4) + p(2, 3))
    BY <1>2, <2>1, PlusAdds, DoubleWordSize
  <2> HIDE DEF c1
  <2>3. Accumulated(c2, p(1, 4) + p(2, 3) + p(3, 2))
    BY <1>2, <2>2, PlusAdds, DoubleWordSize
  <2> HIDE DEF c2
  <2>4. Accumulated(c3, p(1, 4) + p(2, 3) + p(3, 2) + p(4, 1))
    BY <1>2, <2>3, PlusAdds, DoubleWordSize
  <2> HIDE DEF c3
  <2>5. Accumulated(c4, 3 * (p(1, 4) + p(2, 3) + p(3, 2) + p(4, 1)))
    BY <1>2, <2>4, MultiplesHold, DoubleWordSize
  <2> HIDE DEF c4
  <2>6. Accumulated(c5, 3 * (p(1, 4) + p(2, 3) + p(3, 2) + p(4, 1)) + p(0, 0))
    BY <1>2, <2>5, PlusAdds, DoubleWordSize
  <2> HIDE DEF c5
  <2>7. /\ 3 * (p(1, 4) + p(2, 3) + p(3, 2) + p(4, 1)) + p(0, 0) \in Nat
       /\ 3 * (p(1, 4) + p(2, 3) + p(3, 2) + p(4, 1)) + p(0, 0) < 22 * DoubleWord
    BY <1>2, DoubleWordSize
  <2> QED
    BY <2>0, <2>6, <2>7, ReducedIsRight
<1>4. Represents(Ext5AddProds1(a, b), 3 * (p(2, 4) + p(3, 3) + p(4, 2)) + p(0, 1) + p(1, 0))
  <2> DEFINE c0 == Wide(p(2, 4))
             c1 == AddTo(c0, p(3, 3))
             c2 == AddTo(c1, p(4, 2))
             c3 == U160Times3(c2)
             c4 == AddTo(c3, p(0, 1))
             c5 == AddTo(c4, p(1, 0))
  <2>0. Ext5AddProds1(a, b) = Reduced(c5)
    BY DEF Ext5AddProds1, p
  <2>1. Accumulated(c0, p(2, 4))
    BY <1>2, WideHolds
  <2> HIDE DEF c0
  <2>2. Accumulated(c1, p(2, 4) + p(3, 3))
    BY <1>2, <2>1, PlusAdds, DoubleWordSize
  <2> HIDE DEF c1
  <2>3. Accumulated(c2, p(2, 4) + p(3, 3) + p(4, 2))
    BY <1>2, <2>2, PlusAdds, DoubleWordSize
  <2> HIDE DEF c2
  <2>4. Accumulated(c3, 3 * (p(2, 4) + p(3, 3) + p(4, 2)))
    BY <1>2, <2>3, MultiplesHold, DoubleWordSize
  <2> HIDE DEF c3
  <2>5. Accumulated(c4, 3 * (p(2, 4) + p(3, 3) + p(4, 2)) + p(0, 1))
    BY <1>2, <2>4, PlusAdds, DoubleWordSize
  <2> HIDE DEF c4
  <2>6. Accumulated(c5, 3 * (p(2, 4) + p(3, 3) + p(4, 2)) + p(0, 1) + p(1, 0))
    BY <1>2, <2>5, PlusAdds, DoubleWordSize
  <2> HIDE DEF c5
  <2>7. /\ 3 * (p(2, 4) + p(3, 3) + p(4, 2)) + p(0, 1) + p(1, 0) \in Nat
       /\ 3 * (p(2, 4) + p(3, 3) + p(4, 2)) + p(0, 1) + p(1, 0) < 22 * DoubleWord
    BY <1>2, DoubleWordSize
  <2> QED
    BY <2>0, <2>6, <2>7, ReducedIsRight
<1>5. Represents(Ext5AddProds2(a, b), 3 * (p(3, 4) + p(4, 3)) + p(0, 2) + p(1, 1) + p(2, 0))
  <2> DEFINE c0 == Wide(p(3, 4))
             c1 == AddTo(c0, p(4, 3))
             c2 == U160Times3(c1)
             c3 == AddTo(c2, p(0, 2))
             c4 == AddTo(c3, p(1, 1))
             c5 == AddTo(c4, p(2, 0))
  <2>0. Ext5AddProds2(a, b) = Reduced(c5)
    BY DEF Ext5AddProds2, p
  <2>1. Accumulated(c0, p(3, 4))
    BY <1>2, WideHolds
  <2> HIDE DEF c0
  <2>2. Accumulated(c1, p(3, 4) + p(4, 3))
    BY <1>2, <2>1, PlusAdds, DoubleWordSize
  <2> HIDE DEF c1
  <2>3. Accumulated(c2, 3 * (p(3, 4) + p(4, 3)))
    BY <1>2, <2>2, MultiplesHold, DoubleWordSize
  <2> HIDE DEF c2
  <2>4. Accumulated(c3, 3 * (p(3, 4) + p(4, 3)) + p(0, 2))
    BY <1>2, <2>3, PlusAdds, DoubleWordSize
  <2> HIDE DEF c3
  <2>5. Accumulated(c4, 3 * (p(3, 4) + p(4, 3)) + p(0, 2) + p(1, 1))
    BY <1>2, <2>4, PlusAdds, DoubleWordSize
  <2> HIDE DEF c4
  <2>6. Accumulated(c5, 3 * (p(3, 4) + p(4, 3)) + p(0, 2) + p(1, 1) + p(2, 0))
    BY <1>2, <2>5, PlusAdds, DoubleWordSize
  <2> HIDE DEF c5
  <2>7. /\ 3 * (p(3, 4) + p(4, 3)) + p(0, 2) + p(1, 1) + p(2, 0) \in Nat
       /\ 3 * (p(3, 4) + p(4, 3)) + p(0, 2) + p(1, 1) + p(2, 0) < 22 * DoubleWord
    BY <1>2, DoubleWordSize
  <2> QED
    BY <2>0, <2>6, <2>7, ReducedIsRight
<1>6. Represents(Ext5AddProds3(a, b), 3 * (p(4, 4)) + p(0, 3) + p(1, 2) + p(2, 1) + p(3, 0))
  <2> DEFINE c0 == Wide(p(4, 4))
             c1 == U160Times3(c0)
             c2 == AddTo(c1, p(0, 3))
             c3 == AddTo(c2, p(1, 2))
             c4 == AddTo(c3, p(2, 1))
             c5 == AddTo(c4, p(3, 0))
  <2>0. Ext5AddProds3(a, b) = Reduced(c5)
    BY DEF Ext5AddProds3, p
  <2>1. Accumulated(c0, p(4, 4))
    BY <1>2, WideHolds
  <2> HIDE DEF c0
  <2>2. Accumulated(c1, 3 * (p(4, 4)))
    BY <1>2, <2>1, MultiplesHold, DoubleWordSize
  <2> HIDE DEF c1
  <2>3. Accumulated(c2, 3 * (p(4, 4)) + p(0, 3))
    BY <1>2, <2>2, PlusAdds, DoubleWordSize
  <2> HIDE DEF c2
  <2>4. Accumulated(c3, 3 * (p(4, 4)) + p(0, 3) + p(1, 2))
    BY <1>2, <2>3, PlusAdds, DoubleWordSize
  <2> HIDE DEF c3
  <2>5. Accumulated(c4, 3 * (p(4, 4)) + p(0, 3) + p(1, 2) + p(2, 1))
    BY <1>2, <2>4, PlusAdds, DoubleWordSize
  <2> HIDE DEF c4
  <2>6. Accumulated(c5, 3 * (p(4, 4)) + p(0, 3) + p(1, 2) + p(2, 1) + p(3, 0))
    BY <1>2, <2>5, PlusAdds, DoubleWordSize
  <2> HIDE DEF c5
  <2>7. /\ 3 * (p(4, 4)) + p(0, 3) + p(1, 2) + p(2, 1) + p(3, 0) \in Nat
       /\ 3 * (p(4, 4)) + p(0, 3) + p(1, 2) + p(2, 1) + p(3, 0) < 22 * DoubleWord
    BY <1>2, DoubleWordSize
  <2> QED
    BY <2>0, <2>6, <2>7, ReducedIsRight
<1>7. Represents(Ext5AddProds4(a, b), p(0, 4) + p(1, 3) + p(2, 2) + p(3, 1) + p(4, 0))
  <2> DEFINE c0 == Wide(p(0, 4))
             c1 == AddTo(c0, p(1, 3))
             c2 == AddTo(c1, p(2, 2))
             c3 == AddTo(c2, p(3, 1))
             c4 == AddTo(c3, p(4, 0))
  <2>0. Ext5AddProds4(a, b) = Reduced(c4)
    BY DEF Ext5AddProds4, p
  <2>1. Accumulated(c0, p(0, 4))
    BY <1>2, WideHolds
  <2> HIDE DEF c0
  <2>2. Accumulated(c1, p(0, 4) + p(1, 3))
    BY <1>2, <2>1, PlusAdds, DoubleWordSize
  <2> HIDE DEF c1
  <2>3. Accumulated(c2, p(0, 4) + p(1, 3) + p(2, 2))
    BY <1>2, <2>2, PlusAdds, DoubleWordSize
  <2> HIDE DEF c2
  <2>4. Accumulated(c3, p(0, 4) + p(1, 3) + p(2, 2) + p(3, 1))
    BY <1>2, <2>3, PlusAdds, DoubleWordSize
  <2> HIDE DEF c3
  <2>5. Accumulated(c4, p(0, 4) + p(1, 3) + p(2, 2) + p(3, 1) + p(4, 0))
    BY <1>2, <2>4, PlusAdds, DoubleWordSize
  <2> HIDE DEF c4
  <2>6. /\ p(0, 4) + p(1, 3) + p(2, 2) + p(3, 1) + p(4, 0) \in Nat
       /\ p(0, 4) + p(1, 3) + p(2, 2) + p(3, 1) + p(4, 0) < 22 * DoubleWord
    BY <1>2, DoubleWordSize
  <2> QED
    BY <2>0, <2>5, <2>6, ReducedIsRight
<1> QED
  BY <1>3, <1>4, <1>5, <1>6, <1>7 DEF p

---------------------------------------------------------------------------
(* Poseidon's MDS layer *)

\* mds_multiply_freq: transforms, blocks and inverse transforms (whose division by four is in
\* the blocks' constants) multiply by the circulant matrix of mds_row_shf.
THEOREM FrequencyDomainIsMatrix ==
    ASSUME NEW s \in [0 .. 11 -> Int]
    PROVE  \A r \in 0 .. 11 : MdsMultiplyFreq(s)[r] = MdsRow(s, r)
<1> DEFINE a == Fft4Real(s[0], s[3], s[6], s[9])
           b == Fft4Real(s[1], s[4], s[7], s[10])
           c == Fft4Real(s[2], s[5], s[8], s[11])
           one == Block1(a.y0, b.y0, c.y0)
           two == Block2(a, b, c)
           three == Block3(a.y2, b.y2, c.y2)
           u == Ifft4RealUnreduced(one.z0, two.z0.re, two.z0.im, three.z0)
           v == Ifft4RealUnreduced(one.z1, two.z1.re, two.z1.im, three.z1)
           w == Ifft4RealUnreduced(one.z2, two.z2.re, two.z2.im, three.z2)
           m == MdsMultiplyFreq(s)
           out == <<u.x0, v.x0, w.x0, u.x1, v.x1, w.x1, u.x2, v.x2, w.x2, u.x3, v.x3, w.x3>>
<1>0. m = [r \in 0 .. 11 |-> out[r + 1]]
  <2> HIDE DEF one, two, three
  <2> QED
    BY Zenon DEF MdsMultiplyFreq, one, two, three
<1>1. /\ m[0] = u.x0 /\ m[3] = u.x1 /\ m[6] = u.x2 /\ m[9] = u.x3
      /\ m[1] = v.x0 /\ m[4] = v.x1 /\ m[7] = v.x2 /\ m[10] = v.x3
      /\ m[2] = w.x0 /\ m[5] = w.x1 /\ m[8] = w.x2 /\ m[11] = w.x3
  <2> HIDE DEF u, v, w, m
  <2> QED
    BY <1>0
<1> HIDE DEF m
<1>2. /\ u.x0 = (one.z0 + three.z0) + two.z0.re /\ u.x1 = (one.z0 - three.z0) + -two.z0.im
      /\ u.x2 = (one.z0 + three.z0) - two.z0.re /\ u.x3 = (one.z0 - three.z0) - -two.z0.im
      /\ v.x0 = (one.z1 + three.z1) + two.z1.re /\ v.x1 = (one.z1 - three.z1) + -two.z1.im
      /\ v.x2 = (one.z1 + three.z1) - two.z1.re /\ v.x3 = (one.z1 - three.z1) - -two.z1.im
      /\ w.x0 = (one.z2 + three.z2) + two.z2.re /\ w.x1 = (one.z2 - three.z2) + -two.z2.im
      /\ w.x2 = (one.z2 + three.z2) - two.z2.re /\ w.x3 = (one.z2 - three.z2) - -two.z2.im
  <2> HIDE DEF one, two, three
  <2> QED
    BY DEF Ifft4RealUnreduced
<1> HIDE DEF u, v, w
<1>3. \A i \in 0 .. 11 : s[i] \in Int
  OBVIOUS
<1>4. /\ a.y0 = s[0] + s[3] + s[6] + s[9] /\ a.y2 = s[0] + s[6] - s[3] - s[9]
      /\ a.re = s[0] - s[6] /\ a.im = s[9] - s[3]
      /\ b.y0 = s[1] + s[4] + s[7] + s[10] /\ b.y2 = s[1] + s[7] - s[4] - s[10]
      /\ b.re = s[1] - s[7] /\ b.im = s[10] - s[4]
      /\ c.y0 = s[2] + s[5] + s[8] + s[11] /\ c.y2 = s[2] + s[8] - s[5] - s[11]
      /\ c.re = s[2] - s[8] /\ c.im = s[11] - s[5]
  BY <1>3 DEF Fft4Real
<1>5. /\ one.z0 = a.y0 * 16 + b.y0 * 16 + c.y0 * 32
      /\ one.z1 = a.y0 * 32 + b.y0 * 16 + c.y0 * 16
      /\ one.z2 = a.y0 * 16 + b.y0 * 32 + c.y0 * 16
      /\ three.z0 = a.y2 * (-1) - b.y2 * 2 - c.y2 * (-8)
      /\ three.z1 = a.y2 * (-8) + b.y2 * (-1) - c.y2 * 2
      /\ three.z2 = a.y2 * 2 + b.y2 * (-8) + c.y2 * (-1)
  <2> HIDE DEF a, b, c
  <2> QED
    BY DEF Block1, Block3
<1>7. a.re \in Int /\ a.im \in Int /\ b.re \in Int /\ b.im \in Int
      /\ c.re \in Int /\ c.im \in Int
  BY <1>3, <1>4
<1> HIDE DEF a, b, c
<1>8. \A x \in {a, b, c} :
        /\ Karatsuba(x.re, x.im, 2, -1) = [re |-> 2 * x.re + x.im, im |-> 2 * x.im - x.re]
        /\ Karatsuba(x.re, x.im, -4, 1) = [re |-> -4 * x.re - x.im, im |-> x.re - 4 * x.im]
        /\ Karatsuba(x.re, x.im, 16, 1) = [re |-> 16 * x.re - x.im, im |-> x.re + 16 * x.im]
  BY <1>7 DEF Karatsuba
<1>9. /\ two.z0.re = (2 * a.re + a.im) + (b.re + 16 * b.im) + (c.re - 4 * c.im)
      /\ two.z0.im = (2 * a.im - a.re) - (16 * b.re - b.im) - (-4 * c.re - c.im)
      /\ two.z1.re = (-4 * a.re - a.im) + (2 * b.re + b.im) + (c.re + 16 * c.im)
      /\ two.z1.im = (a.re - 4 * a.im) + (2 * b.im - b.re) - (16 * c.re - c.im)
      /\ two.z2.re = (16 * a.re - a.im) + (-4 * b.re - b.im) + (2 * c.re + c.im)
      /\ two.z2.im = (a.re + 16 * a.im) + (b.re - 4 * b.im) + (2 * c.im - c.re)
  BY <1>8 DEF Block2
<1> HIDE DEF one, two, three
<1>10. m[0] = MdsRow(s, 0)
  <2>1. MdsRow(s, 0) = 17 * s[0] + 15 * s[1] + 41 * s[2] + 16 * s[3] + 2 * s[4] + 28 * s[5]
                          + 13 * s[6] + 13 * s[7] + 39 * s[8] + 18 * s[9] + 34 * s[10] + 20 * s[11]
    BY DEF MdsRow
  <2> QED
    BY <1>1, <1>2, <1>3, <1>4, <1>5, <1>9, <2>1
<1>11. m[1] = MdsRow(s, 1)
  <2>1. MdsRow(s, 1) = 17 * s[1] + 15 * s[2] + 41 * s[3] + 16 * s[4] + 2 * s[5] + 28 * s[6]
                          + 13 * s[7] + 13 * s[8] + 39 * s[9] + 18 * s[10] + 34 * s[11] + 20 * s[0]
    BY DEF MdsRow
  <2> QED
    BY <1>1, <1>2, <1>3, <1>4, <1>5, <1>9, <2>1
<1>12. m[2] = MdsRow(s, 2)
  <2>1. MdsRow(s, 2) = 17 * s[2] + 15 * s[3] + 41 * s[4] + 16 * s[5] + 2 * s[6] + 28 * s[7]
                          + 13 * s[8] + 13 * s[9] + 39 * s[10] + 18 * s[11] + 34 * s[0] + 20 * s[1]
    BY DEF MdsRow
  <2> QED
    BY <1>1, <1>2, <1>3, <1>4, <1>5, <1>9, <2>1
<1>13. m[3] = MdsRow(s, 3)
  <2>1. MdsRow(s, 3) = 17 * s[3] + 15 * s[4] + 41 * s[5] + 16 * s[6] + 2 * s[7] + 28 * s[8]
                          + 13 * s[9] + 13 * s[10] + 39 * s[11] + 18 * s[0] + 34 * s[1] + 20 * s[2]
    BY DEF MdsRow
  <2> QED
    BY <1>1, <1>2, <1>3, <1>4, <1>5, <1>9, <2>1
<1>14. m[4] = MdsRow(s, 4)
  <2>1. MdsRow(s, 4) = 17 * s[4] + 15 * s[5] + 41 * s[6] + 16 * s[7] + 2 * s[8] + 28 * s[9]
                          + 13 * s[10] + 13 * s[11] + 39 * s[0] + 18 * s[1] + 34 * s[2] + 20 * s[3]
    BY DEF MdsRow
  <2> QED
    BY <1>1, <1>2, <1>3, <1>4, <1>5, <1>9, <2>1
<1>15. m[5] = MdsRow(s, 5)
  <2>1. MdsRow(s, 5) = 17 * s[5] + 15 * s[6] + 41 * s[7] + 16 * s[8] + 2 * s[9] + 28 * s[10]
                          + 13 * s[11] + 13 * s[0] + 39 * s[1] + 18 * s[2] + 34 * s[3] + 20 * s[4]
    BY DEF MdsRow
  <2> QED
    BY <1>1, <1>2, <1>3, <1>4, <1>5, <1>9, <2>1
<1>16. m[6] = MdsRow(s, 6)
  <2>1. MdsRow(s, 6) = 17 * s[6] + 15 * s[7] + 41 * s[8] + 16 * s[9] + 2 * s[10] + 28 * s[11]
                          + 13 * s[0] + 13 * s[1] + 39 * s[2] + 18 * s[3] + 34 * s[4] + 20 * s[5]
    BY DEF MdsRow
  <2> QED
    BY <1>1, <1>2, <1>3, <1>4, <1>5, <1>9, <2>1
<1>17. m[7] = MdsRow(s, 7)
  <2>1. MdsRow(s, 7) = 17 * s[7] + 15 * s[8] + 41 * s[9] + 16 * s[10] + 2 * s[11] + 28 * s[0]
                          + 13 * s[1] + 13 * s[2] + 39 * s[3] + 18 * s[4] + 34 * s[5] + 20 * s[6]
    BY DEF MdsRow
  <2> QED
    BY <1>1, <1>2, <1>3, <1>4, <1>5, <1>9, <2>1
<1>18. m[8] = MdsRow(s, 8)
  <2>1. MdsRow(s, 8) = 17 * s[8] + 15 * s[9] + 41 * s[10] + 16 * s[11] + 2 * s[0] + 28 * s[1]
                          + 13 * s[2] + 13 * s[3] + 39 * s[4] + 18 * s[5] + 34 * s[6] + 20 * s[7]
    BY DEF MdsRow
  <2> QED
    BY <1>1, <1>2, <1>3, <1>4, <1>5, <1>9, <2>1
<1>19. m[9] = MdsRow(s, 9)
  <2>1. MdsRow(s, 9) = 17 * s[9] + 15 * s[10] + 41 * s[11] + 16 * s[0] + 2 * s[1] + 28 * s[2]
                          + 13 * s[3] + 13 * s[4] + 39 * s[5] + 18 * s[6] + 34 * s[7] + 20 * s[8]
    BY DEF MdsRow
  <2> QED
    BY <1>1, <1>2, <1>3, <1>4, <1>5, <1>9, <2>1
<1>20. m[10] = MdsRow(s, 10)
  <2>1. MdsRow(s, 10) = 17 * s[10] + 15 * s[11] + 41 * s[0] + 16 * s[1] + 2 * s[2] + 28 * s[3]
                          + 13 * s[4] + 13 * s[5] + 39 * s[6] + 18 * s[7] + 34 * s[8] + 20 * s[9]
    BY DEF MdsRow
  <2> QED
    BY <1>1, <1>2, <1>3, <1>4, <1>5, <1>9, <2>1
<1>21. m[11] = MdsRow(s, 11)
  <2>1. MdsRow(s, 11) = 17 * s[11] + 15 * s[0] + 41 * s[1] + 16 * s[2] + 2 * s[3] + 28 * s[4]
                          + 13 * s[5] + 13 * s[6] + 39 * s[7] + 18 * s[8] + 34 * s[9] + 20 * s[10]
    BY DEF MdsRow
  <2> QED
    BY <1>1, <1>2, <1>3, <1>4, <1>5, <1>9, <2>1
<1> QED
  BY <1>10, <1>11, <1>12, <1>13, <1>14, <1>15, <1>16, <1>17, <1>18, <1>19, <1>20, <1>21 DEF m

\* Sums with the matrix's coefficients, which add up to 256.
LEMMA RowIsBounded ==
    ASSUME NEW x0 \in Nat, NEW x1 \in Nat, NEW x2 \in Nat, NEW x3 \in Nat, NEW x4 \in Nat,
           NEW x5 \in Nat, NEW x6 \in Nat, NEW x7 \in Nat, NEW x8 \in Nat,
           NEW x9 \in Nat, NEW x10 \in Nat, NEW x11 \in Nat, NEW e \in Nat,
           x0 <= e, x1 <= e, x2 <= e, x3 <= e, x4 <= e, x5 <= e,
           x6 <= e, x7 <= e, x8 <= e, x9 <= e, x10 <= e, x11 <= e
    PROVE  17 * x0 + 15 * x1 + 41 * x2 + 16 * x3 + 2 * x4 + 28 * x5
              + 13 * x6 + 13 * x7 + 39 * x8 + 18 * x9 + 34 * x10 + 20 * x11 \in 0 .. (256 * e)
OBVIOUS

LEMMA RowBound ==
    ASSUME NEW e \in Nat, NEW s \in [0 .. 11 -> 0 .. e], NEW r \in 0 .. 11
    PROVE  MdsRow(s, r) \in 0 .. (256 * e)
<1> DEFINE X(i) == s[(r + i) % 12]
<1>1. \A i \in 0 .. 11 : (r + i) % 12 \in 0 .. 11
  OBVIOUS
<1>2. \A i \in 0 .. 11 : X(i) \in Nat /\ X(i) <= e
  <2>1. \A i \in 0 .. 11 : X(i) \in 0 .. e
    BY <1>1
  <2> QED
    BY <2>1
<1>3. MdsRow(s, r) = 17 * X(0) + 15 * X(1) + 41 * X(2) + 16 * X(3) + 2 * X(4) + 28 * X(5)
                     + 13 * X(6) + 13 * X(7) + 39 * X(8) + 18 * X(9) + 34 * X(10) + 20 * X(11)
  <2>1. r % 12 = r /\ r + 0 = r
    OBVIOUS
  <2> QED
    BY <2>1 DEF MdsRow
<1> HIDE DEF X
<1> QED
  BY <1>2, <1>3, RowIsBounded

LEMMA RowOfHalves ==
    ASSUME NEW s \in [0 .. 11 -> Words], NEW r \in 0 .. 11
    PROVE  MdsRow([i \in 0 .. 11 |-> LowHalf(s[i])], r)
             + MdsRow([i \in 0 .. 11 |-> HighHalf(s[i])], r) * Radix = MdsRow(s, r)
<1> DEFINE low == [i \in 0 .. 11 |-> LowHalf(s[i])]
           high == [i \in 0 .. 11 |-> HighHalf(s[i])]
<1>1. \A i \in 0 .. 11 : /\ s[i] = high[i] * Radix + low[i]
                        /\ high[i] \in Int /\ low[i] \in Int /\ high[i] * Radix \in Int
  BY HalvesOfWord, Sizes
<1>2. \A i \in 0 .. 11 : (r + i) % 12 \in 0 .. 11
  OBVIOUS
<1> HIDE DEF low, high
<1> DEFINE H(i) == high[(r + i) % 12]
           L(i) == low[(r + i) % 12]
<1>3. \A i \in 0 .. 11 : /\ s[(r + i) % 12] = H(i) * Radix + L(i)
                        /\ H(i) \in Int /\ L(i) \in Int
  BY <1>1, <1>2
<1>4. r % 12 = r /\ r + 0 = r
  OBVIOUS
<1>5. /\ MdsRow(s, r) = 17 * (H(0) * Radix + L(0)) + 15 * (H(1) * Radix + L(1))
              + 41 * (H(2) * Radix + L(2)) + 16 * (H(3) * Radix + L(3))
              + 2 * (H(4) * Radix + L(4)) + 28 * (H(5) * Radix + L(5))
              + 13 * (H(6) * Radix + L(6)) + 13 * (H(7) * Radix + L(7))
                  + 39 * (H(8) * Radix + L(8)) + 18 * (H(9) * Radix + L(9))
                  + 34 * (H(10) * Radix + L(10)) + 20 * (H(11) * Radix + L(11))
      /\ MdsRow(low, r) = 17 * L(0) + 15 * L(1) + 41 * L(2) + 16 * L(3) + 2 * L(4) + 28 * L(5)
              + 13 * L(6) + 13 * L(7) + 39 * L(8) + 18 * L(9) + 34 * L(10) + 20 * L(11)
      /\ MdsRow(high, r) = 17 * H(0) + 15 * H(1) + 41 * H(2) + 16 * H(3) + 2 * H(4) + 28 * H(5)
              + 13 * H(6) + 13 * H(7) + 39 * H(8) + 18 * H(9) + 34 * H(10) + 20 * H(11)
  <2>1. s[r] = H(0) * Radix + L(0) /\ low[r] = L(0) /\ high[r] = H(0)
    BY <1>3, <1>4
  <2>2. /\ s[(r + 1) % 12] = H(1) * Radix + L(1) /\ s[(r + 2) % 12] = H(2) * Radix + L(2)
        /\ s[(r + 3) % 12] = H(3) * Radix + L(3) /\ s[(r + 4) % 12] = H(4) * Radix + L(4)
        /\ s[(r + 5) % 12] = H(5) * Radix + L(5) /\ s[(r + 6) % 12] = H(6) * Radix + L(6)
        /\ s[(r + 7) % 12] = H(7) * Radix + L(7) /\ s[(r + 8) % 12] = H(8) * Radix + L(8)
        /\ s[(r + 9) % 12] = H(9) * Radix + L(9) /\ s[(r + 10) % 12] = H(10) * Radix + L(10)
        /\ s[(r + 11) % 12] = H(11) * Radix + L(11)
    BY <1>3
  <2> QED
    BY <2>1, <2>2 DEF MdsRow
<1> HIDE DEF H, L
<1>6. MdsRow(high, r) * Radix + MdsRow(low, r) = MdsRow(s, r)
  <2>0. PICK h0 \in Int, l0 \in Int : h0 = H(0) /\ l0 = L(0)
    BY <1>3
  <2>1. PICK h1 \in Int, l1 \in Int : h1 = H(1) /\ l1 = L(1)
    BY <1>3
  <2>2. PICK h2 \in Int, l2 \in Int : h2 = H(2) /\ l2 = L(2)
    BY <1>3
  <2>3. PICK h3 \in Int, l3 \in Int : h3 = H(3) /\ l3 = L(3)
    BY <1>3
  <2>4. PICK h4 \in Int, l4 \in Int : h4 = H(4) /\ l4 = L(4)
    BY <1>3
  <2>5. PICK h5 \in Int, l5 \in Int : h5 = H(5) /\ l5 = L(5)
    BY <1>3
  <2>6. PICK h6 \in Int, l6 \in Int : h6 = H(6) /\ l6 = L(6)
    BY <1>3
  <2>7. PICK h7 \in Int, l7 \in Int : h7 = H(7) /\ l7 = L(7)
    BY <1>3
  <2>8. PICK h8 \in Int, l8 \in Int : h8 = H(8) /\ l8 = L(8)
    BY <1>3
  <2>9. PICK h9 \in Int, l9 \in Int : h9 = H(9) /\ l9 = L(9)
    BY <1>3
  <2>10. PICK h10 \in Int, l10 \in Int : h10 = H(10) /\ l10 = L(10)
    BY <1>3
  <2>11. PICK h11 \in Int, l11 \in Int : h11 = H(11) /\ l11 = L(11)
    BY <1>3
  <2>12. PICK n \in Int : n = Radix
    BY Sizes
  <2>13. (17 * h0 + 15 * h1 + 41 * h2 + 16 * h3 + 2 * h4 + 28 * h5
              + 13 * h6 + 13 * h7 + 39 * h8 + 18 * h9 + 34 * h10 + 20 * h11) * n
             + (17 * l0 + 15 * l1 + 41 * l2 + 16 * l3 + 2 * l4 + 28 * l5
            + 13 * l6 + 13 * l7 + 39 * l8 + 18 * l9 + 34 * l10 + 20 * l11)
             = 17 * (h0 * n + l0) + 15 * (h1 * n + l1) + 41 * (h2 * n + l2) + 16 * (h3 * n + l3)
                 + 2 * (h4 * n + l4) + 28 * (h5 * n + l5)
              + 13 * (h6 * n + l6) + 13 * (h7 * n + l7) + 39 * (h8 * n + l8)
                  + 18 * (h9 * n + l9) + 34 * (h10 * n + l10) + 20 * (h11 * n + l11)
    OBVIOUS
  <2> QED
    BY <1>5, <2>0, <2>1, <2>2, <2>3, <2>4, <2>5, <2>6, <2>7, <2>8, <2>9, <2>10, <2>11, <2>12, <2>13
<1>7. MdsRow(high, r) \in Int /\ MdsRow(low, r) \in Int
  BY <1>3, <1>5
<1>8. MdsRow(low, r) + MdsRow(high, r) * Radix = MdsRow(s, r)
  BY <1>6, <1>7, Sizes
<1> QED
  BY <1>8 DEF low, high

LEMMA SumOfRepresented ==
    ASSUME NEW x \in Int, NEW y \in Int, NEW m \in Int, NEW n \in Int,
           SameElement(x, m), SameElement(y, n)
    PROVE  SameElement(x + y, m + n)
<1>1. PICK i \in Int : m = x + i * ORDER
  BY DEF SameElement
<1>2. PICK j \in Int : n = y + j * ORDER
  BY DEF SameElement
<1>3. m + n = x + y + (i + j) * ORDER
  BY <1>1, <1>2, Sizes
<1> QED
  BY <1>3 DEF SameElement

LEMMA RepresentedTwice ==
    ASSUME NEW x \in Int, NEW m \in Int, NEW n \in Int, SameElement(x, m), SameElement(m, n)
    PROVE  SameElement(x, n)
<1>1. PICK i \in Int : m = x + i * ORDER
  BY DEF SameElement
<1>2. PICK j \in Int : n = m + j * ORDER
  BY DEF SameElement
<1>3. n = x + (i + j) * ORDER
  BY <1>1, <1>2, Sizes
<1> QED
  BY <1>3 DEF SameElement

LEMMA NoncanonicalU96 ==
    ASSUME NEW n \in Nat, n < Radix * Word
    PROVE  Represents(FromNoncanonicalU96(n), n)
<1> DEFINE lo == n % Word  hi == n \div Word
<1>1. n = Word * hi + lo /\ lo \in Words /\ hi \in Nat
  BY Division, Sizes DEF Words
<1>2. Represents(FromNoncanonicalU96(n), n)
  <2> HIDE DEF lo, hi
  <2>1. hi >= Radix => Word * hi >= Word * Radix
    BY <1>1, Sizes
  <2>2. hi \in 0 .. EPSILON
    BY <1>1, <2>1, Sizes DEF Words
  <2>3. Represents(Reduce96(lo, hi), lo + hi * Word)
    BY <1>1, <2>2, Reduce96IsRight
  <2>4. lo + hi * Word = n
    BY <1>1, Sizes DEF Words
  <2> QED
    BY <2>3, <2>4 DEF FromNoncanonicalU96, lo, hi
<1> QED
  BY <1>2

\* mds_layer: every word of the result stands for mds_row_shf's sum, over words that need not
\* be canonical, and the sums over the halves fit into signed words.
THEOREM MdsLayerIsMatrix ==
    ASSUME NEW state \in [0 .. 11 -> Words], Radix >= 1024
    PROVE  \A r \in 0 .. 11 :
             /\ Represents(MdsLayer(state)[r], MdsRowShf(state, r))
             /\ MdsMultiplyFreq([i \in 0 .. 11 |-> LowHalf(state[i])])[r] \in 0 .. (SignBit - 1)
             /\ MdsMultiplyFreq([i \in 0 .. 11 |-> HighHalf(state[i])])[r] \in 0 .. (SignBit - 1)
<1> DEFINE low == [i \in 0 .. 11 |-> LowHalf(state[i])]
           high == [i \in 0 .. 11 |-> HighHalf(state[i])]
           n(r) == MdsMultiplyFreq(low)[r] + MdsMultiplyFreq(high)[r] * Radix
<1>1. low \in [0 .. 11 -> 0 .. EPSILON] /\ high \in [0 .. 11 -> 0 .. EPSILON]
  BY HalvesOfWord
<1>2. low \in [0 .. 11 -> Int] /\ high \in [0 .. 11 -> Int]
  BY <1>1, Sizes
<1>3. SignBit > 256 * EPSILON
  <2>1. Word >= 1024 * Radix
    BY Sizes DEF Word
  <2> QED
    BY <2>1, Sizes
<1>4. /\ \A i \in 0 .. 11 : MdsLayer(state)[i]
                              = IF i = 0 THEN ScalarAdd(FromNoncanonicalU96(n(0)),
                                                        FromNoncanonicalU96(8 * state[0]))
                                         ELSE FromNoncanonicalU96(n(i))
  BY DEF MdsLayer
<1>5. ASSUME NEW r \in 0 .. 11
      PROVE  /\ n(r) = MdsRow(state, r)
             /\ MdsMultiplyFreq(low)[r] \in 0 .. (256 * EPSILON)
             /\ MdsMultiplyFreq(high)[r] \in 0 .. (256 * EPSILON)
  <2>1. /\ MdsMultiplyFreq(low)[r] = MdsRow(low, r)
        /\ MdsMultiplyFreq(high)[r] = MdsRow(high, r)
    <3> HIDE DEF low, high
    <3> QED
      BY <1>2, FrequencyDomainIsMatrix
  <2>2. MdsRow(low, r) + MdsRow(high, r) * Radix = MdsRow(state, r)
    BY RowOfHalves
  <2>3. MdsRow(low, r) \in 0 .. (256 * EPSILON) /\ MdsRow(high, r) \in 0 .. (256 * EPSILON)
    <3> HIDE DEF low, high
    <3> QED
      BY <1>1, RowBound, Sizes
  <2> HIDE DEF low, high
  <2> QED
    BY <2>1, <2>2, <2>3
<1> HIDE DEF low, high, n
<1>6. ASSUME NEW r \in 0 .. 11
      PROVE  /\ MdsRow(state, r) \in 0 .. (256 * (Word - 1))
             /\ Represents(FromNoncanonicalU96(n(r)), MdsRow(state, r))
  <2>1. MdsRow(state, r) \in 0 .. (256 * (Word - 1))
    BY RowBound, Sizes DEF Words
  <2>2. Radix * Word >= 1024 * Word
    BY Sizes
  <2>3. MdsRow(state, r) \in Nat /\ MdsRow(state, r) < Radix * Word
    BY <2>1, <2>2, Sizes
  <2> QED
    BY <1>5, <2>1, <2>3, NoncanonicalU96
<1>7. ASSUME NEW r \in 0 .. 11, r # 0
      PROVE  Represents(MdsLayer(state)[r], MdsRowShf(state, r))
  <2>1. MdsRowShf(state, r) = MdsRow(state, r)
    BY <1>6, <1>7 DEF MdsRowShf
  <2> QED
    BY <1>4, <1>6, <1>7, <2>1
<1>8. Represents(MdsLayer(state)[0], MdsRowShf(state, 0))
  <2> DEFINE p == FromNoncanonicalU96(n(0))
             q == FromNoncanonicalU96(8 * state[0])
             d == 8 * state[0]
  <2>1. Represents(p, MdsRow(state, 0)) /\ MdsRow(state, 0) \in Nat
    BY <1>6
  <2>2. d \in Nat /\ d < Radix * Word
    <3>1. Radix * Word >= 1024 * Word
      BY Sizes
    <3>2. state[0] \in Words
      OBVIOUS
    <3> QED
      BY <3>1, <3>2, Sizes DEF Words
  <2>3. Represents(q, d)
    BY <2>2, NoncanonicalU96
  <2>4. MdsLayer(state)[0] = ScalarAdd(p, q)
    BY <1>4
  <2>5. MdsRowShf(state, 0) = MdsRow(state, 0) + d
    BY DEF MdsRowShf
  <2> HIDE DEF p, q, d
  <2>6. p \in Words /\ q \in Words /\ p \in Int /\ q \in Int
    BY <2>1, <2>3, Sizes DEF Represents, Words
  <2>7. Represents(ScalarAdd(p, q), p + q)
    BY <2>6, AddIsSum
  <2>8. SameElement(p + q, MdsRow(state, 0) + d)
    BY <2>1, <2>2, <2>3, <2>6, SumOfRepresented DEF Represents
  <2>9. SameElement(ScalarAdd(p, q), MdsRow(state, 0) + d)
    <3>1. ScalarAdd(p, q) \in Int /\ p + q \in Int /\ MdsRow(state, 0) + d \in Int
      BY <2>1, <2>2, <2>6, <2>7, Sizes DEF Represents, Words
    <3> QED
      BY <2>7, <2>8, <3>1, RepresentedTwice DEF Represents
  <2> QED
    BY <2>4, <2>5, <2>7, <2>9 DEF Represents
<1>9. ASSUME NEW r \in 0 .. 11
      PROVE  /\ MdsMultiplyFreq(low)[r] \in 0 .. (SignBit - 1)
             /\ MdsMultiplyFreq(high)[r] \in 0 .. (SignBit - 1)
  BY <1>3, <1>5, Sizes
<1> QED
  BY <1>7, <1>8, <1>9 DEF low, high

-----------------------------------------------------------------------------
(* Numbers.                                                                *)

LessThan == {ss \in Nat \X Nat : ss[1] < ss[2]}

\* A set of numbers that is not empty has a least one.
LEMMA LeastNatural ==
    ASSUME NEW T \in SUBSET Nat, T # {}
    PROVE  \E b \in T : \A c \in T : b <= c
<1>1. PICK b \in T : \A c \in T : ~(<<c, b>> \in OpToRel(<, Nat))
  BY WFMin, NatLessThanWellFounded
<1>2. OpToRel(<, Nat) = LessThan
  BY DEF OpToRel, LessThan
<1>3. \A c \in T : <<c, b>> \notin LessThan
  BY <1>1, <1>2
<1>4. \A c \in T : ~(c < b)
  <2>1. SUFFICES ASSUME NEW c \in T, c < b PROVE FALSE
    OBVIOUS
  <2>2. <<c, b>> \in Nat \X Nat /\ <<c, b>>[1] < <<c, b>>[2]
    BY <2>1
  <2>. QED  BY <1>3, <2>2 DEF LessThan
<1>5. \A c \in T : c \in Nat /\ b \in Nat
  OBVIOUS
<1>. QED  BY <1>4, <1>5

\* What holds at zero and is handed on holds up to the end.
LEMMA Counting ==
    ASSUME NEW n \in Nat, NEW T, 0 \in T, \A i \in 1 .. n : i - 1 \in T => i \in T
    PROVE  \A i \in 0 .. n : i \in T
<1> DEFINE Off == {i \in 0 .. n : i \notin T}
<1>1. SUFFICES ASSUME Off # {} PROVE FALSE
  OBVIOUS
<1>2. Off \in SUBSET Nat
  OBVIOUS
<1> HIDE DEF Off
<1>3. PICK i \in Off : \A k \in Off : i <= k
  BY <1>1, <1>2, LeastNatural
<1> USE DEF Off
<1>4. i \in 1 .. n /\ i - 1 \in 0 .. n
  BY <1>3
<1>5. i - 1 \notin Off
  BY <1>3, <1>4
<1>. QED  BY <1>3, <1>4, <1>5

\* A power of two counts the subsets of a set.
LEMMA PowerCounts ==
    ASSUME NEW n \in Nat, NEW S, IsFiniteSet(S), Cardinality(S) = n
    PROVE  IsFiniteSet(SUBSET S) /\ Cardinality(SUBSET S) = 2 ^ n
BY FS_SUBSET

\* Powers of two are positive numbers.
LEMMA PowerType ==
    ASSUME NEW n \in Nat
    PROVE  2 ^ n \in Nat /\ 2 ^ n > 0
<1>1. IsFiniteSet(1 .. n) /\ Cardinality(1 .. n) = n
  BY FS_Interval
<1>2. IsFiniteSet(SUBSET (1 .. n)) /\ Cardinality(SUBSET (1 .. n)) = 2 ^ n
  BY <1>1, PowerCounts
<1>3. SUBSET (1 .. n) # {}
  OBVIOUS
<1>. QED  BY <1>2, <1>3, FS_CardinalityType, FS_EmptySet

\* Subsets of two disjoint sets are pairs of subsets.
LEMMA PowerOfSum ==
    ASSUME NEW a \in Nat, NEW b \in Nat
    PROVE  2 ^ (a + b) = 2 ^ a * 2 ^ b
<1> DEFINE A == 1 .. a
           B == (a + 1) .. (a + b)
           f == [s \in SUBSET (A \cup B) |-> <<s \cap A, s \cap B>>]
<1>1. IsFiniteSet(A) /\ Cardinality(A) = a /\ IsFiniteSet(B) /\ Cardinality(B) = b
  BY FS_Interval
<1>2. A \cup B = 1 .. (a + b) /\ A \cap B = {}
  OBVIOUS
<1>3. IsFiniteSet(A \cup B) /\ Cardinality(A \cup B) = a + b
  <2>1. IsFiniteSet(1 .. (a + b)) /\ Cardinality(1 .. (a + b)) = a + b
    <3>1. 1 \in Int /\ a + b \in Int /\ a + b >= 0
      OBVIOUS
    <3> DEFINE n == a + b
    <3> HIDE DEF n
    <3>2. IsFiniteSet(1 .. n) /\ Cardinality(1 .. n) = n
      BY <3>1, FS_Interval DEF n
    <3>. QED  BY <3>2 DEF n
  <2>. QED  BY <1>2, <2>1
<1> HIDE DEF A, B
<1>4. f \in Bijection(SUBSET (A \cup B), (SUBSET A) \X (SUBSET B))
  <2>1. f \in [SUBSET (A \cup B) -> (SUBSET A) \X (SUBSET B)]
    OBVIOUS
  <2>2. ASSUME NEW s \in SUBSET (A \cup B), NEW t \in SUBSET (A \cup B), f[s] = f[t]
        PROVE  s = t
    <3>1. s \cap A = t \cap A /\ s \cap B = t \cap B
      BY <2>2
    <3>. QED  BY <3>1
  <2>3. ASSUME NEW p \in (SUBSET A) \X (SUBSET B)
        PROVE  \E s \in SUBSET (A \cup B) : f[s] = p
    <3>1. PICK x \in SUBSET A, y \in SUBSET B : p = <<x, y>>
      OBVIOUS
    <3>2. x \cup y \in SUBSET (A \cup B) /\ (x \cup y) \cap A = x /\ (x \cup y) \cap B = y
      BY <1>2
    <3>. QED  BY <3>1, <3>2
  <2>. QED  BY <2>1, <2>2, <2>3 DEF Bijection, Injection, Surjection, IsInjective
<1>5. Cardinality(SUBSET (A \cup B)) = Cardinality((SUBSET A) \X (SUBSET B))
  <2>1. IsFiniteSet(SUBSET (A \cup B))
    BY <1>3, FS_SUBSET
  <2> HIDE DEF f
  <2>. QED  BY <1>4, <2>1, FS_Bijection DEF ExistsBijection
<1>6. Cardinality((SUBSET A) \X (SUBSET B)) = Cardinality(SUBSET A) * Cardinality(SUBSET B)
  BY <1>1, FS_SUBSET, FS_Product
<1>7. /\ Cardinality(SUBSET A) = 2 ^ a /\ Cardinality(SUBSET B) = 2 ^ b
      /\ Cardinality(SUBSET (A \cup B)) = 2 ^ (a + b)
  <2>1. a + b \in Nat
    OBVIOUS
  <2>. QED  BY <1>1, <1>3, <2>1, PowerCounts
<1>. QED  BY <1>5, <1>6, <1>7

\* A quotient and a remainder are what they are built from.
LEMMA DivUnique ==
    ASSUME NEW k \in Nat, NEW T \in Nat, T > 0, NEW r \in Nat, r < T, NEW a \in Nat, a = k * T + r
    PROVE  a \div T = k /\ a % T = r
<1>1. a = T * (a \div T) + (a % T) /\ a % T \in 0 .. T - 1 /\ a \div T \in Nat
  OBVIOUS
<1> DEFINE x == a \div T
           y == a % T
<1>2. T * x + y = k * T + r /\ y \in 0 .. T - 1 /\ x \in Nat
  BY <1>1
<1> HIDE DEF x, y
<1>3. T * (x - k) = r - y
  BY <1>2
<1>4. x - k < 1
  <2>1. SUFFICES ASSUME x - k >= 1 PROVE FALSE
    BY <1>2
  <2>2. T * (x - k) >= T
    BY <1>2, <2>1
  <2>. QED  BY <1>2, <1>3, <2>2
<1>5. x - k > -1
  <2>1. SUFFICES ASSUME x - k <= -1 PROVE FALSE
    BY <1>2
  <2>2. T * (x - k) <= -T
    BY <1>2, <2>1
  <2>. QED  BY <1>2, <1>3, <2>2
<1>6. x = k /\ y = r
  BY <1>2, <1>3, <1>4, <1>5
<1>. QED  BY <1>6 DEF x, y

\* Quotient and remainder.
LEMMA Divided ==
    ASSUME NEW a \in Nat, NEW T \in Nat, T > 0
    PROVE  /\ a = (a \div T) * T + (a % T) /\ a \div T \in Nat /\ a % T \in 0 .. T - 1
           /\ \A U \in Nat : a < U * T => a \div T \in 0 .. U - 1
<1> DEFINE x == a \div T
           y == a % T
<1>1. a = x * T + y /\ x \in Nat /\ y \in 0 .. T - 1
  OBVIOUS
<1> HIDE DEF x, y
<1>2. ASSUME NEW U \in Nat, a < U * T
      PROVE  x \in 0 .. U - 1
  <2>1. SUFFICES ASSUME x >= U PROVE FALSE
    BY <1>1
  <2>2. x * T >= U * T
    BY <1>1, <2>1
  <2>3. x * T \in Nat /\ U * T \in Nat
    BY <1>1
  <2>. QED  BY <1>1, <1>2, <2>2, <2>3
<1>. QED  BY <1>1, <1>2 DEF x, y

\* Each power is twice the one before.
LEMMA Doubling ==
    ASSUME NEW n \in Nat
    PROVE  2 ^ n \in Nat /\ 2 ^ n >= 1 /\ 2 ^ (n + 1) = 2 * 2 ^ n
<1>1. 2 ^ n \in Nat /\ 2 ^ n > 0
  BY PowerType
<1>2. \A b \in Nat : 2 ^ (n + b) = 2 ^ n * 2 ^ b
  BY PowerOfSum
<1>3. 2 ^ (n + 1) = 2 ^ n * 2 ^ 1
  BY <1>2, 1 \in Nat, Zenon
<1>4. 2 ^ 1 = 2
  OBVIOUS
<1>5. 2 ^ n * 2 = 2 * 2 ^ n
  BY <1>1
<1>. QED  BY <1>1, <1>3, <1>4, <1>5

\* Dividing once by a product is dividing by one factor after the other.
LEMMA DivTwice ==
    ASSUME NEW a \in Nat, NEW T \in Nat, T > 0, NEW U \in Nat, U > 0
    PROVE  (a \div T) \div U = a \div (T * U) /\ (a \div T) % U = (a % (T * U)) \div T
<1> DEFINE x == a \div T
           y == a % T
           z == x \div U
           w == x % U
<1>1. a = x * T + y /\ x \in Nat /\ y \in 0 .. T - 1
  BY Divided
<1> HIDE DEF x, y
<1>2. x = z * U + w /\ z \in Nat /\ w \in 0 .. U - 1
  BY <1>1, Divided
<1> HIDE DEF z, w
<1>3. T * U \in Nat /\ T * U > 0
  OBVIOUS
<1> DEFINE V == T * U
           r == w * T + y
<1>4. r \in Nat /\ r < V
  <2>1. w * T <= (U - 1) * T /\ w * T \in Nat
    BY <1>2
  <2>2. (U - 1) * T = V - T
    OBVIOUS
  <2>. QED  BY <1>1, <2>1, <2>2, <1>3
<1>5. a = z * V + r
  <2>1. x * T = (z * U) * T + w * T
    BY <1>2, <1>1
  <2>2. (z * U) * T = z * V
    BY <1>2
  <2>3. z * V \in Int /\ w * T \in Int
    BY <1>2, <1>3
  <2> HIDE DEF V
  <2>. QED  BY <1>1, <2>1, <2>2, <2>3
<1> HIDE DEF V, r
<1>6. V \in Nat /\ V > 0
  BY <1>3 DEF V
<1>7. a \div V = z /\ a % V = r
  BY <1>2, <1>4, <1>5, <1>6, DivUnique
<1>8. r \div T = w
  <2>1. r = w * T + y /\ y \in Nat /\ y < T /\ w \in Nat
    BY <1>1, <1>2 DEF r
  <2>. QED  BY <1>4, <2>1, DivUnique
<1>. QED  BY <1>7, <1>8 DEF V, z, w, x


\* Remainders of integers.
LEMMA RemainderOfInteger ==
    ASSUME NEW a \in Int, NEW m \in Nat, m > 0
    PROVE  a % m \in 0 .. m - 1 /\ \E k \in Int : a = k * m + (a % m)
<1>1. a = m * (a \div m) + (a % m) /\ a % m \in 0 .. m - 1 /\ a \div m \in Int
  OBVIOUS
<1>2. m * (a \div m) = (a \div m) * m
  BY <1>1
<1>. QED  BY <1>1, <1>2

\* The remainder is the only number below the modulus that differs by a multiple of it.
LEMMA RemainderUnique ==
    ASSUME NEW a \in Int, NEW m \in Nat, m > 0, NEW k \in Int, NEW r \in 0 .. m - 1, a = k * m + r
    PROVE  a % m = r
<1>1. PICK l \in Int : a = l * m + (a % m)
  BY RemainderOfInteger
<1> DEFINE t == a % m
<1>2. t \in 0 .. m - 1
  BY RemainderOfInteger
<1>3. l * m + t = k * m + r
  BY <1>1
<1> HIDE DEF t
<1>4. (l - k) * m = r - t
  BY <1>2, <1>3
<1>5. l - k < 1
  <2>1. SUFFICES ASSUME l - k >= 1 PROVE FALSE
    OBVIOUS
  <2>2. (l - k) * m >= m
    BY <2>1
  <2>. QED  BY <1>2, <1>4, <2>2
<1>6. l - k > -1
  <2>1. SUFFICES ASSUME l - k <= -1 PROVE FALSE
    OBVIOUS
  <2>2. (l - k) * m <= -m
    BY <2>1
  <2>. QED  BY <1>2, <1>4, <2>2
<1>7. l - k = 0
  BY <1>5, <1>6
<1>8. r - t = 0
  BY <1>4, <1>7
<1>. QED  BY <1>2, <1>8 DEF t

Congruent(a, b, m) == \E k \in Int : a = b + k * m

\* Congruent numbers are those of one remainder.
LEMMA SameRemainder ==
    ASSUME NEW a \in Int, NEW b \in Int, NEW m \in Nat, m > 0
    PROVE  a % m = b % m <=> Congruent(a, b, m)
<1>1. PICK i \in Int : a = i * m + (a % m)
  BY RemainderOfInteger
<1>2. PICK j \in Int : b = j * m + (b % m)
  BY RemainderOfInteger
<1>3. a % m \in 0 .. m - 1 /\ b % m \in 0 .. m - 1
  BY RemainderOfInteger
<1>4. ASSUME a % m = b % m PROVE \E k \in Int : a = b + k * m
  <2> DEFINE t == b % m
  <2>1. a = i * m + t /\ b = j * m + t /\ t \in Int
    BY <1>1, <1>2, <1>3, <1>4
  <2> HIDE DEF t
  <2>2. a = b + (i - j) * m /\ i - j \in Int
    BY <2>1
  <2>. QED  BY <2>2
<1>5. ASSUME NEW k \in Int, a = b + k * m PROVE a % m = b % m
  <2> DEFINE t == b % m
  <2>1. b = j * m + t /\ t \in 0 .. m - 1
    BY <1>2, <1>3
  <2> HIDE DEF t
  <2>2. a = (j + k) * m + t /\ j + k \in Int
    BY <1>5, <2>1
  <2>3. a % m = t
    BY <2>1, <2>2, RemainderUnique
  <2>. QED  BY <2>3 DEF t
<1>. QED  BY <1>4, <1>5 DEF Congruent

\* Sums, differences and products of congruent numbers are congruent.
LEMMA CongruentResults ==
    ASSUME NEW m \in Nat, NEW a \in Int, NEW b \in Int, NEW c \in Int, NEW d \in Int,
           Congruent(a, b, m), Congruent(c, d, m)
    PROVE  Congruent(a + c, b + d, m) /\ Congruent(a - c, b - d, m) /\ Congruent(a * c, b * d, m)
<1>1. PICK i \in Int, j \in Int : a = b + i * m /\ c = d + j * m
  BY DEF Congruent
<1>2. a + c = (b + d) + (i + j) * m /\ i + j \in Int
  BY <1>1
<1>3. a - c = (b - d) + (i - j) * m /\ i - j \in Int
  BY <1>1
<1>4. a * c = b * d + (b * j + i * d + (i * j) * m) * m
  <2>1. a * c = b * d + b * (j * m) + (i * m) * d + (i * m) * (j * m)
    BY <1>1
  <2>2. b * (j * m) = (b * j) * m /\ (i * m) * d = (i * d) * m /\ (i * m) * (j * m) = ((i * j) * m) * m
    OBVIOUS
  <2>3. (b * j + i * d + (i * j) * m) * m = (b * j) * m + (i * d) * m + ((i * j) * m) * m
    OBVIOUS
  <2>. QED  BY <2>1, <2>2, <2>3
<1> DEFINE k == b * j + i * d + (i * j) * m
<1>5. k \in Int /\ a * c = b * d + k * m
  BY <1>4
<1> HIDE DEF k
<1>. QED  BY <1>2, <1>3, <1>5 DEF Congruent

\* Congruence is symmetric and transitive.
LEMMA CongruentOrder ==
    ASSUME NEW m \in Nat, NEW a \in Int, NEW b \in Int, Congruent(a, b, m)
    PROVE  Congruent(b, a, m) /\ \A c \in Int : Congruent(b, c, m) => Congruent(a, c, m)
<1>1. PICK i \in Int : a = b + i * m
  BY DEF Congruent
<1>2. b = a + (-i) * m /\ -i \in Int
  BY <1>1
<1>3. ASSUME NEW c \in Int, Congruent(b, c, m) PROVE Congruent(a, c, m)
  <2>1. PICK j \in Int : b = c + j * m
    BY <1>3 DEF Congruent
  <2>2. a = c + (i + j) * m /\ i + j \in Int
    BY <1>1, <2>1
  <2>. QED  BY <2>2 DEF Congruent
<1>. QED  BY <1>2, <1>3 DEF Congruent

\* A remainder is congruent to its number.
LEMMA ReducedIs ==
    ASSUME NEW m \in Nat, m > 0
    PROVE  /\ \A a \in Int : a % m \in 0 .. m - 1 /\ Congruent(a % m, a, m) /\ Congruent(a, a, m)
           /\ \A a \in 0 .. m - 1 : a % m = a
<1>1. ASSUME NEW a \in 0 .. m - 1 PROVE a % m = a
  <2>1. a = 0 * m + a
    OBVIOUS
  <2>. QED  BY <2>1, RemainderUnique
<1>2. ASSUME NEW a \in Int PROVE a % m \in 0 .. m - 1 /\ Congruent(a % m, a, m) /\ Congruent(a, a, m)
  <2> DEFINE r == a % m
  <2>1. r \in 0 .. m - 1
    BY RemainderOfInteger
  <2>2. r % m = r
    BY <1>1, <2>1
  <2>3. r \in Int
    BY <2>1
  <2>4. r % m = a % m
    BY <2>2
  <2> HIDE DEF r
  <2>5. Congruent(r, a, m)
    BY <2>3, <2>4, SameRemainder
  <2>6. a % m = a % m
    OBVIOUS
  <2>7. Congruent(a, a, m)
    BY <2>6, SameRemainder
  <2>. QED  BY <2>1, <2>5, <2>7 DEF r
<1>. QED  BY <1>1, <1>2

\* The remainder of a number.
LEMMA ReducedNumber ==
    ASSUME NEW m \in Nat, m > 0, NEW v \in Nat
    PROVE  v % m \in 0 .. m - 1 /\ Congruent(v % m, v, m) /\ (v < m => v % m = v)
<1>1. v \in Int /\ (v < m => v \in 0 .. m - 1)
  OBVIOUS
<1>2. v % m \in 0 .. m - 1 /\ Congruent(v % m, v, m)
  BY <1>1, ReducedIs
<1>3. ASSUME v < m PROVE v % m = v
  BY <1>1, <1>3, ReducedIs
<1>. QED  BY <1>2, <1>3

-----------------------------------------------------------------------------
(* Limbs.                                                                  *)

\* Each limb counts Base times as many values.
LEMMA Powers ==
    /\ \A n \in Nat : Power(n) \in Nat /\ Power(n) >= 1 /\ Power(n + 1) = Power(n) * Base
    /\ Power(0) = 1
    /\ Base \in Nat /\ Base >= 2
<1>1. ASSUME NEW n \in Nat
      PROVE  LimbBits * n \in Nat /\ LimbBits * (n + 1) = LimbBits * n + LimbBits
  BY LimbAssumption
<1>2. LimbBits * 1 = LimbBits /\ LimbBits * 0 = 0 /\ LimbBits \in Nat /\ LimbBits - 1 \in Nat
  BY LimbAssumption
<1>3. Base = 2 ^ LimbBits
  BY <1>2 DEF Base, Power
<1>4. Base \in Nat /\ Base >= 2
  <2>1. Base = 2 ^ ((LimbBits - 1) + 1) /\ LimbBits - 1 \in Nat
    BY <1>2, <1>3
  <2> DEFINE l == LimbBits - 1
  <2> HIDE DEF l
  <2>2. Base = 2 ^ (l + 1) /\ l \in Nat
    BY <2>1 DEF l
  <2>. QED  BY <2>2, Doubling
<1>5. Power(0) = 1
  <2> DEFINE k == LimbBits * 0
  <2>1. k = 0 /\ Power(0) = 2 ^ k
    BY <1>2 DEF Power
  <2> HIDE DEF k
  <2>2. 2 ^ 0 = 1
    OBVIOUS
  <2>. QED  BY <2>1, <2>2
<1>6. ASSUME NEW n \in Nat
      PROVE  Power(n) \in Nat /\ Power(n) >= 1 /\ Power(n + 1) = Power(n) * Base
  <2> DEFINE k == LimbBits * n
  <2>1. k \in Nat /\ LimbBits * (n + 1) = k + LimbBits /\ LimbBits \in Nat
    BY <1>1, <1>2
  <2>2. Power(n) = 2 ^ k /\ Power(n + 1) = 2 ^ (k + LimbBits)
    BY <2>1 DEF Power
  <2> HIDE DEF k
  <2>3. 2 ^ (k + LimbBits) = 2 ^ k * 2 ^ LimbBits
    BY <2>1, PowerOfSum
  <2>4. 2 ^ k \in Nat /\ 2 ^ k >= 1
    BY <2>1, Doubling
  <2>. QED  BY <1>3, <2>2, <2>3, <2>4
<1>. QED  BY <1>4, <1>5, <1>6

\* What is left of a number above its lowest limbs, and the next limb.
Above(v, i) == v \div Power(i)
LimbAt(v, i) == Above(v, i - 1) % Base

\* What lies above a limb is the next limb and what lies above that.
LEMMA AboveIs ==
    ASSUME NEW v \in Nat
    PROVE  /\ Above(v, 0) = v
           /\ \A i \in Nat : Above(v, i) \in Nat /\ (v < Power(i) => Above(v, i) = 0)
           /\ \A i \in Nat \ {0} : /\ LimbAt(v, i) \in 0 .. Base - 1
                                   /\ Above(v, i - 1) = LimbAt(v, i) + Base * Above(v, i)
<1>1. Above(v, 0) = v
  BY Powers DEF Above
<1>2. ASSUME NEW i \in Nat
      PROVE  Above(v, i) \in Nat /\ (v < Power(i) => Above(v, i) = 0)
  <2> DEFINE T == Power(i)
  <2>1. T \in Nat /\ T > 0
    BY Powers
  <2> HIDE DEF T
  <2>2. v \div T \in Nat /\ (v < 1 * T => v \div T \in 0 .. 0)
    BY <2>1, Divided
  <2>. QED  BY <2>1, <2>2 DEF Above, T
<1>3. ASSUME NEW i \in Nat \ {0}
      PROVE  LimbAt(v, i) \in 0 .. Base - 1 /\ Above(v, i - 1) = LimbAt(v, i) + Base * Above(v, i)
  <2> DEFINE j == i - 1
             T == Power(j)
             a == Above(v, j)
  <2>1. j \in Nat /\ i = j + 1
    OBVIOUS
  <2>2. T \in Nat /\ T > 0 /\ Power(i) = T * Base /\ Base \in Nat /\ Base > 0
    BY <2>1, Powers
  <2>3. a = v \div T /\ a \in Nat
    BY <1>2, <2>1 DEF Above
  <2> HIDE DEF T, a
  <2>4. a \div Base = v \div (T * Base)
    BY <2>2, <2>3, DivTwice
  <2>5. a = (a \div Base) * Base + (a % Base) /\ a % Base \in 0 .. Base - 1 /\ a \div Base \in Nat
    BY <2>2, <2>3, Divided
  <2>6. LimbAt(v, i) = a % Base /\ Above(v, i) = a \div Base
    BY <2>1, <2>2, <2>4 DEF LimbAt, Above, a
  <2>7. (a \div Base) * Base = Base * (a \div Base)
    BY <2>2, <2>5
  <2>8. LimbAt(v, i) \in 0 .. Base - 1 /\ a = LimbAt(v, i) + Base * Above(v, i)
    <3> DEFINE q == a \div Base
               r == a % Base
    <3>1. a = q * Base + r /\ r \in 0 .. Base - 1 /\ q * Base = Base * q /\ LimbAt(v, i) = r /\ Above(v, i) = q
      BY <2>5, <2>6, <2>7
    <3>2. q \in Nat
      BY <2>5
    <3> HIDE DEF q, r
    <3>. QED  BY <2>2, <3>1, <3>2
  <2>. QED  BY <2>8 DEF a
<1>. QED  BY <1>1, <1>2, <1>3

\* An integer in limbs, as many as hold it.
IsNumber(a, v) == v \in Nat /\ \E n \in Nat : v < Power(n) /\ a = LimbsOf(n, v)

\* The limbs of a number are its digits to Base.
LEMMA LimbsAre ==
    ASSUME NEW v \in Nat, NEW n \in Nat
    PROVE  /\ LimbsOf(n, v) \in Seq(0 .. Base - 1) /\ Len(LimbsOf(n, v)) = n
           /\ \A i \in 1 .. n : LimbsOf(n, v)[i] = LimbAt(v, i)
<1>1. \A i \in 1 .. n : LimbAt(v, i) \in 0 .. Base - 1
  BY AboveIs
<1>2. LimbsOf(n, v) = [i \in 1 .. n |-> LimbAt(v, i)]
  BY DEF LimbsOf, LimbAt, Above
<1>3. \A i \in 1 .. n : LimbsOf(n, v)[i] = LimbAt(v, i)
  BY <1>2
<1>4. LimbsOf(n, v) \in Seq(0 .. Base - 1) /\ Len(LimbsOf(n, v)) = n
  BY <1>1, <1>2
<1>. QED  BY <1>3, <1>4

IsValues(f, a, n) == f = [i \in 1 .. n + 1 |-> IF i > n THEN 0 ELSE a[i] + Base * f[i + 1]]

\* Limbs that are enough hold the number (biguint.rs).
LEMMA ValueOfLimbs ==
    ASSUME NEW v \in Nat, NEW n \in Nat, v < Power(n)
    PROVE  ValueOf(LimbsOf(n, v)) = v
<1> DEFINE a == LimbsOf(n, v)
           f == CHOOSE f : IsValues(f, a, n)
           g == [i \in 1 .. n + 1 |-> Above(v, i - 1)]
<1>1. Len(a) = n /\ \A i \in 1 .. n : a[i] = LimbAt(v, i)
  BY LimbsAre
<1>2. ValueOf(a) = f[1]
  BY <1>1 DEF ValueOf, IsValues
<1> HIDE DEF a
<1>3. IsValues(g, a, n)
  <2>1. ASSUME NEW i \in 1 .. n + 1
        PROVE  Above(v, i - 1) = IF i > n THEN 0 ELSE a[i] + Base * g[i + 1]
    <3>1. CASE i > n
      <4>1. i - 1 = n
        BY <3>1
      <4>. QED  BY <3>1, <4>1, AboveIs
    <3>2. CASE i <= n
      <4>1. i \in 1 .. n /\ i \in Nat \ {0} /\ i + 1 \in 1 .. n + 1 /\ (i + 1) - 1 = i
        BY <3>2
      <4>2. g[i + 1] = Above(v, i)
        BY <4>1
      <4> HIDE DEF g
      <4>3. Above(v, i - 1) = a[i] + Base * g[i + 1]
        BY <1>1, <4>1, <4>2, AboveIs
      <4>. QED  BY <3>2, <4>3
    <3>. QED  BY <3>1, <3>2
  <2>. QED  BY <2>1 DEF IsValues
<1>4. IsValues(f, a, n)
  BY <1>3
<1> HIDE DEF f
<1> DEFINE T == {k \in 0 .. n : f[(n + 1) - k] = Above(v, n - k)}
<1>5. 0 \in T
  <2>1. n + 1 \in 1 .. n + 1 /\ n + 1 > n
    OBVIOUS
  <2>2. f[n + 1] = 0
    BY <1>4, <2>1 DEF IsValues
  <2>3. Above(v, n) = 0
    BY AboveIs
  <2>. QED  BY <2>2, <2>3
<1>6. \A k \in 1 .. n : k - 1 \in T => k \in T
  <2> SUFFICES ASSUME NEW k \in 1 .. n, k - 1 \in T PROVE k \in T
    OBVIOUS
  <2> DEFINE i == (n + 1) - k
  <2>1. i \in 1 .. n /\ i \in 1 .. n + 1 /\ ~(i > n) /\ i \in Nat \ {0} /\ i + 1 = (n + 1) - (k - 1)
          /\ i - 1 = n - k /\ i = n - (k - 1)
    OBVIOUS
  <2>2. f[i + 1] = Above(v, i)
    BY <2>1
  <2>3. f[i] = a[i] + Base * f[i + 1]
    BY <1>4, <2>1 DEF IsValues
  <2>4. f[i] = Above(v, i - 1)
    BY <1>1, <2>1, <2>2, <2>3, AboveIs
  <2>5. k \in 0 .. n
    OBVIOUS
  <2>. QED  BY <2>1, <2>4, <2>5
<1>7. n \in T
  <2> HIDE DEF T
  <2>1. \A k \in 0 .. n : k \in T
    BY <1>5, <1>6, Counting
  <2>. QED  BY <2>1
<1>8. f[1] = Above(v, 0)
  BY <1>7
<1>. QED  BY <1>2, <1>8, AboveIs DEF a

\* A number of several limbs has their value, is not the mark of a prover who is
\* stuck and has no digits beyond its own.
LEMMA NumberIs ==
    ASSUME NEW a, NEW v, IsNumber(a, v)
    PROVE  /\ v \in Nat /\ ValueOf(a) = v
           /\ a \in Seq(0 .. Base - 1) /\ Len(a) \in Nat /\ v < Power(Len(a)) /\ a # Stuck
           /\ \A i \in Nat \ {0} : Limb(a, i) = LimbAt(v, i)
<1>1. PICK n \in Nat : v < Power(n) /\ a = LimbsOf(n, v)
  BY DEF IsNumber
<1>2. v \in Nat
  BY DEF IsNumber
<1>3. ValueOf(a) = v
  BY <1>1, <1>2, ValueOfLimbs
<1>4. a \in Seq(0 .. Base - 1) /\ Len(a) = n /\ \A i \in 1 .. n : a[i] = LimbAt(v, i)
  BY <1>1, <1>2, LimbsAre
<1>5. a # Stuck
  <2>1. Base \in Nat
    BY Powers
  <2>2. SUFFICES ASSUME a = Stuck PROVE FALSE
    OBVIOUS
  <2>3. Len(Stuck) = 1 /\ Stuck[1] = -1
    BY DEF Stuck
  <2>4. n = 1 /\ a[1] = -1
    BY <1>4, <2>2, <2>3
  <2>5. a[1] = LimbAt(v, 1) /\ LimbAt(v, 1) \in 0 .. Base - 1
    <3>1. 1 \in 1 .. n /\ 1 \in Nat \ {0}
      BY <2>4
    <3>. QED  BY <1>2, <1>4, <3>1, AboveIs
  <2>. QED  BY <2>1, <2>4, <2>5
<1>6. ASSUME NEW i \in Nat \ {0}
      PROVE  Limb(a, i) = LimbAt(v, i)
  <2>1. CASE i <= n
    <3>1. i \in 1 .. n
      BY <2>1
    <3>. QED  BY <1>4, <2>1, <3>1 DEF Limb
  <2>2. CASE i > n
    <3>1. Limb(a, i) = 0
      BY <1>4, <2>2 DEF Limb
    <3>2. Above(v, i - 1) = 0
      <4>1. ASSUME NEW k \in Nat, Above(v, k) = 0 PROVE Above(v, k + 1) = 0
        <5>1. k + 1 \in Nat \ {0} /\ (k + 1) - 1 = k
          OBVIOUS
        <5>2. 0 = LimbAt(v, k + 1) + Base * Above(v, k + 1) /\ LimbAt(v, k + 1) \in 0 .. Base - 1
          <6> DEFINE j == k + 1
          <6>1. j \in Nat \ {0} /\ Above(v, j - 1) = 0
            BY <4>1, <5>1
          <6> HIDE DEF j
          <6>2. Above(v, j - 1) = LimbAt(v, j) + Base * Above(v, j) /\ LimbAt(v, j) \in 0 .. Base - 1
            BY <1>2, <6>1, AboveIs
          <6>. QED  BY <6>1, <6>2 DEF j
        <5>3. Above(v, k + 1) \in Nat /\ Base \in Nat /\ Base >= 2
          BY <1>2, <5>1, AboveIs, Powers
        <5> DEFINE q == Above(v, k + 1)
        <5> HIDE DEF q
        <5>4. q >= 1 => Base * q >= Base
          BY <5>3 DEF q
        <5>. QED  BY <5>2, <5>3, <5>4 DEF q
      <4> DEFINE T == {k \in Nat : Above(v, n + k) = 0}
      <4>2. 0 \in T
        BY <1>1, <1>2, AboveIs
      <4>3. ASSUME NEW k \in 1 .. (i - 1) - n, k - 1 \in T PROVE k \in T
        <5>1. n + (k - 1) \in Nat /\ (n + (k - 1)) + 1 = n + k /\ k \in Nat
          OBVIOUS
        <5>2. Above(v, n + (k - 1)) = 0
          BY <4>3
        <5> HIDE DEF T
        <5>3. Above(v, (n + (k - 1)) + 1) = 0
          BY <4>1, <5>1, <5>2
        <5>. QED  BY <5>1, <5>3 DEF T
      <4>4. (i - 1) - n \in Nat /\ n + ((i - 1) - n) = i - 1
        BY <2>2
      <4> DEFINE d == (i - 1) - n
      <4>5. d \in Nat /\ \A k \in 1 .. d : k - 1 \in T => k \in T
        BY <4>3, <4>4
      <4>6. d \in T
        <5> HIDE DEF T, d
        <5>1. \A k \in 0 .. d : k \in T
          BY <4>2, <4>5, Counting
        <5>. QED  BY <4>5, <5>1
      <4>. QED  BY <4>4, <4>6
    <3>3. LimbAt(v, i) = 0
      BY <3>2, Powers DEF LimbAt
    <3>. QED  BY <3>1, <3>3
  <2>. QED  BY <2>1, <2>2
<1>. QED  BY <1>1, <1>2, <1>3, <1>4, <1>5, <1>6

\* Numbers are compared limb by limb.
LEMMA ConnectIs ==
    ASSUME NEW a, NEW v, IsNumber(a, v), NEW b, NEW w, IsNumber(b, w)
    PROVE  ConnectBiguint(a, b) <=> v = w
<1> DEFINE n == MaxLen(a, b)
<1>1. /\ v \in Nat /\ w \in Nat /\ Len(a) \in Nat /\ Len(b) \in Nat
      /\ \A i \in Nat \ {0} : Limb(a, i) = LimbAt(v, i) /\ Limb(b, i) = LimbAt(w, i)
  BY NumberIs
<1>2. v = w => ConnectBiguint(a, b)
  <2>1. \A i \in 1 .. n : i \in Nat \ {0}
    BY <1>1 DEF MaxLen
  <2>. QED  BY <1>1, <2>1 DEF ConnectBiguint
<1>3. ASSUME ConnectBiguint(a, b) PROVE v = w
  <2>1. n \in Nat /\ Len(a) <= n /\ Len(b) <= n
    BY <1>1 DEF MaxLen
  <2>2. Above(v, n) = 0 /\ Above(w, n) = 0
    <3>1. ASSUME NEW c, NEW x, IsNumber(c, x), Len(c) <= n PROVE Above(x, n) = 0
      <4>1. x \in Nat /\ Len(c) \in Nat /\ x < Power(Len(c))
        BY <3>1, NumberIs
      <4> DEFINE T == {k \in Nat : x < Power(Len(c) + k)}
      <4>2. 0 \in T
        BY <4>1
      <4>3. ASSUME NEW k \in 1 .. n - Len(c), k - 1 \in T PROVE k \in T
        <5> DEFINE m == Len(c) + (k - 1)
        <5>1. m \in Nat /\ Len(c) + k = m + 1 /\ k \in Nat
          BY <4>1
        <5>2. x < Power(m)
          BY <4>3
        <5> HIDE DEF T, m
        <5>3. Power(m) \in Nat /\ Power(m + 1) = Power(m) * Base /\ Base \in Nat /\ Base >= 2
          BY <5>1, Powers
        <5>4. Power(m) * Base >= Power(m)
          BY <5>3
        <5>5. x < Power(Len(c) + k)
          BY <4>1, <5>1, <5>2, <5>3, <5>4
        <5>. QED  BY <5>1, <5>5 DEF T
      <4> DEFINE d == n - Len(c)
      <4>4. d \in Nat /\ Len(c) + d = n /\ \A k \in 1 .. d : k - 1 \in T => k \in T
        BY <2>1, <3>1, <4>1, <4>3
      <4>5. d \in T
        <5> HIDE DEF T, d
        <5>1. \A k \in 0 .. d : k \in T
          BY <4>2, <4>4, Counting
        <5>. QED  BY <4>4, <5>1
      <4>6. x < Power(n)
        BY <4>4, <4>5
      <4>. QED  BY <2>1, <4>1, <4>6, AboveIs
    <3>. QED  BY <2>1, <3>1
  <2> DEFINE T == {k \in 0 .. n : Above(v, n - k) = Above(w, n - k)}
  <2>3. 0 \in T
    BY <2>1, <2>2
  <2>4. \A k \in 1 .. n : k - 1 \in T => k \in T
    <3> SUFFICES ASSUME NEW k \in 1 .. n, k - 1 \in T PROVE k \in T
      OBVIOUS
    <3> DEFINE i == (n + 1) - k
    <3>1. i \in 1 .. n /\ i \in Nat \ {0} /\ i = n - (k - 1) /\ i - 1 = n - k /\ k \in 0 .. n
      BY <2>1
    <3>2. Limb(a, i) = Limb(b, i)
      BY <1>3, <3>1 DEF ConnectBiguint
    <3>3. LimbAt(v, i) = LimbAt(w, i) /\ Above(v, i) = Above(w, i)
      BY <1>1, <3>1, <3>2
    <3>4. Above(v, i - 1) = Above(w, i - 1)
      BY <1>1, <3>1, <3>3, AboveIs
    <3>. QED  BY <3>1, <3>4
  <2>5. n \in T
    <3> HIDE DEF T, n
    <3>1. \A k \in 0 .. n : k \in T
      BY <2>1, <2>3, <2>4, Counting
    <3>. QED  BY <2>1, <3>1
  <2>6. Above(v, 0) = Above(w, 0)
    BY <2>1, <2>5
  <2>. QED  BY <1>1, <2>6, AboveIs
<1>. QED  BY <1>2, <1>3

\* A virtual number is filled in where its limbs are enough.
LEMMA SetIs ==
    ASSUME NEW n \in Nat, NEW v \in Nat
    PROVE  /\ SetBiguint(n, v) # Stuck => IsNumber(SetBiguint(n, v), v)
           /\ v < Power(n) => IsNumber(SetBiguint(n, v), v) /\ SetBiguint(n, v) # Stuck
<1>1. v < Power(n) => IsNumber(LimbsOf(n, v), v)
  BY DEF IsNumber
<1>2. v < Power(n) => LimbsOf(n, v) # Stuck
  BY <1>1, NumberIs
<1>. QED  BY <1>1, <1>2 DEF SetBiguint

\* A constant's limbs hold its value, and none of them is in vain.
LEMMA ConstantLimbs ==
    ASSUME NEW v \in Nat
    PROVE  /\ IsNumber(ConstantBiguint(v), v)
           /\ Len(ConstantBiguint(v)) = 0 \/ Power(Len(ConstantBiguint(v)) - 1) <= v
<1> DEFINE Fits(n) == v < Power(n) /\ (n = 0 \/ Power(n - 1) <= v)
           T == {n \in Nat : v < Power(n)}
           c == CHOOSE n \in 0 .. v : Fits(n)
<1>1. \A n \in Nat : n < Power(n)
  <2> TAKE n \in Nat
  <2> DEFINE S == {k \in Nat : k < Power(k)}
  <2>1. 0 \in S
    BY Powers
  <2>2. ASSUME NEW k \in 1 .. n, k - 1 \in S PROVE k \in S
    <3> DEFINE j == k - 1
    <3>1. j \in Nat /\ k = j + 1 /\ j < Power(j) /\ k \in Nat
      BY <2>2
    <3> HIDE DEF S, j
    <3>2. Power(j) \in Nat /\ Power(k) = Power(j) * Base /\ Base \in Nat /\ Base >= 2 /\ Power(j) >= 1
      BY <3>1, Powers
    <3>3. Power(j) * Base >= Power(j) * 2
      BY <3>2
    <3>4. k < Power(k)
      BY <3>1, <3>2, <3>3
    <3>. QED  BY <3>1, <3>4 DEF S
  <2>3. n \in S
    <3> HIDE DEF S
    <3>1. \A k \in 0 .. n : k \in S
      BY <2>1, <2>2, Counting
    <3>. QED  BY <3>1
  <2>. QED  BY <2>3
<1>2. PICK b \in T : \A k \in T : b <= k
  <2>1. v \in T
    BY <1>1
  <2>2. T \in SUBSET Nat /\ T # {}
    BY <2>1
  <2> HIDE DEF T
  <2>. QED  BY <2>2, LeastNatural
<1>3. b \in 0 .. v /\ Fits(b)
  <2>1. v \in T /\ b <= v /\ b \in Nat /\ v < Power(b)
    BY <1>1, <1>2
  <2>2. b = 0 \/ Power(b - 1) <= v
    <3>1. SUFFICES ASSUME b # 0, ~(Power(b - 1) <= v) PROVE FALSE
      OBVIOUS
    <3>2. b - 1 \in Nat
      BY <2>1, <3>1
    <3>3. Power(b - 1) \in Nat
      BY <3>2, Powers
    <3>4. b - 1 \in T
      BY <3>1, <3>2, <3>3
    <3>. QED  BY <1>2, <2>1, <3>4
  <2>. QED  BY <2>1, <2>2
<1>4. c \in 0 .. v /\ Fits(c)
  <2> HIDE DEF Fits, T
  <2>. QED  BY <1>3
<1>5. ConstantBiguint(v) = LimbsOf(c, v)
  BY DEF ConstantBiguint
<1> HIDE DEF c
<1>6. Len(LimbsOf(c, v)) = c
  BY <1>4, LimbsAre
<1>. QED  BY <1>4, <1>5, <1>6 DEF IsNumber

\* A constant's limbs hold its value.
LEMMA ConstantIs ==
    ASSUME NEW v \in Nat
    PROVE  IsNumber(ConstantBiguint(v), v)
BY ConstantLimbs

\* Residues have the limbs that the modulus needs.
LEMMA LimbsOfModulus ==
    ASSUME NEW m \in Nat
    PROVE  NumNonnativeLimbs(m) \in Nat /\ m < Power(NumNonnativeLimbs(m))
BY ConstantIs, NumberIs DEF NumNonnativeLimbs

-----------------------------------------------------------------------------
(* Residues.                                                               *)

\* A prover is stuck or has a number.
IsResidue(a) == a = Stuck \/ \E v : IsNumber(a, v)

\* Both orders are moduli.
LEMMA ModulusIs ==
    ASSUME NEW m \in {BaseOrder, ScalarOrder}
    PROVE  m \in Nat /\ m > 1
BY FieldAssumption

\* A sum is congruent to the operands', and theirs where it needs no reduction.
LEMMA AddIs ==
    ASSUME NEW m \in {BaseOrder, ScalarOrder},
           NEW a, NEW v, IsNumber(a, v), NEW b, NEW w, IsNumber(b, w)
    PROVE  \/ AddNonnative(m, a, b) = Stuck
           \/ \E s \in Nat : /\ IsNumber(AddNonnative(m, a, b), s) /\ Congruent(s, v + w, m)
                             /\ v + w < m => s = v + w
<1> SUFFICES ASSUME AddNonnative(m, a, b) # Stuck
             PROVE  \E s \in Nat : /\ IsNumber(AddNonnative(m, a, b), s) /\ Congruent(s, v + w, m)
                                   /\ v + w < m => s = v + w
  OBVIOUS
<1> DEFINE x == v % m
           y == w % m
           s == IF x + y > m THEN (x + y) - m ELSE x + y
           n == NumNonnativeLimbs(m)
<1>1. m \in Nat /\ m > 1 /\ v \in Nat /\ w \in Nat /\ ValueOf(a) = v /\ ValueOf(b) = w
  BY ModulusIs, NumberIs
<1>2. AddNonnative(m, a, b) = SetBiguint(n, s)
  BY <1>1 DEF AddNonnative, AdditionGenerator, Canonical
<1>3. x \in 0 .. m - 1 /\ y \in 0 .. m - 1 /\ Congruent(x, v, m) /\ Congruent(y, w, m)
      /\ (v < m => x = v) /\ (w < m => y = w)
  <2>1. m > 0
    BY <1>1
  <2>2. x \in 0 .. m - 1 /\ Congruent(x, v, m) /\ (v < m => x = v)
    BY <1>1, <2>1, ReducedNumber, Zenon
  <2>3. y \in 0 .. m - 1 /\ Congruent(y, w, m) /\ (w < m => y = w)
    BY <1>1, <2>1, ReducedNumber, Zenon
  <2>. QED  BY <2>2, <2>3, Zenon
<1> HIDE DEF x, y
<1>4. n \in Nat
  BY <1>1, LimbsOfModulus
<1>5. s \in Nat /\ (v + w < m => s = v + w)
  BY <1>1, <1>3
<1>6. Congruent(s, v + w, m)
  <2>1. x \in Int /\ y \in Int /\ v \in Int /\ w \in Int /\ x + y \in Int /\ v + w \in Int /\ s \in Int
    BY <1>1, <1>3, <1>5
  <2>2. Congruent(x + y, v + w, m)
    BY <1>1, <1>3, <2>1, CongruentResults, Zenon
  <2>3. Congruent(s, x + y, m)
    <3>1. s = (x + y) + (-1) * m \/ s = (x + y) + 0 * m
      BY <1>1, <2>1
    <3>. QED  BY <3>1 DEF Congruent
  <2> HIDE DEF s
  <2>. QED  BY <1>1, <2>1, <2>2, <2>3, CongruentOrder, Zenon
<1> HIDE DEF s, n
<1>7. IsNumber(SetBiguint(n, s), s)
  BY <1>2, <1>4, <1>5, SetIs
<1>. QED  BY <1>2, <1>5, <1>6, <1>7

\* Differences, products and inverses come out reduced.
LEMMA SubIs ==
    ASSUME NEW m \in {BaseOrder, ScalarOrder},
           NEW a, NEW v, IsNumber(a, v), NEW b, NEW w, IsNumber(b, w)
    PROVE  \/ SubNonnative(m, a, b) = Stuck
           \/ IsNumber(SubNonnative(m, a, b), (v - w) % m)
<1> SUFFICES ASSUME SubNonnative(m, a, b) # Stuck PROVE IsNumber(SubNonnative(m, a, b), (v - w) % m)
  OBVIOUS
<1> DEFINE x == v % m
           y == w % m
           s == (x - y) % m
           n == NumNonnativeLimbs(m)
<1>1. m \in Nat /\ m > 1 /\ v \in Nat /\ w \in Nat /\ ValueOf(a) = v /\ ValueOf(b) = w
  BY ModulusIs, NumberIs
<1>2. SubNonnative(m, a, b) = SetBiguint(n, s)
  BY <1>1 DEF SubNonnative, SubtractionGenerator, Canonical
<1>3. x \in 0 .. m - 1 /\ y \in 0 .. m - 1 /\ Congruent(x, v, m) /\ Congruent(y, w, m)
  <2>1. m > 0
    BY <1>1
  <2>2. x \in 0 .. m - 1 /\ Congruent(x, v, m)
    BY <1>1, <2>1, ReducedNumber, Zenon
  <2>3. y \in 0 .. m - 1 /\ Congruent(y, w, m)
    BY <1>1, <2>1, ReducedNumber, Zenon
  <2>. QED  BY <2>2, <2>3, Zenon
<1> HIDE DEF x, y
<1>4. n \in Nat
  BY <1>1, LimbsOfModulus
<1>5. x \in Int /\ y \in Int /\ v \in Int /\ w \in Int /\ x - y \in Int /\ v - w \in Int
  BY <1>1, <1>3
<1>6. s = (v - w) % m
  <2>1. Congruent(x - y, v - w, m)
    BY <1>1, <1>3, <1>5, CongruentResults, Zenon
  <2>. QED  BY <1>1, <1>5, <2>1, SameRemainder
<1>7. s \in Nat
  BY <1>1, <1>5, RemainderOfInteger
<1> HIDE DEF s, n
<1>. QED  BY <1>2, <1>4, <1>6, <1>7, SetIs

\* A product is the reduced one in the modulus' limbs, or stuck.
LEMMA MulIs ==
    ASSUME NEW m \in {BaseOrder, ScalarOrder},
           NEW a, NEW v, IsNumber(a, v), NEW b, NEW w, IsNumber(b, w)
    PROVE  \/ MulNonnative(m, a, b) = Stuck
           \/ /\ IsNumber(MulNonnative(m, a, b), (v * w) % m)
              /\ MulNonnative(m, a, b) = LimbsOf(NumNonnativeLimbs(m), (v * w) % m)
<1> SUFFICES ASSUME MulNonnative(m, a, b) # Stuck
             PROVE  /\ IsNumber(MulNonnative(m, a, b), (v * w) % m)
                    /\ MulNonnative(m, a, b) = LimbsOf(NumNonnativeLimbs(m), (v * w) % m)
  OBVIOUS
<1> DEFINE x == v % m
           y == w % m
           s == (x * y) % m
           n == NumNonnativeLimbs(m)
<1>1. m \in Nat /\ m > 1 /\ v \in Nat /\ w \in Nat /\ ValueOf(a) = v /\ ValueOf(b) = w
  BY ModulusIs, NumberIs
<1>2. MulNonnative(m, a, b) = SetBiguint(n, s)
  BY <1>1 DEF MulNonnative, MultiplicationGenerator, Canonical
<1>3. x \in 0 .. m - 1 /\ y \in 0 .. m - 1 /\ Congruent(x, v, m) /\ Congruent(y, w, m)
  <2>1. m > 0
    BY <1>1
  <2>2. x \in 0 .. m - 1 /\ Congruent(x, v, m)
    BY <1>1, <2>1, ReducedNumber, Zenon
  <2>3. y \in 0 .. m - 1 /\ Congruent(y, w, m)
    BY <1>1, <2>1, ReducedNumber, Zenon
  <2>. QED  BY <2>2, <2>3, Zenon
<1> HIDE DEF x, y
<1>4. n \in Nat
  BY <1>1, LimbsOfModulus
<1>5. x \in Int /\ y \in Int /\ v \in Int /\ w \in Int /\ x * y \in Int /\ v * w \in Int
  BY <1>1, <1>3
<1>6. s = (v * w) % m
  <2>1. Congruent(x * y, v * w, m)
    BY <1>1, <1>3, <1>5, CongruentResults, Zenon
  <2>. QED  BY <1>1, <1>5, <2>1, SameRemainder
<1>7. s \in Nat
  BY <1>1, <1>5, RemainderOfInteger
<1>8. MulNonnative(m, a, b) = LimbsOf(n, s)
  <2> HIDE DEF s, n
  <2>. QED  BY <1>2 DEF SetBiguint
<1>9. IsNumber(SetBiguint(n, s), s)
  <2> HIDE DEF s, n
  <2>. QED  BY <1>2, <1>4, <1>7, SetIs
<1> HIDE DEF s
<1>. QED  BY <1>2, <1>6, <1>8, <1>9

\* An element other than zero has an inverse.
LEMMA InverseIs ==
    ASSUME NEW m \in {BaseOrder, ScalarOrder}, NEW v \in Int, v % m # 0
    PROVE  LET w == ModInverse(m, v % m)
           IN  w \in 0 .. m - 1 /\ ((v % m) * w) % m = 1
<1>1. m \in Nat /\ m > 1
  BY ModulusIs
<1>2. v % m \in 1 .. m - 1
  <2>1. v % m \in 0 .. m - 1
    BY <1>1, RemainderOfInteger
  <2>. QED  BY <2>1
<1>3. \E w \in 0 .. m - 1 : ((v % m) * w) % m = 1
  BY <1>2, FieldAssumption
<1>. QED  BY <1>3 DEF ModInverse

\* An inverse is the one modulo the order, or stuck.
LEMMA InvIs ==
    ASSUME NEW m \in {BaseOrder, ScalarOrder}, NEW a, NEW v, IsNumber(a, v)
    PROVE  \/ InvNonnative(m, a) = Stuck
           \/ v % m # 0 /\ IsNumber(InvNonnative(m, a), ModInverse(m, v % m))
<1> SUFFICES ASSUME InvNonnative(m, a) # Stuck
             PROVE  v % m # 0 /\ IsNumber(InvNonnative(m, a), ModInverse(m, v % m))
  OBVIOUS
<1> DEFINE w == ModInverse(m, v % m)
<1>1. v \in Nat /\ ValueOf(a) = v /\ Len(a) \in Nat
  BY NumberIs
<1>2. v % m # 0 /\ InvNonnative(m, a) = SetBiguint(Len(a), w)
  BY <1>1 DEF InvNonnative, InverseGenerator, Canonical
<1>3. w \in Nat
  <2>1. w \in 0 .. m - 1 /\ m \in Nat
    BY <1>1, <1>2, InverseIs, ModulusIs
  <2>. QED  BY <2>1
<1> HIDE DEF w
<1>4. IsNumber(SetBiguint(Len(a), w), w)
  BY <1>1, <1>2, <1>3, SetIs
<1>. QED  BY <1>2, <1>4 DEF w

\* Who is stuck stays stuck.
LEMMA StuckStays ==
    ASSUME NEW m, NEW a, NEW b, Stuck \in {a, b}
    PROVE  /\ AddNonnative(m, a, b) = Stuck /\ SubNonnative(m, a, b) = Stuck
           /\ MulNonnative(m, a, b) = Stuck
BY DEF AddNonnative, SubNonnative, MulNonnative

-----------------------------------------------------------------------------
(* Points.                                                                 *)

Affine == [x : 0 .. BaseOrder - 1, y : 0 .. BaseOrder - 1, zero : {FALSE}]

\* A point of the circuit that holds an affine point.
IsPoint(p, P) == P \in Affine /\ IsNumber(p.x, P.x) /\ IsNumber(p.y, P.y)

\* What holds a point holds its coordinates.
LEMMA PointIs ==
    ASSUME NEW p, NEW P, IsPoint(p, P)
    PROVE  /\ P.x \in 0 .. BaseOrder - 1 /\ P.y \in 0 .. BaseOrder - 1 /\ P.x \in Nat /\ P.y \in Nat
           /\ P.zero = FALSE /\ P = [x |-> P.x, y |-> P.y, zero |-> FALSE]
           /\ p.x # Stuck /\ p.y # Stuck
           /\ ValueOf(p.x) = P.x /\ ValueOf(p.y) = P.y
<1>1. /\ P.x \in 0 .. BaseOrder - 1 /\ P.y \in 0 .. BaseOrder - 1
      /\ P.zero = FALSE /\ P = [x |-> P.x, y |-> P.y, zero |-> FALSE]
  BY DEF IsPoint, Affine
<1>2. BaseOrder \in Nat
  BY ModulusIs
<1>3. P.x \in Nat /\ P.y \in Nat
  BY <1>1, <1>2
<1>4. p.x # Stuck /\ ValueOf(p.x) = P.x
  BY NumberIs DEF IsPoint
<1>5. p.y # Stuck /\ ValueOf(p.y) = P.y
  BY NumberIs DEF IsPoint
<1>. QED  BY <1>1, <1>3, <1>4, <1>5

\* The line's third point, mirrored, in reduced coordinates.
LEMMA MirroredIs ==
    ASSUME NEW p, NEW P, IsPoint(p, P), NEW x, NEW v \in Nat, IsNumber(x, v),
           NEW s, NEW l \in Nat, IsNumber(s, l), Mirrored(p, x, s) # StuckPoint,
           NEW X, X = (l * l - P.x - v) % BaseOrder,
           NEW Y, Y = (l * (P.x - X) - P.y) % BaseOrder
    PROVE  IsPoint(Mirrored(p, x, s), [x |-> X, y |-> Y, zero |-> FALSE])
<1> DEFINE m == BaseOrder
           sq == Mul(s, s)
           su == Plus(x, p.x)
           x3 == Minus(sq, su)
           di == Minus(p.x, x3)
           pr == Mul(s, di)
           y3 == Minus(pr, p.y)
<1>1. m \in Nat /\ m > 0 /\ m \in {BaseOrder, ScalarOrder}
  BY ModulusIs
<1>2. P.x \in Nat /\ P.y \in Nat /\ IsNumber(p.x, P.x) /\ IsNumber(p.y, P.y)
  BY PointIs DEF IsPoint
<1>3. Mirrored(p, x, s) = [x |-> x3, y |-> y3] /\ x3 # Stuck /\ y3 # Stuck
  BY DEF Mirrored
<1>4. sq # Stuck /\ su # Stuck
  <2> HIDE DEF sq, su
  <2>. QED  BY <1>3, StuckStays DEF Minus
<1>5. di # Stuck /\ pr # Stuck
  <2>1. pr # Stuck
    <3> HIDE DEF pr
    <3>. QED  BY <1>3, StuckStays DEF Minus
  <2>2. di # Stuck
    <3> HIDE DEF di
    <3>. QED  BY <2>1, StuckStays DEF Mul
  <2>. QED  BY <2>1, <2>2
<1>6. IsNumber(sq, (l * l) % m)
  BY <1>1, <1>4, MulIs DEF Mul
<1>7. PICK u \in Nat : IsNumber(su, u) /\ Congruent(u, v + P.x, m)
  BY <1>1, <1>2, <1>4, AddIs DEF Plus
<1> DEFINE q == (l * l) % m
<1>8. q \in Nat /\ Congruent(q, l * l, m) /\ l * l \in Nat
  <2>1. l * l \in Nat
    OBVIOUS
  <2>2. q \in 0 .. m - 1 /\ Congruent(q, l * l, m)
    BY <1>1, <2>1, ReducedNumber, Zenon
  <2>. QED  BY <1>1, <2>1, <2>2
<1>9. IsNumber(x3, X)
  <2> HIDE DEF sq, su, q
  <2>1. IsNumber(x3, (q - u) % m)
    BY <1>1, <1>3, <1>6, <1>7, SubIs DEF Minus, q
  <2>2. q \in Int /\ l * l \in Int /\ u \in Int /\ v + P.x \in Int
    BY <1>2, <1>7, <1>8
  <2>3. (q - u) % m = (l * l - (v + P.x)) % m
    <3> DEFINE e == l * l
               f == v + P.x
    <3>1. q \in Int /\ e \in Int /\ u \in Int /\ f \in Int /\ Congruent(q, e, m) /\ Congruent(u, f, m)
      BY <1>7, <1>8, <2>2
    <3> HIDE DEF e, f
    <3>2. Congruent(q - u, e - f, m)
      BY <1>1, <3>1, CongruentResults, Zenon
    <3>3. (q - u) % m = (e - f) % m
      BY <1>1, <3>1, <3>2, SameRemainder
    <3>. QED  BY <3>3 DEF e, f
  <2>4. l * l - (v + P.x) = l * l - P.x - v
    BY <1>2, <1>8
  <2>. QED  BY <2>1, <2>3, <2>4
<1>10. X \in 0 .. m - 1 /\ X \in Nat
  <2>1. l * l - P.x - v \in Int
    BY <1>2
  <2>2. X \in 0 .. m - 1
    BY <1>1, <2>1, RemainderOfInteger
  <2>. QED  BY <1>1, <2>2
<1> HIDE DEF x3
<1> DEFINE r == (P.x - X) % m
<1>11. IsNumber(di, r)
  BY <1>1, <1>2, <1>5, <1>9, SubIs DEF Minus
<1>12. r \in 0 .. m - 1 /\ r \in Int /\ r \in Nat /\ Congruent(r, P.x - X, m) /\ P.x - X \in Int
  <2>1. P.x - X \in Int
    BY <1>2, <1>10
  <2>2. r \in 0 .. m - 1 /\ Congruent(r, P.x - X, m)
    BY <1>1, <2>1, ReducedIs, Zenon
  <2>. QED  BY <1>1, <2>1, <2>2
<1> HIDE DEF di, r
<1> DEFINE t == (l * r) % m
<1>13. IsNumber(pr, t)
  BY <1>1, <1>5, <1>11, MulIs DEF Mul
<1>14. t \in Nat /\ t \in Int /\ l * r \in Int /\ Congruent(t, l * r, m)
  <2>1. l * r \in Nat
    BY <1>12
  <2>2. t \in 0 .. m - 1 /\ Congruent(t, l * r, m)
    BY <1>1, <2>1, ReducedNumber, Zenon
  <2>. QED  BY <1>1, <2>1, <2>2
<1> HIDE DEF pr, t
<1>15. IsNumber(y3, (t - P.y) % m)
  BY <1>1, <1>2, <1>3, <1>13, SubIs DEF Minus
<1>16. (t - P.y) % m = Y
  <2> DEFINE e == P.x - X
             c == l * e
             w == P.y
  <2>1. l \in Int /\ w \in Int /\ e \in Int /\ c \in Int /\ Congruent(r, e, m) /\ m \in Int
    BY <1>1, <1>2, <1>12
  <2>2. Congruent(l, l, m) /\ Congruent(w, w, m)
    BY <1>1, <2>1, ReducedIs, Zenon
  <2> HIDE DEF e, w
  <2>3. Congruent(l * r, c, m)
    BY <1>1, <1>12, <2>1, <2>2, CongruentResults, Zenon
  <2> HIDE DEF c
  <2>4. Congruent(t, c, m)
    BY <1>1, <1>14, <2>1, <2>3, CongruentOrder, Zenon
  <2>5. (t - w) % m = (c - w) % m
    <3>1. Congruent(t - w, c - w, m)
      BY <1>1, <1>14, <2>1, <2>2, <2>4, CongruentResults, Zenon
    <3>. QED  BY <1>1, <1>14, <2>1, <3>1, SameRemainder
  <2>. QED  BY <2>5 DEF c, e, w
<1>17. Y \in 0 .. m - 1
  <2>1. t - P.y \in Int
    BY <1>2, <1>14
  <2>. QED  BY <1>1, <1>16, <2>1, RemainderOfInteger
<1> HIDE DEF y3
<1>18. [x |-> X, y |-> Y, zero |-> FALSE] \in Affine
  BY <1>10, <1>17 DEF Affine
<1>. QED  BY <1>3, <1>9, <1>15, <1>16, <1>18 DEF IsPoint

\* Without a slope or a coordinate there is no point.
LEMMA MirroredStuck ==
    ASSUME NEW p, NEW x, NEW s, Stuck \in {p.x, p.y, x, s}
    PROVE  Mirrored(p, x, s) = StuckPoint
<1> DEFINE x3 == Minus(Mul(s, s), Plus(x, p.x))
           y3 == Minus(Mul(s, Minus(p.x, x3)), p.y)
<1>1. CASE s = Stuck
  <2>1. Mul(s, s) = Stuck
    BY <1>1, StuckStays DEF Mul
  <2>2. x3 = Stuck
    BY <2>1, StuckStays DEF Minus
  <2> HIDE DEF x3
  <2>. QED  BY <2>2 DEF Mirrored, x3
<1>2. CASE Stuck \in {p.x, x}
  <2>1. Plus(x, p.x) = Stuck
    BY <1>2, StuckStays DEF Plus
  <2>2. x3 = Stuck
    BY <2>1, StuckStays DEF Minus
  <2> HIDE DEF x3
  <2>. QED  BY <2>2 DEF Mirrored, x3
<1>3. CASE Stuck = p.y
  <2>1. y3 = Stuck
    <3> DEFINE t == Mul(s, Minus(p.x, x3))
    <3> HIDE DEF t
    <3>1. Minus(t, p.y) = Stuck
      BY <1>3, StuckStays DEF Minus
    <3>. QED  BY <3>1 DEF t
  <2>2. Mirrored(p, x, s) = IF Stuck \in {x3, y3} THEN StuckPoint ELSE [x |-> x3, y |-> y3]
    BY DEF Mirrored
  <2> HIDE DEF x3, y3
  <2>. QED  BY <2>1, <2>2
<1>. QED  BY <1>1, <1>2, <1>3

\* Nothing has no inverse.
LEMMA InvOfStuck == \A m : InvNonnative(m, Stuck) = Stuck
BY DEF InvNonnative

\* The gadget's sum of two points is their sum, where it comes out.
LEMMA SumIs ==
    ASSUME NEW p, NEW P, IsPoint(p, P), NEW q, NEW Q, IsPoint(q, Q), CurveAdd(p, q) # StuckPoint
    PROVE  IsPoint(CurveAdd(p, q), AddAffine(P, Q))
<1> DEFINE m == BaseOrder
           dy == Minus(q.y, p.y)
           dx == Minus(q.x, p.x)
           i == Inv(dx)
           s == Mul(dy, i)
           over == (Q.x - P.x) % m
           rise == (Q.y - P.y) % m
           inv == ModInverse(m, over % m)
           l == (rise * inv) % m
<1>1. m \in Nat /\ m > 1 /\ m \in {BaseOrder, ScalarOrder}
  BY ModulusIs
<1>2. /\ P.x \in Nat /\ P.y \in Nat /\ IsNumber(p.x, P.x) /\ IsNumber(p.y, P.y)
      /\ Q.x \in Nat /\ Q.y \in Nat /\ IsNumber(q.x, Q.x) /\ IsNumber(q.y, Q.y)
      /\ P.zero = FALSE /\ Q.zero = FALSE
  BY PointIs DEF IsPoint
<1>3. CurveAdd(p, q) = Mirrored(p, q.x, s)
  BY DEF CurveAdd
<1>4. s # Stuck
  <2> HIDE DEF s
  <2>. QED  BY <1>3, MirroredStuck
<1>5. dy # Stuck /\ i # Stuck
  <2> HIDE DEF dy, i
  <2>. QED  BY <1>4, StuckStays DEF Mul
<1>6. dx # Stuck
  <2> HIDE DEF dx
  <2>. QED  BY <1>5, InvOfStuck DEF Inv
<1>7. IsNumber(dy, rise)
  BY <1>1, <1>2, <1>5, SubIs DEF Minus
<1>8. IsNumber(dx, over)
  BY <1>1, <1>2, <1>6, SubIs DEF Minus
<1>9. over \in 0 .. m - 1 /\ over % m = over /\ rise % m = rise /\ rise \in Nat /\ over \in Nat
  <2>1. Q.x - P.x \in Int /\ Q.y - P.y \in Int /\ m > 0
    BY <1>1, <1>2
  <2>2. over \in 0 .. m - 1 /\ rise \in 0 .. m - 1
    BY <1>1, <2>1, RemainderOfInteger
  <2> HIDE DEF over, rise
  <2>3. \A a \in 0 .. m - 1 : a % m = a
    BY <1>1, <2>1, ReducedIs
  <2>4. over % m = over /\ rise % m = rise
    BY <2>2, <2>3, Zenon
  <2>5. rise \in Nat /\ over \in Nat
    BY <1>1, <2>2
  <2>. QED  BY <2>2, <2>4, <2>5, Zenon
<1>10. over % m # 0 /\ IsNumber(i, inv)
  <2> HIDE DEF dx, over
  <2>. QED  BY <1>1, <1>5, <1>8, InvIs DEF Inv
<1>11. inv \in Nat
  <2> HIDE DEF over
  <2>1. over \in Int
    BY <1>9
  <2>2. inv \in 0 .. m - 1
    BY <1>1, <1>10, <2>1, InverseIs
  <2>. QED  BY <1>1, <2>2
<1>12. IsNumber(s, l)
  <2> HIDE DEF dy, i, rise, inv
  <2>. QED  BY <1>1, <1>4, <1>7, <1>10, MulIs DEF Mul
<1>13. l \in Nat
  <2> HIDE DEF rise, inv
  <2>1. rise * inv \in Int
    BY <1>9, <1>11
  <2>2. l \in 0 .. m - 1
    BY <1>1, <2>1, RemainderOfInteger
  <2>. QED  BY <1>1, <2>2
<1> DEFINE X == (l * l - P.x - Q.x) % m
           Y == (l * (P.x - X) - P.y) % m
<1>14. AddAffine(P, Q) = [x |-> X, y |-> Y, zero |-> FALSE]
  <2>1. P.x # Q.x
    <3>1. SUFFICES ASSUME P.x = Q.x PROVE FALSE
      OBVIOUS
    <3>2. Q.x - P.x = 0 /\ 0 \in 0 .. m - 1
      BY <1>1, <1>2, <3>1
    <3>3. over = 0
      BY <1>1, <3>2, ReducedIs
    <3>. QED  BY <1>9, <1>10, <3>3
  <2>2. P # Q /\ P # NegAffine(Q)
    <3>1. NegAffine(Q).x = Q.x
      <4>1. Q = [x |-> Q.x, y |-> Q.y, zero |-> FALSE]
        BY PointIs
      <4> DEFINE a == Q.x
                 b == Q.y
                 c == (BaseOrder - Q.y) % BaseOrder
      <4>2. Q = [x |-> a, y |-> b, zero |-> FALSE]
        BY <4>1
      <4>3. NegAffine(Q) = [Q EXCEPT !.y = c]
        BY DEF NegAffine
      <4> HIDE DEF a, b, c
      <4>4. NegAffine(Q).x = a
        BY <4>2, <4>3
      <4>. QED  BY <4>4 DEF a
    <3>. QED  BY <2>1, <3>1
  <2>3. l = ((rise % m) * inv) % m
    BY <1>9
  <2>. QED  BY <1>2, <2>2, <2>3 DEF AddAffine
<1> HIDE DEF l, s
<1>15. Mirrored(p, q.x, s) # StuckPoint
  BY <1>3
<1>16. IsPoint(Mirrored(p, q.x, s), [x |-> X, y |-> Y, zero |-> FALSE])
  BY <1>2, <1>12, <1>13, <1>15, MirroredIs
<1>. QED  BY <1>3, <1>14, <1>16

\* The gadget's double of a point is its sum with itself.
LEMMA DoubleIs ==
    ASSUME NEW p, NEW P, IsPoint(p, P), CurveDouble(p) # StuckPoint
    PROVE  IsPoint(CurveDouble(p), AddAffine(P, P))
<1> DEFINE m == BaseOrder
           sq == Mul(p.x, p.x)
           two == Plus(sq, sq)
           triple == Plus(two, sq)
           A == ConstantBiguint(CurveA)
           top == Plus(triple, A)
           yy == Plus(p.y, p.y)
           i == Inv(yy)
           s == Mul(top, i)
           over == 2 * P.y
           rise == 3 * P.x * P.x + CurveA
           inv == ModInverse(m, over % m)
           l == ((rise % m) * inv) % m
<1>1. m \in Nat /\ m > 1 /\ m > 0 /\ m \in {BaseOrder, ScalarOrder}
  BY ModulusIs
<1>2. /\ P.x \in Nat /\ P.y \in Nat /\ IsNumber(p.x, P.x) /\ IsNumber(p.y, P.y)
      /\ P.y \in 0 .. m - 1 /\ P.zero = FALSE
  BY PointIs DEF IsPoint
<1>3. CurveDouble(p) = Mirrored(p, p.x, s)
  BY DEF CurveDouble
<1>4. s # Stuck
  <2> HIDE DEF s
  <2>. QED  BY <1>3, MirroredStuck
<1>5. top # Stuck /\ i # Stuck
  <2> HIDE DEF top, i
  <2>. QED  BY <1>4, StuckStays DEF Mul
<1>6. yy # Stuck
  <2> HIDE DEF yy
  <2>. QED  BY <1>5, InvOfStuck DEF Inv
<1>7. triple # Stuck
  <2> HIDE DEF triple
  <2>. QED  BY <1>5, StuckStays DEF Plus
<1>8. two # Stuck /\ sq # Stuck
  <2> HIDE DEF two, sq
  <2>. QED  BY <1>7, StuckStays DEF Plus
<1> DEFINE x2 == P.x * P.x
           qv == x2 % m
<1>9. IsNumber(sq, qv)
  BY <1>1, <1>2, <1>8, MulIs DEF Mul
<1>10. x2 \in Nat /\ qv \in Nat /\ Congruent(qv, x2, m)
  <2>1. x2 \in Nat
    BY <1>2
  <2> HIDE DEF x2
  <2>2. qv \in 0 .. m - 1 /\ Congruent(qv, x2, m)
    BY <1>1, <2>1, ReducedNumber, Zenon
  <2>. QED  BY <1>1, <2>1, <2>2
<1>11. CurveA \in Nat /\ IsNumber(A, CurveA)
  <2>1. CurveA \in Nat
    BY <1>1, CurveAssumption
  <2>. QED  BY <2>1, ConstantIs
<1>12. rise = (x2 + x2 + x2) + CurveA /\ rise \in Nat /\ over = P.y + P.y /\ over \in Nat
  BY <1>2, <1>11
<1> HIDE DEF sq, A, qv, x2
<1>13. PICK t2 \in Nat : IsNumber(two, t2) /\ Congruent(t2, qv + qv, m)
  BY <1>1, <1>8, <1>9, AddIs DEF Plus
<1> HIDE DEF two
<1>14. PICK t3 \in Nat : IsNumber(triple, t3) /\ Congruent(t3, t2 + qv, m)
  BY <1>1, <1>7, <1>9, <1>13, AddIs DEF Plus
<1> HIDE DEF triple
<1>15. PICK t \in Nat : IsNumber(top, t) /\ Congruent(t, t3 + CurveA, m)
  BY <1>1, <1>5, <1>11, <1>14, AddIs DEF Plus
<1> HIDE DEF top
<1>16. PICK d \in Nat : IsNumber(yy, d) /\ Congruent(d, P.y + P.y, m)
  BY <1>1, <1>2, <1>6, AddIs DEF Plus
<1> HIDE DEF yy
<1>17. d % m = over % m
  <2>1. d \in Int /\ over \in Int /\ Congruent(d, over, m)
    BY <1>12, <1>16
  <2> HIDE DEF over
  <2>. QED  BY <1>1, <2>1, SameRemainder, Zenon
<1>18. t % m = rise % m
  <2>1. PICK k0 \in Int : qv = x2 + k0 * m
    BY <1>10 DEF Congruent
  <2>2. PICK k1 \in Int : t2 = qv + qv + k1 * m
    BY <1>13 DEF Congruent
  <2>3. PICK k2 \in Int : t3 = t2 + qv + k2 * m
    BY <1>14 DEF Congruent
  <2>4. PICK k3 \in Int : t = t3 + CurveA + k3 * m
    BY <1>15 DEF Congruent
  <2> DEFINE k == k0 + k0 + k0 + k1 + k2 + k3
  <2>5. k * m = k0 * m + k0 * m + k0 * m + k1 * m + k2 * m + k3 * m
    BY <1>1
  <2>6. k \in Int /\ k0 * m \in Int /\ k1 * m \in Int /\ k2 * m \in Int /\ k3 * m \in Int /\ k * m \in Int
    BY <1>1
  <2> DEFINE e == k * m
             e0 == k0 * m
             e1 == k1 * m
             e2 == k2 * m
             e3 == k3 * m
  <2>7. e = e0 + e0 + e0 + e1 + e2 + e3 /\ e \in Int /\ e0 \in Int /\ e1 \in Int /\ e2 \in Int /\ e3 \in Int
    BY <2>5, <2>6
  <2>8. qv = x2 + e0 /\ t2 = qv + qv + e1 /\ t3 = t2 + qv + e2 /\ t = t3 + CurveA + e3
    BY <2>1, <2>2, <2>3, <2>4
  <2> HIDE DEF e, e0, e1, e2, e3, rise
  <2>9. t = rise + e
    BY <1>10, <1>11, <1>12, <2>7, <2>8
  <2>10. Congruent(t, rise, m)
    BY <2>6, <2>9 DEF Congruent, e
  <2>. QED  BY <1>1, <1>12, <2>10, SameRemainder
<1>19. over % m # 0 /\ IsNumber(i, inv)
  <2>1. d % m # 0 /\ IsNumber(i, ModInverse(m, d % m))
    BY <1>1, <1>5, <1>16, InvIs DEF Inv
  <2>. QED  BY <1>17, <2>1
<1>20. inv \in Nat
  <2>1. over \in Int
    BY <1>12
  <2> HIDE DEF over
  <2>2. inv \in 0 .. m - 1
    BY <1>1, <1>19, <2>1, InverseIs
  <2>. QED  BY <1>1, <2>2
<1> HIDE DEF i
<1>21. IsNumber(s, (t * inv) % m)
  <2> HIDE DEF inv
  <2>. QED  BY <1>1, <1>4, <1>15, <1>19, MulIs DEF Mul
<1>22. (t * inv) % m = l /\ l \in Nat
  <2> DEFINE r == rise % m
  <2>1. Congruent(r, t, m) /\ r \in Nat
    <3>1. r = t % m /\ t \in Nat
      BY <1>18
    <3> HIDE DEF r
    <3>2. r \in 0 .. m - 1 /\ Congruent(r, t, m)
      BY <1>1, <3>1, ReducedNumber
    <3>. QED  BY <1>1, <3>2
  <2> HIDE DEF r, inv
  <2>2. t \in Int /\ r \in Int /\ inv \in Int /\ r * inv \in Int /\ t * inv \in Int
    BY <1>20, <2>1
  <2>3. Congruent(inv, inv, m)
    BY <1>1, <2>2, ReducedIs, Zenon
  <2>4. Congruent(r * inv, t * inv, m)
    BY <1>1, <2>1, <2>2, <2>3, CongruentResults, Zenon
  <2>5. (r * inv) % m = (t * inv) % m
    BY <1>1, <2>2, <2>4, SameRemainder
  <2>6. (r * inv) % m \in 0 .. m - 1
    BY <1>1, <2>2, RemainderOfInteger
  <2>. QED  BY <1>1, <2>5, <2>6 DEF r
<1> DEFINE X == (l * l - P.x - P.x) % m
           Y == (l * (P.x - X) - P.y) % m
<1>23. AddAffine(P, P) = [x |-> X, y |-> Y, zero |-> FALSE]
  <2>1. P # NegAffine(P)
    <3>1. SUFFICES ASSUME P = NegAffine(P) PROVE FALSE
      OBVIOUS
    <3> DEFINE b == P.y
               c == (m - b) % m
    <3>2. P = [x |-> P.x, y |-> P.y, zero |-> FALSE]
      BY PointIs
    <3>3. b = c
      <4>1. P = [P EXCEPT !.y = c]
        BY <3>1 DEF NegAffine
      <4> HIDE DEF c
      <4>. QED  BY <3>2, <4>1
    <3>4. b \in Nat /\ m - b \in Int
      BY <1>1, <1>2
    <3> DEFINE e == m - b
    <3>5. Congruent(c, e, m) /\ e \in Int /\ e = m - b
      BY <1>1, <3>4, ReducedIs
    <3> HIDE DEF b, c, e
    <3>6. PICK k \in Int : b = e + k * m
      BY <3>3, <3>5 DEF Congruent
    <3>7. over = (k + 1) * m + 0 /\ k + 1 \in Int /\ 0 \in 0 .. m - 1 /\ over \in Int
      <4>1. (k + 1) * m = k * m + m /\ k * m \in Int
        BY <1>1
      <4>2. over = b + b
        BY <1>12 DEF b
      <4> HIDE DEF over
      <4>. QED  BY <1>1, <3>4, <3>5, <3>6, <4>1, <4>2
    <3> HIDE DEF over
    <3>8. over % m = 0
      BY <1>1, <3>7, RemainderUnique
    <3>. QED  BY <1>19, <3>8
  <2>. QED  BY <1>2, <2>1 DEF AddAffine
<1> HIDE DEF l, s
<1>24. Mirrored(p, p.x, s) # StuckPoint
  BY <1>3
<1>25. IsPoint(Mirrored(p, p.x, s), [x |-> X, y |-> Y, zero |-> FALSE])
  BY <1>2, <1>21, <1>22, <1>24, MirroredIs
<1>. QED  BY <1>3, <1>23, <1>25

\* A stuck point has no sum.
LEMMA StuckSum ==
    ASSUME NEW p, NEW q, IsStuck(p) \/ IsStuck(q)
    PROVE  CurveAdd(p, q) = StuckPoint /\ CurveDouble(StuckPoint) = StuckPoint
<1> DEFINE dy == Minus(q.y, p.y)
           dx == Minus(q.x, p.x)
           s == Mul(dy, Inv(dx))
<1>1. dy = Stuck \/ dx = Stuck
  BY StuckStays DEF IsStuck, Minus
<1>2. Inv(Stuck) = Stuck
  BY InvOfStuck DEF Inv
<1>3. s = Stuck
  <2> HIDE DEF dy, dx
  <2>. QED  BY <1>1, <1>2, StuckStays DEF Mul
<1>4. CurveAdd(p, q) = Mirrored(p, q.x, s)
  BY DEF CurveAdd
<1>5. CurveAdd(p, q) = StuckPoint
  <2> HIDE DEF s
  <2>. QED  BY <1>3, <1>4, MirroredStuck
<1>6. CurveDouble(StuckPoint) = StuckPoint
  <2>1. StuckPoint.x = Stuck
    BY DEF StuckPoint
  <2>. QED  BY <2>1, MirroredStuck DEF CurveDouble
<1>. QED  BY <1>5, <1>6

\* The negative of an affine point is affine.
LEMMA NegAffineIs ==
    ASSUME NEW Q \in Affine
    PROVE  NegAffine(Q) \in Affine /\ NegAffine(Q) = [x |-> Q.x, y |-> (BaseOrder - Q.y) % BaseOrder, zero |-> FALSE]
<1> DEFINE a == Q.x
           b == Q.y
           c == (BaseOrder - Q.y) % BaseOrder
<1>1. a \in 0 .. BaseOrder - 1 /\ b \in 0 .. BaseOrder - 1 /\ Q = [x |-> a, y |-> b, zero |-> FALSE]
  BY DEF Affine
<1>2. c \in 0 .. BaseOrder - 1
  <2>1. BaseOrder \in Nat /\ BaseOrder > 0 /\ BaseOrder - Q.y \in Int
    BY <1>1, ModulusIs
  <2>. QED  BY <2>1, RemainderOfInteger
<1>3. NegAffine(Q) = [Q EXCEPT !.y = c]
  BY DEF NegAffine
<1> HIDE DEF a, b, c
<1>4. NegAffine(Q) = [x |-> a, y |-> c, zero |-> FALSE]
  BY <1>1, <1>3
<1>. QED  BY <1>1, <1>2, <1>4 DEF Affine, a, c

\* Multiples of the generator.
LEMMA TimesIs ==
    /\ \A k \in Nat : (k % ScalarOrder # 0 <=> Times(k) \in Affine)
    /\ \A j, k \in Nat : j % ScalarOrder = k % ScalarOrder => Times(j) = Times(k)
    /\ \A j, k \in Nat : AddAffine(Times(j), Times(k)) = Times(j + k)
<1> DEFINE n == ScalarOrder
<1>1. n \in Nat /\ n > 1 /\ n > 0
  BY ModulusIs
<1>2. \A j, k \in Nat : j % n = k % n => Times(j) = Times(k)
  BY DEF Times
<1>3. ASSUME NEW k \in Nat
      PROVE  k % n \in 0 .. n - 1 /\ k % n \in Nat /\ Times(k) = Times(k % n) /\ Congruent(k % n, k, n)
  <2> DEFINE r == k % n
  <2>1. r \in 0 .. n - 1 /\ Congruent(r, k, n)
    BY <1>1, ReducedNumber
  <2>2. \A a \in 0 .. n - 1 : a % n = a
    BY <1>1, ReducedIs
  <2>3. r \in Nat /\ r % n = r
    BY <1>1, <2>1, <2>2
  <2>4. Times(r) = Times(k)
    BY <1>2, <2>3
  <2>. QED  BY <2>1, <2>3, <2>4
<1>4. ASSUME NEW k \in Nat
      PROVE  k % n # 0 <=> Times(k) \in Affine
  <2>1. ASSUME k % n # 0 PROVE Times(k) \in Affine
    <3> DEFINE r == k % n
    <3>1. r \in 1 .. n - 1 /\ Times(k) = Times(r)
      BY <1>1, <1>3, <2>1
    <3> HIDE DEF r
    <3>. QED  BY <3>1, GroupAssumption DEF Affine
  <2>2. ASSUME k % n = 0 PROVE Times(k) \notin Affine
    BY <2>2 DEF Times, Zero, Affine
  <2>. QED  BY <2>1, <2>2
<1>5. ASSUME NEW j \in Nat, NEW k \in Nat
      PROVE  AddAffine(Times(j), Times(k)) = Times(j + k)
  <2> DEFINE a == j % n
             b == k % n
  <2>1. a \in 0 .. n - 1 /\ a \in Nat /\ Times(j) = Times(a) /\ Congruent(a, j, n)
    BY <1>3
  <2>2. b \in 0 .. n - 1 /\ b \in Nat /\ Times(k) = Times(b) /\ Congruent(b, k, n)
    BY <1>3
  <2> HIDE DEF a, b
  <2>3. AddAffine(Times(a), Times(b)) = Times(a + b)
    BY <2>1, <2>2, GroupAssumption
  <2>4. a \in Int /\ b \in Int /\ j \in Int /\ k \in Int /\ a + b \in Nat /\ j + k \in Nat
    BY <2>1, <2>2
  <2>5. Congruent(a + b, j + k, n)
    BY <1>1, <2>1, <2>2, <2>4, CongruentResults, Zenon
  <2>6. (a + b) % n = (j + k) % n
    <3>1. a + b \in Int /\ j + k \in Int
      BY <2>4
    <3>. QED  BY <1>1, <2>5, <3>1, SameRemainder
  <2>7. Times(a + b) = Times(j + k)
    BY <1>2, <2>4, <2>6
  <2>. QED  BY <2>1, <2>2, <2>3, <2>7
<1>. QED  BY <1>2, <1>4, <1>5

\* The negative of a multiple is the one that completes the order.
LEMMA NegTimes ==
    ASSUME NEW b \in Nat, b % ScalarOrder # 0
    PROVE  /\ ScalarOrder - (b % ScalarOrder) \in Nat
           /\ NegAffine(Times(b)) = Times(ScalarOrder - (b % ScalarOrder))
<1> DEFINE n == ScalarOrder
           r == b % n
           c == n - r
<1>1. n \in Nat /\ n > 1
  BY ModulusIs
<1>2. r \in 0 .. n - 1 /\ r # 0 /\ r % n = r
  <2>1. r \in 0 .. n - 1
    BY <1>1, RemainderOfInteger
  <2>2. \A a \in 0 .. n - 1 : a % n = a
    BY <1>1, ReducedIs
  <2>. QED  BY <2>1, <2>2
<1>3. r \in Nat
  BY <1>1, <1>2
<1>4. Times(r) = Times(b)
  BY <1>2, <1>3, TimesIs
<1> HIDE DEF r
<1>5. c \in 0 .. n - 1 /\ c # 0 /\ c \in Nat /\ c + r = n
  BY <1>1, <1>2
<1> HIDE DEF c
<1>6. c % n = c /\ n % n = 0
  <2>1. \A a \in 0 .. n - 1 : a % n = a
    BY <1>1, ReducedIs
  <2>2. n % n = 0
    <3>1. n = 1 * n + 0 /\ 1 \in Int /\ 0 \in 0 .. n - 1 /\ n \in Int
      BY <1>1
    <3>. QED  BY <1>1, <3>1, RemainderUnique
  <2>. QED  BY <1>5, <2>1, <2>2
<1>7. Times(c) \in Affine /\ Times(r) \in Affine /\ Times(n) \notin Affine
  BY <1>1, <1>2, <1>3, <1>5, <1>6, TimesIs
<1>8. AddAffine(Times(c), Times(r)) = Times(n)
  BY <1>3, <1>5, TimesIs
<1> DEFINE P == Times(c)
           Q == Times(r)
<1>9. P.zero = FALSE /\ Q.zero = FALSE
  BY <1>7 DEF Affine
<1>10. Times(n) = Zero
  BY <1>6 DEF Times
<1> HIDE DEF P, Q
<1>11. AddAffine(P, Q) = Zero
  BY <1>8, <1>10 DEF P, Q
<1>12. P = NegAffine(Q)
  <2>1. SUFFICES ASSUME P # NegAffine(Q) PROVE FALSE
    OBVIOUS
  <2>2. AddAffine(P, Q).zero = FALSE
    BY <1>9, <2>1 DEF AddAffine
  <2>. QED  BY <1>11, <2>2 DEF Zero
<1>. QED  BY <1>4, <1>5, <1>12 DEF P, Q, c, r

\* A point of the circuit that holds a multiple of the generator.
IsMultiple(p, k) == k \in Nat /\ IsPoint(p, Times(k))

\* What holds a multiple holds each congruent one.
LEMMA MultipleIs ==
    ASSUME NEW p, NEW k, IsMultiple(p, k)
    PROVE  /\ k \in Nat /\ k % ScalarOrder # 0 /\ Times(k) \in Affine
           /\ Denotes(p, Times(k)) /\ ~IsStuck(p)
           /\ \A j \in Nat : j % ScalarOrder = k % ScalarOrder => IsMultiple(p, j)
<1>1. k \in Nat /\ IsPoint(p, Times(k)) /\ Times(k) \in Affine
  BY DEF IsMultiple, IsPoint
<1>2. k % ScalarOrder # 0
  BY <1>1, TimesIs
<1>3. \A j \in Nat : j % ScalarOrder = k % ScalarOrder => IsMultiple(p, j)
  BY <1>1, TimesIs DEF IsMultiple
<1>4. Denotes(p, Times(k)) /\ ~IsStuck(p)
  <2> DEFINE P == Times(k)
  <2> HIDE DEF P
  <2>1. p.x # Stuck /\ p.y # Stuck /\ P.zero = FALSE /\ ValueOf(p.x) = P.x /\ ValueOf(p.y) = P.y
    BY <1>1, PointIs DEF P
  <2>2. Denotes(p, P) /\ ~IsStuck(p)
    BY <2>1 DEF Denotes, IsStuck
  <2>. QED  BY <2>2 DEF P
<1>. QED  BY <1>1, <1>2, <1>3, <1>4

\* Sums of multiples are multiples of the sum.
LEMMA SumOfMultiples ==
    ASSUME NEW p, NEW j, IsMultiple(p, j), NEW q, NEW k, IsMultiple(q, k), ~IsStuck(CurveAdd(p, q))
    PROVE  IsMultiple(CurveAdd(p, q), j + k)
<1>1. CurveAdd(p, q) # StuckPoint
  BY DEF IsStuck, StuckPoint
<1>2. IsPoint(CurveAdd(p, q), AddAffine(Times(j), Times(k)))
  BY <1>1, SumIs DEF IsMultiple
<1>3. AddAffine(Times(j), Times(k)) = Times(j + k) /\ j + k \in Nat
  BY TimesIs DEF IsMultiple
<1>. QED  BY <1>2, <1>3 DEF IsMultiple

\* Doubles of multiples are multiples of the double.
LEMMA DoubleOfMultiple ==
    ASSUME NEW p, NEW j, IsMultiple(p, j), CurveDouble(p) # StuckPoint
    PROVE  IsMultiple(CurveDouble(p), 2 * j)
<1>2. IsPoint(CurveDouble(p), AddAffine(Times(j), Times(j)))
  BY DoubleIs DEF IsMultiple
<1>3. AddAffine(Times(j), Times(j)) = Times(j + j) /\ 2 * j \in Nat /\ j + j = 2 * j
  BY TimesIs DEF IsMultiple
<1>. QED  BY <1>2, <1>3 DEF IsMultiple

\* Constants hold their points.
LEMMA ConstantPointIs ==
    ASSUME NEW P \in Affine
    PROVE  IsPoint(ConstantAffinePoint(P), P)
<1>1. P.x \in Nat /\ P.y \in Nat
  BY ModulusIs DEF Affine
<1>2. IsNumber(ConstantBiguint(P.x), P.x) /\ IsNumber(ConstantBiguint(P.y), P.y)
  BY <1>1, ConstantIs
<1>. QED  BY <1>2 DEF IsPoint, ConstantAffinePoint

\* Virtual points hold the points they are filled in with.
LEMMA VirtualPointIs ==
    ASSUME NEW P \in Affine
    PROVE  IsPoint(VirtualAffinePoint(P), P)
<1> DEFINE n == NumNonnativeLimbs(BaseOrder)
<1>1. BaseOrder \in Nat
  BY ModulusIs
<1>2. n \in Nat /\ BaseOrder < Power(n)
  BY <1>1, LimbsOfModulus
<1>3. P.x \in 0 .. BaseOrder - 1 /\ P.y \in 0 .. BaseOrder - 1
  BY DEF Affine
<1> HIDE DEF n
<1>4. P.x \in Nat /\ P.y \in Nat /\ P.x < Power(n) /\ P.y < Power(n)
  <2>1. Power(n) \in Nat
    BY <1>2, Powers
  <2>. QED  BY <1>1, <1>2, <1>3, <2>1
<1>5. IsNumber(SetBiguint(n, P.x), P.x) /\ IsNumber(SetBiguint(n, P.y), P.y)
  BY <1>2, <1>4, SetIs
<1>. QED  BY <1>5 DEF IsPoint, VirtualAffinePoint, n

\* curve_neg holds the negative's multiple.
LEMMA NegIs ==
    ASSUME NEW p, NEW k, IsMultiple(p, k)
    PROVE  \/ IsStuck(CurveNeg(p))
           \/ IsMultiple(CurveNeg(p), ScalarOrder - (k % ScalarOrder))
<1> SUFFICES ASSUME ~IsStuck(CurveNeg(p))
             PROVE  IsMultiple(CurveNeg(p), ScalarOrder - (k % ScalarOrder))
  OBVIOUS
<1> DEFINE Q == Times(k)
           m == BaseOrder
           y == NegNonnative(m, p.y)
<1>1. k \in Nat /\ Q \in Affine /\ IsNumber(p.x, Q.x) /\ IsNumber(p.y, Q.y) /\ k % ScalarOrder # 0
  BY MultipleIs DEF IsMultiple, IsPoint
<1>2. m \in Nat /\ m > 0 /\ m \in {BaseOrder, ScalarOrder}
  BY ModulusIs
<1>3. CurveNeg(p) = [x |-> p.x, y |-> y] /\ y # Stuck
  BY DEF CurveNeg, IsStuck
<1>4. IsNumber(ConstantBiguint(0), 0)
  BY ConstantIs
<1>5. IsNumber(y, (0 - Q.y) % m)
  <2> HIDE DEF Q
  <2>. QED  BY <1>1, <1>2, <1>3, <1>4, SubIs DEF NegNonnative
<1>6. (0 - Q.y) % m = (m - Q.y) % m
  <2> DEFINE b == Q.y
             c == 0 - b
             d == m - b
  <2>1. b \in Int
    BY <1>1, <1>2 DEF Affine
  <2> HIDE DEF b
  <2>2. c = d + (-1) * m /\ c \in Int /\ d \in Int /\ -1 \in Int
    BY <1>2, <2>1
  <2>3. Congruent(c, d, m)
    BY <2>2 DEF Congruent
  <2> HIDE DEF c, d
  <2>4. c % m = d % m
    BY <1>2, <2>2, <2>3, SameRemainder
  <2>. QED  BY <2>4 DEF c, d, b
<1> HIDE DEF y
<1>7. NegAffine(Q) \in Affine /\ NegAffine(Q).x = Q.x /\ NegAffine(Q).y = (m - Q.y) % m
  <2> HIDE DEF Q
  <2>. QED  BY <1>1, NegAffineIs
<1>8. IsPoint(CurveNeg(p), NegAffine(Q))
  <2> HIDE DEF Q
  <2>. QED  BY <1>1, <1>3, <1>5, <1>6, <1>7 DEF IsPoint
<1>9. ScalarOrder - (k % ScalarOrder) \in Nat /\ NegAffine(Q) = Times(ScalarOrder - (k % ScalarOrder))
  BY <1>1, NegTimes
<1>. QED  BY <1>8, <1>9 DEF IsMultiple

\* A number that a flag lets through or clears.
LEMMA ByBoolIs ==
    ASSUME NEW a, NEW v, IsNumber(a, v), NEW b
    PROVE  IsNumber(MulBiguintByBool(a, b), IF b THEN v ELSE 0)
<1>1. a # Stuck /\ v \in Nat
  BY NumberIs
<1>2. PICK n \in Nat : v < Power(n) /\ a = LimbsOf(n, v)
  BY DEF IsNumber
<1>3. a \in Seq(0 .. Base - 1) /\ Len(a) = n
  BY <1>1, <1>2, LimbsAre
<1>4. MulBiguintByBool(a, b) = [i \in 1 .. n |-> IF b THEN a[i] ELSE 0]
  BY <1>1, <1>3 DEF MulBiguintByBool
<1>5. CASE b
  <2>1. a = [i \in 1 .. n |-> a[i]]
    BY <1>3
  <2>2. MulBiguintByBool(a, b) = a
    BY <1>4, <1>5, <2>1
  <2>. QED  BY <1>5, <2>2
<1>6. CASE ~b
  <2>1. \A i \in 1 .. n : (0 \div Power(i - 1)) % Base = 0
    <3> TAKE i \in 1 .. n
    <3>1. i - 1 \in Nat /\ Base \in Nat /\ Base > 0
      BY Powers
    <3> DEFINE T == Power(i - 1)
    <3>2. T \in Nat /\ T > 0
      BY <3>1, Powers
    <3> HIDE DEF T
    <3>3. 0 \div T = 0
      BY <3>2
    <3>4. 0 % Base = 0
      BY <3>1
    <3>. QED  BY <3>3, <3>4 DEF T
  <2>2. LimbsOf(n, 0) = [i \in 1 .. n |-> 0]
    BY <2>1 DEF LimbsOf
  <2>3. MulBiguintByBool(a, b) = LimbsOf(n, 0)
    BY <1>4, <1>6, <2>2
  <2>4. 0 < Power(n)
    BY Powers
  <2>. QED  BY <1>6, <2>3, <2>4 DEF IsNumber
<1>. QED  BY <1>5, <1>6

\* The sum where it is wanted, the point itself where it is not.
LEMMA SelectedIs ==
    ASSUME NEW sum, NEW p, NEW S, NEW P, IsPoint(sum, S), IsPoint(p, P), NEW b,
           ~IsStuck(Selected(sum, p, b))
    PROVE  IsPoint(Selected(sum, p, b), IF b THEN S ELSE P)
<1> DEFINE m == BaseOrder
           x == Plus(MulBiguintByBool(sum.x, b), MulBiguintByBool(p.x, ~b))
           y == Plus(MulBiguintByBool(sum.y, b), MulBiguintByBool(p.y, ~b))
           R == IF b THEN S ELSE P
<1>1. m \in Nat /\ m > 0 /\ m \in {BaseOrder, ScalarOrder}
  BY ModulusIs
<1>2. Selected(sum, p, b) = [x |-> x, y |-> y] /\ x # Stuck /\ y # Stuck
  <2>1. Selected(sum, p, b) = IF Stuck \in {x, y} THEN StuckPoint ELSE [x |-> x, y |-> y]
    BY DEF Selected
  <2> HIDE DEF x, y
  <2>. QED  BY <2>1 DEF IsStuck, StuckPoint
<1>3. /\ S.x \in 0 .. m - 1 /\ S.y \in 0 .. m - 1 /\ P.x \in 0 .. m - 1 /\ P.y \in 0 .. m - 1
      /\ IsNumber(sum.x, S.x) /\ IsNumber(sum.y, S.y) /\ IsNumber(p.x, P.x) /\ IsNumber(p.y, P.y)
  BY PointIs DEF IsPoint
<1>4. ASSUME NEW a, NEW c, NEW v \in 0 .. m - 1, NEW w \in 0 .. m - 1, IsNumber(a, v), IsNumber(c, w),
             Plus(MulBiguintByBool(a, b), MulBiguintByBool(c, ~b)) # Stuck
      PROVE  IsNumber(Plus(MulBiguintByBool(a, b), MulBiguintByBool(c, ~b)), IF b THEN v ELSE w)
  <2> DEFINE ab == MulBiguintByBool(a, b)
             cb == MulBiguintByBool(c, ~b)
             u == IF b THEN v ELSE 0
             t == IF ~b THEN w ELSE 0
  <2>1. IsNumber(ab, u)
    BY <1>4, ByBoolIs
  <2>2. IsNumber(cb, t)
    BY <1>4, ByBoolIs
  <2>3. u + t = (IF b THEN v ELSE w) /\ u + t < m
    BY <1>1
  <2> HIDE DEF ab, cb, u, t
  <2>4. PICK s \in Nat : IsNumber(Plus(ab, cb), s) /\ (u + t < m => s = u + t)
    BY <1>1, <1>4, <2>1, <2>2, AddIs DEF Plus, ab, cb
  <2>. QED  BY <2>3, <2>4 DEF ab, cb
<1>5. IsNumber(x, R.x)
  <2>1. IsNumber(x, IF b THEN S.x ELSE P.x)
    BY <1>2, <1>3, <1>4
  <2> HIDE DEF x
  <2>. QED  BY <2>1
<1>6. IsNumber(y, R.y)
  <2>1. IsNumber(y, IF b THEN S.y ELSE P.y)
    BY <1>2, <1>3, <1>4
  <2> HIDE DEF y
  <2>. QED  BY <2>1
<1>7. R \in Affine
  BY DEF IsPoint
<1> HIDE DEF x, y, R
<1>8. IsPoint([x |-> x, y |-> y], R)
  BY <1>5, <1>6, <1>7 DEF IsPoint
<1>. QED  BY <1>2, <1>8 DEF R

\* A stuck sum is stuck even where it is not wanted.
LEMMA SelectedStuck ==
    ASSUME NEW p, NEW b
    PROVE  Selected(StuckPoint, p, b) = StuckPoint
<1>1. MulBiguintByBool(Stuck, b) = Stuck
  BY DEF MulBiguintByBool
<1>2. Plus(MulBiguintByBool(StuckPoint.x, b), MulBiguintByBool(p.x, ~b)) = Stuck
  BY <1>1, StuckStays DEF Plus, StuckPoint
<1>. QED  BY <1>2 DEF Selected

\* curve_conditional_add adds where it is asked to.
LEMMA ConditionalSum ==
    ASSUME NEW p, NEW j, IsMultiple(p, j) \/ IsStuck(p), NEW q, NEW k, IsMultiple(q, k), NEW b,
           ~IsStuck(CurveConditionalAdd(p, q, b))
    PROVE  IsMultiple(p, j) /\ IsMultiple(CurveConditionalAdd(p, q, b), IF b THEN j + k ELSE j)
<1> DEFINE sum == CurveAdd(p, q)
<1>1. CurveConditionalAdd(p, q, b) = Selected(sum, p, b)
  BY DEF CurveConditionalAdd
<1>2. sum # StuckPoint
  <2> HIDE DEF sum
  <2>1. SUFFICES ASSUME sum = StuckPoint PROVE FALSE
    OBVIOUS
  <2>2. Selected(sum, p, b) = StuckPoint
    BY <2>1, SelectedStuck
  <2>. QED  BY <1>1, <2>2 DEF IsStuck, StuckPoint
<1>3. IsMultiple(p, j)
  BY <1>2, StuckSum
<1>4. IsPoint(sum, AddAffine(Times(j), Times(k)))
  BY <1>2, <1>3, SumIs DEF IsMultiple
<1>5. AddAffine(Times(j), Times(k)) = Times(j + k) /\ j + k \in Nat /\ j \in Nat
  BY <1>3, TimesIs DEF IsMultiple
<1> HIDE DEF sum
<1>6. IsPoint(Selected(sum, p, b), IF b THEN Times(j + k) ELSE Times(j))
  BY <1>1, <1>3, <1>4, <1>5, SelectedIs DEF IsMultiple
<1>. QED  BY <1>1, <1>3, <1>5, <1>6 DEF IsMultiple

\* A point read from a table has the limbs that its entry lacks.
LEMMA RandomAccessIs ==
    ASSUME NEW index, NEW points, NEW P, IsPoint(points[index + 1], P)
    PROVE  IsPoint(RandomAccessCurvePoints(index, points), P)
<1> DEFINE n == NumNonnativeLimbs(BaseOrder)
           p == points[index + 1]
<1>1. BaseOrder \in Nat
  BY ModulusIs
<1>2. n \in Nat /\ BaseOrder < Power(n)
  BY <1>1, LimbsOfModulus
<1>3. IsNumber(p.x, P.x) /\ IsNumber(p.y, P.y) /\ P.x \in 0 .. BaseOrder - 1 /\ P.y \in 0 .. BaseOrder - 1
  BY PointIs DEF IsPoint
<1>4. RandomAccessCurvePoints(index, points)
        = [x |-> [i \in 1 .. n |-> Limb(p.x, i)], y |-> [i \in 1 .. n |-> Limb(p.y, i)]]
  BY DEF RandomAccessCurvePoints
<1> HIDE DEF n, p
<1>5. ASSUME NEW a, NEW v \in 0 .. BaseOrder - 1, IsNumber(a, v)
      PROVE  IsNumber([i \in 1 .. n |-> Limb(a, i)], v)
  <2>1. \A i \in 1 .. n : Limb(a, i) = LimbAt(v, i)
    BY <1>2, <1>5, NumberIs
  <2>2. [i \in 1 .. n |-> Limb(a, i)] = LimbsOf(n, v)
    BY <2>1 DEF LimbsOf, LimbAt, Above
  <2>3. v \in Nat /\ v < Power(n)
    <3>1. Power(n) \in Nat
      BY <1>2, Powers
    <3>. QED  BY <1>1, <1>2, <3>1
  <2>. QED  BY <1>2, <2>2, <2>3 DEF IsNumber
<1>6. IsNumber([i \in 1 .. n |-> Limb(p.x, i)], P.x) /\ IsNumber([i \in 1 .. n |-> Limb(p.y, i)], P.y)
  BY <1>3, <1>5
<1>7. P \in Affine
  BY DEF IsPoint
<1>. QED  BY <1>4, <1>6, <1>7 DEF IsPoint

\* A key that the circuit takes lies on the curve.
LEMMA AssertValidIs ==
    ASSUME NEW p, NEW P, IsPoint(p, P), CurveAssertValid(p)
    PROVE  OnCurve(P)
<1> DEFINE m == BaseOrder
           xx == Mul(p.x, p.x)
           xxx == Mul(xx, p.x)
           A == ConstantBiguint(CurveA)
           B == ConstantBiguint(CurveB)
           ax == Mul(A, p.x)
           axb == Plus(ax, B)
           yy == Mul(p.y, p.y)
           rhs == Plus(xxx, axb)
<1>1. m \in Nat /\ m > 0 /\ m \in {BaseOrder, ScalarOrder}
  BY ModulusIs
<1>2. P.x \in Nat /\ P.y \in Nat /\ IsNumber(p.x, P.x) /\ IsNumber(p.y, P.y)
  BY PointIs DEF IsPoint
<1>3. yy # Stuck /\ rhs # Stuck /\ ConnectBiguint(yy, rhs)
  BY DEF CurveAssertValid
<1>4. xxx # Stuck /\ axb # Stuck
  <2> HIDE DEF xxx, axb
  <2>. QED  BY <1>3, StuckStays DEF Plus
<1>5. xx # Stuck
  <2> HIDE DEF xx
  <2>. QED  BY <1>4, StuckStays DEF Mul
<1>6. ax # Stuck
  <2> HIDE DEF ax
  <2>. QED  BY <1>4, StuckStays DEF Plus
<1>7. CurveA \in Nat /\ CurveB \in Nat /\ IsNumber(A, CurveA) /\ IsNumber(B, CurveB)
  <2>1. CurveA \in Nat /\ CurveB \in Nat
    BY <1>1, CurveAssumption
  <2>. QED  BY <2>1, ConstantIs
<1> HIDE DEF A, B
<1> DEFINE qv == (P.x * P.x) % m
           cv == (qv * P.x) % m
           av == (CurveA * P.x) % m
           yv == (P.y * P.y) % m
<1>8. IsNumber(xx, qv)
  BY <1>1, <1>2, <1>5, MulIs DEF Mul
<1>9. IsNumber(yy, yv)
  BY <1>1, <1>2, <1>3, MulIs DEF Mul
<1>10. IsNumber(ax, av)
  BY <1>1, <1>2, <1>6, <1>7, MulIs DEF Mul
<1>11. qv \in Nat /\ yv \in 0 .. m - 1
  <2>1. P.x * P.x \in Int /\ P.y * P.y \in Int
    BY <1>2
  <2>2. qv \in 0 .. m - 1 /\ yv \in 0 .. m - 1
    BY <1>1, <2>1, RemainderOfInteger
  <2> HIDE DEF qv, yv
  <2>. QED  BY <1>1, <2>2
<1> HIDE DEF xx, yy, qv, yv
<1>12. IsNumber(xxx, cv)
  BY <1>1, <1>2, <1>4, <1>8, MulIs DEF Mul
<1>13. /\ cv \in Nat /\ qv * P.x \in Nat /\ Congruent(cv, qv * P.x, m)
       /\ av \in Nat /\ CurveA * P.x \in Nat /\ Congruent(av, CurveA * P.x, m)
  <2>1. qv * P.x \in Nat /\ CurveA * P.x \in Nat
    BY <1>2, <1>7, <1>11
  <2>2. cv \in 0 .. m - 1 /\ Congruent(cv, qv * P.x, m)
    BY <1>1, <2>1, ReducedNumber, Zenon
  <2>3. av \in 0 .. m - 1 /\ Congruent(av, CurveA * P.x, m)
    BY <1>1, <2>1, ReducedNumber, Zenon
  <2> HIDE DEF cv, av
  <2>. QED  BY <1>1, <2>1, <2>2, <2>3
<1> HIDE DEF xxx, ax, cv, av
<1>14. PICK s \in Nat : IsNumber(axb, s) /\ Congruent(s, av + CurveB, m)
  BY <1>1, <1>4, <1>7, <1>10, AddIs DEF Plus
<1> HIDE DEF axb
<1>15. PICK t \in Nat : IsNumber(rhs, t) /\ Congruent(t, cv + s, m)
  BY <1>1, <1>3, <1>12, <1>14, AddIs DEF Plus
<1>16. yv = t
  BY <1>3, <1>9, <1>15, ConnectIs
<1> DEFINE right == qv * P.x + CurveA * P.x + CurveB
<1>17. Congruent(t, right, m) /\ right \in Int
  <2> DEFINE c == qv * P.x
             a == CurveA * P.x
  <2>1. c \in Nat /\ a \in Nat /\ Congruent(cv, c, m) /\ Congruent(av, a, m) /\ right = c + a + CurveB
    BY <1>13
  <2> HIDE DEF c, a, right
  <2>2. PICK k1 \in Int, k2 \in Int, k3 \in Int, k4 \in Int :
           t = cv + s + k1 * m /\ s = av + CurveB + k2 * m /\ cv = c + k3 * m /\ av = a + k4 * m
    BY <1>14, <1>15, <2>1 DEF Congruent
  <2> DEFINE k == k1 + k2 + k3 + k4
             e == k * m
             e1 == k1 * m
             e2 == k2 * m
             e3 == k3 * m
             e4 == k4 * m
  <2>3. e = e1 + e2 + e3 + e4 /\ k \in Int /\ e1 \in Int /\ e2 \in Int /\ e3 \in Int /\ e4 \in Int
    BY <1>1
  <2>4. t = cv + s + e1 /\ s = av + CurveB + e2 /\ cv = c + e3 /\ av = a + e4
    BY <2>2
  <2> HIDE DEF k, e1, e2, e3, e4
  <2>5. t = right + e /\ right \in Int
    <3> HIDE DEF e
    <3>. QED  BY <1>7, <1>13, <1>14, <2>1, <2>3, <2>4
  <2>. QED  BY <2>3, <2>5 DEF Congruent
<1> HIDE DEF right
<1>18. t % m = right % m
  BY <1>1, <1>17, SameRemainder
<1>19. yv % m = yv
  BY <1>1, <1>11, ReducedIs
<1>20. (P.y * P.y) % m = right % m
  BY <1>16, <1>18, <1>19 DEF yv
<1>. QED  BY <1>20 DEF OnCurve, right, qv

-----------------------------------------------------------------------------
(* Windows of a scalar.                                                    *)

\* A remainder of a multiple of the modulus has the same remainder.
LEMMA ModTwice ==
    ASSUME NEW a \in Nat, NEW T \in Nat, T > 0, NEW U \in Nat, U > 0
    PROVE  (a % (T * U)) % T = a % T
<1> DEFINE V == T * U
           z == a \div V
           r == a % V
           x == r \div T
           y == r % T
<1>1. V \in Nat /\ V > 0
  OBVIOUS
<1>2. a = z * V + r /\ z \in Nat /\ r \in Nat
  <2> HIDE DEF V
  <2>. QED  BY <1>1, Divided
<1> HIDE DEF z, r
<1>3. r = x * T + y /\ x \in Nat /\ y \in Nat /\ y < T
  BY <1>2, Divided
<1> HIDE DEF x, y
<1>4. a = (z * U + x) * T + y
  <2>1. z * V = (z * U) * T
    BY <1>2
  <2>2. (z * U + x) * T = (z * U) * T + x * T /\ z * U \in Nat
    BY <1>2, <1>3
  <2>. QED  BY <1>2, <1>3, <2>1, <2>2
<1> DEFINE k == z * U + x
<1>5. k \in Nat /\ a = k * T + y
  BY <1>2, <1>3, <1>4
<1> HIDE DEF k
<1>6. a % T = y
  BY <1>3, <1>5, DivUnique
<1>. QED  BY <1>6 DEF y, r, V

\* The bits of a number from bit i on.
Bits(v, i, l) == (v \div 2 ^ i) % 2 ^ l

\* Bits of bits are bits.
LEMMA BitsOfBits ==
    ASSUME NEW v \in Nat, NEW i \in Nat, NEW k \in Nat, NEW j \in Nat, NEW l \in Nat, j + l <= k
    PROVE  Bits(Bits(v, i, k), j, l) = Bits(v, i + j, l)
<1> DEFINE d == k - j - l
           I == 2 ^ i
           J == 2 ^ j
           L == 2 ^ l
           D == 2 ^ d
           K == 2 ^ k
           IJ == 2 ^ (i + j)
           x == v \div I
<1>1. d \in Nat /\ k = j + (l + d) /\ l + d \in Nat
  OBVIOUS
<1> HIDE DEF d
<1>2. I \in Nat /\ I > 0 /\ J \in Nat /\ J > 0 /\ L \in Nat /\ L > 0 /\ D \in Nat /\ D > 0
  BY <1>1, PowerType
<1>3. IJ = I * J
  BY PowerOfSum
<1>4. K = J * (L * D)
  <2>1. 2 ^ (l + d) = L * D
    BY <1>1, PowerOfSum
  <2> DEFINE e == l + d
  <2>2. e \in Nat /\ 2 ^ e = L * D /\ k = j + e
    BY <1>1, <2>1
  <2> HIDE DEF e, L, D
  <2>3. 2 ^ (j + e) = 2 ^ j * 2 ^ e
    BY <2>2, PowerOfSum
  <2>. QED  BY <2>2, <2>3
<1>5. Bits(Bits(v, i, k), j, l) = ((x % K) \div J) % L /\ Bits(v, i + j, l) = (v \div IJ) % L
  BY DEF Bits
<1> HIDE DEF I, J, L, D, K, IJ
<1>6. x \in Nat
  BY <1>2, Divided
<1> DEFINE U == L * D
<1>7. U \in Nat /\ U > 0
  BY <1>2
<1> HIDE DEF U
<1>8. (x % K) \div J = (x \div J) % U
  <2>1. K = J * U
    BY <1>4 DEF U
  <2> HIDE DEF x
  <2>. QED  BY <1>2, <1>6, <1>7, <2>1, DivTwice
<1>9. x \div J = v \div IJ
  BY <1>2, <1>3, DivTwice
<1> DEFINE y == x \div J
<1>10. y \in Nat
  <2> HIDE DEF x
  <2>. QED  BY <1>2, <1>6, Divided
<1> HIDE DEF y
<1>11. (y % U) % L = y % L
  BY <1>2, <1>10, ModTwice DEF U
<1>. QED  BY <1>5, <1>8, <1>9, <1>11 DEF y

\* Bits above bits are more bits.
LEMMA BitsJoin ==
    ASSUME NEW v \in Nat, NEW i \in Nat, NEW a \in Nat, NEW b \in Nat
    PROVE  Bits(v, i + a, b) * 2 ^ a + Bits(v, i, a) = Bits(v, i, a + b)
<1> DEFINE I == 2 ^ i
           A == 2 ^ a
           B == 2 ^ b
           IA == 2 ^ (i + a)
           AB == 2 ^ (a + b)
           x == v \div I
<1>1. I \in Nat /\ I > 0 /\ A \in Nat /\ A > 0 /\ B \in Nat /\ B > 0 /\ IA = I * A /\ AB = A * B
  BY PowerType, PowerOfSum
<1>2. /\ Bits(v, i + a, b) = (v \div IA) % B
      /\ Bits(v, i, a) = x % A
      /\ Bits(v, i, a + b) = x % AB
  BY DEF Bits
<1> HIDE DEF I, A, B, IA, AB
<1>3. x \in Nat /\ v \div IA = x \div A
  <2>1. x \in Nat
    BY <1>1, Divided
  <2>2. x \div A = v \div (I * A)
    BY <1>1, DivTwice
  <2>. QED  BY <1>1, <2>1, <2>2
<1> HIDE DEF x
<1> DEFINE y == x % AB
<1>4. (x \div A) % B = y \div A /\ y % A = x % A
  <2>1. x \in Nat /\ A \in Nat /\ A > 0 /\ B \in Nat /\ B > 0
    BY <1>1, <1>3
  <2>2. (x \div A) \div B = x \div (A * B) /\ (x \div A) % B = (x % (A * B)) \div A
    BY <2>1, DivTwice
  <2>3. (x % (A * B)) % A = x % A
    BY <2>1, ModTwice
  <2>4. AB = A * B
    BY <1>1
  <2>. QED  BY <2>2, <2>3, <2>4, Zenon
<1>5. y \in Nat
  <2>1. AB \in Nat /\ AB > 0
    BY <1>1
  <2>2. y \in 0 .. AB - 1
    BY <1>3, <2>1, Divided
  <2>. QED  BY <2>1, <2>2
<1> HIDE DEF y
<1>6. y = (y \div A) * A + (y % A)
  BY <1>1, <1>5, Divided
<1>7. Bits(v, i + a, b) = y \div A /\ Bits(v, i, a) = y % A
  BY <1>2, <1>3, <1>4
<1>. QED  BY <1>2, <1>6, <1>7 DEF A, y

\* The orders are primes: no product of nonzero residues is zero.
LEMMA ProductOfResidues ==
    ASSUME NEW n \in {BaseOrder, ScalarOrder},
           NEW a \in Nat, a % n # 0, NEW b \in Nat, b % n # 0
    PROVE  (a * b) % n # 0
<1> DEFINE r == a % n
           w == ModInverse(n, r)
<1>1. n \in Nat /\ n > 1 /\ n \in {BaseOrder, ScalarOrder} /\ n > 0
  BY ModulusIs
<1>2. SUFFICES ASSUME (a * b) % n = 0 PROVE FALSE
  OBVIOUS
<1>3. r \in 0 .. n - 1 /\ Congruent(a, r, n) /\ r \in Int
  <2>1. r \in 0 .. n - 1 /\ Congruent(r, a, n)
    BY <1>1, ReducedNumber
  <2>2. r \in Int /\ a \in Int
    BY <2>1
  <2>. QED  BY <1>1, <2>1, <2>2, CongruentOrder
<1>4. w \in 0 .. n - 1 /\ (r * w) % n = 1
  <2>1. a \in Int
    OBVIOUS
  <2>. QED  BY <2>1, InverseIs, Zenon
<1> HIDE DEF r, w
<1>5. PICK j \in Int : r * w = j * n + 1
  <2> DEFINE e == r * w
  <2>1. w \in Int /\ e \in Int /\ e % n = 1
    BY <1>3, <1>4
  <2> HIDE DEF e
  <2>2. \E j \in Int : e = j * n + (e % n)
    BY <1>1, <2>1, RemainderOfInteger
  <2>. QED  BY <2>1, <2>2 DEF e
<1>6. PICK i \in Int : a * b = i * n + 0
  <2> DEFINE e == a * b
  <2>1. e \in Int /\ e % n = 0
    BY <1>2
  <2> HIDE DEF e
  <2>2. \E i \in Int : e = i * n + (e % n)
    BY <1>1, <2>1, RemainderOfInteger
  <2>. QED  BY <2>1, <2>2 DEF e
<1>7. PICK l \in Int : a = r + l * n
  BY <1>3 DEF Congruent
<1> DEFINE k == w * i - b * l * w - b * j
<1>8. k \in Int /\ b = k * n + 0
  <2>1. w \in Int /\ w * i \in Int /\ b * l * w \in Int /\ b * j \in Int /\ k \in Int
    BY <1>4
  <2>2. b * (r * w) = b * (j * n) + b
    BY <1>1, <1>5
  <2>3. w * (a * b) = w * (i * n)
    <3>1. a * b = i * n
      BY <1>1, <1>6
    <3>. QED  BY <3>1
  <2>4. w * (a * b) = b * (r * w) + w * ((l * n) * b)
    <3>1. a * b = r * b + (l * n) * b
      BY <1>1, <1>3, <1>7
    <3>2. w * (a * b) = w * (r * b) + w * ((l * n) * b)
      BY <1>1, <1>3, <2>1, <3>1
    <3>3. w * (r * b) = b * (r * w)
      BY <1>3, <2>1
    <3>. QED  BY <3>2, <3>3
  <2>5. b * (j * n) = (b * j) * n /\ w * (i * n) = (w * i) * n /\ w * ((l * n) * b) = (b * l * w) * n
    BY <1>1, <2>1
  <2>6. k * n = (w * i) * n - (b * l * w) * n - (b * j) * n
    BY <1>1, <2>1
  <2> DEFINE e1 == (w * i) * n
             e2 == (b * l * w) * n
             e3 == (b * j) * n
             e4 == b * (r * w)
             e5 == w * (a * b)
  <2>7. e1 \in Int /\ e2 \in Int /\ e3 \in Int /\ e4 \in Int /\ e5 \in Int
    BY <1>1, <1>3, <2>1
  <2>8. e4 = e3 + b /\ e5 = e1 /\ e5 = e4 + e2 /\ k * n = e1 - e2 - e3
    BY <2>2, <2>3, <2>4, <2>5, <2>6
  <2> HIDE DEF e1, e2, e3, e4, e5, k
  <2>. QED  BY <2>1, <2>7, <2>8
<1> HIDE DEF k
<1>9. 0 \in 0 .. n - 1 /\ b \in Int
  BY <1>1
<1>10. b % n = 0
  BY <1>1, <1>8, <1>9, RemainderUnique
<1>. QED  BY <1>10

\* A multiple that is not zero, another number of times.
LEMMA ProductNonzero ==
    ASSUME NEW a \in Nat, a % ScalarOrder # 0, NEW b \in Nat, b % ScalarOrder # 0
    PROVE  (a * b) % ScalarOrder # 0
BY ProductOfResidues

\* No doubling of a starting point leads to zero.
LEMMA PowersNonzero == \A k \in Nat : (2 ^ k) % ScalarOrder # 0
<1> DEFINE n == ScalarOrder
<1>1. n \in Nat /\ n > 0
  BY ModulusIs
<1>2. 2 < n
  <2> DEFINE l == 2 * DigitBits - 1
             t == 2 ^ (2 * DigitBits)
  <2>1. l \in Nat /\ 2 * DigitBits = l + 1
    BY WindowAssumption
  <2>2. t < n
    BY WindowAssumption
  <2> HIDE DEF l
  <2>3. t = 2 * 2 ^ l /\ 2 ^ l \in Nat /\ 2 ^ l >= 1
    BY <2>1, Doubling
  <2> HIDE DEF t
  <2>4. t \in Nat /\ t >= 2
    BY <2>3
  <2>. QED  BY <1>1, <2>2, <2>4
<1>3. 1 % n = 1 /\ 2 % n = 2
  <2>1. 1 \in 0 .. n - 1 /\ 2 \in 0 .. n - 1
    BY <1>1, <1>2
  <2>. QED  BY <1>1, <2>1, ReducedIs
<1> TAKE k \in Nat
<1> DEFINE T == {j \in Nat : (2 ^ j) % n # 0}
<1>4. 0 \in T
  <2>1. 2 ^ 0 = 1
    OBVIOUS
  <2>. QED  BY <1>3, <2>1
<1>5. ASSUME NEW j \in 1 .. k, j - 1 \in T PROVE j \in T
  <2> DEFINE i == j - 1
             p == 2 ^ i
  <2>1. i \in Nat /\ j = i + 1 /\ j \in Nat
    OBVIOUS
  <2> HIDE DEF i
  <2>2. p % n # 0
    BY <1>5 DEF i
  <2>3. p \in Nat /\ 2 ^ (i + 1) = 2 * p
    BY <2>1, Doubling
  <2> HIDE DEF p
  <2>4. (2 * p) % n # 0
    BY <1>3, <2>2, <2>3, ProductNonzero
  <2>. QED  BY <2>1, <2>3, <2>4
<1>6. k \in T
  <2> HIDE DEF T
  <2>1. \A j \in 0 .. k : j \in T
    BY <1>4, <1>5, Counting
  <2>. QED  BY <2>1
<1>. QED  BY <1>6

\* Each window weighs WindowSize times the one below, and all of them the limbs.
LEMMA Weights ==
    /\ WindowBits \in Nat \ {0} /\ WindowSize \in Nat /\ WindowSize > 1 /\ WindowSize < ScalarOrder
    /\ Weight(0) = 1
    /\ \A w \in Nat : /\ Weight(w) \in Nat /\ Weight(w) >= 1 /\ Weight(w) % ScalarOrder # 0
                      /\ Weight(w + 1) = Weight(w) * WindowSize
    /\ NumWindows \in Nat /\ Weight(NumWindows) = Power(NumLimbs)
<1>1. WindowBits \in Nat \ {0} /\ WindowBits = 2 * DigitBits
  BY WindowAssumption DEF WindowBits
<1>2. WindowSize \in Nat /\ WindowSize > 1 /\ WindowSize < ScalarOrder
  <2> DEFINE l == WindowBits - 1
  <2>1. l \in Nat /\ WindowBits = l + 1
    BY <1>1
  <2> HIDE DEF l
  <2>2. WindowSize = 2 * 2 ^ l /\ 2 ^ l \in Nat /\ 2 ^ l >= 1
    BY <2>1, Doubling DEF WindowSize
  <2>3. WindowSize < ScalarOrder
    BY <1>1, WindowAssumption DEF WindowSize
  <2>. QED  BY <2>2, <2>3
<1>3. Weight(0) = 1
  <2> DEFINE e == WindowBits * 0
  <2>1. e = 0 /\ 2 ^ 0 = 1
    BY <1>1
  <2> HIDE DEF e
  <2>2. 2 ^ e = 1
    BY <2>1
  <2>. QED  BY <2>2 DEF Weight, e
<1>4. ASSUME NEW w \in Nat
      PROVE  /\ Weight(w) \in Nat /\ Weight(w) >= 1 /\ Weight(w) % ScalarOrder # 0
             /\ Weight(w + 1) = Weight(w) * WindowSize
  <2> DEFINE e == WindowBits * w
             f == WindowBits * (w + 1)
  <2>1. e \in Nat /\ f = e + WindowBits /\ WindowBits \in Nat
    BY <1>1
  <2>2. Weight(w) = 2 ^ e /\ Weight(w + 1) = 2 ^ f
    BY DEF Weight
  <2> HIDE DEF e, f
  <2>3. 2 ^ (e + WindowBits) = 2 ^ e * 2 ^ WindowBits
    BY <2>1, PowerOfSum
  <2>4. 2 ^ e \in Nat /\ 2 ^ e >= 1 /\ (2 ^ e) % ScalarOrder # 0
    BY <2>1, Doubling, PowersNonzero
  <2>. QED  BY <2>1, <2>2, <2>3, <2>4 DEF WindowSize
<1>5. NumWindows \in Nat /\ Weight(NumWindows) = Power(NumLimbs)
  <2>1. ScalarOrder \in Nat
    BY ModulusIs
  <2>2. NumLimbs \in Nat
    BY <2>1, LimbsOfModulus DEF NumLimbs
  <2>3. NumWindows \in Nat
    BY <2>2, WindowAssumption DEF NumWindows
  <2>4. WindowBits * NumWindows = LimbBits * NumLimbs
    <3> DEFINE a == NumLimbs
               b == DigitBits
               c == WindowsPerLimb
    <3>1. a \in Nat /\ b \in Nat /\ c \in Nat /\ LimbBits = 2 * b * c /\ WindowBits = 2 * b /\ NumWindows = a * c
      BY <1>1, <2>2, WindowAssumption DEF NumWindows
    <3> HIDE DEF a, b, c
    <3>2. (2 * b) * (a * c) = (2 * b * c) * a
      BY <3>1
    <3>. QED  BY <3>1, <3>2 DEF a
  <2>. QED  BY <2>3, <2>4 DEF Weight, Power
<1>. QED  BY <1>1, <1>2, <1>3, <1>4, <1>5

\* A scalar in as many limbs as the order has.
IsScalar(u, v) == v \in 0 .. ScalarOrder - 1 /\ u = LimbsOf(NumLimbs, v)

\* Scalars fit their limbs.
LEMMA ScalarIs ==
    /\ NumLimbs \in Nat
    /\ \A v \in 0 .. ScalarOrder - 1 : v < Power(NumLimbs) /\ IsScalar(Scalar(v), v)
    /\ \A u, v : IsScalar(u, v) => IsNumber(u, v) /\ v < Power(NumLimbs) /\ Len(u) = NumLimbs
<1>1. ScalarOrder \in Nat
  BY ModulusIs
<1>2. NumLimbs \in Nat /\ ScalarOrder < Power(NumLimbs)
  BY <1>1, LimbsOfModulus DEF NumLimbs
<1>3. Power(NumLimbs) \in Nat
  BY <1>2, Powers
<1>4. \A v \in 0 .. ScalarOrder - 1 : v \in Nat /\ v < Power(NumLimbs)
  BY <1>1, <1>2, <1>3
<1>5. \A v \in 0 .. ScalarOrder - 1 : Scalar(v) = LimbsOf(NumLimbs, v)
  BY <1>4 DEF Scalar, SetBiguint
<1>6. ASSUME NEW u, NEW v, IsScalar(u, v)
      PROVE  IsNumber(u, v) /\ v < Power(NumLimbs) /\ Len(u) = NumLimbs
  <2>1. v \in Nat /\ v < Power(NumLimbs) /\ u = LimbsOf(NumLimbs, v)
    BY <1>4, <1>6 DEF IsScalar
  <2>2. Len(u) = NumLimbs
    BY <1>2, <2>1, LimbsAre
  <2>. QED  BY <1>2, <2>1, <2>2 DEF IsNumber
<1>. QED  BY <1>2, <1>4, <1>5, <1>6 DEF IsScalar

\* Window w is digit w of the scalar in the windows' base.
LEMMA WindowIs ==
    ASSUME NEW u, NEW v, IsScalar(u, v), NEW w \in 0 .. NumWindows - 1
    PROVE  Windows(u)[w + 1] = (v \div Weight(w)) % WindowSize
<1> DEFINE c == WindowsPerLimb
           b == DigitBits
           q == w \div c
           r == w % c
           d == 2 * r
           limb == u[1 + q]
<1>1. v \in Nat /\ v < Power(NumLimbs) /\ Len(u) = NumLimbs /\ u = LimbsOf(NumLimbs, v) /\ NumLimbs \in Nat
  BY ScalarIs, NumberIs DEF IsScalar
<1>2. /\ c \in Nat /\ c > 0 /\ b \in Nat /\ b > 0 /\ LimbBits = 2 * b * c /\ LimbBits \in Nat
      /\ NumWindows = NumLimbs * c /\ WindowBits = 2 * b
  BY WindowAssumption, LimbAssumption DEF NumWindows, WindowBits
<1>3. w \in Nat /\ w < NumLimbs * c
  BY <1>1, <1>2
<1>4. w = q * c + r /\ q \in 0 .. NumLimbs - 1 /\ r \in 0 .. c - 1
  <2> HIDE DEF c
  <2>. QED  BY <1>1, <1>2, <1>3, Divided
<1>5. Windows(u)[w + 1]
        = ((limb \div 2 ^ (b * (d + 1))) % 2 ^ b) * 2 ^ b + ((limb \div 2 ^ (b * d)) % 2 ^ b)
  <2>1. w + 1 \in 1 .. (Len(u) * c) /\ (w + 1) - 1 = w
    BY <1>1, <1>2, <1>3
  <2> HIDE DEF c, b
  <2>. QED  BY <2>1 DEF Windows, SplitToWindows, c, b
<1> HIDE DEF c, b, q, r
<1>6. 1 + q \in 1 .. NumLimbs /\ (1 + q) - 1 = q /\ q \in Nat
  BY <1>1, <1>4
<1> DEFINE s == LimbBits * q
           t == b * d
<1>7. s \in Nat /\ t \in Nat /\ b * (d + 1) = t + b /\ t + (b + b) <= LimbBits /\ d \in Nat
  <2>1. r \in Nat /\ r + 1 <= c
    BY <1>2, <1>4
  <2>2. d \in Nat /\ t = 2 * b * r /\ b * (d + 1) = t + b /\ s \in Nat /\ t \in Nat
    BY <1>2, <1>6, <2>1
  <2>3. (2 * b) * (r + 1) <= (2 * b) * c
    BY <1>2, <2>1
  <2>4. (2 * b) * (r + 1) = t + (b + b)
    BY <1>2, <2>1
  <2>. QED  BY <1>2, <2>2, <2>3, <2>4
<1>8. limb = Bits(v, s, LimbBits)
  <2>1. limb = LimbAt(v, 1 + q)
    BY <1>1, <1>6, LimbsAre
  <2>2. LimbAt(v, 1 + q) = (v \div Power(q)) % Base
    BY <1>6 DEF LimbAt, Above
  <2>3. Base = 2 ^ LimbBits
    <3>1. LimbBits * 1 = LimbBits
      BY <1>2
    <3>. QED  BY <3>1 DEF Base, Power
  <2>. QED  BY <2>1, <2>2, <2>3 DEF Bits, Power
<1>9. Windows(u)[w + 1] = Bits(limb, t + b, b) * 2 ^ b + Bits(limb, t, b)
  BY <1>5, <1>7 DEF Bits
<1> HIDE DEF limb, s, t, d
<1>10. limb \in Nat
  <2> DEFINE x == v \div 2 ^ s
             B == 2 ^ LimbBits
  <2>1. 2 ^ s \in Nat /\ 2 ^ s > 0 /\ B \in Nat /\ B > 0
    BY <1>2, <1>7, PowerType
  <2>2. x \in Nat
    BY <1>1, <2>1, Divided
  <2> HIDE DEF x, B
  <2>3. x % B \in 0 .. B - 1
    BY <2>1, <2>2, Divided
  <2>4. x % B \in Nat
    BY <2>1, <2>3
  <2>. QED  BY <1>8, <2>4 DEF Bits, x, B
<1>11. Windows(u)[w + 1] = Bits(limb, t, b + b)
  BY <1>2, <1>7, <1>9, <1>10, BitsJoin
<1>12. Bits(limb, t, b + b) = Bits(v, s + t, b + b)
  BY <1>1, <1>2, <1>7, <1>8, BitsOfBits
<1>13. s + t = WindowBits * w /\ b + b = WindowBits
  <2>1. WindowBits * w = (2 * b) * (q * c) + (2 * b) * r
    <3>1. q \in Int /\ r \in Int /\ q * c \in Int
      BY <1>2, <1>4
    <3>. QED  BY <1>2, <1>4, <3>1
  <2>2. s = (2 * b) * (q * c)
    <3>1. s = (2 * b * c) * q
      BY <1>2 DEF s
    <3>. QED  BY <1>2, <1>6, <3>1
  <2>3. t = (2 * b) * r
    <3>1. r \in Int
      BY <1>4
    <3>. QED  BY <1>2, <3>1 DEF t, d
  <2>. QED  BY <1>2, <2>1, <2>2, <2>3
<1>. QED  BY <1>11, <1>12, <1>13 DEF Bits, Weight, WindowSize

\* A scalar below and above a window.
LEMMA WindowStep ==
    ASSUME NEW v \in Nat, NEW w \in Nat
    PROVE  LET d == (v \div Weight(w)) % WindowSize
           IN  /\ d \in 0 .. WindowSize - 1
               /\ v % Weight(w + 1) = (v % Weight(w)) + d * Weight(w)
               /\ v \div Weight(w) = (v \div Weight(w + 1)) * WindowSize + d
               /\ v \div Weight(w) \in Nat /\ v % Weight(w) \in Nat
<1> DEFINE T == Weight(w)
           U == WindowSize
           x == v \div T
           d == x % U
           V == Weight(w + 1)
           y == v % V
<1>1. T \in Nat /\ T > 0 /\ U \in Nat /\ U > 0 /\ V = T * U
  BY Weights
<1> HIDE DEF T, U, V
<1>2. x \in Nat /\ v % T \in Nat
  <2>1. x \in Nat /\ v % T \in 0 .. T - 1
    BY <1>1, Divided
  <2>. QED  BY <1>1, <2>1
<1>3. x \div U = v \div V /\ d = y \div T
  BY <1>1, DivTwice
<1>4. y % T = v % T
  BY <1>1, ModTwice
<1>5. y \in Nat
  <2>1. V \in Nat /\ V > 0
    BY <1>1
  <2>2. y \in 0 .. V - 1
    BY <2>1, Divided
  <2>. QED  BY <2>1, <2>2
<1>6. d \in 0 .. U - 1 /\ x = (x \div U) * U + d
  <2> HIDE DEF x
  <2>. QED  BY <1>1, <1>2, Divided
<1>7. y = (y \div T) * T + (y % T)
  <2> HIDE DEF y
  <2>. QED  BY <1>1, <1>5, Divided
<1>8. y = (v % T) + d * T
  <2> DEFINE e == v % T
  <2>1. y = d * T + e /\ e \in Nat /\ d \in Nat
    BY <1>1, <1>2, <1>3, <1>4, <1>6, <1>7
  <2> HIDE DEF y, d, e
  <2>2. y = e + d * T
    BY <1>1, <2>1
  <2>. QED  BY <2>2 DEF e
<1>. QED  BY <1>2, <1>3, <1>6, <1>8 DEF T, U, V

IsChain(f, p, n) == f = [j \in 0 .. n |-> IF j = 0 THEN p ELSE CurveDouble(f[j - 1])]

\* Repeated doubling is defined by recursion on numbers.
LEMMA ChainExists ==
    ASSUME NEW n \in Nat, NEW p
    PROVE  \E f : IsChain(f, p, n)
<1> DEFINE T == {k \in Nat : \E f : IsChain(f, p, k)}
<1>1. 0 \in T
  <2> DEFINE f == [j \in 0 .. 0 |-> p]
  <2>1. IsChain(f, p, 0)
    BY DEF IsChain
  <2>. QED  BY <2>1
<1>2. ASSUME NEW k \in 1 .. n, k - 1 \in T PROVE k \in T
  <2>1. PICK f : IsChain(f, p, k - 1)
    BY <1>2
  <2> DEFINE g == [j \in 0 .. k |-> IF j = k THEN CurveDouble(f[k - 1]) ELSE f[j]]
  <2>2. ASSUME NEW j \in 0 .. k
        PROVE  g[j] = IF j = 0 THEN p ELSE CurveDouble(g[j - 1])
    <3>1. CASE j = k
      <4>1. g[j] = CurveDouble(f[k - 1])
        BY <3>1
      <4>2. g[j - 1] = f[k - 1] /\ j # 0
        BY <3>1
      <4>. QED  BY <4>1, <4>2
    <3>2. CASE j # k
      <4>1. j \in 0 .. k - 1 /\ g[j] = f[j]
        BY <3>2
      <4>2. f[j] = IF j = 0 THEN p ELSE CurveDouble(f[j - 1])
        <5> DEFINE h == [i \in 0 .. k - 1 |-> IF i = 0 THEN p ELSE CurveDouble(f[i - 1])]
        <5>1. f = h
          BY <2>1 DEF IsChain
        <5>2. h[j] = IF j = 0 THEN p ELSE CurveDouble(f[j - 1])
          BY <4>1
        <5> HIDE DEF h
        <5>. QED  BY <5>1, <5>2
      <4>3. j # 0 => g[j - 1] = f[j - 1]
        BY <4>1
      <4> HIDE DEF g
      <4>. QED  BY <4>1, <4>2, <4>3
    <3>. QED  BY <3>1, <3>2
  <2>3. g = [j \in 0 .. k |-> g[j]]
    OBVIOUS
  <2> HIDE DEF g
  <2>4. [j \in 0 .. k |-> g[j]] = [j \in 0 .. k |-> IF j = 0 THEN p ELSE CurveDouble(g[j - 1])]
    BY <2>2
  <2>5. IsChain(g, p, k)
    BY <2>3, <2>4 DEF IsChain
  <2>6. k \in Nat
    OBVIOUS
  <2>. QED  BY <2>5, <2>6
<1>3. n \in T
  <2> HIDE DEF T
  <2>1. \A k \in 0 .. n : k \in T
    BY <1>1, <1>2, Counting
  <2>. QED  BY <2>1
<1>. QED  BY <1>3

\* Doubled once for each bit of a window.
LEMMA DoubledIs ==
    ASSUME NEW p, NEW k, IsMultiple(p, k)
    PROVE  Doubled(p) = StuckPoint \/ IsMultiple(Doubled(p), WindowSize * k)
<1> DEFINE n == WindowBits
           f == CHOOSE f : IsChain(f, p, n)
<1>1. n \in Nat /\ k \in Nat
  BY Weights DEF IsMultiple
<1>2. Doubled(p) = f[n]
  BY DEF Doubled, IsChain
<1>3. IsChain(f, p, n)
  BY <1>1, ChainExists
<1> HIDE DEF f
<1>4. \A j \in 0 .. n : f[j] = IF j = 0 THEN p ELSE CurveDouble(f[j - 1])
  <2> TAKE j \in 0 .. n
  <2> DEFINE h == [i \in 0 .. n |-> IF i = 0 THEN p ELSE CurveDouble(f[i - 1])]
  <2>1. f = h
    BY <1>3 DEF IsChain
  <2>2. h[j] = IF j = 0 THEN p ELSE CurveDouble(f[j - 1])
    OBVIOUS
  <2> HIDE DEF h
  <2>. QED  BY <2>1, <2>2
<1> DEFINE T == {j \in Nat : f[j] = StuckPoint \/ IsMultiple(f[j], 2 ^ j * k)}
<1>5. 0 \in T
  <2>1. 2 ^ 0 = 1 /\ 1 * k = k /\ 0 \in 0 .. n
    BY <1>1
  <2>2. f[0] = p
    BY <1>4, <2>1
  <2>3. IsMultiple(f[0], 2 ^ 0 * k)
    BY <2>1, <2>2
  <2>. QED  BY <2>3
<1>6. ASSUME NEW j \in 1 .. n, j - 1 \in T PROVE j \in T
  <2> DEFINE i == j - 1
             a == 2 ^ i
             q == f[i]
  <2>1. i \in Nat /\ j = i + 1 /\ j \in Nat /\ j # 0 /\ j \in 0 .. n
    BY <1>1
  <2>2. q = StuckPoint \/ IsMultiple(q, a * k)
    BY <1>6
  <2>3. f[j] = CurveDouble(q)
    BY <1>4, <2>1
  <2> HIDE DEF i, q
  <2>4. a \in Nat /\ 2 ^ j = 2 * a
    BY <2>1, Doubling
  <2> HIDE DEF a
  <2>5. f[j] = StuckPoint \/ IsMultiple(f[j], 2 * (a * k))
    <3>1. CASE q = StuckPoint
      <4>1. IsStuck(StuckPoint)
        BY DEF IsStuck, StuckPoint
      <4>2. CurveDouble(StuckPoint) = StuckPoint
        BY <4>1, StuckSum
      <4>. QED  BY <2>3, <3>1, <4>2
    <3>2. CASE IsMultiple(q, a * k)
      BY <2>3, <3>2, DoubleOfMultiple
    <3>. QED  BY <2>2, <3>1, <3>2
  <2>6. 2 * (a * k) = 2 ^ j * k
    BY <1>1, <2>4
  <2>. QED  BY <2>1, <2>5, <2>6
<1>7. n \in T
  <2> HIDE DEF T
  <2>1. \A j \in 0 .. n : j \in T
    BY <1>1, <1>5, <1>6, Counting
  <2>. QED  BY <1>1, <2>1
<1>. QED  BY <1>2, <1>7 DEF WindowSize

-----------------------------------------------------------------------------
(* The invariant.                                                          *)

Instances ==
    [digest : 0 .. Power(NumLimbs) - 1, sk : 1 .. ScalarOrder - 1, pk : Affine, r : 0 .. ScalarOrder - 1,
     s : 0 .. ScalarOrder - 1, blind : 1 .. ScalarOrder - 1]

Scaled == {"fixed", "table", "unblind", "windowed", "compare"}
Tabled == Scaled \ {"fixed"}
Windowing == {"windowed", "compare"}

\* The key is one the library computed, or one moved off the curve that goes no
\* further than its check.
InstInv ==
    /\ inst \in Instances
    /\ inst.pk = Times(inst.sk) \/ ~OnCurve(inst.pk)
    /\ stage \notin {"wire", "key", "stuck"} => OnCurve(inst.pk)

IsQuotient(u, a) == IsScalar(u, (a * ModInverse(ScalarOrder, inst.s)) % ScalarOrder)

ScalarsInv ==
    stage \in Scaled =>
        /\ inst.s # 0
        /\ IsQuotient(u1, ByteArrayToScalar(inst.digest))
        /\ IsQuotient(u2, inst.r)

FixedInv ==
    /\ stage \in {"wire", "key", "scalars"} => step = 0
    /\ stage = "fixed" => step \in 0 .. NumWindows
    /\ stage \in Scaled => IsMultiple(fixed, FixedMultiple)

IsSequence(s) == Len(s) \in Nat /\ s = [t \in 1 .. Len(s) |-> s[t]]

TableInv ==
    /\ stage = "table" => step = Len(table)
    /\ stage \in Tabled \ {"table"} => Len(table) = WindowSize
    /\ stage \in {"table", "unblind"} => step \in 1 .. WindowSize
    /\ stage \in Tabled =>
         /\ IsSequence(table)
         /\ \A t \in 1 .. Len(table) : IsMultiple(table[t], TableMultiple(t))

WindowedInv ==
    /\ stage = "windowed" => step \in 0 .. NumWindows
    /\ stage \in Windowing => IsMultiple(windowed, WindowedMultiple)

Stages == Scaled \cup {"wire", "key", "scalars", "accepted", "rejected", "stuck"}

IInv ==
    /\ stage \in Stages
    /\ InstInv
    /\ ScalarsInv
    /\ FixedInv
    /\ TableInv
    /\ WindowedInv
    /\ VerdictIsNative

\* A stuck witness promises nothing more.
LEMMA StuckInv ==
    ASSUME IInv, inst' = inst, stage' = "stuck"
    PROVE  IInv'
BY DEF IInv, InstInv, ScalarsInv, FixedInv, TableInv, WindowedInv, VerdictIsNative, Stages, Scaled, Tabled,
       Windowing

\* A stutter keeps it.
LEMMA StutterInv ==
    ASSUME IInv, UNCHANGED vars
    PROVE  IInv'
BY DEF IInv, vars, InstInv, ScalarsInv, FixedInv, TableInv, WindowedInv, VerdictIsNative, Stages, Scaled, Tabled,
       Windowing, IsQuotient, FixedMultiple, TableMultiple, WindowedMultiple, VerifyMessage, IsSequence

\* The scalar order is a modulus.
LEMMA OrderIs == ScalarOrder \in Nat /\ ScalarOrder > 1 /\ ScalarOrder > 0 /\ ScalarOrder \in {BaseOrder, ScalarOrder}
BY ModulusIs

\* What an instance's fields are.
LEMMA InstanceIs ==
    ASSUME inst \in Instances
    PROVE  /\ inst.digest \in Nat /\ inst.digest < Power(NumLimbs)
           /\ inst.sk \in 1 .. ScalarOrder - 1 /\ inst.sk \in Nat
           /\ inst.pk \in Affine /\ inst.r \in 0 .. ScalarOrder - 1 /\ inst.s \in 0 .. ScalarOrder - 1
           /\ inst.s \in Nat /\ inst.r \in Nat
           /\ inst.blind \in 1 .. ScalarOrder - 1 /\ inst.blind \in Nat
           /\ ByteArrayToScalar(inst.digest) \in 0 .. ScalarOrder - 1
           /\ ByteArrayToScalar(inst.digest) \in Nat
<1>0. inst.digest \in Nat /\ inst.digest < Power(NumLimbs)
  <2> DEFINE h == inst.digest
             N == Power(NumLimbs)
  <2>1. h \in 0 .. N - 1
    BY DEF Instances
  <2>2. N \in Nat
    BY ScalarIs, Powers
  <2> HIDE DEF h, N
  <2>3. h \in Nat /\ h < N
    BY <2>1, <2>2
  <2>. QED  BY <2>3 DEF h, N
<1>1. /\ inst.digest \in Nat /\ inst.sk \in 1 .. ScalarOrder - 1
      /\ inst.pk \in Affine /\ inst.r \in 0 .. ScalarOrder - 1 /\ inst.s \in 0 .. ScalarOrder - 1
      /\ inst.blind \in 1 .. ScalarOrder - 1
  BY <1>0 DEF Instances
<1>2. inst.sk \in Nat /\ inst.s \in Nat /\ inst.r \in Nat /\ inst.blind \in Nat
  BY <1>1, OrderIs
<1> DEFINE h == inst.digest
<1>3. h \in Nat
  BY <1>1
<1> HIDE DEF h
<1>4. h % ScalarOrder \in 0 .. ScalarOrder - 1
  BY <1>3, OrderIs, ReducedNumber
<1>5. h % ScalarOrder \in Nat
  BY <1>4, OrderIs
<1>. QED  BY <1>0, <1>1, <1>2, <1>4, <1>5 DEF ByteArrayToScalar, h

\* Numbers below the order other than zero.
LEMMA BelowOrder ==
    /\ \A k \in 1 .. ScalarOrder - 1 : k \in Nat /\ k % ScalarOrder = k /\ k % ScalarOrder # 0 /\ Times(k) \in Affine
    /\ \A k \in 0 .. ScalarOrder - 1 : k \in Nat /\ k % ScalarOrder = k
<1>1. \A k \in 0 .. ScalarOrder - 1 : k \in Nat /\ k % ScalarOrder = k
  BY OrderIs, ReducedIs
<1>2. \A k \in 1 .. ScalarOrder - 1 : k \in 0 .. ScalarOrder - 1 /\ k # 0
  BY OrderIs
<1>3. \A k \in 1 .. ScalarOrder - 1 : k \in Nat /\ k % ScalarOrder = k /\ k % ScalarOrder # 0
  BY <1>1, <1>2, Zenon
<1>4. \A k \in 1 .. ScalarOrder - 1 : Times(k) \in Affine
  BY <1>3, TimesIs
<1>. QED  BY <1>1, <1>3, <1>4

\* A scalar of the verification times s.
LEMMA QuotientIs ==
    ASSUME NEW u, NEW a \in 0 .. ScalarOrder - 1, inst \in Instances, inst.s # 0, IsQuotient(u, a)
    PROVE  LET v == ValueOf(u)
           IN  /\ v \in Nat /\ v \in 0 .. ScalarOrder - 1 /\ IsScalar(u, v) /\ v < Weight(NumWindows)
               /\ v = (a * ModInverse(ScalarOrder, inst.s)) % ScalarOrder
               /\ ModInverse(ScalarOrder, inst.s) \in Nat
               /\ (v * inst.s) % ScalarOrder = a
<1> DEFINE n == ScalarOrder
           s == inst.s
           c == ModInverse(n, s)
           w == (a * c) % n
<1>1. s \in 1 .. n - 1 /\ s \in Nat
  BY InstanceIs, OrderIs
<1>2. s % n = s /\ s % n # 0
  BY <1>1, BelowOrder
<1>3. c \in 0 .. n - 1 /\ (s * c) % n = 1
  <2>1. ModInverse(n, s % n) \in 0 .. n - 1 /\ ((s % n) * ModInverse(n, s % n)) % n = 1
    BY <1>1, <1>2, OrderIs, InverseIs
  <2>. QED  BY <1>2, <2>1
<1>4. IsScalar(u, w)
  BY DEF IsQuotient
<1>5. w \in 0 .. n - 1 /\ w \in Nat
  <2>1. w \in 0 .. n - 1
    BY <1>4 DEF IsScalar
  <2>. QED  BY <2>1, OrderIs
<1>6. ValueOf(u) = w /\ w < Weight(NumWindows)
  BY <1>4, ScalarIs, NumberIs, Weights
<1>7. c \in Nat /\ a \in Nat
  BY <1>3, OrderIs
<1>8. (w * s) % n = a
  <2> HIDE DEF s, c
  <2> DEFINE e == a * c
             f == w * s
             g == s * c
  <2>1. e \in Nat /\ f \in Nat /\ g \in Nat /\ a \in Int
    BY <1>1, <1>5, <1>7
  <2>2. PICK i \in Int : e = i * n + w
    <3> HIDE DEF e
    <3>1. e \in Int
      BY <2>1
    <3>2. \E i \in Int : e = i * n + (e % n)
      BY <3>1, OrderIs, RemainderOfInteger
    <3>. QED  BY <3>2 DEF e
  <2>3. PICK j \in Int : g = j * n + 1
    <3>1. g % n = 1
      BY <1>3
    <3> HIDE DEF g
    <3>2. g \in Int
      BY <2>1
    <3>3. \E j \in Int : g = j * n + (g % n)
      BY <3>2, OrderIs, RemainderOfInteger
    <3>. QED  BY <3>1, <3>3
  <2>4. f = (a * j - i * s) * n + a
    <3>1. f = s * (e - i * n)
      <4>1. w = e - i * n
        BY <1>5, <2>1, <2>2, OrderIs
      <4>. QED  BY <1>1, <1>5, <4>1
    <3>2. s * (e - i * n) = s * e - s * (i * n)
      BY <1>1, <2>1, OrderIs
    <3>3. s * e = a * g
      BY <1>1, <1>7
    <3>4. a * g = a * (j * n) + a
      BY <1>7, <2>3, OrderIs
    <3>5. (a * j - i * s) * n = a * (j * n) - s * (i * n)
      BY <1>1, <1>7, OrderIs
    <3> DEFINE x1 == s * (i * n)
               x2 == a * (j * n)
               x3 == s * e
    <3>6. x1 \in Int /\ x2 \in Int /\ x3 \in Int /\ x3 = x2 + a /\ f = x3 - x1 /\ (a * j - i * s) * n = x2 - x1
      <4>1. x1 \in Int /\ x2 \in Int /\ x3 \in Int
        BY <1>1, <1>7, <2>1, OrderIs
      <4>. QED  BY <3>1, <3>2, <3>3, <3>4, <3>5, <4>1
    <3> HIDE DEF x1, x2, x3, f
    <3>. QED  BY <2>1, <3>6
  <2> DEFINE k == a * j - i * s
  <2>5. k \in Int /\ f = k * n + a /\ f \in Int
    BY <1>1, <1>7, <2>1, <2>4
  <2> HIDE DEF k, f
  <2>6. f % n = a
    BY <2>5, OrderIs, RemainderUnique
  <2>. QED  BY <2>6 DEF f
<1>9. IsScalar(u, ValueOf(u))
  BY <1>4, <1>6
<1>. QED  BY <1>5, <1>6, <1>7, <1>8, <1>9

\* The digest's wiring.
LEMMA WireInv ==
    ASSUME IInv, WireDigest
    PROVE  IInv'
<1>1. CASE stage' = "stuck"
  BY <1>1, StuckInv DEF WireDigest
<1>2. CASE stage' = "key"
  <2>1. inst' = inst /\ stage' = "key" /\ step' = 0
    BY <1>2 DEF WireDigest, IInv, FixedInv
  <2>. QED  BY <2>1 DEF IInv, InstInv, ScalarsInv, FixedInv, TableInv, WindowedInv, VerdictIsNative, Stages,
                        Scaled, Tabled, Windowing
<1>. QED  BY <1>1, <1>2 DEF WireDigest

\* The key's check.
LEMMA KeyInv ==
    ASSUME IInv, AssertKeyValid
    PROVE  IInv'
<1>1. CASE stage' = "stuck"
  BY <1>1, StuckInv DEF AssertKeyValid
<1>2. CASE stage' = "scalars"
  <2>1. inst' = inst /\ stage' = "scalars" /\ step' = 0 /\ CurveAssertValid(Key) /\ inst \in Instances
    BY <1>2 DEF AssertKeyValid, IInv, FixedInv, InstInv
  <2>2. IsPoint(Key, inst.pk)
    BY <2>1, InstanceIs, VirtualPointIs DEF Key
  <2>3. OnCurve(inst.pk)
    BY <2>1, <2>2, AssertValidIs
  <2>. QED  BY <2>1, <2>3 DEF IInv, InstInv, ScalarsInv, FixedInv, TableInv, WindowedInv, VerdictIsNative, Stages,
                        Scaled, Tabled, Windowing
<1>. QED  BY <1>1, <1>2 DEF AssertKeyValid

\* A constant point of a multiple below the order.
LEMMA ConstantMultiple ==
    ASSUME NEW k \in Nat, k % ScalarOrder # 0
    PROVE  /\ IsMultiple(ConstantAffinePoint(Times(k)), k)
           /\ IsMultiple(ConstantAffinePoint(NegAffine(Times(k))), ScalarOrder - (k % ScalarOrder))
<1>1. Times(k) \in Affine
  BY TimesIs
<1>2. IsMultiple(ConstantAffinePoint(Times(k)), k)
  BY <1>1, ConstantPointIs DEF IsMultiple
<1>3. ScalarOrder - (k % ScalarOrder) \in Nat /\ NegAffine(Times(k)) = Times(ScalarOrder - (k % ScalarOrder))
  BY NegTimes
<1>4. NegAffine(Times(k)) \in Affine
  BY <1>1, NegAffineIs
<1>5. IsPoint(ConstantAffinePoint(NegAffine(Times(k))), NegAffine(Times(k)))
  BY <1>4, ConstantPointIs
<1>. QED  BY <1>2, <1>3, <1>5 DEF IsMultiple

\* u1 and u2.
LEMMA ScalarsStep ==
    ASSUME IInv, ComputeScalars
    PROVE  IInv'
<1> DEFINE n == ScalarOrder
           msg == ByteArrayToScalar(inst.digest)
           ci == ModInverse(n, inst.s)
           c == InvNonnative(n, Scalar(inst.s))
<1>1. CASE stage' = "stuck"
  BY <1>1, StuckInv DEF ComputeScalars
<1>2. CASE stage' # "stuck"
  <2>1. /\ stage = "scalars" /\ stage' = "fixed" /\ inst' = inst /\ step' = step
        /\ fixed' = ConstantAffinePoint(Times(FixedStart))
        /\ u1' = MulNonnative(n, Scalar(msg), c) /\ u2' = MulNonnative(n, Scalar(inst.r), c)
        /\ u1' # Stuck /\ u2' # Stuck
    BY <1>2 DEF ComputeScalars
  <2>2. inst \in Instances /\ step = 0
    BY <2>1 DEF IInv, InstInv, FixedInv
  <2>3. /\ msg \in 0 .. n - 1 /\ inst.r \in 0 .. n - 1 /\ inst.s \in 0 .. n - 1
        /\ inst.s \in Nat /\ msg \in Nat /\ inst.r \in Nat
    BY <2>2, InstanceIs
  <2>4. IsNumber(Scalar(msg), msg) /\ IsNumber(Scalar(inst.r), inst.r) /\ IsNumber(Scalar(inst.s), inst.s)
    <3> HIDE DEF msg
    <3>. QED  BY <2>3, ScalarIs
  <2>5. c # Stuck
    <3> HIDE DEF c
    <3>. QED  BY <2>1, StuckStays
  <2>6. inst.s % n = inst.s
    BY <2>3, BelowOrder
  <2>7. inst.s # 0 /\ IsNumber(c, ci)
    <3>1. inst.s % n # 0 /\ IsNumber(c, ModInverse(n, inst.s % n))
      BY <2>4, <2>5, OrderIs, InvIs
    <3>. QED  BY <2>6, <3>1
  <2>8. ci \in Nat
    BY <2>7, NumberIs
  <2> HIDE DEF msg, ci, c
  <2>9. ASSUME NEW a \in Nat, NEW x, IsNumber(x, a), MulNonnative(n, x, c) # Stuck
        PROVE  IsScalar(MulNonnative(n, x, c), (a * ci) % n)
    <3>1. MulNonnative(n, x, c) = LimbsOf(NumLimbs, (a * ci) % n)
      BY <2>7, <2>9, OrderIs, MulIs DEF NumLimbs
    <3> DEFINE e == a * ci
    <3>2. e \in Int
      BY <2>8
    <3> HIDE DEF e
    <3>3. e % n \in 0 .. n - 1
      BY <3>2, OrderIs, RemainderOfInteger
    <3>. QED  BY <3>1, <3>3 DEF IsScalar, e
  <2>10. IsScalar(u1', (msg * ci) % n) /\ IsScalar(u2', (inst.r * ci) % n)
    BY <2>1, <2>3, <2>4, <2>9
  <2>11. InstInv' /\ stage' \in Stages /\ VerdictIsNative'
    BY <2>1 DEF IInv, InstInv, VerdictIsNative, Stages, Scaled
  <2>12. ScalarsInv'
    BY <2>1, <2>7, <2>10 DEF ScalarsInv, IsQuotient, msg, ci
  <2>13. IsMultiple(fixed', FixedStart)
    <3>1. FixedStart \in 1 .. n - 1
      BY InstanceAssumption
    <3>2. FixedStart \in Nat /\ FixedStart % n # 0
      BY <3>1, BelowOrder
    <3>. QED  BY <2>1, <3>2, ConstantMultiple
  <2>14. FixedMultiple' = FixedStart
    <3>1. FixedMultiple' = FixedStart + (ValueOf(u1') % Weight(0))
      BY <2>1, <2>2 DEF FixedMultiple
    <3> DEFINE v == ValueOf(u1')
    <3>2. v \in Nat
      BY <2>10, ScalarIs, NumberIs
    <3> HIDE DEF v
    <3>3. v % 1 = 0 /\ FixedStart \in Nat
      <4>1. FixedStart \in Nat
        BY InstanceAssumption, BelowOrder
      <4>. QED  BY <3>2, <4>1
    <3>. QED  BY <3>1, <3>3, Weights DEF v
  <2>15. FixedInv'
    <3>1. step' = 0 /\ 0 \in 0 .. NumWindows
      BY <2>1, <2>2, Weights
    <3>. QED  BY <2>1, <2>13, <2>14, <3>1 DEF FixedInv
  <2>16. TableInv' /\ WindowedInv'
    BY <2>1 DEF TableInv, WindowedInv, Tabled, Windowing
  <2>. QED  BY <2>11, <2>12, <2>15, <2>16 DEF IInv
<1>. QED  BY <1>1, <1>2

\* What the loops' steps know of the scalars.
LEMMA ScalarFacts ==
    ASSUME IInv, stage \in Scaled
    PROVE  /\ inst \in Instances /\ inst.pk = Times(inst.sk) /\ OnCurve(inst.pk) /\ inst.s # 0
           /\ ValueOf(u1) \in Nat /\ IsScalar(u1, ValueOf(u1)) /\ ValueOf(u1) < Weight(NumWindows)
           /\ ValueOf(u1) \in 0 .. ScalarOrder - 1
           /\ ValueOf(u2) \in Nat /\ IsScalar(u2, ValueOf(u2)) /\ ValueOf(u2) < Weight(NumWindows)
           /\ (ValueOf(u1) * inst.s) % ScalarOrder = ByteArrayToScalar(inst.digest)
           /\ (ValueOf(u2) * inst.s) % ScalarOrder = inst.r
           /\ ModInverse(ScalarOrder, inst.s) \in Nat
           /\ ValueOf(u1) = (ByteArrayToScalar(inst.digest) * ModInverse(ScalarOrder, inst.s)) % ScalarOrder
           /\ ValueOf(u2) = (inst.r * ModInverse(ScalarOrder, inst.s)) % ScalarOrder
           /\ IsMultiple(fixed, FixedMultiple)
<1>1. inst \in Instances /\ inst.pk = Times(inst.sk) /\ OnCurve(inst.pk)
  BY DEF IInv, InstInv, Scaled
<1>2. inst.s # 0 /\ IsQuotient(u1, ByteArrayToScalar(inst.digest)) /\ IsQuotient(u2, inst.r)
  BY DEF IInv, ScalarsInv
<1>3. ByteArrayToScalar(inst.digest) \in 0 .. ScalarOrder - 1 /\ inst.r \in 0 .. ScalarOrder - 1
  BY <1>1, InstanceIs
<1> DEFINE h == ByteArrayToScalar(inst.digest)
           r == inst.r
<1> HIDE DEF h, r
<1>4. h \in 0 .. ScalarOrder - 1 /\ r \in 0 .. ScalarOrder - 1 /\ IsQuotient(u1, h) /\ IsQuotient(u2, r)
  BY <1>2, <1>3 DEF h, r
<1>5. /\ ValueOf(u1) \in Nat /\ IsScalar(u1, ValueOf(u1)) /\ ValueOf(u1) < Weight(NumWindows)
      /\ ValueOf(u1) \in 0 .. ScalarOrder - 1
      /\ (ValueOf(u1) * inst.s) % ScalarOrder = h /\ ModInverse(ScalarOrder, inst.s) \in Nat
      /\ ValueOf(u1) = (h * ModInverse(ScalarOrder, inst.s)) % ScalarOrder
  BY <1>1, <1>2, <1>4, QuotientIs
<1>6. /\ ValueOf(u2) \in Nat /\ IsScalar(u2, ValueOf(u2)) /\ ValueOf(u2) < Weight(NumWindows)
      /\ (ValueOf(u2) * inst.s) % ScalarOrder = r
      /\ ValueOf(u2) = (r * ModInverse(ScalarOrder, inst.s)) % ScalarOrder
  BY <1>1, <1>2, <1>4, QuotientIs
<1>7. IsMultiple(fixed, FixedMultiple)
  BY DEF IInv, FixedInv
<1>. QED  BY <1>1, <1>2, <1>5, <1>6, <1>7 DEF h, r

\* The point a window of the fixed-base product adds.
LEMMA FixedEntry ==
    ASSUME IInv, stage = "fixed", step < NumWindows
    PROVE  LET v == ValueOf(u1)
               d == Windows(u1)[step + 1]
               T == Weight(step)
               f == IF d = 0 THEN 1 ELSE d
           IN  /\ step \in 0 .. NumWindows - 1 /\ step \in Nat /\ NumWindows \in Nat
               /\ d \in 0 .. WindowSize - 1 /\ d \in Nat /\ f \in Nat /\ T \in Nat
               /\ v % Weight(step + 1) = (v % T) + d * T /\ v % T \in Nat
               /\ IsMultiple(RandomAccessCurvePoints(d, FixedMultiples(step + 1)), T * f)
<1> DEFINE n == ScalarOrder
           w == step
           v == ValueOf(u1)
           d == Windows(u1)[w + 1]
           T == Weight(w)
           m == FixedMultiples(w + 1)
           q == RandomAccessCurvePoints(d, m)
           f == IF d = 0 THEN 1 ELSE d
<1>1. stage = "fixed" /\ step < NumWindows
  OBVIOUS
<1>2. w \in 0 .. NumWindows - 1 /\ w \in Nat /\ NumWindows \in Nat
  <2>1. step \in 0 .. NumWindows
    BY <1>1 DEF IInv, FixedInv
  <2>. QED  BY <1>1, <2>1, Weights
<1>3. v \in Nat /\ IsScalar(u1, v) /\ IsMultiple(fixed, FixedMultiple)
  BY <1>1, ScalarFacts DEF Scaled
<1>4. d = (v \div T) % WindowSize
  BY <1>2, <1>3, WindowIs
<1> HIDE DEF v, w
<1>5. /\ d \in 0 .. WindowSize - 1 /\ v % Weight(w + 1) = (v % T) + d * T /\ v % T \in Nat
  BY <1>2, <1>3, <1>4, WindowStep
<1> HIDE DEF d
<1>6. WindowSize \in Nat /\ WindowSize > 1 /\ WindowSize < n /\ T \in Nat /\ T % n # 0
  BY <1>2, Weights
<1>7. f \in 1 .. n - 1 /\ f \in Nat /\ d \in Nat
  BY <1>5, <1>6, OrderIs
<1>8. T * f \in Nat /\ (T * f) % n # 0
  <2>1. f % n # 0
    BY <1>7, BelowOrder
  <2> HIDE DEF f, T
  <2>. QED  BY <1>6, <1>7, <2>1, ProductNonzero
<1>9. m[d + 1] = ConstantAffinePoint(Times(T * f))
  <2>1. d + 1 \in 1 .. WindowSize
    BY <1>5, <1>6
  <2>2. m = [t \in 1 .. WindowSize |-> ConstantAffinePoint(Times(T * (IF t = 1 THEN 1 ELSE t - 1)))]
    <3>1. (w + 1) - 1 = w
      BY <1>2
    <3>. QED  BY <3>1 DEF FixedMultiples
  <2>3. (IF d + 1 = 1 THEN 1 ELSE (d + 1) - 1) = f
    BY <1>7
  <2> DEFINE g == [t \in 1 .. WindowSize |-> ConstantAffinePoint(Times(T * (IF t = 1 THEN 1 ELSE t - 1)))]
  <2>4. g[d + 1] = ConstantAffinePoint(Times(T * (IF d + 1 = 1 THEN 1 ELSE (d + 1) - 1)))
    BY <2>1
  <2> HIDE DEF g, m, f
  <2>. QED  BY <2>2, <2>3, <2>4 DEF g
<1>10. IsMultiple(q, T * f)
  <2> DEFINE k == T * f
  <2> HIDE DEF k, m
  <2>1. IsMultiple(m[d + 1], k)
    BY <1>8, <1>9, ConstantMultiple DEF k
  <2>2. IsPoint(q, Times(k)) /\ k \in Nat
    BY <2>1, RandomAccessIs DEF IsMultiple
  <2>. QED  BY <2>2 DEF IsMultiple, k
<1>. QED  BY <1>2, <1>5, <1>6, <1>7, <1>10 DEF v, w, d

\* A window of the fixed-base product.
LEMMA FixedStep ==
    ASSUME IInv, FixedWindow
    PROVE  IInv'
<1> DEFINE n == ScalarOrder
           w == step
           v == ValueOf(u1)
           d == Windows(u1)[w + 1]
           T == Weight(w)
           m == FixedMultiples(w + 1)
           q == RandomAccessCurvePoints(d, m)
           f == IF d = 0 THEN 1 ELSE d
<1>1. CASE stage' = "stuck"
  BY <1>1, StuckInv DEF FixedWindow
<1>2. CASE stage' # "stuck"
  <2>1. /\ stage = "fixed" /\ stage' = "fixed" /\ step < NumWindows /\ step' = step + 1
        /\ inst' = inst /\ u1' = u1 /\ u2' = u2
        /\ fixed' = CurveConditionalAdd(fixed, q, d # 0) /\ ~IsStuck(fixed')
    BY <1>2 DEF FixedWindow
  <2>2. /\ w \in 0 .. NumWindows - 1 /\ w \in Nat /\ NumWindows \in Nat
        /\ d \in 0 .. WindowSize - 1 /\ d \in Nat /\ f \in Nat /\ T \in Nat
        /\ v % Weight(w + 1) = (v % T) + d * T /\ v % T \in Nat
        /\ IsMultiple(q, T * f)
    BY <2>1, FixedEntry
  <2>3. IsMultiple(fixed, FixedMultiple)
    BY <2>1, ScalarFacts DEF Scaled
  <2> HIDE DEF v, w, d
  <2> HIDE DEF q
  <2>11. IsMultiple(fixed', IF d # 0 THEN FixedMultiple + T * f ELSE FixedMultiple)
    <3> DEFINE a == FixedMultiple
               b == d # 0
               k == T * f
    <3> HIDE DEF a, b, k
    <3>1. fixed' = CurveConditionalAdd(fixed, q, b) /\ IsMultiple(fixed, a) /\ IsMultiple(q, k)
      BY <2>1, <2>2, <2>3 DEF a, b, k
    <3>2. IsMultiple(fixed', IF b THEN a + k ELSE a)
      BY <2>1, <3>1, ConditionalSum
    <3>. QED  BY <3>2 DEF a, b, k
  <2>12. FixedMultiple' = IF d # 0 THEN FixedMultiple + T * f ELSE FixedMultiple
    <3>1. FixedMultiple = FixedStart + (v % T)
      BY <2>1 DEF FixedMultiple, v, w
    <3>2. FixedMultiple' = FixedStart + (v % Weight(w + 1))
      BY <2>1 DEF FixedMultiple, v, w
    <3>3. FixedStart \in Nat
      BY InstanceAssumption, BelowOrder
    <3> DEFINE e == v % T
               g == v % Weight(w + 1)
    <3>4. g = e + d * T /\ e \in Nat /\ d \in Nat /\ f \in Nat /\ T \in Nat
      BY <2>2
    <3>5. FixedMultiple = FixedStart + e /\ FixedMultiple' = FixedStart + g
      BY <3>1, <3>2
    <3> HIDE DEF e, g, T
    <3>6. CASE d = 0
      <4>1. g = e
        BY <3>4, <3>6
      <4>. QED  BY <3>5, <3>6, <4>1
    <3>7. CASE d # 0
      <4>1. f = d /\ T * f = d * T /\ d * T \in Nat
        BY <3>4, <3>7
      <4> HIDE DEF f
      <4>2. FixedStart + g = (FixedStart + e) + T * f
        BY <3>3, <3>4, <4>1
      <4>. QED  BY <3>5, <3>7, <4>2
    <3>. QED  BY <3>6, <3>7
  <2>13. IsMultiple(fixed', FixedMultiple')
    BY <2>11, <2>12
  <2>14. step' \in 0 .. NumWindows
    BY <2>1, <2>2 DEF w
  <2>15. InstInv' /\ stage' \in Stages /\ VerdictIsNative' /\ ScalarsInv' /\ TableInv' /\ WindowedInv'
    BY <2>1 DEF IInv, InstInv, VerdictIsNative, Stages, Scaled, ScalarsInv, IsQuotient, TableInv, WindowedInv,
                Tabled, Windowing
  <2>16. FixedInv'
    BY <2>1, <2>13, <2>14 DEF FixedInv
  <2>. QED  BY <2>15, <2>16 DEF IInv
<1>. QED  BY <1>1, <1>2

\* Multiples that differ by multiples of the order are of one point.
LEMMA SameMultiple ==
    ASSUME NEW p, NEW a, IsMultiple(p, a), NEW b \in Nat, NEW k \in Int, a = b + k * ScalarOrder
    PROVE  IsMultiple(p, b)
<1>1. a \in Nat /\ a \in Int /\ b \in Int
  BY DEF IsMultiple
<1>2. Congruent(a, b, ScalarOrder)
  BY DEF Congruent
<1>3. a % ScalarOrder = b % ScalarOrder
  BY <1>1, <1>2, OrderIs, SameRemainder
<1>. QED  BY <1>3, MultipleIs

\* The table's multiples, entry by entry.
LEMMA TableMultipleIs ==
    /\ TableMultiple(1) = inst.blind
    /\ \A t \in Nat : t > 1 =>
         TableMultiple(t) = IF stage = "table" \/ (stage = "unblind" /\ t > step)
                            THEN inst.blind + (t - 1) * inst.sk ELSE (t - 1) * inst.sk
<1>1. TableMultiple(1) = inst.blind
  BY DEF TableMultiple
<1>2. ASSUME NEW t \in Nat, t > 1
      PROVE  TableMultiple(t) = IF stage = "table" \/ (stage = "unblind" /\ t > step)
                            THEN inst.blind + (t - 1) * inst.sk ELSE (t - 1) * inst.sk
  BY <1>2 DEF TableMultiple
<1>. QED  BY <1>1, <1>2

\* Its starting point subtracted.
LEMMA StartStep ==
    ASSUME IInv, SubtractFixedStart
    PROVE  IInv'
<1> DEFINE n == ScalarOrder
           v == ValueOf(u1)
           q == ConstantAffinePoint(NegAffine(Times(FixedStart)))
<1>1. CASE stage' = "stuck"
  BY <1>1, StuckInv DEF SubtractFixedStart
<1>2. CASE stage' # "stuck"
  <2>1. /\ stage = "fixed" /\ stage' = "table" /\ step = NumWindows /\ step' = 1
        /\ inst' = inst /\ u1' = u1 /\ u2' = u2
        /\ fixed' = CurveAdd(fixed, q) /\ ~IsStuck(fixed')
        /\ table' = <<ConstantAffinePoint(Times(inst.blind))>>
    BY <1>2 DEF SubtractFixedStart
  <2>2. v \in Nat /\ v < Weight(NumWindows) /\ IsMultiple(fixed, FixedMultiple) /\ inst \in Instances
    BY <2>1, ScalarFacts DEF Scaled
  <2>3. FixedMultiple = FixedStart + v /\ FixedMultiple' = v
    <3>1. FixedMultiple = FixedStart + (v % Weight(NumWindows)) /\ FixedMultiple' = v
      BY <2>1 DEF FixedMultiple
    <3> DEFINE T == Weight(NumWindows)
    <3>2. T \in Nat /\ T > 0 /\ v < T
      BY <2>2, Weights
    <3> HIDE DEF v, T
    <3>3. v % T = v
      <4>1. v \in 0 .. T - 1
        BY <2>2, <3>2
      <4>. QED  BY <3>2, <4>1, ReducedIs
    <3>. QED  BY <3>1, <3>3 DEF T
  <2>4. FixedStart \in Nat /\ FixedStart % n = FixedStart /\ FixedStart % n # 0
    BY InstanceAssumption, BelowOrder
  <2>5. IsMultiple(q, n - FixedStart)
    BY <2>4, ConstantMultiple
  <2> HIDE DEF v, q
  <2>6. IsMultiple(fixed', FixedMultiple')
    <3> DEFINE a == FixedStart + v
               b == n - FixedStart
    <3>1. IsMultiple(fixed, a) /\ IsMultiple(q, b)
      BY <2>2, <2>3, <2>5
    <3>2. a + b = v + 1 * n
      BY <2>2, <2>4, OrderIs
    <3> HIDE DEF a, b
    <3>3. IsMultiple(fixed', a + b)
      BY <2>1, <3>1, SumOfMultiples
    <3>4. IsMultiple(fixed', v)
      BY <2>2, <3>2, <3>3, SameMultiple
    <3>. QED  BY <2>3, <3>4
  <2>7. TableInv'
    <3>1. inst.blind \in Nat /\ inst.blind % n # 0
      BY <2>2, InstanceIs, BelowOrder
    <3> DEFINE e == ConstantAffinePoint(Times(inst.blind))
    <3>2. IsMultiple(e, inst.blind)
      BY <3>1, ConstantMultiple
    <3>3. table' = <<e>>
      BY <2>1
    <3> HIDE DEF e
    <3>4. Len(table') = 1 /\ table'[1] = e /\ table' = [t \in 1 .. 1 |-> table'[t]]
      BY <3>3
    <3>5. IsSequence(table')
      BY <3>4 DEF IsSequence
    <3>6. TableMultiple(1)' = inst.blind
      BY <2>1 DEF TableMultiple
    <3>7. \A t \in 1 .. Len(table') : IsMultiple(table'[t], TableMultiple(t)')
      <4>1. \A t \in 1 .. Len(table') : t = 1
        BY <3>4
      <4>. QED  BY <3>2, <3>4, <3>6, <4>1
    <3>8. 1 \in 1 .. WindowSize
      BY Weights
    <3>. QED  BY <2>1, <3>4, <3>5, <3>7, <3>8 DEF TableInv, Tabled, Scaled
  <2>8. InstInv' /\ stage' \in Stages /\ VerdictIsNative' /\ ScalarsInv' /\ WindowedInv'
    BY <2>1 DEF IInv, InstInv, VerdictIsNative, Stages, Scaled, ScalarsInv, IsQuotient, WindowedInv,
                Tabled, Windowing
  <2>9. FixedInv'
    BY <2>1, <2>6 DEF FixedInv
  <2>. QED  BY <2>7, <2>8, <2>9 DEF IInv
<1>. QED  BY <1>1, <1>2

\* The scalars and the fixed-base product stay through the later stages.
LEMMA Unchanged ==
    ASSUME IInv, stage \in Tabled, stage' \in Tabled, inst' = inst, u1' = u1, u2' = u2, fixed' = fixed
    PROVE  InstInv' /\ stage' \in Stages /\ VerdictIsNative' /\ ScalarsInv' /\ FixedInv'
<1>1. InstInv' /\ stage' \in Stages /\ VerdictIsNative' /\ ScalarsInv'
  BY DEF IInv, InstInv, VerdictIsNative, Stages, Scaled, ScalarsInv, IsQuotient, Tabled
<1>2. FixedMultiple' = FixedMultiple
  BY DEF FixedMultiple, Tabled, Scaled
<1>3. IsMultiple(fixed', FixedMultiple')
  <2>1. IsMultiple(fixed, FixedMultiple)
    BY DEF IInv, FixedInv, Tabled
  <2>. QED  BY <1>2, <2>1
<1>4. stage' \notin {"wire", "key", "scalars", "fixed"}
  BY DEF Tabled, Scaled
<1>. QED  BY <1>1, <1>3, <1>4 DEF FixedInv

\* The key and the blinding multiple, once the key is valid.
LEMMA KeyIs ==
    ASSUME IInv, stage \in Scaled
    PROVE  IsMultiple(Key, inst.sk) /\ inst.sk \in Nat /\ inst.blind \in Nat
<1>1. inst \in Instances /\ inst.pk = Times(inst.sk)
  BY ScalarFacts
<1>2. inst.sk \in 1 .. ScalarOrder - 1 /\ inst.sk \in Nat /\ inst.pk \in Affine /\ inst.blind \in Nat
  BY <1>1, InstanceIs
<1>3. IsPoint(Key, inst.pk)
  BY <1>2, VirtualPointIs DEF Key
<1>. QED  BY <1>1, <1>2, <1>3 DEF IsMultiple

\* A sequence is a function of its positions.
LEMMA SequenceIs ==
    ASSUME NEW S, NEW s \in Seq(S)
    PROVE  IsSequence(s)
BY DEF IsSequence

\* One entry more.
LEMMA AppendIs ==
    ASSUME NEW s, IsSequence(s), NEW e
    PROVE  LET r == Append(s, e)
               n == Len(s)
           IN  Len(r) = n + 1 /\ r[n + 1] = e /\ (\A t \in 1 .. n : r[t] = s[t]) /\ IsSequence(r)
<1> DEFINE n == Len(s)
           S == {s[t] : t \in 1 .. n} \cup {e}
<1>1. n \in Nat /\ s = [t \in 1 .. n |-> s[t]]
  BY DEF IsSequence
<1> HIDE DEF n
<1>2. [t \in 1 .. n |-> s[t]] \in Seq(S)
  BY <1>1
<1>3. s \in Seq(S) /\ e \in S
  BY <1>1, <1>2
<1> HIDE DEF S
<1>4. Append(s, e) \in Seq(S) /\ Len(Append(s, e)) = n + 1
  BY <1>1, <1>3 DEF n
<1>5. Append(s, e)[n + 1] = e /\ \A t \in 1 .. n : Append(s, e)[t] = s[t]
  BY <1>1, <1>3 DEF n
<1>6. IsSequence(Append(s, e))
  BY <1>4, SequenceIs
<1>. QED  BY <1>4, <1>5, <1>6 DEF n

\* One entry changed.
LEMMA ChangedIs ==
    ASSUME NEW s, IsSequence(s), NEW i \in 1 .. Len(s), NEW e
    PROVE  LET r == [s EXCEPT ![i] = e]
               n == Len(s)
           IN  Len(r) = n /\ r[i] = e /\ (\A t \in 1 .. n : t # i => r[t] = s[t]) /\ IsSequence(r)
<1> DEFINE n == Len(s)
           S == {s[t] : t \in 1 .. n} \cup {e}
           r == [s EXCEPT ![i] = e]
<1>1. n \in Nat /\ s = [t \in 1 .. n |-> s[t]] /\ i \in 1 .. n
  BY DEF IsSequence
<1> HIDE DEF n
<1>2. [t \in 1 .. n |-> s[t]] \in Seq(S)
  BY <1>1
<1>3. s \in Seq(S) /\ e \in S
  BY <1>1, <1>2
<1> HIDE DEF S
<1>4. r \in Seq(S) /\ Len(r) = n
  BY <1>1, <1>3 DEF n
<1>5. r[i] = e /\ \A t \in 1 .. n : t # i => r[t] = s[t]
  BY <1>1, <1>3 DEF n
<1>6. IsSequence(r)
  BY <1>4, SequenceIs
<1>. QED  BY <1>4, <1>5, <1>6 DEF n

\* An entry of the table.
LEMMA ExtendStep ==
    ASSUME IInv, ExtendTable
    PROVE  IInv'
<1> DEFINE sk == inst.sk
           b == inst.blind
           l == Last(table)
           e == CurveAdd(Key, l)
<1>0. PICK i : i = step
  OBVIOUS
<1>1. table' = Append(table, e) /\ stage = "table" /\ i < WindowSize
  BY <1>0 DEF ExtendTable
<1>2. /\ i = Len(table) /\ i \in 1 .. WindowSize /\ i \in Nat /\ IsSequence(table)
      /\ \A t \in 1 .. Len(table) : IsMultiple(table[t], TableMultiple(t))
  BY <1>0, <1>1, Weights DEF IInv, TableInv, Tabled, Scaled
<1> HIDE DEF e
<1>3. /\ Len(table') = i + 1 /\ table'[i + 1] = e /\ \A t \in 1 .. i : table'[t] = table[t]
      /\ IsSequence(table')
  BY <1>1, <1>2, AppendIs
<1>4. CASE stage' = "stuck"
  BY <1>4, StuckInv DEF ExtendTable
<1>5. CASE stage' # "stuck"
  <2>1. stage' = "table" /\ ~IsStuck(Last(table')) /\ i < WindowSize /\ step' = i + 1
        /\ inst' = inst /\ u1' = u1 /\ u2' = u2 /\ fixed' = fixed
    BY <1>0, <1>1, <1>5 DEF ExtendTable
  <2>2. Last(table') = e
    BY <1>3 DEF Last
  <2>3. IsMultiple(Key, sk) /\ sk \in Nat /\ b \in Nat
    BY <1>1, KeyIs DEF Scaled
  <2>4. IsMultiple(l, b + (i - 1) * sk)
    <3>1. l = table[i] /\ i \in 1 .. Len(table)
      BY <1>2 DEF Last
    <3>2. TableMultiple(i) = b + (i - 1) * sk
      <4>1. CASE i = 1
        <5>1. TableMultiple(i) = b
          BY <4>1, TableMultipleIs
        <5>2. b + (i - 1) * sk = b
          BY <2>3, <4>1
        <5>. QED  BY <5>1, <5>2
      <4>2. CASE i > 1
        BY <1>1, <1>2, <4>2, TableMultipleIs
      <4>. QED  BY <1>2, <4>1, <4>2
    <3>. QED  BY <1>2, <3>1, <3>2
  <2> HIDE DEF sk, b, l
  <2>5. IsMultiple(e, b + i * sk)
    <3> DEFINE a == b + (i - 1) * sk
    <3>1. sk + a = b + i * sk
      BY <1>2, <2>3
    <3> HIDE DEF a
    <3>2. IsMultiple(e, sk + a)
      BY <2>1, <2>2, <2>3, <2>4, SumOfMultiples DEF e, a
    <3>. QED  BY <3>1, <3>2
  <2>6. ASSUME NEW t \in 1 .. Len(table')
        PROVE  IsMultiple(table'[t], TableMultiple(t)')
    <3>1. CASE t = i + 1
      <4>1. TableMultiple(i + 1)' = b + i * sk
        <5>1. i + 1 # 1 /\ i + 1 > 1 /\ (i + 1) - 1 = i
          BY <1>2
        <5> DEFINE j == i + 1
        <5> HIDE DEF j
        <5>2. j # 1 /\ j > 1 /\ j - 1 = i
          BY <5>1 DEF j
        <5>3. TableMultiple(j)' = b + (j - 1) * sk
          BY <2>1, <5>2 DEF TableMultiple, b, sk
        <5>. QED  BY <5>2, <5>3 DEF j
      <4>. QED  BY <1>3, <2>5, <3>1, <4>1
    <3>2. CASE t # i + 1
      <4>1. t \in 1 .. i /\ t \in 1 .. Len(table)
        BY <1>2, <1>3, <3>2
      <4>2. TableMultiple(t)' = TableMultiple(t)
        BY <1>1, <2>1 DEF TableMultiple
      <4>. QED  BY <1>2, <1>3, <4>1, <4>2
    <3>. QED  BY <3>1, <3>2
  <2>7. step' = i + 1 /\ i + 1 \in 1 .. WindowSize
    <3>1. WindowSize \in Nat
      BY Weights
    <3>. QED  BY <1>2, <2>1, <3>1
  <2>8. TableInv'
    BY <1>3, <2>1, <2>6, <2>7 DEF TableInv, Tabled, Scaled
  <2>9. InstInv' /\ stage' \in Stages /\ VerdictIsNative' /\ ScalarsInv' /\ FixedInv'
    BY <1>1, <2>1, Unchanged DEF Tabled, Scaled
  <2>10. WindowedInv'
    BY <2>1 DEF WindowedInv, Windowing
  <2>. QED  BY <2>8, <2>9, <2>10 DEF IInv
<1>. QED  BY <1>4, <1>5

\* The table is complete.
LEMMA StartUnblindingStep ==
    ASSUME IInv, StartUnblinding
    PROVE  IInv'
<1>1. /\ stage = "table" /\ step = WindowSize /\ stage' = "unblind" /\ step' = 1
      /\ inst' = inst /\ u1' = u1 /\ u2' = u2 /\ fixed' = fixed /\ table' = table
  BY DEF StartUnblinding
<1>2. /\ Len(table) = WindowSize /\ IsSequence(table)
      /\ \A t \in 1 .. Len(table) : IsMultiple(table[t], TableMultiple(t))
  BY <1>1 DEF IInv, TableInv, Tabled, Scaled
<1>3. \A t \in 1 .. Len(table) : TableMultiple(t)' = TableMultiple(t)
  <2> TAKE t \in 1 .. Len(table)
  <2>1. t \in Nat /\ (t = 1 \/ t > 1)
    BY <1>2, Weights
  <2>. QED  BY <1>1, <2>1 DEF TableMultiple
<1>4. 1 \in 1 .. WindowSize
  BY Weights
<1>5. TableInv'
  BY <1>1, <1>2, <1>3, <1>4 DEF TableInv, Tabled, Scaled, IsSequence
<1>6. InstInv' /\ stage' \in Stages /\ VerdictIsNative' /\ ScalarsInv' /\ FixedInv'
  BY <1>1, Unchanged DEF Tabled, Scaled
<1>7. WindowedInv'
  BY <1>1 DEF WindowedInv, Windowing
<1>. QED  BY <1>5, <1>6, <1>7 DEF IInv

\* An entry without the blinding point.
LEMMA UnblindStep ==
    ASSUME IInv, UnblindTable
    PROVE  IInv'
<1> DEFINE n == ScalarOrder
           sk == inst.sk
           b == inst.blind
           q == ConstantAffinePoint(NegAffine(Times(b)))
<1>0. PICK i : i = step
  OBVIOUS
<1>1. stage = "unblind" /\ i < WindowSize /\ table' = [table EXCEPT ![i + 1] = CurveAdd(q, table[i + 1])]
  BY <1>0 DEF UnblindTable
<1>2. /\ i \in 1 .. WindowSize /\ i \in Nat /\ IsSequence(table) /\ Len(table) = WindowSize
      /\ WindowSize \in Nat
      /\ \A t \in 1 .. Len(table) : IsMultiple(table[t], TableMultiple(t))
  BY <1>0, <1>1, Weights DEF IInv, TableInv, Tabled, Scaled
<1> DEFINE e == CurveAdd(q, table[i + 1])
<1>3. i + 1 \in 1 .. WindowSize /\ i + 1 \in Nat /\ i + 1 > 1 /\ (i + 1) - 1 = i
  BY <1>1, <1>2
<1>4. /\ Len(table') = WindowSize /\ table'[i + 1] = e
      /\ \A t \in 1 .. WindowSize : t # i + 1 => table'[t] = table[t]
      /\ IsSequence(table')
  <2>1. table' = [table EXCEPT ![i + 1] = e] /\ i + 1 \in 1 .. Len(table)
    BY <1>1, <1>2, <1>3
  <2> HIDE DEF e
  <2> DEFINE j == i + 1
  <2> HIDE DEF j
  <2>2. j \in 1 .. Len(table) /\ table' = [table EXCEPT ![j] = e]
    BY <2>1 DEF j
  <2> DEFINE r == [table EXCEPT ![j] = e]
  <2>3. /\ Len(r) = Len(table) /\ r[j] = e /\ (\A t \in 1 .. Len(table) : t # j => r[t] = table[t])
        /\ IsSequence(r)
    <3>1. j \in 1 .. Len(table)
      BY <2>2
    <3>2. IsSequence(table)
      BY <1>2
    <3>. QED  BY <3>1, <3>2, ChangedIs, Zenon
  <2> HIDE DEF r
  <2>4. table' = r
    BY <2>2 DEF r
  <2>. QED  BY <1>2, <2>3, <2>4 DEF j
<1>5. CASE stage' = "stuck"
  BY <1>5, StuckInv DEF UnblindTable
<1>6. CASE stage' # "stuck"
  <2>1. stage' = "unblind" /\ ~IsStuck(table'[i + 1]) /\ step' = i + 1
        /\ inst' = inst /\ u1' = u1 /\ u2' = u2 /\ fixed' = fixed
    BY <1>0, <1>1, <1>6 DEF UnblindTable
  <2>2. sk \in Nat /\ b \in Nat /\ inst \in Instances
    BY <1>1, KeyIs, ScalarFacts DEF Scaled
  <2>3. b \in 1 .. n - 1 /\ b % n = b /\ b % n # 0
    BY <2>2, InstanceIs, BelowOrder
  <2>4. IsMultiple(q, n - b)
    BY <2>2, <2>3, ConstantMultiple
  <2>5. IsMultiple(table[i + 1], b + i * sk)
    <3>1. i + 1 > step
      BY <1>0, <1>2
    <3> DEFINE j == i + 1
    <3>2. j \in Nat /\ j > 1 /\ j > step /\ j - 1 = i /\ j \in 1 .. Len(table)
      BY <1>2, <1>3, <3>1
    <3> HIDE DEF j, sk, b
    <3>3. TableMultiple(j) = b + i * sk
      BY <1>1, <3>2, TableMultipleIs DEF sk, b
    <3>4. IsMultiple(table[j], TableMultiple(j))
      BY <1>2, <3>2
    <3>. QED  BY <3>3, <3>4 DEF j
  <2> HIDE DEF q, sk, b
  <2>6. IsMultiple(e, i * sk)
    <3> DEFINE a == b + i * sk
               c == n - b
               f == i * sk
    <3>1. c + a = f + 1 * n /\ f \in Nat
      BY <1>2, <2>2, OrderIs
    <3> HIDE DEF a, c, f
    <3>2. IsMultiple(e, c + a)
      BY <1>4, <2>1, <2>4, <2>5, SumOfMultiples DEF a, c
    <3> HIDE DEF e
    <3>3. IsMultiple(e, f)
      BY <3>1, <3>2, SameMultiple
    <3>. QED  BY <3>3 DEF f
  <2>7. ASSUME NEW t \in 1 .. Len(table')
        PROVE  IsMultiple(table'[t], TableMultiple(t)')
    <3>0. t \in Nat /\ t \in 1 .. WindowSize /\ t \in 1 .. Len(table)
      BY <1>2, <1>4
    <3>1. CASE t = i + 1
      <4>1. t # 1 /\ t > 1 /\ t - 1 = i /\ ~(t > step')
        BY <1>2, <1>3, <2>1, <3>1
      <4>2. TableMultiple(t)' = (t - 1) * sk
        BY <2>1, <4>1 DEF TableMultiple, sk
      <4>3. table'[t] = e
        BY <1>4, <3>1
      <4>. QED  BY <2>6, <4>1, <4>2, <4>3
    <3>2. CASE t # i + 1
      <4>1. t > step' <=> t > step
        BY <1>0, <1>2, <2>1, <3>0, <3>2
      <4>2. TableMultiple(t)' = TableMultiple(t)
        BY <1>1, <2>1, <4>1 DEF TableMultiple
      <4>. QED  BY <1>2, <1>4, <3>0, <3>2, <4>2
    <3>. QED  BY <3>1, <3>2
  <2>8. TableInv'
    BY <1>3, <1>4, <2>1, <2>7 DEF TableInv, Tabled, Scaled
  <2>9. InstInv' /\ stage' \in Stages /\ VerdictIsNative' /\ ScalarsInv' /\ FixedInv'
    BY <1>1, <2>1, Unchanged DEF Tabled, Scaled
  <2>10. WindowedInv'
    BY <2>1 DEF WindowedInv, Windowing
  <2>. QED  BY <2>8, <2>9, <2>10 DEF IInv
<1>. QED  BY <1>5, <1>6

\* Once unblinded the table holds the key's multiples, the first entry apart.
LEMMA TableIs ==
    ASSUME IInv, stage \in {"unblind", "windowed"}, stage = "unblind" => step = WindowSize
    PROVE  /\ Len(table) = WindowSize /\ WindowSize \in Nat /\ IsSequence(table)
           /\ \A t \in 1 .. WindowSize :
                 /\ TableMultiple(t) = IF t = 1 THEN inst.blind ELSE (t - 1) * inst.sk
                 /\ IsMultiple(table[t], TableMultiple(t))
<1>1. /\ Len(table) = WindowSize /\ WindowSize \in Nat /\ IsSequence(table)
      /\ \A t \in 1 .. WindowSize : IsMultiple(table[t], TableMultiple(t))
  BY Weights DEF IInv, TableInv, Tabled, Scaled
<1>2. ASSUME NEW t \in 1 .. WindowSize
      PROVE  TableMultiple(t) = IF t = 1 THEN inst.blind ELSE (t - 1) * inst.sk
  <2>1. t \in Nat /\ (t = 1 \/ t > 1) /\ ~(t > WindowSize)
    BY <1>1
  <2>. QED  BY <2>1 DEF TableMultiple
<1>. QED  BY <1>1, <1>2

\* And it stays so.
LEMMA TableStays ==
    ASSUME IInv, stage \in {"unblind", "windowed"}, stage = "unblind" => step = WindowSize,
           stage' \in Windowing, inst' = inst, table' = table
    PROVE  TableInv'
<1>1. /\ Len(table) = WindowSize /\ WindowSize \in Nat /\ IsSequence(table)
      /\ \A t \in 1 .. WindowSize :
            /\ TableMultiple(t) = IF t = 1 THEN inst.blind ELSE (t - 1) * inst.sk
            /\ IsMultiple(table[t], TableMultiple(t))
  BY TableIs
<1>2. ASSUME NEW t \in 1 .. WindowSize
      PROVE  IsMultiple(table[t], TableMultiple(t)')
  <2>1. t \in Nat /\ (t = 1 \/ t > 1)
    BY <1>1
  <2>2. stage' # "table" /\ stage' # "unblind"
    BY DEF Windowing
  <2>3. TableMultiple(t)' = IF t = 1 THEN inst.blind ELSE (t - 1) * inst.sk
    BY <2>1, <2>2 DEF TableMultiple
  <2>. QED  BY <1>1, <2>3
<1>3. stage' \notin {"table", "unblind"}
  BY DEF Windowing
<1>4. \A t \in 1 .. Len(table') : IsMultiple(table'[t], TableMultiple(t)')
  BY <1>1, <1>2
<1>. QED  BY <1>1, <1>3, <1>4 DEF TableInv, IsSequence

\* The windowed product's starting point.
LEMMA StartWindowsStep ==
    ASSUME IInv, StartWindows
    PROVE  IInv'
<1>1. /\ stage = "unblind" /\ step = WindowSize /\ stage' = "windowed" /\ step' = NumWindows
      /\ inst' = inst /\ u1' = u1 /\ u2' = u2 /\ fixed' = fixed /\ table' = table
      /\ windowed' = ConstantAffinePoint(Times(WindowedStart))
  BY DEF StartWindows
<1>2. InstInv' /\ stage' \in Stages /\ VerdictIsNative' /\ ScalarsInv' /\ FixedInv'
  BY <1>1, Unchanged DEF Tabled, Scaled
<1>3. TableInv'
  BY <1>1, TableStays DEF Windowing
<1> DEFINE v == ValueOf(u2)
           T == Weight(NumWindows)
<1>4. v \in Nat /\ v < T /\ inst.sk \in Nat
  BY <1>1, ScalarFacts, KeyIs DEF Scaled
<1>5. WindowedStart \in Nat /\ WindowedStart % ScalarOrder # 0
  BY InstanceAssumption, BelowOrder
<1>6. WindowedMultiple' = WindowedStart
  <2>1. WindowedMultiple' = WindowedStart * Weight(NumWindows - NumWindows) + (v \div T) * inst.sk
    BY <1>1 DEF WindowedMultiple
  <2>2. NumWindows - NumWindows = 0 /\ T \in Nat /\ T > 0
    BY Weights
  <2> HIDE DEF v, T
  <2>3. v \div T = 0
    <3>1. v < 1 * T
      BY <1>4, <2>2
    <3>2. v \div T \in 0 .. 1 - 1
      BY <1>4, <2>2, <3>1, Divided
    <3>. QED  BY <3>2
  <2>4. Weight(NumWindows - NumWindows) = 1
    BY <2>2, Weights
  <2>. QED  BY <1>4, <1>5, <2>1, <2>3, <2>4
<1>7. IsMultiple(windowed', WindowedMultiple')
  BY <1>1, <1>5, <1>6, ConstantMultiple
<1>8. NumWindows \in 0 .. NumWindows
  BY Weights
<1>9. WindowedInv'
  BY <1>1, <1>7, <1>8 DEF WindowedInv
<1>. QED  BY <1>2, <1>3, <1>9 DEF IInv

\* What a window of it adds to the doubled sum.
LEMMA WindowEntry ==
    ASSUME IInv, stage = "windowed", step > 0
    PROVE  LET v == ValueOf(u2)
               d == Windows(u2)[step]
               kd == IF d = 0 THEN inst.blind ELSE d * inst.sk
           IN  /\ step \in 1 .. NumWindows /\ NumWindows \in Nat /\ IsMultiple(windowed, WindowedMultiple)
               /\ v \in Nat /\ inst.sk \in Nat /\ inst.blind \in Nat
               /\ d \in 0 .. WindowSize - 1
               /\ v \div Weight(step - 1) = (v \div Weight(step)) * WindowSize + d
               /\ IsMultiple(RandomAccessCurvePoints(d, table), kd)
<1> DEFINE N == NumWindows
           v == ValueOf(u2)
           sk == inst.sk
           M == WindowedMultiple
           W == WindowSize
<1>0. PICK i : i = step
  OBVIOUS
<1> DEFINE d == Windows(u2)[i]
           q == RandomAccessCurvePoints(d, table)
           kd == IF d = 0 THEN inst.blind ELSE d * sk
<1>1. stage = "windowed" /\ i > 0
  BY <1>0
<1>2. i \in 1 .. N /\ N \in Nat /\ IsMultiple(windowed, M)
  <2>1. step \in 0 .. NumWindows /\ IsMultiple(windowed, WindowedMultiple)
    BY <1>1 DEF IInv, WindowedInv, Windowing
  <2>2. N \in Nat
    BY Weights
  <2>. QED  BY <1>0, <1>1, <2>1, <2>2
<1>3. v \in Nat /\ IsScalar(u2, v) /\ sk \in Nat /\ inst.blind \in Nat
  BY <1>1, ScalarFacts, KeyIs DEF Scaled
<1> DEFINE w == i - 1
<1>4. w \in 0 .. N - 1 /\ w \in Nat /\ w + 1 = i
  BY <1>2
<1> HIDE DEF w
<1>5. d = (v \div Weight(w)) % W
  <2>1. Windows(u2)[w + 1] = (v \div Weight(w)) % W
    BY <1>3, <1>4, WindowIs
  <2>. QED  BY <1>4, <2>1
<1> HIDE DEF v
<1>6. d \in 0 .. W - 1 /\ v \div Weight(w) = (v \div Weight(i)) * W + d
  <2>1. /\ (v \div Weight(w)) % W \in 0 .. W - 1
        /\ v \div Weight(w) = (v \div Weight(w + 1)) * W + ((v \div Weight(w)) % W)
    BY <1>3, <1>4, WindowStep
  <2>. QED  BY <1>4, <1>5, <2>1
<1> HIDE DEF d
<1>7. W \in Nat /\ W > 1
  BY Weights
<1>8. IsMultiple(q, kd)
  <2>1. d + 1 \in 1 .. W /\ (d + 1 = 1 <=> d = 0) /\ (d + 1) - 1 = d
    BY <1>6, <1>7
  <2> DEFINE j == d + 1
  <2> HIDE DEF j
  <2>2. IsMultiple(table[j], IF j = 1 THEN inst.blind ELSE (j - 1) * inst.sk)
    <3>1. j \in 1 .. WindowSize
      BY <2>1 DEF j
    <3>. QED  BY <1>1, <3>1, TableIs
  <2>3. IsMultiple(table[d + 1], kd)
    BY <2>1, <2>2 DEF j
  <2> HIDE DEF kd, j
  <2>4. IsPoint(q, Times(kd)) /\ kd \in Nat
    BY <2>3, RandomAccessIs DEF IsMultiple
  <2>. QED  BY <2>4 DEF IsMultiple
<1>. QED  BY <1>0, <1>2, <1>3, <1>6, <1>8 DEF w, v, d

\* A window of it.
LEMMA WindowAdded ==
    ASSUME IInv, AddWindow
    PROVE  IInv'
<1> DEFINE n == ScalarOrder
           N == NumWindows
           v == ValueOf(u2)
           sk == inst.sk
           M == WindowedMultiple
           W == WindowSize
           S == WindowedStart
<1>0. PICK i : i = step
  OBVIOUS
<1> DEFINE d == Windows(u2)[i]
           q == RandomAccessCurvePoints(d, table)
           kd == IF d = 0 THEN inst.blind ELSE d * sk
<1>1. CASE stage' = "stuck"
  BY <1>1, StuckInv DEF AddWindow
<1>2. CASE stage' # "stuck"
  <2>1. /\ stage = "windowed" /\ stage' = "windowed" /\ i > 0 /\ step' = i - 1
        /\ windowed' = CurveConditionalAdd(Doubled(windowed), q, d # 0) /\ ~IsStuck(windowed')
        /\ inst' = inst /\ u1' = u1 /\ u2' = u2 /\ fixed' = fixed /\ table' = table
    BY <1>0, <1>2 DEF AddWindow
  <2>2. /\ i \in 1 .. N /\ N \in Nat /\ IsMultiple(windowed, M)
        /\ v \in Nat /\ sk \in Nat /\ inst.blind \in Nat
        /\ d \in 0 .. W - 1 /\ v \div Weight(i - 1) = (v \div Weight(i)) * W + d
        /\ IsMultiple(q, kd)
    BY <1>0, <2>1, WindowEntry
  <2>3. v \in Nat /\ sk \in Nat /\ inst.blind \in Nat
    BY <2>2
  <2> DEFINE w == i - 1
  <2>4. w \in 0 .. N - 1 /\ w \in Nat /\ w + 1 = i
    BY <2>2
  <2>6. d \in 0 .. W - 1 /\ v \div Weight(w) = (v \div Weight(i)) * W + d
    BY <2>2
  <2> HIDE DEF w, v, d
  <2>7. W \in Nat /\ W > 1
    BY Weights
  <2>8. IsMultiple(q, kd)
    BY <2>2
  <2> HIDE DEF q, kd, M
  <2>9. IsMultiple(windowed', IF d # 0 THEN W * M + kd ELSE W * M)
    <3> DEFINE p == Doubled(windowed)
               b == d # 0
               a == W * M
    <3>1. p = StuckPoint \/ IsMultiple(p, a)
      BY <2>2, DoubledIs
    <3>2. windowed' = CurveConditionalAdd(p, q, b)
      BY <2>1
    <3> HIDE DEF p, b, a
    <3>3. IsMultiple(p, a) \/ IsStuck(p)
      BY <3>1 DEF IsStuck, StuckPoint
    <3>4. IsMultiple(windowed', IF b THEN a + kd ELSE a)
      BY <2>1, <2>8, <3>2, <3>3, ConditionalSum
    <3>. QED  BY <3>4 DEF a, b
  <2>10. WindowedMultiple' = W * M + d * sk
    <3>1. M = S * Weight(N - i) + (v \div Weight(i)) * sk
      BY <1>0, <2>1 DEF M, WindowedMultiple, v
    <3>2. WindowedMultiple' = S * Weight(N - w) + (v \div Weight(w)) * sk
      BY <2>1 DEF WindowedMultiple, v, w
    <3> DEFINE T == Weight(N - i)
               x == v \div Weight(i)
               y == v \div Weight(w)
    <3>3. N - i \in Nat /\ N - w = (N - i) + 1 /\ i \in Nat
      BY <2>2, <2>4
    <3>4. T \in Nat /\ Weight(N - w) = T * W
      BY <3>3, Weights
    <3>5. x \in Nat /\ y = x * W + d
      <4>1. x \in Nat
        BY <2>3, <3>3, WindowStep
      <4>. QED  BY <2>6, <4>1
    <3>6. S \in Nat /\ d \in Nat
      BY <2>6, <2>7, InstanceAssumption, BelowOrder
    <3> HIDE DEF T, x, y, S, sk, W, N
    <3>7. S * (T * W) + (x * W + d) * sk = W * (S * T + x * sk) + d * sk
      <4>1. (x * W + d) * sk = W * (x * sk) + d * sk
        BY <2>3, <2>7, <3>5, <3>6
      <4>2. S * (T * W) = W * (S * T)
        BY <2>7, <3>4, <3>6
      <4>3. W * (S * T + x * sk) = W * (S * T) + W * (x * sk)
        BY <2>3, <2>7, <3>4, <3>5, <3>6
      <4> DEFINE e1 == W * (S * T)
                 e2 == W * (x * sk)
                 e3 == d * sk
      <4>4. e1 \in Nat /\ e2 \in Nat /\ e3 \in Nat
        BY <2>3, <2>7, <3>4, <3>5, <3>6
      <4>. QED  BY <4>1, <4>2, <4>3, <4>4
    <3>. QED  BY <3>1, <3>2, <3>4, <3>5, <3>7 DEF T, x, y
  <2>11. IsMultiple(windowed', WindowedMultiple')
    <3>1. CASE d = 0
      <4>1. d * sk = 0 /\ W * M \in Nat
        <5>1. M \in Nat
          BY <2>2 DEF IsMultiple
        <5>. QED  BY <2>3, <2>7, <3>1, <5>1
      <4>2. W * M + d * sk = W * M
        BY <4>1
      <4>. QED  BY <2>9, <2>10, <3>1, <4>2
    <3>2. CASE d # 0
      <4>1. kd = d * sk
        BY <3>2 DEF kd
      <4>. QED  BY <2>9, <2>10, <3>2, <4>1
    <3>. QED  BY <3>1, <3>2
  <2>12. WindowedInv'
    <3>1. step' \in 0 .. NumWindows
      BY <2>1, <2>2
    <3>. QED  BY <2>1, <2>11, <3>1 DEF WindowedInv
  <2>13. InstInv' /\ stage' \in Stages /\ VerdictIsNative' /\ ScalarsInv' /\ FixedInv'
    BY <2>1, Unchanged DEF Tabled, Scaled
  <2>14. TableInv'
    BY <2>1, TableStays DEF Windowing
  <2>. QED  BY <2>12, <2>13, <2>14 DEF IInv
<1>. QED  BY <1>1, <1>2

\* Its starting point, doubled as often, subtracted.
LEMMA WindowsEnd ==
    ASSUME IInv, SubtractWindowedStart
    PROVE  IInv'
<1> DEFINE n == ScalarOrder
           v == ValueOf(u2)
           sk == inst.sk
           K == WindowedStart * Weight(NumWindows)
           r == K % n
           q == CurveNeg(ConstantAffinePoint(Times(K)))
           a == v * sk
<1>1. CASE stage' = "stuck"
  BY <1>1, StuckInv DEF SubtractWindowedStart
<1>2. CASE stage' # "stuck"
  <2>1. /\ stage = "windowed" /\ stage' = "compare" /\ step = 0 /\ step' = step
        /\ windowed' = CurveAdd(windowed, q) /\ ~IsStuck(windowed')
        /\ inst' = inst /\ u1' = u1 /\ u2' = u2 /\ fixed' = fixed /\ table' = table
    BY <1>2 DEF SubtractWindowedStart
  <2>2. v \in Nat /\ sk \in Nat
    BY <2>1, ScalarFacts, KeyIs DEF Scaled
  <2>3. IsMultiple(windowed, K + a)
    <3>1. IsMultiple(windowed, WindowedMultiple)
      BY <2>1 DEF IInv, WindowedInv, Windowing
    <3>2. WindowedMultiple = WindowedStart * Weight(NumWindows - 0) + (v \div Weight(0)) * sk
      BY <2>1 DEF WindowedMultiple
    <3>3. NumWindows - 0 = NumWindows /\ Weight(0) = 1
      BY Weights
    <3> HIDE DEF v, sk
    <3>4. v \div 1 = v
      BY <2>2
    <3>. QED  BY <3>1, <3>2, <3>3, <3>4
  <2>4. K \in Nat /\ K % n # 0
    <3> DEFINE T == Weight(NumWindows)
    <3>1. T \in Nat /\ T % n # 0
      BY Weights
    <3>2. WindowedStart \in Nat /\ WindowedStart % n # 0
      BY InstanceAssumption, BelowOrder
    <3> HIDE DEF T
    <3>3. WindowedStart * T \in Nat
      BY <3>1, <3>2
    <3>. QED  BY <3>1, <3>2, <3>3, ProductNonzero DEF T
  <2> HIDE DEF K
  <2>5. IsMultiple(q, n - r)
    <3>1. IsMultiple(ConstantAffinePoint(Times(K)), K)
      BY <2>4, ConstantMultiple
    <3>2. ~IsStuck(q)
      <4> HIDE DEF q
      <4>1. SUFFICES ASSUME IsStuck(q) PROVE FALSE
        OBVIOUS
      <4>2. windowed' = StuckPoint
        BY <2>1, <4>1, StuckSum
      <4>. QED  BY <2>1, <4>2 DEF IsStuck, StuckPoint
    <3>. QED  BY <3>1, <3>2, NegIs
  <2>6. PICK j \in Int : K = j * n + r
    BY <2>4, OrderIs, RemainderOfInteger
  <2>7. r \in Nat
    <3>1. r \in 0 .. n - 1
      BY <2>4, OrderIs, RemainderOfInteger
    <3>. QED  BY <3>1, OrderIs
  <2>8. a \in Nat
    BY <2>2
  <2> HIDE DEF r, q, a
  <2>9. (K + a) + (n - r) = a + (j + 1) * n /\ j + 1 \in Int
    BY <2>4, <2>6, <2>7, <2>8, OrderIs
  <2>10. IsMultiple(windowed', a)
    <3> DEFINE c == K + a
               e == n - r
    <3> HIDE DEF c, e
    <3>1. IsMultiple(windowed', c + e)
      BY <2>1, <2>3, <2>5, SumOfMultiples DEF c, e
    <3>. QED  BY <2>8, <2>9, <3>1, SameMultiple DEF c, e
  <2>11. WindowedMultiple' = a
    BY <2>1 DEF WindowedMultiple, a, v, sk
  <2>12. WindowedInv'
    BY <2>1, <2>10, <2>11 DEF WindowedInv
  <2>13. InstInv' /\ stage' \in Stages /\ VerdictIsNative' /\ ScalarsInv' /\ FixedInv'
    BY <2>1, Unchanged DEF Tabled, Scaled
  <2>14. TableInv'
    BY <2>1, TableStays DEF Windowing
  <2>. QED  BY <2>12, <2>13, <2>14 DEF IInv
<1>. QED  BY <1>1, <1>2

\* The sum that is compared is the point of the native verifier.
LEMMA CompareStep ==
    ASSUME IInv, Compare
    PROVE  IInv'
<1> DEFINE n == ScalarOrder
           v1 == ValueOf(u1)
           v2 == ValueOf(u2)
           sk == inst.sk
           h == ByteArrayToScalar(inst.digest)
           c == ModInverse(n, inst.s)
           K == h * c + v2 * sk
           point == CurveAdd(fixed, windowed)
<1>1. CASE stage' = "stuck"
  BY <1>1, StuckInv DEF Compare
<1>2. CASE stage' # "stuck"
  <2>1. /\ stage = "compare" /\ inst' = inst /\ ~IsStuck(point)
        /\ stage' \in {"accepted", "rejected"}
        /\ stage' = "accepted" <=> ConnectBiguint(Scalar(inst.r), point.x)
    BY <1>2 DEF Compare
  <2>2. /\ inst \in Instances /\ OnCurve(inst.pk) /\ inst.s # 0 /\ v1 \in Nat /\ v2 \in Nat /\ c \in Nat
        /\ v1 = (h * c) % n /\ v2 = (inst.r * c) % n /\ IsMultiple(fixed, FixedMultiple)
    BY <2>1, ScalarFacts DEF Scaled
  <2>3. sk \in Nat /\ inst.r \in 0 .. n - 1 /\ inst.r \in Nat /\ h \in Nat
    BY <2>2, InstanceIs
  <2>4. FixedMultiple = v1 /\ WindowedMultiple = v2 * sk
    BY <2>1 DEF FixedMultiple, WindowedMultiple
  <2>5. IsMultiple(windowed, WindowedMultiple)
    BY <2>1 DEF IInv, WindowedInv, Windowing
  <2> HIDE DEF point
  <2>6. IsMultiple(point, v1 + v2 * sk)
    BY <2>1, <2>2, <2>4, <2>5, SumOfMultiples DEF point
  <2>7. VerifiedPoint(inst) = Times(K)
    BY <2>2 DEF VerifiedPoint
  <2> HIDE DEF v1, v2, sk, h, c
  <2>8. IsMultiple(point, K)
    <3> DEFINE e == h * c
               f == v2 * sk
    <3>1. e \in Nat /\ f \in Nat
      BY <2>2, <2>3
    <3>2. v1 = e % n
      BY <2>2
    <3> HIDE DEF e, f
    <3>3. PICK j \in Int : e = j * n + v1
      BY <3>1, <3>2, OrderIs, RemainderOfInteger
    <3>4. v1 + f = (e + f) + (-j) * n /\ -j \in Int /\ e + f \in Nat
      BY <2>2, <3>1, <3>3, OrderIs
    <3>5. IsMultiple(point, v1 + f)
      BY <2>6 DEF f
    <3>6. IsMultiple(point, e + f)
      BY <3>4, <3>5, SameMultiple
    <3>. QED  BY <3>6 DEF e, f
  <2> HIDE DEF K
  <2> DEFINE x == Times(K).x
  <2>9. IsNumber(point.x, x) /\ x \in Nat
    BY <2>8, NumberIs DEF IsMultiple, IsPoint
  <2>10. IsNumber(Scalar(inst.r), inst.r)
    BY <2>3, ScalarIs
  <2>11. stage' = "accepted" <=> inst.r = x
    <3>1. ConnectBiguint(Scalar(inst.r), point.x) <=> inst.r = x
      <4> HIDE DEF x
      <4>. QED  BY <2>9, <2>10, ConnectIs
    <3>. QED  BY <2>1, <3>1
  <2>12. inst.r = x <=> (x % n = inst.r /\ x < n)
    <3> DEFINE r == inst.r
    <3>1. r \in 0 .. n - 1 /\ r \in Nat
      BY <2>3
    <3> HIDE DEF r, x
    <3>2. x < n => x % n = x
      <4>1. x < n => x \in 0 .. n - 1
        BY <2>9, OrderIs
      <4>. QED  BY <4>1, BelowOrder
    <3>3. r < n
      BY <3>1, OrderIs
    <3>. QED  BY <2>9, <3>2, <3>3 DEF r
  <2>13. VerdictIsNative'
    <3>1. VerifyMessage(inst) <=> x % n = inst.r
      BY <2>2, <2>7 DEF VerifyMessage, BaseToScalar
    <3>2. VerifiedPoint(inst).x = x
      BY <2>7
    <3>3. stage' = "accepted" <=> VerifyMessage(inst) /\ VerifiedPoint(inst).x < n
      BY <2>11, <2>12, <3>1, <3>2
    <3>4. stage' = "accepted" <=> VerifyMessage(inst') /\ VerifiedPoint(inst').x < n
      BY <2>1, <3>3
    <3>. QED  BY <3>4 DEF VerdictIsNative
  <2>14. InstInv'
    BY <2>1, <2>2 DEF IInv, InstInv
  <2>15. stage' \in Stages /\ ScalarsInv' /\ FixedInv' /\ TableInv' /\ WindowedInv'
    BY <2>1 DEF Stages, ScalarsInv, FixedInv, TableInv, WindowedInv, Scaled, Tabled, Windowing
  <2>. QED  BY <2>13, <2>14, <2>15 DEF IInv
<1>. QED  BY <1>1, <1>2

\* A point with another coordinate is a pair of residues still.
LEMMA MovedPoint ==
    ASSUME NEW P \in Affine, NEW a \in 0 .. BaseOrder - 1
    PROVE  [P EXCEPT !.y = a] \in Affine
BY DEF Affine

\* Signatures of the library are instances, and so is what is made of them.
LEMMA InitInv == Init => IInv
<1> SUFFICES ASSUME Init PROVE IInv
  OBVIOUS
<1> DEFINE n == ScalarOrder
<1>1. PICK digest \in Digest, sk \in SecretKey, k \in Nonce, g \in Blind, how \in Alteration :
        /\ LET sig == SignMessage(ByteArrayToScalar(digest), sk, k)
           IN  inst = Altered([digest |-> digest, sk |-> sk, pk |-> Times(sk),
                               r |-> sig.r, s |-> sig.s, blind |-> g], how)
        /\ how = "point" => ~OnCurve(inst.pk)
  BY DEF Init
<1>2. /\ digest \in Nat /\ digest \in 0 .. Power(NumLimbs) - 1
      /\ sk \in 1 .. n - 1 /\ k \in 1 .. n - 1 /\ g \in 1 .. n - 1
      /\ how \in {"none", "r", "s", "s0", "key", "point"}
  <2>1. /\ digest \in 0 .. Power(NumLimbs) - 1
        /\ sk \in 1 .. n - 1 /\ k \in 1 .. n - 1 /\ g \in 1 .. n - 1
        /\ how \in {"none", "r", "s", "s0", "key", "point"}
    BY InstanceAssumption DEF NumLimbs
  <2>. QED  BY <2>1
<1> DEFINE pk == Times(sk)
           sig == SignMessage(ByteArrayToScalar(digest), sk, k)
           r == sig.r
           s == sig.s
           in == [digest |-> digest, sk |-> sk, pk |-> pk, r |-> r, s |-> s, blind |-> g]
<1>3. pk \in Affine /\ sk \in Nat
  BY <1>2, BelowOrder
<1>4. r \in 0 .. n - 1 /\ s \in 0 .. n - 1
  <2> DEFINE x == Times(k).x
             h == ByteArrayToScalar(digest)
             w == ModInverse(n, k)
  <2>1. x \in Nat
    <3>1. Times(k) \in Affine
      BY <1>2, BelowOrder
    <3>. QED  BY <3>1, ModulusIs DEF Affine
  <2>2. sig = [r |-> x % n, s |-> (w * (h + (x % n) * sk)) % n]
    BY DEF SignMessage, BaseToScalar
  <2>3. w \in Nat
    <3>1. k \in Int /\ k % n = k /\ k % n # 0
      BY <1>2, BelowOrder
    <3>2. ModInverse(n, k % n) \in 0 .. n - 1
      BY <3>1, OrderIs, InverseIs
    <3>. QED  BY <3>1, <3>2, OrderIs
  <2>4. h \in Nat
    <3>1. digest % n \in 0 .. n - 1
      BY <1>2, OrderIs, RemainderOfInteger
    <3>. QED  BY <3>1, OrderIs DEF ByteArrayToScalar
  <2> HIDE DEF x, h, w
  <2>5. x % n \in 0 .. n - 1
    BY <2>1, OrderIs, RemainderOfInteger
  <2> DEFINE y == x % n
             z == w * (h + y * sk)
  <2>6. y \in Nat
    BY <2>5, OrderIs
  <2> HIDE DEF y
  <2>7. z \in Int
    BY <1>3, <2>3, <2>4, <2>6
  <2> HIDE DEF z
  <2>8. z % n \in 0 .. n - 1
    BY <2>7, OrderIs, RemainderOfInteger
  <2>9. r = x % n /\ s = z % n
    BY <2>2 DEF z, y
  <2>. QED  BY <2>5, <2>8, <2>9
<1>5. inst = Altered(in, how)
  BY <1>1
<1> HIDE DEF pk, sig, r, s
<1>6. in \in Instances /\ in.pk = Times(in.sk)
  BY <1>2, <1>3, <1>4 DEF Instances, pk
<1>7. inst \in Instances /\ (inst.pk = Times(inst.sk) \/ ~OnCurve(inst.pk))
  <2>1. CASE how = "none"
    <3>1. inst = in
      BY <1>5, <2>1 DEF Altered
    <3>. QED  BY <1>6, <3>1
  <2>2. CASE how = "r"
    <3> DEFINE a == (r + 1) % n
    <3>1. a \in 0 .. n - 1
      <4>1. r + 1 \in Int
        BY <1>4, OrderIs
      <4>. QED  BY <4>1, OrderIs, RemainderOfInteger
    <3>2. inst = [in EXCEPT !.r = a]
      BY <1>5, <2>2 DEF Altered
    <3> HIDE DEF a
    <3>3. inst = [digest |-> digest, sk |-> sk, pk |-> pk, r |-> a, s |-> s, blind |-> g]
      BY <3>2
    <3>. QED  BY <1>2, <1>3, <1>4, <3>1, <3>3 DEF Instances, pk
  <2>3. CASE how = "s"
    <3> DEFINE a == (s + 1) % n
    <3>1. a \in 0 .. n - 1
      <4>1. s + 1 \in Int
        BY <1>4, OrderIs
      <4>. QED  BY <4>1, OrderIs, RemainderOfInteger
    <3>2. inst = [in EXCEPT !.s = a]
      BY <1>5, <2>3 DEF Altered
    <3> HIDE DEF a
    <3>3. inst = [digest |-> digest, sk |-> sk, pk |-> pk, r |-> r, s |-> a, blind |-> g]
      BY <3>2
    <3>. QED  BY <1>2, <1>3, <1>4, <3>1, <3>3 DEF Instances, pk
  <2>4. CASE how = "s0"
    <3>1. inst = [in EXCEPT !.s = 0]
      BY <1>5, <2>4 DEF Altered
    <3>2. inst = [digest |-> digest, sk |-> sk, pk |-> pk, r |-> r, s |-> 0, blind |-> g]
      BY <3>1
    <3>3. 0 \in 0 .. n - 1
      BY OrderIs
    <3>. QED  BY <1>2, <1>3, <1>4, <3>2, <3>3 DEF Instances, pk
  <2>5. CASE how = "key"
    <3> DEFINE a == (sk % (n - 1)) + 1
    <3>1. a \in 1 .. n - 1
      <4> DEFINE m == n - 1
      <4>1. m \in Nat /\ m > 0 /\ sk \in Int
        BY <1>3, OrderIs
      <4>2. sk % m \in 0 .. m - 1
        BY <4>1, RemainderOfInteger
      <4> DEFINE e == sk % m
      <4>3. e \in 0 .. m - 1 /\ a = e + 1
        BY <4>2
      <4> HIDE DEF e, a
      <4>. QED  BY <4>1, <4>3
    <3>2. inst = [in EXCEPT !.sk = a, !.pk = Times(a)]
      BY <1>5, <2>5 DEF Altered
    <3> HIDE DEF a
    <3>3. inst = [digest |-> digest, sk |-> a, pk |-> Times(a), r |-> r, s |-> s, blind |-> g]
      BY <3>2
    <3>4. Times(a) \in Affine
      BY <3>1, BelowOrder
    <3>. QED  BY <1>2, <1>4, <3>1, <3>3, <3>4 DEF Instances
  <2>6. CASE how = "point"
    <3> DEFINE a == (pk.y + 1) % BaseOrder
    <3>1. a \in 0 .. BaseOrder - 1
      <4>1. pk.y + 1 \in Int /\ BaseOrder \in Nat /\ BaseOrder > 0
        BY <1>3, ModulusIs DEF Affine
      <4>. QED  BY <4>1, RemainderOfInteger
    <3>2. inst = [in EXCEPT !.pk.y = a]
      BY <1>5, <2>6 DEF Altered
    <3> HIDE DEF a
    <3> DEFINE p == [pk EXCEPT !.y = a]
    <3>4. p \in Affine
      BY <1>3, <3>1, MovedPoint
    <3> HIDE DEF p
    <3>5. inst = [digest |-> digest, sk |-> sk, pk |-> p, r |-> r, s |-> s, blind |-> g]
      BY <3>2 DEF p
    <3>. QED  BY <1>1, <1>2, <1>4, <2>6, <3>4, <3>5 DEF Instances
  <2>. QED  BY <1>2, <2>1, <2>2, <2>3, <2>4, <2>5, <2>6
<1>8. stage = "wire" /\ step = 0
  BY DEF Init
<1>. QED  BY <1>7, <1>8 DEF IInv, InstInv, ScalarsInv, FixedInv, TableInv, WindowedInv, VerdictIsNative, Stages,
                        Scaled, Tabled, Windowing

\* Every step keeps it.
LEMMA NextInv == IInv /\ [Next]_vars => IInv'
<1>1. ASSUME IInv, Next PROVE IInv'
  BY <1>1, WireInv, KeyInv, ScalarsStep, FixedStep, StartStep, ExtendStep, StartUnblindingStep, UnblindStep,
     StartWindowsStep, WindowAdded, WindowsEnd, CompareStep DEF Next
<1>2. ASSUME IInv, UNCHANGED vars PROVE IInv'
  BY <1>2, StutterInv
<1>. QED  BY <1>1, <1>2

\* What the loops have computed follows from the invariant.
LEMMA IInvMultiples == IInv => ResultsAreMultiples
<1> SUFFICES ASSUME IInv PROVE ResultsAreMultiples
  OBVIOUS
<1>1. ASSUME stage \in Scaled
      PROVE  /\ Denotes(fixed, Times(FixedMultiple))
             /\ (ValueOf(u1) * inst.s) % ScalarOrder = ByteArrayToScalar(inst.digest)
             /\ (ValueOf(u2) * inst.s) % ScalarOrder = inst.r
  BY <1>1, ScalarFacts, MultipleIs
<1>2. ASSUME stage \in Tabled, NEW t \in 1 .. Len(table)
      PROVE  Denotes(table[t], Times(TableMultiple(t)))
  <2>1. IsMultiple(table[t], TableMultiple(t))
    BY <1>2 DEF IInv, TableInv
  <2>. QED  BY <2>1, MultipleIs
<1>3. ASSUME stage \in Windowing
      PROVE  Denotes(windowed, Times(WindowedMultiple))
  <2>1. IsMultiple(windowed, WindowedMultiple)
    BY <1>3 DEF IInv, WindowedInv
  <2>. QED  BY <2>1, MultipleIs
<1>4. /\ Scaled = {"fixed", "table", "unblind", "windowed", "compare"}
      /\ Tabled = {"table", "unblind", "windowed", "compare"}
      /\ Windowing = {"windowed", "compare"}
  BY DEF Scaled, Tabled, Windowing
<1>. QED  BY <1>1, <1>2, <1>3, <1>4 DEF ResultsAreMultiples

\* Along every behaviour the witness holds what its stage says it does.
LEMMA InductiveInv == Spec => []IInv
BY InitInv, NextInv, PTL DEF Spec

\* Whatever the field, the curve's group, the limbs and the windows: fixed and
\* windowed products and the table's entries are, at every step of their loops,
\* the multiples of the generator they should be (curve_fixed_base.rs,
\* curve_windowed_mul.rs).
THEOREM EcdsaResults == Spec => []ResultsAreMultiples
BY InductiveInv, IInvMultiples, PTL

\* A witness that comes to its end is accepted exactly where the library's
\* verifier accepts and the point's coordinate is below the scalar order
\* (gadgets/ecdsa.rs against curve/ecdsa.rs).
THEOREM EcdsaVerdict == Spec => []VerdictIsNative
<1>1. IInv => VerdictIsNative
  BY DEF IInv
<1>. QED  BY <1>1, InductiveInv, PTL

-----------------------------------------------------------------------------
(* Carries.                                                                *)

\* Limbs of limbs, and how many values fewer have.
LEMMA PowerSums ==
    /\ \A i, j \in Nat : Power(i + j) = Power(i) * Power(j)
    /\ \A i, j \in Nat : i <= j => Power(i) <= Power(j)
    /\ \A i \in Nat \ {0} : Power(i) = Power(i - 1) * Base
    /\ Power(1) = Base
<1>1. ASSUME NEW i \in Nat, NEW j \in Nat PROVE Power(i + j) = Power(i) * Power(j)
  <2> DEFINE k == LimbBits * i
             l == LimbBits * j
  <2>1. k \in Nat /\ l \in Nat /\ LimbBits * (i + j) = k + l
    BY LimbAssumption
  <2>2. Power(i + j) = 2 ^ (k + l) /\ Power(i) = 2 ^ k /\ Power(j) = 2 ^ l
    BY <2>1 DEF Power
  <2> HIDE DEF k, l
  <2>. QED  BY <2>1, <2>2, PowerOfSum
<1>2. ASSUME NEW i \in Nat, NEW j \in Nat, i <= j PROVE Power(i) <= Power(j)
  <2> DEFINE d == j - i
  <2>1. d \in Nat /\ j = i + d
    BY <1>2
  <2> HIDE DEF d
  <2>2. Power(j) = Power(i) * Power(d)
    BY <1>1, <2>1
  <2>3. Power(i) \in Nat /\ Power(d) \in Nat /\ Power(d) >= 1
    BY <2>1, Powers
  <2>. QED  BY <2>2, <2>3
<1>3. ASSUME NEW i \in Nat \ {0} PROVE Power(i) = Power(i - 1) * Base
  <2> DEFINE j == i - 1
  <2>1. j \in Nat /\ i = j + 1
    OBVIOUS
  <2> HIDE DEF j
  <2>2. Power(j + 1) = Power(j) * Base
    BY <2>1, Powers
  <2>. QED  BY <2>1, <2>2 DEF j
<1>4. Power(1) = Base
  BY DEF Base
<1>. QED  BY <1>1, <1>2, <1>3, <1>4

\* A limb further up.
LEMMA PowerIs ==
    ASSUME NEW i \in Nat \ {0}, NEW P, P = Power(i - 1)
    PROVE  /\ i - 1 \in Nat /\ P \in Nat /\ P > 0 /\ Power(i) = P * Base /\ Power(i) \in Nat
           /\ Base \in Nat /\ Base > 0
<1>1. i - 1 \in Nat /\ i \in Nat
  OBVIOUS
<1>2. P \in Nat /\ P >= 1
  BY <1>1, Powers
<1>3. Power(i) = P * Base
  BY PowerSums
<1>4. Base \in Nat /\ Base >= 2 /\ Power(i) \in Nat
  BY <1>1, Powers
<1>. QED  BY <1>1, <1>2, <1>3, <1>4

\* Products.
LEMMA Rearranged ==
    /\ \A x, y, z \in Int : /\ x * (y * z) = (x * y) * z /\ (x + y) * z = x * z + y * z
                            /\ (x - y) * z = x * z - y * z
                            /\ x * y = y * x /\ x * y \in Int
    /\ \A x, y \in Nat : x * y \in Nat
OBVIOUS

\* A number below limb i + 1, and the limb and the number it is made of.
Low(v, i) == v % Power(i)

\* It grows by a limb with each one.
LEMMA LowIs ==
    ASSUME NEW v \in Nat
    PROVE  /\ Low(v, 0) = 0
           /\ \A i \in Nat : /\ Low(v, i) \in 0 .. Power(i) - 1
                             /\ v = Low(v, i) + Above(v, i) * Power(i)
                             /\ v < Power(i) => Low(v, i) = v
           /\ \A i \in Nat \ {0} : Low(v, i) = Low(v, i - 1) + LimbAt(v, i) * Power(i - 1)
<1>1. Low(v, 0) = 0
  BY Powers DEF Low
<1>2. ASSUME NEW i \in Nat
      PROVE  Low(v, i) \in 0 .. Power(i) - 1 /\ v = Low(v, i) + Above(v, i) * Power(i) /\ Above(v, i) \in Nat
  <2>1. Power(i) \in Nat /\ Power(i) > 0
    BY Powers
  <2> DEFINE P == Power(i)
  <2> HIDE DEF P
  <2>2. v = (v \div P) * P + (v % P) /\ v \div P \in Nat /\ v % P \in 0 .. P - 1
    BY <2>1, Divided DEF P
  <2> DEFINE q == v \div P
             r == v % P
  <2>3. v = q * P + r /\ q \in Nat /\ r \in Nat
    BY <2>1, <2>2
  <2>5. Low(v, i) = r /\ Above(v, i) = q
    BY DEF Low, Above, P
  <2> HIDE DEF q, r
  <2>4. v = r + q * P
    BY <2>1, <2>3 DEF P
  <2>6. r \in 0 .. P - 1
    BY <2>2 DEF q, r
  <2>. QED  BY <2>3, <2>4, <2>5, <2>6 DEF P
<1>3. ASSUME NEW i \in Nat, v < Power(i) PROVE Low(v, i) = v
  <2>1. Above(v, i) = 0
    BY <1>3, AboveIs
  <2>2. Power(i) \in Nat
    BY Powers
  <2>. QED  BY <1>2, <2>1, <2>2
<1>4. ASSUME NEW i \in Nat \ {0} PROVE Low(v, i) = Low(v, i - 1) + LimbAt(v, i) * Power(i - 1)
  <2> DEFINE j == i - 1
             P == Power(j)
             l == LimbAt(v, i)
             q == Above(v, i)
             s == Low(v, j)
  <2>1. j \in Nat /\ P \in Nat /\ Power(i) = P * Base /\ Base \in Nat
    BY PowerIs
  <2>2. s \in Nat /\ v = s + Above(v, j) * P
    BY <1>2, <2>1
  <2>3. Above(v, j) = l + Base * q /\ l \in 0 .. Base - 1 /\ q \in Nat
    BY AboveIs
  <2>4. Low(v, i) \in Nat /\ v = Low(v, i) + q * Power(i)
    BY <1>2, <2>1
  <2> HIDE DEF P, l, q, s
  <2>5. (l + Base * q) * P = l * P + q * (P * Base)
    BY <2>1, <2>3
  <2>6. l * P \in Nat /\ q * (P * Base) \in Nat
    BY <2>1, <2>3
  <2>7. v = s + (l * P + q * (P * Base)) /\ v = Low(v, i) + q * (P * Base)
    BY <2>1, <2>2, <2>3, <2>4, <2>5
  <2> DEFINE x == l * P
             y == q * (P * Base)
  <2> HIDE DEF x, y
  <2>8. Low(v, i) = s + x
    BY <2>2, <2>4, <2>6, <2>7 DEF x, y
  <2>. QED  BY <2>8 DEF x, s, l, P
<1>. QED  BY <1>1, <1>2, <1>3, <1>4

\* Limbs of a number, however they were come by.
LEMMA LimbedIs ==
    ASSUME NEW v \in Nat, NEW n \in Nat, v < Power(n), NEW a, a = [i \in 1 .. n |-> LimbAt(v, i)]
    PROVE  IsNumber(a, v) /\ Len(a) = n
<1>1. LimbsOf(n, v) = [i \in 1 .. n |-> LimbAt(v, i)]
  BY DEF LimbsOf, LimbAt, Above
<1>. QED  BY <1>1, LimbsAre DEF IsNumber

\* What c adds up to, limb by limb.
IsWeighed(t, c, n) ==
    /\ t \in [0 .. n -> Nat] /\ t[0] = 0
    /\ \A k \in 1 .. n : t[k] = t[k - 1] + c[k] * Power(k - 1)

Carries(s, c, n) ==
    s = [k \in 0 .. n |-> IF k = 0 THEN [low |-> 0, high |-> 0]
                          ELSE [low |-> (c[k] + s[k - 1].high) % Base,
                                high |-> (c[k] + s[k - 1].high) \div Base]]

CarriesOf(t, n) ==
    [k \in 0 .. n |-> IF k = 0 THEN [low |-> 0, high |-> 0]
                      ELSE [low |-> LimbAt(t[k], k), high |-> Above(t[k], k)]]

\* One column more: what it adds to the carry is what lies above.
LEMMA ColumnAdded ==
    ASSUME NEW n \in Nat, NEW c \in [1 .. n -> Nat], NEW t, IsWeighed(t, c, n), NEW k \in 1 .. n
    PROVE  /\ Above(t[k], k - 1) = c[k] + CarriesOf(t, n)[k - 1].high
           /\ Above(t[k], k) = (c[k] + CarriesOf(t, n)[k - 1].high) \div Base
           /\ LimbAt(t[k], k) = (c[k] + CarriesOf(t, n)[k - 1].high) % Base
<1> DEFINE j == k - 1
           P == Power(j)
           h == Above(t[j], j)
           r == Low(t[j], j)
<1>1. j \in Nat /\ k = j + 1 /\ k \in Nat \ {0} /\ j \in 0 .. n /\ k \in 0 .. n
  OBVIOUS
<1>2. t[j] \in Nat /\ t[k] \in Nat /\ c[k] \in Nat /\ t[k] = t[j] + c[k] * P
  BY <1>1 DEF IsWeighed
<1>3. P \in Nat /\ P > 0 /\ Base \in Nat /\ Base > 0 /\ Power(k) = P * Base
  BY <1>1, PowerIs
<1>4. r \in 0 .. P - 1 /\ t[j] = r + h * P /\ h \in Nat
  BY <1>1, <1>2, LowIs, AboveIs
<1>5. CarriesOf(t, n)[j].high = h
  <2>1. CASE j = 0
    <3>1. h = 0
      BY <1>2, <2>1, AboveIs DEF IsWeighed
    <3>. QED  BY <1>1, <2>1, <3>1 DEF CarriesOf
  <2>2. CASE j # 0
    BY <1>1, <2>2 DEF CarriesOf
  <2>. QED  BY <2>1, <2>2
<1>6. Above(t[k], j) = c[k] + h
  <2> DEFINE a == t[k]
             q == c[k] + h
  <2> HIDE DEF P, h, r
  <2>1. q \in Nat /\ a \in Nat /\ r \in Nat /\ r < P
    BY <1>2, <1>3, <1>4
  <2>2. q * P = c[k] * P + h * P
    BY <1>2, <1>3, <1>4
  <2>3. a = q * P + r
    BY <1>2, <1>3, <1>4, <2>2
  <2> HIDE DEF a, q
  <2>4. a \div P = q
    BY <1>3, <2>1, <2>3, DivUnique
  <2>. QED  BY <2>4 DEF a, q, Above, P
<1>7. Above(t[k], k) = (c[k] + h) \div Base
  <2> DEFINE a == t[k]
  <2>1. a \in Nat /\ Above(a, j) = c[k] + h
    BY <1>2, <1>6
  <2> HIDE DEF a, h
  <2>2. (a \div P) \div Base = a \div (P * Base)
    <3> HIDE DEF P
    <3>1. (a \div P) \div Base = a \div (P * Base) /\ (a \div P) % Base = (a % (P * Base)) \div P
      BY <1>3, <2>1, DivTwice
    <3>. QED  BY <3>1
  <2>. QED  BY <1>3, <2>1, <2>2 DEF Above, a
<1>. QED  BY <1>1, <1>5, <1>6, <1>7 DEF LimbAt

\* Columns with their carries are the limbs of what they add up to.
LEMMA CarriesAre ==
    ASSUME NEW n \in Nat, NEW c \in [1 .. n -> Nat], NEW t, IsWeighed(t, c, n), NEW s
    PROVE  Carries(s, c, n) <=> s = CarriesOf(t, n)
<1> DEFINE w == CarriesOf(t, n)
<1>1. Carries(w, c, n)
  <2>1. ASSUME NEW k \in 0 .. n
        PROVE  w[k] = IF k = 0 THEN [low |-> 0, high |-> 0]
                      ELSE [low |-> (c[k] + w[k - 1].high) % Base,
                            high |-> (c[k] + w[k - 1].high) \div Base]
    <3>1. CASE k = 0
      BY <3>1 DEF CarriesOf
    <3>2. CASE k # 0
      <4>1. k \in 1 .. n
        BY <3>2
      <4>2. w[k] = [low |-> LimbAt(t[k], k), high |-> Above(t[k], k)]
        BY <4>1 DEF CarriesOf
      <4>. QED  BY <3>2, <4>1, <4>2, ColumnAdded
    <3>. QED  BY <3>1, <3>2
  <2>2. w = [k \in 0 .. n |-> w[k]]
    BY DEF CarriesOf
  <2> HIDE DEF w
  <2>. QED  BY <2>1, <2>2 DEF Carries
<1>2. ASSUME Carries(s, c, n) PROVE s = w
  <2> DEFINE T == {k \in 0 .. n : s[k] = w[k]}
  <2> HIDE DEF w
  <2>1. 0 \in T
    BY <1>1, <1>2 DEF Carries
  <2>2. \A k \in 1 .. n : k - 1 \in T => k \in T
    <3> SUFFICES ASSUME NEW k \in 1 .. n, k - 1 \in T PROVE k \in T
      OBVIOUS
    <3>1. s[k - 1] = w[k - 1] /\ k \in 0 .. n /\ k # 0
      OBVIOUS
    <3>2. s[k] = [low |-> (c[k] + s[k - 1].high) % Base, high |-> (c[k] + s[k - 1].high) \div Base]
      BY <1>2, <3>1 DEF Carries
    <3>3. w[k] = [low |-> (c[k] + w[k - 1].high) % Base, high |-> (c[k] + w[k - 1].high) \div Base]
      BY <1>1, <3>1 DEF Carries
    <3>4. s[k] = w[k]
      BY <3>1, <3>2, <3>3
    <3>. QED  BY <3>1, <3>4
  <2>3. \A k \in 0 .. n : k \in T
    <3> HIDE DEF T
    <3>. QED  BY <2>1, <2>2, Counting
  <2>4. \A k \in 0 .. n : s[k] = w[k]
    BY <2>3
  <2>5. s = [k \in 0 .. n |-> s[k]] /\ w = [k \in 0 .. n |-> w[k]]
    BY <1>1, <1>2 DEF Carries
  <2>. QED  BY <2>4, <2>5
<1>. QED  BY <1>1, <1>2

\* Columns above do not change the limbs below.
LEMMA LimbsStay ==
    ASSUME NEW n \in Nat, NEW c \in [1 .. n -> Nat], NEW t, IsWeighed(t, c, n), NEW k \in 1 .. n
    PROVE  LimbAt(t[k], k) = LimbAt(t[n], k)
<1> DEFINE T == {d \in Nat : k + d <= n => \E q \in Nat : t[k + d] = t[k] + q * Power(k)}
<1>1. k \in Nat /\ k \in 0 .. n /\ t[k] \in Nat /\ Power(k) \in Nat /\ n - k \in Nat
  <2>1. k \in Nat /\ k \in 0 .. n /\ n - k \in Nat
    OBVIOUS
  <2>2. t[k] \in Nat
    BY <2>1 DEF IsWeighed
  <2>. QED  BY <2>1, <2>2, Powers
<1>2. 0 \in T
  <2>1. t[k + 0] = t[k] + 0 * Power(k)
    BY <1>1
  <2>. QED  BY <2>1
<1>3. \A d \in 1 .. n - k : d - 1 \in T => d \in T
  <2> SUFFICES ASSUME NEW d \in 1 .. n - k, d - 1 \in T PROVE d \in T
    OBVIOUS
  <2> DEFINE e == d - 1
             i == k + d
  <2>1. e \in Nat /\ d \in Nat /\ i \in 1 .. n /\ i - 1 = k + e /\ k + e <= n /\ i - 1 \in Nat
    BY <1>1
  <2>2. PICK q \in Nat : t[k + e] = t[k] + q * Power(k)
    BY <2>1
  <2>3. t[i] = t[i - 1] + c[i] * Power(i - 1) /\ c[i] \in Nat
    BY <2>1 DEF IsWeighed
  <2>4. Power(i - 1) = Power(k) * Power(e) /\ Power(e) \in Nat
    <3> HIDE DEF T, e
    <3>1. Power(k + e) = Power(k) * Power(e)
      BY <1>1, <2>1, PowerSums
    <3>2. Power(e) \in Nat
      BY <2>1, Powers
    <3>. QED  BY <2>1, <3>1, <3>2
  <2> HIDE DEF T, e, i
  <2> DEFINE P == Power(k)
             E == Power(e)
             x == c[i]
  <2> HIDE DEF P, E, x
  <2>5. x * (P * E) = (x * E) * P /\ x * E \in Nat /\ q * P \in Nat /\ (x * E) * P \in Nat
    <3>1. x \in Nat /\ P \in Nat /\ E \in Nat /\ q \in Nat
      BY <1>1, <2>3, <2>4 DEF P, E, x
    <3>. QED  BY <3>1, Rearranged
  <2>6. (q + x * E) * P = q * P + (x * E) * P /\ q + x * E \in Nat
    BY <1>1, <2>5 DEF P
  <2>7. t[i] = (t[k] + q * P) + x * (P * E)
    BY <2>1, <2>2, <2>3, <2>4 DEF P, E, x
  <2>8. t[i] = t[k] + (q + x * E) * P
    BY <1>1, <2>5, <2>6, <2>7
  <2>. QED  BY <2>1, <2>6, <2>8 DEF T, i, P
<1>4. n - k \in T
  <2> DEFINE m == n - k
  <2>1. m \in Nat /\ \A d \in 1 .. m : d - 1 \in T => d \in T
    BY <1>1, <1>3
  <2> HIDE DEF T, m
  <2>2. \A d \in 0 .. m : d \in T
    BY <1>2, <2>1, Counting
  <2>3. m \in T
    BY <2>1, <2>2
  <2>. QED  BY <2>3 DEF m
<1>5. PICK q \in Nat : t[n] = t[k] + q * Power(k)
  BY <1>1, <1>4
<1> DEFINE j == k - 1
           P == Power(j)
           a == t[k]
           b == t[n]
<1>6. j \in Nat /\ P \in Nat /\ P > 0 /\ Power(k) = P * Base /\ Base \in Nat /\ Base > 0
  BY PowerIs
<1>7. a \in Nat /\ b \in Nat
  BY <1>1 DEF IsWeighed
<1>8. a = Low(a, j) + Above(a, j) * P /\ Low(a, j) \in 0 .. P - 1 /\ Above(a, j) \in Nat
  BY <1>6, <1>7, LowIs, AboveIs
<1> DEFINE r == Low(a, j)
           u == Above(a, j)
<1>9. b = a + q * (P * Base)
  BY <1>5, <1>6
<1> HIDE DEF P, a, b, r, u, j
<1>10. Above(b, j) = u + q * Base
  <2>1. (u + q * Base) * P = u * P + q * (P * Base) /\ u + q * Base \in Nat /\ u * P \in Nat /\ q * (P * Base) \in Nat
    <3>1. u \in Nat /\ P \in Nat /\ Base \in Nat /\ q \in Nat
      BY <1>6, <1>8 DEF u
    <3>2. q * Base \in Nat /\ q * (P * Base) = (q * Base) * P /\ u * P \in Nat
      BY <3>1
    <3> DEFINE x == q * Base
    <3>3. (u + x) * P = u * P + x * P /\ u + x \in Nat /\ x * P \in Nat
      <4>1. x \in Nat
        BY <3>2
      <4> HIDE DEF x
      <4>. QED  BY <3>1, <4>1
    <3>. QED  BY <3>2, <3>3
  <2>2. r \in Nat /\ r < P
    BY <1>6, <1>8 DEF r
  <2>3. b = (u + q * Base) * P + r
    BY <1>8, <1>9, <2>1, <2>2 DEF r, u
  <2> DEFINE x == u + q * Base
  <2> HIDE DEF x
  <2>4. b \div P = x
    BY <1>6, <1>7, <2>1, <2>2, <2>3, DivUnique DEF x
  <2>. QED  BY <2>4 DEF x, Above, P
<1>11. (u + q * Base) % Base = u % Base
  <2>1. u % Base \in 0 .. Base - 1 /\ u = (u \div Base) * Base + (u % Base) /\ u \div Base \in Nat
    BY <1>6, <1>8, Divided DEF u
  <2> DEFINE d == u \div Base
             e == u % Base
             x == u + q * Base
  <2>2. d \in Nat /\ e \in Nat /\ e < Base /\ u = d * Base + e /\ x \in Nat
    <3>1. u \in Nat
      BY <1>8 DEF u
    <3> HIDE DEF u
    <3>2. q * Base \in Nat
      BY <1>6
    <3>. QED  BY <1>6, <2>1, <3>1, <3>2
  <2> HIDE DEF d, e
  <2>3. (d + q) * Base = d * Base + q * Base /\ d + q \in Nat
    BY <1>6, <2>2
  <2>4. x = (d + q) * Base + e
    BY <1>6, <2>2, <2>3
  <2> HIDE DEF x
  <2>5. x % Base = e
    BY <1>6, <2>2, <2>3, <2>4, DivUnique
  <2>. QED  BY <2>5 DEF x, e
<1>. QED  BY <1>10, <1>11 DEF LimbAt, j, u, a, b

\* The limbs that columns and their carries lead to, with a limb for the last carry.
LEMMA ColumnsAre ==
    ASSUME NEW n \in Nat, NEW c \in [1 .. n -> Nat], NEW t, IsWeighed(t, c, n),
           t[n] < Power(n + 1), NEW s, Carries(s, c, n)
    PROVE  LET a == [k \in 1 .. (n + 1) |-> IF k <= n THEN s[k].low ELSE s[n].high]
           IN  IsNumber(a, t[n]) /\ Len(a) = n + 1
<1> DEFINE v == t[n]
           a == [k \in 1 .. (n + 1) |-> IF k <= n THEN s[k].low ELSE s[n].high]
<1>1. s = CarriesOf(t, n)
  BY CarriesAre
<1>2. v \in Nat /\ n + 1 \in Nat
  BY DEF IsWeighed
<1>3. ASSUME NEW k \in 1 .. (n + 1)
      PROVE  (IF k <= n THEN s[k].low ELSE s[n].high) = LimbAt(v, k)
  <2>1. CASE k <= n
    <3>1. k \in 1 .. n /\ k # 0 /\ k \in 0 .. n
      BY <2>1
    <3>2. s[k].low = LimbAt(t[k], k)
      BY <1>1, <3>1 DEF CarriesOf
    <3>. QED  BY <2>1, <3>1, <3>2, LimbsStay
  <2>2. CASE k > n
    <3>1. k = n + 1 /\ k \in Nat \ {0} /\ k - 1 = n
      BY <2>2
    <3>2. s[n].high = Above(v, n)
      <4>1. CASE n = 0
        BY <1>1, <1>2, <4>1, AboveIs DEF CarriesOf, IsWeighed
      <4>2. CASE n # 0
        BY <1>1, <4>2 DEF CarriesOf
      <4>. QED  BY <4>1, <4>2
    <3>3. Above(v, k - 1) = LimbAt(v, k) + Base * Above(v, k) /\ LimbAt(v, k) \in 0 .. Base - 1 /\ Above(v, k) = 0
      BY <1>2, <3>1, AboveIs
    <3>4. LimbAt(v, k) = Above(v, n)
      BY <3>1, <3>3, Powers
    <3>. QED  BY <2>2, <3>2, <3>4
  <2>. QED  BY <2>1, <2>2
<1>4. a = [k \in 1 .. (n + 1) |-> LimbAt(v, k)]
  BY <1>3
<1> HIDE DEF a, v
<1>5. IsNumber(a, v) /\ Len(a) = n + 1
  BY <1>2, <1>4, LimbedIs DEF v
<1>. QED  BY <1>5 DEF a, v

\* A carry stays below the number of addends.
LEMMA CarryBound ==
    ASSUME NEW n \in Nat, NEW c \in [1 .. n -> Nat], NEW s, Carries(s, c, n), NEW m \in Nat \ {0},
           \A k \in 1 .. n : c[k] <= m * (Base - 1)
    PROVE  \A k \in 0 .. n : s[k].high \in 0 .. m - 1
<1> DEFINE T == {k \in 0 .. n : s[k].high \in 0 .. m - 1}
<1>1. 0 \in T
  <2>1. 0 \in 0 .. n
    OBVIOUS
  <2>2. s[0] = [low |-> 0, high |-> 0]
    BY <2>1 DEF Carries
  <2>. QED  BY <2>1, <2>2
<1>2. \A k \in 1 .. n : k - 1 \in T => k \in T
  <2> SUFFICES ASSUME NEW k \in 1 .. n, k - 1 \in T PROVE k \in T
    OBVIOUS
  <2> DEFINE h == s[k - 1].high
             x == c[k] + h
  <2>1. h \in 0 .. m - 1 /\ k \in 0 .. n /\ k # 0 /\ c[k] \in Nat /\ c[k] <= m * (Base - 1)
    OBVIOUS
  <2>2. s[k].high = x \div Base
    BY <2>1 DEF Carries
  <2> HIDE DEF h
  <2>3. Base \in Nat /\ Base > 0
    BY Powers
  <2>4. m * (Base - 1) = m * Base - m /\ m * Base \in Nat
    BY <2>3
  <2>5. x \in Nat /\ x < m * Base
    BY <2>1, <2>3, <2>4
  <2> HIDE DEF x
  <2>6. x \div Base \in 0 .. m - 1
    BY <2>3, <2>5, Divided
  <2>. QED  BY <2>1, <2>2, <2>6
<1>3. \A k \in 0 .. n : k \in T
  <2> HIDE DEF T
  <2>. QED  BY <1>1, <1>2, Counting
<1>. QED  BY <1>3

-----------------------------------------------------------------------------
(* Sums, differences and comparisons.                                      *)

\* Enough limbs stay enough.
LEMMA EnoughLimbs ==
    ASSUME NEW a, NEW v, IsNumber(a, v), NEW n \in Nat, Len(a) <= n
    PROVE  v < Power(n) /\ Above(v, n) = 0 /\ Low(v, n) = v
<1>1. v \in Nat /\ Len(a) \in Nat /\ v < Power(Len(a))
  BY NumberIs
<1>2. Power(Len(a)) <= Power(n) /\ Power(n) \in Nat /\ Power(Len(a)) \in Nat
  BY <1>1, PowerSums, Powers
<1>3. v < Power(n)
  BY <1>1, <1>2
<1>. QED  BY <1>1, <1>3, AboveIs, LowIs

\* The longer operand's limbs.
LEMMA MaxLenIs ==
    ASSUME NEW a, NEW v, IsNumber(a, v), NEW b, NEW w, IsNumber(b, w)
    PROVE  MaxLen(a, b) \in Nat /\ Len(a) <= MaxLen(a, b) /\ Len(b) <= MaxLen(a, b)
<1>1. Len(a) \in Nat /\ Len(b) \in Nat
  BY NumberIs
<1>. QED  BY <1>1 DEF MaxLen

IsSums(f, a, b, n) ==
    f = [k \in 0 .. n |-> IF k = 0 THEN [low |-> 0, high |-> 0]
                          ELSE AddManyGate(Limb(a, k) + Limb(b, k), f[k - 1].high)]

\* The sum of two numbers, in a limb more than the longer has.
LEMMA AddBiguintIs ==
    ASSUME NEW a, NEW v, IsNumber(a, v), NEW b, NEW w, IsNumber(b, w)
    PROVE  IsNumber(AddBiguint(a, b), v + w)
<1> DEFINE n == MaxLen(a, b)
           c == [k \in 1 .. n |-> Limb(a, k) + Limb(b, k)]
           t == [k \in 0 .. n |-> Low(v, k) + Low(w, k)]
           s == CHOOSE s : IsSums(s, a, b, n)
           r == [k \in 1 .. (n + 1) |-> IF k <= n THEN s[k].low ELSE s[n].high]
<1>1. n \in Nat /\ v \in Nat /\ w \in Nat
  BY MaxLenIs, NumberIs
<1>2. \A k \in 1 .. n : /\ k \in Nat \ {0} /\ c[k] = Limb(a, k) + Limb(b, k)
                        /\ Limb(a, k) = LimbAt(v, k) /\ Limb(b, k) = LimbAt(w, k)
                        /\ Limb(a, k) \in Nat /\ Limb(b, k) \in Nat
  <2> TAKE k \in 1 .. n
  <2>1. k \in Nat \ {0} /\ c[k] = Limb(a, k) + Limb(b, k)
    BY <1>1
  <2>2. Limb(a, k) = LimbAt(v, k) /\ Limb(b, k) = LimbAt(w, k)
    BY <2>1, NumberIs
  <2>3. LimbAt(v, k) \in Nat /\ LimbAt(w, k) \in Nat
    BY <1>1, <2>1, AboveIs, Powers
  <2>. QED  BY <2>1, <2>2, <2>3
<1>3. c \in [1 .. n -> Nat]
  BY <1>2
<1>4. IsWeighed(t, c, n)
  <2>1. \A k \in 0 .. n : k \in Nat /\ t[k] = Low(v, k) + Low(w, k) /\ Low(v, k) \in Nat /\ Low(w, k) \in Nat
    <3> TAKE k \in 0 .. n
    <3>1. k \in Nat
      BY <1>1
    <3>2. Low(v, k) \in 0 .. Power(k) - 1 /\ Low(w, k) \in 0 .. Power(k) - 1 /\ Power(k) \in Nat
      BY <1>1, <3>1, LowIs, Powers
    <3>. QED  BY <3>1, <3>2
  <2>2. t \in [0 .. n -> Nat]
    BY <2>1
  <2>3. t[0] = 0
    <3>1. Low(v, 0) = 0 /\ Low(w, 0) = 0 /\ 0 \in 0 .. n
      BY <1>1, LowIs
    <3>. QED  BY <2>1, <3>1
  <2>4. ASSUME NEW k \in 1 .. n PROVE t[k] = t[k - 1] + c[k] * Power(k - 1)
    <3> DEFINE P == Power(k - 1)
               x == Limb(a, k)
               y == Limb(b, k)
               e == Low(v, k - 1)
               d == Low(w, k - 1)
    <3>1. k \in 0 .. n /\ k - 1 \in 0 .. n /\ k \in Nat \ {0}
      BY <1>1
    <3>2. P \in Nat
      BY <3>1, PowerIs
    <3>3. Low(v, k) = e + x * P /\ Low(w, k) = d + y * P
      BY <1>1, <1>2, <3>1, LowIs
    <3>4. x \in Nat /\ y \in Nat /\ c[k] = x + y /\ e \in Nat /\ d \in Nat /\ t[k - 1] = e + d
          /\ t[k] = Low(v, k) + Low(w, k)
      BY <1>2, <2>1, <3>1
    <3> HIDE DEF c, t, P, x, y, e, d
    <3>5. (x + y) * P = x * P + y * P /\ x * P \in Nat /\ y * P \in Nat
      BY <3>2, <3>4, Rearranged
    <3>. QED  BY <3>3, <3>4, <3>5 DEF P
  <2>. QED  BY <2>2, <2>3, <2>4 DEF IsWeighed
<1>5. AddBiguint(a, b) = r
  BY DEF AddBiguint, IsSums
<1>6. Carries(s, c, n)
  <2>1. \A f : Carries(f, c, n) <=> f = CarriesOf(t, n)
    BY <1>1, <1>3, <1>4, CarriesAre
  <2>2. \A f : Carries(f, c, n) <=> IsSums(f, a, b, n)
    <3> TAKE f
    <3>1. \A k \in 0 .. n : k # 0 => c[k] = Limb(a, k) + Limb(b, k)
      BY <1>1
    <3> HIDE DEF c
    <3>. QED  BY <3>1 DEF Carries, IsSums, AddManyGate
  <2>3. \E f : IsSums(f, a, b, n)
    BY <2>1, <2>2
  <2>4. IsSums(s, a, b, n)
    <3> HIDE DEF n
    <3>. QED  BY <2>3
  <2>. QED  BY <2>2, <2>4
<1> HIDE DEF c, s
<1>7. t[n] = v + w
  <2>1. Low(v, n) = v /\ Low(w, n) = w /\ n \in 0 .. n
    BY <1>1, MaxLenIs, EnoughLimbs
  <2>. QED  BY <2>1
<1>8. v + w < Power(n + 1)
  <2>1. v < Power(n) /\ w < Power(n)
    BY <1>1, MaxLenIs, EnoughLimbs
  <2>2. Power(n) \in Nat /\ Power(n + 1) = Power(n) * Base /\ Base \in Nat /\ Base >= 2
    BY <1>1, Powers
  <2> DEFINE P == Power(n)
  <2>3. P \in Nat /\ v < P /\ w < P /\ Power(n + 1) = P * Base
    BY <2>1, <2>2
  <2> HIDE DEF P
  <2>4. P * Base >= P * 2
    BY <2>2, <2>3
  <2>. QED  BY <1>1, <2>2, <2>3, <2>4
<1> HIDE DEF t, n
<1>9. IsNumber(r, t[n])
  BY <1>1, <1>3, <1>4, <1>6, <1>7, <1>8, ColumnsAre
<1>. QED  BY <1>5, <1>7, <1>9

\* The low limbs of a number that lies a multiple away.
LEMMA LowOfSame ==
    ASSUME NEW d \in Nat, NEW i \in Nat, NEW e \in 0 .. Power(i) - 1, NEW k \in Int, d = e + k * Power(i)
    PROVE  Low(d, i) = e
<1> DEFINE P == Power(i)
<1>1. P \in Nat /\ P > 0
  BY Powers
<1>2. d = k * P + e /\ d \in Int /\ e \in 0 .. P - 1
  <2> HIDE DEF P
  <2>1. d = e + k * P /\ e \in 0 .. P - 1
    BY DEF P
  <2>. QED  BY <1>1, <2>1
<1> HIDE DEF P
<1>3. d % P = e
  BY <1>1, <1>2, RemainderUnique
<1>. QED  BY <1>3 DEF Low, P

\* What is borrowed below limb k + 1.
Borrow(v, w, k) == IF Low(v, k) < Low(w, k) THEN 1 ELSE 0

\* One limb of a difference.
LEMMA LimbOfDifference ==
    ASSUME NEW v \in Nat, NEW w \in Nat, w <= v, NEW k \in Nat \ {0}
    PROVE  SubU32(LimbAt(v, k), LimbAt(w, k), Borrow(v, w, k - 1))
             = [low |-> LimbAt(v - w, k), high |-> Borrow(v, w, k)]
<1> DEFINE d == v - w
           j == k - 1
           P == Power(j)
           x == LimbAt(v, k)
           y == LimbAt(w, k)
           z == LimbAt(d, k)
           h == Borrow(v, w, k)
           g == Borrow(v, w, j)
<1>1. d \in Nat /\ j \in Nat /\ k \in Nat /\ P \in Nat /\ P > 0 /\ Power(k) = P * Base /\ Base \in Nat /\ Base > 0
  BY PowerIs
<1>2. ASSUME NEW i \in Nat
      PROVE  Low(d, i) = (Low(v, i) - Low(w, i)) + Borrow(v, w, i) * Power(i)
  <2> DEFINE e == Low(v, i)
             f == Low(w, i)
             q == Above(v, i)
             r == Above(w, i)
             Q == Power(i)
             b == Borrow(v, w, i)
             u == (e - f) + b * Q
             o == (q - r) - b
  <2>1. Q \in Nat /\ Q > 0
    BY Powers
  <2>2. e \in 0 .. Q - 1 /\ v = e + q * Q
    BY LowIs
  <2>3. f \in 0 .. Q - 1 /\ w = f + r * Q
    BY LowIs
  <2>4. q \in Nat /\ r \in Nat
    BY AboveIs
  <2>5. b \in {0, 1} /\ (e < f <=> b = 1)
    BY DEF Borrow
  <2> HIDE DEF e, f, q, r, Q, b
  <2>6. b * Q = IF e < f THEN Q ELSE 0
    BY <2>1, <2>5
  <2>7. u \in 0 .. Q - 1
    BY <2>1, <2>2, <2>3, <2>6
  <2>8. o * Q = (q * Q - r * Q) - b * Q /\ q * Q \in Int /\ r * Q \in Int /\ b * Q \in Int /\ o \in Int
    BY <2>1, <2>4, <2>5, Rearranged
  <2>9. d = u + o * Q
    BY <2>1, <2>2, <2>3, <2>8
  <2> HIDE DEF u, o, d
  <2>10. Low(d, i) = u
    BY <1>1, <2>7, <2>8, <2>9, LowOfSame DEF Q
  <2>. QED  BY <2>10 DEF u, e, f, b, Q
<1>3. Low(v, k) = Low(v, j) + x * P /\ Low(w, k) = Low(w, j) + y * P /\ Low(d, k) = Low(d, j) + z * P
  BY <1>1, LowIs
<1>4. /\ Low(d, j) = (Low(v, j) - Low(w, j)) + g * P
      /\ Low(d, k) = (Low(v, k) - Low(w, k)) + h * (P * Base)
  BY <1>1, <1>2
<1>5. Low(v, j) \in Nat /\ Low(w, j) \in Nat /\ Low(d, j) \in Nat
  <2>1. Low(v, j) \in 0 .. P - 1 /\ Low(w, j) \in 0 .. P - 1 /\ Low(d, j) \in 0 .. P - 1
    BY <1>1, LowIs
  <2>. QED  BY <1>1, <2>1
<1>6. x \in 0 .. Base - 1 /\ y \in 0 .. Base - 1 /\ z \in 0 .. Base - 1
  BY <1>1, AboveIs
<1>7. h \in {0, 1} /\ g \in {0, 1}
  BY DEF Borrow
<1> DEFINE e == Low(v, j)
           f == Low(w, j)
<1>8. (((e - f) + g * P) + z * P) = ((e + x * P) - (f + y * P)) + h * (P * Base) /\ e \in Nat /\ f \in Nat
  BY <1>3, <1>4, <1>5
<1> HIDE DEF d, P, x, y, z, h, g, e, f
<1>9. z = ((x - y) - g) + h * Base
  <2> DEFINE A == g + z
             B == (x - y) + h * Base
  <2>1. A \in Int /\ B \in Int
    BY <1>1, <1>6, <1>7
  <2>2. A * P = g * P + z * P /\ g * P \in Int /\ z * P \in Int
    BY <1>1, <1>6, <1>7, Rearranged
  <2>3. h * (P * Base) = (h * Base) * P /\ h * Base \in Int /\ (h * Base) * P \in Int
    BY <1>1, <1>7, Rearranged
  <2>4. B * P = (x * P - y * P) + (h * Base) * P /\ x * P \in Int /\ y * P \in Int
    <3>1. x \in Int /\ y \in Int /\ x - y \in Int /\ P \in Int /\ Base \in Int
      BY <1>1, <1>6
    <3> DEFINE t == h * Base
               s == x - y
    <3>2. (s + t) * P = s * P + t * P
      BY <2>3, <3>1, Rearranged
    <3>3. s * P = x * P - y * P
      BY <3>1, Rearranged
    <3>4. x * P \in Int /\ y * P \in Int
      BY <3>1, Rearranged
    <3>. QED  BY <3>2, <3>3, <3>4
  <2>5. A * P = B * P
    BY <1>8, <2>2, <2>3, <2>4
  <2>6. A = B
    <3> HIDE DEF A, B
    <3>. QED  BY <1>1, <2>1, <2>5
  <2>7. h * Base \in Int
    BY <2>3
  <2>. QED  BY <1>1, <1>6, <1>7, <2>6, <2>7
<1>10. h * Base = IF h = 1 THEN Base ELSE 0
  BY <1>1, <1>7
<1>11. SubU32(x, y, g) = [low |-> z, high |-> h]
  BY <1>1, <1>6, <1>7, <1>9, <1>10 DEF SubU32
<1>. QED  BY <1>11 DEF x, y, z, g, h, j, d

IsDifferences(f, a, b, n) ==
    f = [i \in 0 .. n |-> IF i = 0 THEN [low |-> 0, high |-> 0]
                          ELSE SubU32(Limb(a, i), Limb(b, i), f[i - 1].high)]

\* The difference to a number that is not larger.
LEMMA SubBiguintIs ==
    ASSUME NEW a, NEW v, IsNumber(a, v), NEW b, NEW w, IsNumber(b, w), w <= v
    PROVE  IsNumber(SubBiguint(a, b), v - w)
<1> DEFINE n == MaxLen(a, b)
           d == v - w
           f == CHOOSE f : IsDifferences(f, a, b, n)
           g == [i \in 0 .. n |-> [low |-> IF i = 0 THEN 0 ELSE LimbAt(d, i), high |-> Borrow(v, w, i)]]
           r == [i \in 1 .. n |-> f[i].low]
<1>1. n \in Nat /\ v \in Nat /\ w \in Nat /\ d \in Nat
  BY MaxLenIs, NumberIs
<1>2. ASSUME NEW i \in 1 .. n
      PROVE  /\ SubU32(Limb(a, i), Limb(b, i), g[i - 1].high) = g[i]
             /\ i \in Nat \ {0} /\ i \in 0 .. n /\ i - 1 \in 0 .. n
  <2>1. i \in Nat \ {0} /\ i \in 0 .. n /\ i - 1 \in 0 .. n
    BY <1>1
  <2>2. Limb(a, i) = LimbAt(v, i) /\ Limb(b, i) = LimbAt(w, i)
    BY <2>1, NumberIs
  <2>3. g[i - 1].high = Borrow(v, w, i - 1)
    BY <2>1
  <2>4. g[i] = [low |-> LimbAt(d, i), high |-> Borrow(v, w, i)]
    BY <2>1
  <2>5. SubU32(LimbAt(v, i), LimbAt(w, i), Borrow(v, w, i - 1)) = [low |-> LimbAt(d, i), high |-> Borrow(v, w, i)]
    BY <1>1, <2>1, LimbOfDifference
  <2> HIDE DEF g, d
  <2>. QED  BY <2>1, <2>2, <2>3, <2>4, <2>5
<1>3. g[0] = [low |-> 0, high |-> 0]
  <2>1. Low(v, 0) = 0 /\ Low(w, 0) = 0
    BY <1>1, LowIs
  <2>2. Borrow(v, w, 0) = 0
    BY <2>1 DEF Borrow
  <2>3. 0 \in 0 .. n
    BY <1>1
  <2>. QED  BY <2>2, <2>3
<1>4. \A i \in 1 .. n : g[i].low = LimbAt(d, i)
  BY <1>2
<1>5. IsDifferences(g, a, b, n)
  <2>1. g = [i \in 0 .. n |-> g[i]]
    OBVIOUS
  <2>2. ASSUME NEW i \in 0 .. n
        PROVE  g[i] = IF i = 0 THEN [low |-> 0, high |-> 0] ELSE SubU32(Limb(a, i), Limb(b, i), g[i - 1].high)
    <3>1. CASE i = 0
      BY <1>3, <3>1
    <3>2. CASE i # 0
      <4>1. i \in 1 .. n
        BY <1>1, <3>2
      <4> HIDE DEF g
      <4>. QED  BY <1>2, <3>2, <4>1
    <3>. QED  BY <3>1, <3>2
  <2> HIDE DEF g
  <2>. QED  BY <2>1, <2>2 DEF IsDifferences
<1>6. IsDifferences(f, a, b, n)
  <2> HIDE DEF g, n
  <2>. QED  BY <1>5
<1> HIDE DEF f, g
<1>7. \A i \in 0 .. n : f[i] = IF i = 0 THEN [low |-> 0, high |-> 0]
                                 ELSE SubU32(Limb(a, i), Limb(b, i), f[i - 1].high)
  BY <1>6 DEF IsDifferences
<1> DEFINE T == {i \in 0 .. n : f[i] = g[i]}
<1>8. 0 \in T
  <2>1. 0 \in 0 .. n
    BY <1>1
  <2>. QED  BY <1>3, <1>7, <2>1
<1>9. \A i \in 1 .. n : i - 1 \in T => i \in T
  <2> SUFFICES ASSUME NEW i \in 1 .. n, i - 1 \in T PROVE i \in T
    OBVIOUS
  <2>1. f[i - 1] = g[i - 1] /\ i \in 0 .. n /\ i # 0
    BY <1>1
  <2>2. f[i] = SubU32(Limb(a, i), Limb(b, i), f[i - 1].high)
    BY <1>7, <2>1
  <2>3. f[i] = g[i]
    BY <1>2, <2>1, <2>2
  <2>. QED  BY <2>1, <2>3
<1>10. \A i \in 0 .. n : i \in T
  <2> HIDE DEF T, n
  <2>. QED  BY <1>1, <1>8, <1>9, Counting
<1>11. \A i \in 1 .. n : f[i].low = LimbAt(d, i)
  <2> TAKE i \in 1 .. n
  <2>1. i \in 0 .. n
    BY <1>1
  <2>2. f[i] = g[i]
    BY <1>10, <2>1
  <2>. QED  BY <1>4, <2>2
<1>12. SubBiguint(a, b) = r
  BY DEF SubBiguint, IsDifferences, f
<1>13. d < Power(n)
  <2>1. v < Power(n) /\ Power(n) \in Nat
    BY <1>1, MaxLenIs, EnoughLimbs, Powers
  <2>. QED  BY <1>1, <2>1
<1>14. r = [i \in 1 .. n |-> LimbAt(d, i)]
  BY <1>11
<1> HIDE DEF r, n, d
<1>15. IsNumber(r, d)
  BY <1>1, <1>13, <1>14, LimbedIs
<1>. QED  BY <1>12, <1>15 DEF d

IsComparisons(f, a, b, n) ==
    f = [i \in 0 .. n |-> \/ i = 0
                          \/ Limb(a, i) < Limb(b, i)
                          \/ Limb(a, i) = Limb(b, i) /\ f[i - 1]]

\* Numbers are compared from their lowest limbs.
LEMMA CmpBiguintIs ==
    ASSUME NEW a, NEW v, IsNumber(a, v), NEW b, NEW w, IsNumber(b, w)
    PROVE  CmpBiguint(a, b) <=> v <= w
<1> DEFINE n == MaxLen(a, b)
           f == CHOOSE f : IsComparisons(f, a, b, n)
           g == [i \in 0 .. n |-> Low(v, i) <= Low(w, i)]
<1>1. n \in Nat /\ v \in Nat /\ w \in Nat
  BY MaxLenIs, NumberIs
<1>2. ASSUME NEW i \in 1 .. n
      PROVE  g[i] <=> \/ Limb(a, i) < Limb(b, i)
                      \/ Limb(a, i) = Limb(b, i) /\ g[i - 1]
  <2> DEFINE j == i - 1
             P == Power(j)
             x == Limb(a, i)
             y == Limb(b, i)
             e == Low(v, j)
             h == Low(w, j)
  <2>1. i \in Nat \ {0} /\ i \in 0 .. n /\ j \in 0 .. n /\ j \in Nat
    BY <1>1
  <2>2. x = LimbAt(v, i) /\ y = LimbAt(w, i)
    BY <2>1, NumberIs
  <2>3. P \in Nat /\ P > 0
    BY <2>1, PowerIs
  <2>4. x \in Nat /\ y \in Nat
    BY <1>1, <2>1, <2>2, AboveIs, Powers
  <2>5. e \in 0 .. P - 1 /\ h \in 0 .. P - 1
    BY <1>1, <2>1, LowIs
  <2>6. Low(v, i) = e + x * P /\ Low(w, i) = h + y * P
    BY <1>1, <2>1, <2>2, LowIs
  <2>7. (g[i] <=> e + x * P <= h + y * P) /\ (g[j] <=> e <= h)
    BY <2>1, <2>6
  <2> HIDE DEF P, x, y, e, h, g
  <2>8. CASE x = y
    <3>1. x * P = y * P /\ x * P \in Nat
      BY <2>3, <2>4, <2>8
    <3>. QED  BY <2>3, <2>4, <2>5, <2>7, <2>8, <3>1 DEF x, y, j
  <2>9. CASE x < y
    <3>1. (x + 1) * P <= y * P /\ (x + 1) * P = x * P + P /\ x * P \in Nat /\ y * P \in Nat
      BY <2>3, <2>4, <2>9
    <3>. QED  BY <2>3, <2>4, <2>5, <2>7, <2>9, <3>1 DEF x, y, j
  <2>10. CASE x > y
    <3>1. (y + 1) * P <= x * P /\ (y + 1) * P = y * P + P /\ x * P \in Nat /\ y * P \in Nat
      BY <2>3, <2>4, <2>10
    <3>. QED  BY <2>3, <2>4, <2>5, <2>7, <2>10, <3>1 DEF x, y, j
  <2>. QED  BY <2>4, <2>8, <2>9, <2>10
<1>3. 0 \in 0 .. n /\ g[0]
  <2>1. Low(v, 0) = 0 /\ Low(w, 0) = 0 /\ 0 \in 0 .. n
    BY <1>1, LowIs
  <2>2. Low(v, 0) <= Low(w, 0)
    BY <2>1
  <2>3. g[0] = (Low(v, 0) <= Low(w, 0))
    BY <2>1, Zenon
  <2> HIDE DEF g
  <2>. QED  BY <2>1, <2>2, <2>3
<1>4. IsComparisons(g, a, b, n)
  <2> DEFINE G(i) == \/ i = 0
                     \/ Limb(a, i) < Limb(b, i)
                     \/ Limb(a, i) = Limb(b, i) /\ g[i - 1]
  <2>1. ASSUME NEW i \in 0 .. n
        PROVE  (Low(v, i) <= Low(w, i)) = G(i)
    <3>1. g[i] <=> G(i)
      <4>1. CASE i = 0
        BY <1>3, <4>1
      <4>2. CASE i # 0
        <5>1. i \in 1 .. n
          BY <1>1, <4>2
        <5> HIDE DEF g
        <5>. QED  BY <1>2, <4>2, <5>1
      <4>. QED  BY <4>1, <4>2
    <3>2. g[i] <=> Low(v, i) <= Low(w, i)
      OBVIOUS
    <3> HIDE DEF g
    <3>3. Low(v, i) <= Low(w, i) <=> G(i)
      BY <3>1, <3>2
    <3>4. Low(v, i) \in Int /\ Low(w, i) \in Int
      <4>1. i \in Nat
        BY <1>1
      <4>2. Low(v, i) \in 0 .. Power(i) - 1 /\ Low(w, i) \in 0 .. Power(i) - 1 /\ Power(i) \in Nat
        BY <1>1, <4>1, LowIs, Powers
      <4>. QED  BY <4>2
    <3> DEFINE A == Low(v, i) <= Low(w, i)
               B == G(i)
    <3>5. A \in BOOLEAN
      BY <3>4
    <3>6. B \in BOOLEAN
      <4> USE DEF G
      <4> DEFINE h == g[i - 1]
                 x == Limb(a, i)
                 y == Limb(b, i)
      <4>1. B = (i = 0 \/ x < y \/ (x = y /\ h))
        BY Zenon
      <4> HIDE DEF h, x, y, B
      <4>2. (i = 0 \/ x < y \/ (x = y /\ h)) \in BOOLEAN
        OBVIOUS
      <4>. QED  BY <4>1, <4>2, Zenon
    <3>7. A <=> B
      BY <3>3
    <3>8. A = B
      <4> HIDE DEF A, B
      <4>. QED  BY <3>5, <3>6, <3>7
    <3>. QED  BY <3>8
  <2>2. g = [i \in 0 .. n |-> G(i)]
    <3>1. g = [i \in 0 .. n |-> Low(v, i) <= Low(w, i)]
      OBVIOUS
    <3> HIDE DEF g, G
    <3>. QED  BY <2>1, <3>1, Zenon
  <2> HIDE DEF g
  <2>. QED  BY <2>2 DEF IsComparisons
<1>5. IsComparisons(f, a, b, n)
  <2> HIDE DEF g, n
  <2>. QED  BY <1>4
<1> HIDE DEF f
<1>6. \A i \in 0 .. n : f[i] <=> \/ i = 0
                                 \/ Limb(a, i) < Limb(b, i)
                                 \/ Limb(a, i) = Limb(b, i) /\ f[i - 1]
  BY <1>5 DEF IsComparisons
<1> HIDE DEF g
<1> DEFINE T == {i \in 0 .. n : f[i] <=> g[i]}
<1>7. 0 \in T
  BY <1>3, <1>6
<1>8. \A i \in 1 .. n : i - 1 \in T => i \in T
  <2> SUFFICES ASSUME NEW i \in 1 .. n, i - 1 \in T PROVE i \in T
    OBVIOUS
  <2>1. (f[i - 1] <=> g[i - 1]) /\ i \in 0 .. n /\ i # 0
    BY <1>1
  <2>2. f[i] <=> \/ Limb(a, i) < Limb(b, i)
                 \/ Limb(a, i) = Limb(b, i) /\ f[i - 1]
    BY <1>6, <2>1
  <2>3. f[i] <=> g[i]
    BY <1>2, <2>1, <2>2
  <2>. QED  BY <2>1, <2>3
<1>9. \A i \in 0 .. n : i \in T
  <2> HIDE DEF T, n
  <2>. QED  BY <1>1, <1>7, <1>8, Counting
<1>10. f[n] <=> g[n]
  BY <1>1, <1>9
<1>11. CmpBiguint(a, b) <=> f[n]
  BY DEF CmpBiguint, IsComparisons, f
<1>12. g[n] <=> v <= w
  <2>1. Low(v, n) = v /\ Low(w, n) = w
    BY <1>1, MaxLenIs, EnoughLimbs
  <2>2. n \in 0 .. n
    BY <1>1
  <2>. QED  BY <2>1, <2>2 DEF g
<1>. QED  BY <1>10, <1>11, <1>12

-----------------------------------------------------------------------------
(* Products.                                                               *)

\* Among finite sets of sets there is a smallest.
LEMMA SmallestSet ==
    ASSUME NEW X, X # {}, \A s \in X : IsFiniteSet(s)
    PROVE  \E s \in X : \A t \in X : Cardinality(s) <= Cardinality(t)
<1> DEFINE T == {Cardinality(s) : s \in X}
<1>1. T \in SUBSET Nat /\ T # {}
  BY FS_CardinalityType
<1>2. PICK b \in T : \A c \in T : b <= c
  <2> HIDE DEF T
  <2>. QED  BY <1>1, LeastNatural
<1>. QED  BY <1>2

\* What a column's entries add, the sum mul_biguint takes of them and the function
\* its fold defines by recursion.
Addend(a, b, c) == MulAddU32(a[c[1]], b[c[2]], 0)[c[3]]

SumOf(a, b, S) == MapThenSumSet(LAMBDA c : MulAddU32(a[c[1]], b[c[2]], 0)[c[3]], S)

IsSum(f, a, b, S) ==
    f = [s \in SUBSET S |-> IF s = {} THEN 0
                            ELSE LET x == CHOOSE x \in s : TRUE IN Addend(a, b, x) + f[s \ {x}]]

\* The element that the fold takes next leaves a smaller set.
LEMMA Removed ==
    ASSUME NEW s, IsFiniteSet(s), s # {}
    PROVE  LET x == CHOOSE x \in s : TRUE
           IN  /\ x \in s /\ IsFiniteSet(s \ {x})
               /\ Cardinality(s \ {x}) < Cardinality(s)
<1> DEFINE x == CHOOSE x \in s : TRUE
<1>1. x \in s
  OBVIOUS
<1> HIDE DEF x
<1>2. IsFiniteSet(s \ {x}) /\ Cardinality(s \ {x}) = Cardinality(s) - 1 /\ Cardinality(s) \in Nat
  BY <1>1, FS_RemoveElement, FS_CardinalityType
<1>3. QED BY <1>1, <1>2 DEF x

\* Two such functions agree where both are defined.
LEMMA SumAgrees ==
    ASSUME NEW a, NEW b, NEW S, NEW T, IsFiniteSet(S), IsFiniteSet(T),
           NEW f, NEW g, IsSum(f, a, b, S), IsSum(g, a, b, T)
    PROVE  \A s \in SUBSET (S \cap T) : f[s] = g[s]
<1> DEFINE Off == {s \in SUBSET (S \cap T) : f[s] # g[s]}
<1>1. SUFFICES ASSUME Off # {} PROVE FALSE
  OBVIOUS
<1>2. \A s \in Off : IsFiniteSet(s)
  BY FS_Subset
<1>3. PICK s \in Off : \A t \in Off : Cardinality(s) <= Cardinality(t)
  <2> HIDE DEF Off
  <2>. QED  BY <1>1, <1>2, SmallestSet
<1>4. s \in SUBSET S /\ s \in SUBSET T
  OBVIOUS
<1>5. s # {}
  BY <1>4 DEF IsSum
<1> DEFINE x == CHOOSE x \in s : TRUE
<1>6. IsFiniteSet(s \ {x}) /\ Cardinality(s \ {x}) < Cardinality(s)
  BY <1>2, <1>5, Removed
<1>7. f[s] = Addend(a, b, x) + f[s \ {x}] /\ g[s] = Addend(a, b, x) + g[s \ {x}]
  BY <1>4, <1>5 DEF IsSum
<1>8. s \ {x} \notin Off
  BY <1>2, <1>3, <1>6, FS_CardinalityType
<1>9. s \ {x} \in SUBSET (S \cap T)
  BY <1>4
<1>. QED  BY <1>7, <1>8, <1>9

\* There is such a function over every finite set.
LEMMA SumExists ==
    ASSUME NEW a, NEW b, NEW S, IsFiniteSet(S)
    PROVE  \E f : IsSum(f, a, b, S)
<1> DEFINE Off == {T \in SUBSET S : ~\E f : IsSum(f, a, b, T)}
<1>1. SUFFICES ASSUME Off # {} PROVE FALSE
  OBVIOUS
<1>2. \A T \in Off : IsFiniteSet(T)
  BY FS_Subset
<1>3. PICK T \in Off : \A U \in Off : Cardinality(T) <= Cardinality(U)
  <2> HIDE DEF Off
  <2>. QED  BY <1>1, <1>2, SmallestSet
<1> DEFINE F(U) == CHOOSE f : IsSum(f, a, b, U)
<1>4. ASSUME NEW U \in SUBSET T, U # T
      PROVE  IsSum(F(U), a, b, U) /\ IsFiniteSet(U)
  <2>1. IsFiniteSet(U) /\ Cardinality(U) <= Cardinality(T)
    BY <1>2, FS_Subset
  <2>2. Cardinality(U) # Cardinality(T)
    BY <1>2, <1>4, FS_Subset
  <2>3. Cardinality(U) \in Nat /\ Cardinality(T) \in Nat
    BY <1>2, <2>1, FS_CardinalityType
  <2>4. U \notin Off
    BY <1>3, <2>1, <2>2, <2>3
  <2>. QED  BY <2>1, <2>4
<1> DEFINE y == CHOOSE x \in T : TRUE
           g == [s \in SUBSET T |-> IF s # T THEN F(s)[s]
                                     ELSE IF T = {} THEN 0 ELSE Addend(a, b, y) + F(T \ {y})[T \ {y}]]
<1>5. ASSUME NEW s \in SUBSET T
      PROVE  g[s] = IF s = {} THEN 0
                    ELSE LET x == CHOOSE x \in s : TRUE IN Addend(a, b, x) + g[s \ {x}]
  <2>1. CASE s = {}
    <3>1. CASE T = {}
      BY <2>1, <3>1
    <3>2. CASE T # {}
      <4>1. IsSum(F(s), a, b, s)
        BY <1>4, <2>1, <3>2
      <4>2. F(s)[s] = 0
        <5> HIDE DEF F
        <5>. QED BY <2>1, <4>1 DEF IsSum
      <4>. QED  BY <2>1, <3>2, <4>2
    <3>. QED  BY <3>1, <3>2
  <2>2. CASE s # {}
    <3> DEFINE x == CHOOSE x \in s : TRUE
    <3>1. x \in s
      BY <2>2
    <3>2. s \ {x} \in SUBSET T /\ s \ {x} # T
      BY <3>1
    <3>3. g[s \ {x}] = F(s \ {x})[s \ {x}]
      BY <3>2
    <3>4. CASE s = T
      BY <2>2, <3>3, <3>4
    <3>5. CASE s # T
      <4>1. IsSum(F(s), a, b, s) /\ IsSum(F(s \ {x}), a, b, s \ {x}) /\ IsFiniteSet(s) /\ IsFiniteSet(s \ {x})
        BY <1>4, <3>2, <3>5
      <4>2. F(s)[s \ {x}] = F(s \ {x})[s \ {x}]
        <5>1. s \ {x} \in SUBSET (s \cap (s \ {x}))
          OBVIOUS
        <5> HIDE DEF F, x
        <5>. QED  BY <4>1, <5>1, SumAgrees
      <4>3. F(s)[s] = Addend(a, b, x) + F(s)[s \ {x}]
        <5> HIDE DEF F
        <5>. QED BY <4>1, <2>2 DEF IsSum
      <4>. QED  BY <2>2, <3>3, <3>5, <4>2, <4>3
    <3>. QED  BY <3>4, <3>5
  <2>. QED  BY <2>1, <2>2
<1>6. IsSum(g, a, b, T)
  <2>1. g = [s \in SUBSET T |-> g[s]]
    OBVIOUS
  <2> HIDE DEF g
  <2>. QED BY <1>5, <2>1 DEF IsSum
<1>. QED  BY <1>6

\* So SumOf is the sum of its addends.
LEMMA SumIsSum ==
    ASSUME NEW a, NEW b, NEW S, IsFiniteSet(S)
    PROVE  \E f : IsSum(f, a, b, S) /\ SumOf(a, b, S) = f[S]
<1> DEFINE f == CHOOSE f : IsSum(f, a, b, S)
<1>1. IsSum(f, a, b, S)
  BY SumExists
<1>2. SumOf(a, b, S) = f[S]
  BY SMT DEF SumOf, Addend, MapThenSumSet, MapThenFoldSet, IsSum
<1>. QED  BY <1>1, <1>2

\* No addends.
LEMMA SumEmpty == \A a, b : SumOf(a, b, {}) = 0
<1> TAKE a, b
<1>1. PICK f : IsSum(f, a, b, {}) /\ SumOf(a, b, {}) = f[{}]
  BY SumIsSum, FS_EmptySet
<1>. QED  BY <1>1 DEF IsSum

\* One addend and the others.
LEMMA SumStep ==
    ASSUME NEW a, NEW b, NEW S, IsFiniteSet(S), S # {}
    PROVE  LET x == CHOOSE x \in S : TRUE IN x \in S /\ SumOf(a, b, S) = Addend(a, b, x) + SumOf(a, b, S \ {x})
<1> DEFINE x == CHOOSE x \in S : TRUE
<1>1. x \in S /\ IsFiniteSet(S \ {x})
  BY Removed
<1>2. PICK f : IsSum(f, a, b, S) /\ SumOf(a, b, S) = f[S]
  BY SumIsSum
<1>3. PICK g : IsSum(g, a, b, S \ {x}) /\ SumOf(a, b, S \ {x}) = g[S \ {x}]
  <2> HIDE DEF x
  <2>. QED BY <1>1, SumIsSum
<1>4. f[S] = Addend(a, b, x) + f[S \ {x}]
  BY <1>2 DEF IsSum
<1>5. f[S \ {x}] = g[S \ {x}]
  <2> DEFINE D == S \ {x}
  <2>1. D \in SUBSET (S \cap D) /\ IsFiniteSet(D) /\ IsSum(g, a, b, D) /\ IsSum(f, a, b, S)
    BY <1>1, <1>2, <1>3
  <2> HIDE DEF x, D
  <2>2. f[D] = g[D]
    BY <2>1, SumAgrees
  <2>. QED  BY <2>2 DEF D
<1>. QED  BY <1>1, <1>2, <1>3, <1>4, <1>5

\* A sum does not depend on the order its terms are taken in.
LEMMA SumTakes ==
    ASSUME NEW G, IsFiniteSet(G), NEW a, NEW b, \A c \in G : Addend(a, b, c) \in Nat
    PROVE  \A S \in SUBSET G :
             /\ SumOf(a, b, S) \in Nat
             /\ \A y \in S : SumOf(a, b, S) = Addend(a, b, y) + SumOf(a, b, S \ {y})
<1> DEFINE Fine(S) == SumOf(a, b, S) \in Nat /\ \A y \in S : SumOf(a, b, S) = Addend(a, b, y) + SumOf(a, b, S \ {y})
           Off == {S \in SUBSET G : ~Fine(S)}
<1>1. SUFFICES ASSUME Off # {} PROVE FALSE
  OBVIOUS
<1>2. \A S \in SUBSET G : IsFiniteSet(S)
  BY FS_Subset
<1>3. PICK S \in Off : \A U \in Off : Cardinality(S) <= Cardinality(U)
  <2>1. \A s \in Off : IsFiniteSet(s)
    BY <1>2
  <2> HIDE DEF Off
  <2>. QED  BY <1>1, <2>1, SmallestSet
<1>4. ASSUME NEW U \in SUBSET S, U # S
      PROVE  U \in SUBSET G /\ Fine(U)
  <2>1. IsFiniteSet(S) /\ IsFiniteSet(U) /\ Cardinality(U) <= Cardinality(S)
    BY <1>2, FS_Subset
  <2>2. Cardinality(U) # Cardinality(S) /\ Cardinality(U) \in Nat /\ Cardinality(S) \in Nat
    BY <1>4, <2>1, FS_Subset, FS_CardinalityType
  <2> HIDE DEF Fine
  <2>. QED  BY <1>3, <2>1, <2>2
<1>5. Fine({})
  BY SumEmpty
<1>6. S # {}
  <2> HIDE DEF Fine
  <2>. QED  BY <1>5
<1>7. PICK x \in S : SumOf(a, b, S) = Addend(a, b, x) + SumOf(a, b, S \ {x})
  <2> DEFINE x == CHOOSE x \in S : TRUE
  <2>1. IsFiniteSet(S)
    BY <1>2
  <2>2. x \in S /\ SumOf(a, b, S) = Addend(a, b, x) + SumOf(a, b, S \ {x})
    BY <1>6, <2>1, SumStep
  <2> HIDE DEF x
  <2>. QED  BY <2>2
<1>8. ASSUME NEW y \in S, y # x
      PROVE  SumOf(a, b, S) = Addend(a, b, y) + SumOf(a, b, S \ {y})
  <2> DEFINE r == SumOf(a, b, (S \ {x}) \ {y})
  <2>1. (S \ {x}) \ {y} = (S \ {y}) \ {x}
    OBVIOUS
  <2>2. SumOf(a, b, S \ {x}) = Addend(a, b, y) + r
    BY <1>4, <1>8
  <2>3. SumOf(a, b, S \ {y}) = Addend(a, b, x) + r
    BY <1>4, <1>8, <2>1
  <2>4. Addend(a, b, x) \in Nat /\ Addend(a, b, y) \in Nat
    OBVIOUS
  <2>5. r \in Nat
    <3>1. (S \ {x}) \ {y} \in SUBSET S /\ (S \ {x}) \ {y} # S
      OBVIOUS
    <3>. QED  BY <1>4, <3>1
  <2> HIDE DEF r
  <2>6. SumOf(a, b, S) = Addend(a, b, x) + (Addend(a, b, y) + r) /\ SumOf(a, b, S \ {y}) = Addend(a, b, x) + r
    BY <1>7, <2>2, <2>3
  <2>. QED  BY <2>4, <2>5, <2>6
<1>9. SumOf(a, b, S) \in Nat
  BY <1>4, <1>7
<1>10. Fine(S)
  BY <1>7, <1>8, <1>9
<1> HIDE DEF Fine
<1>. QED  BY <1>10

\* A product's limbs: what the multiplication gate computes of two of them.
LEMMA ProductOfLimbs ==
    ASSUME NEW x \in 0 .. Base - 1, NEW y \in 0 .. Base - 1
    PROVE  /\ x * y \in Nat /\ x * y = ((x * y) \div Base) * Base + ((x * y) % Base)
           /\ (x * y) % Base \in 0 .. Base - 1 /\ (x * y) \div Base \in 0 .. Base - 1
           /\ MulAddU32(x, y, 0) = [low |-> (x * y) % Base, high |-> (x * y) \div Base]
<1>1. Base \in Nat /\ Base > 0 /\ x \in Nat /\ y \in Nat
  BY Powers
<1> DEFINE p == x * y
<1>2. p \in Nat /\ p + 0 = p
  BY <1>1
<1>3. p < Base * Base
  <2>1. x * y <= x * Base
    BY <1>1
  <2>2. x * Base <= (Base - 1) * Base /\ (Base - 1) * Base = Base * Base - Base
    BY <1>1
  <2>3. Base * Base \in Nat /\ x * Base \in Nat
    BY <1>1
  <2>. QED  BY <1>1, <1>2, <2>1, <2>2, <2>3
<1>4. MulAddU32(x, y, 0) = [low |-> (p + 0) % Base, high |-> (p + 0) \div Base]
  BY DEF MulAddU32
<1> HIDE DEF p
<1>5. p = (p \div Base) * Base + (p % Base) /\ p % Base \in 0 .. Base - 1 /\ p \div Base \in 0 .. Base - 1
  BY <1>1, <1>2, <1>3, Divided
<1>6. MulAddU32(x, y, 0) = [low |-> p % Base, high |-> p \div Base]
  BY <1>2, <1>4
<1>. QED  BY <1>2, <1>5, <1>6 DEF p

\* The limbs of a column, and those of its first rows.
Rows(a, b, k, i) == {c \in Column(a, b, k) : c[1] <= i}

\* What row i adds to column k.
RowPart(v, w, i, k) ==
    (IF k >= i THEN (LimbAt(v, i) * LimbAt(w, k + 1 - i)) % Base ELSE 0)
      + (IF k > i THEN (LimbAt(v, i) * LimbAt(w, k - i)) \div Base ELSE 0)

\* A column has finitely many entries, numbers all of them.
LEMMA ColumnIs ==
    ASSUME NEW a, NEW v, IsNumber(a, v), NEW b, NEW w, IsNumber(b, w), NEW k \in Nat \ {0}
    PROVE  /\ IsFiniteSet(Column(a, b, k))
           /\ \A i \in 1 .. Len(a), j \in 1 .. Len(b) :
                /\ a[i] = LimbAt(v, i) /\ b[j] = LimbAt(w, j)
                /\ LimbAt(v, i) \in 0 .. Base - 1 /\ LimbAt(w, j) \in 0 .. Base - 1
           /\ \A c \in Column(a, b, k) : Addend(a, b, c) \in Nat
<1> DEFINE R == 1 .. Len(a)
           C == 1 .. Len(b)
           K == {"low", "high"}
           X == R \X C \X K
<1>1. v \in Nat /\ w \in Nat /\ Len(a) \in Nat /\ Len(b) \in Nat
  BY NumberIs
<1>2. IsFiniteSet(Column(a, b, k))
  <2>1. IsFiniteSet(R) /\ IsFiniteSet(C)
    BY <1>1, FS_Interval
  <2>2. IsFiniteSet(K)
    <3>1. IsFiniteSet({"low"})
      BY FS_Singleton
    <3>2. K = {"low"} \cup {"high"}
      OBVIOUS
    <3>. QED  BY <3>1, <3>2, FS_AddElement
  <2>3. IsFiniteSet((R \X C) \X K)
    <3> HIDE DEF R, C, K
    <3>1. IsFiniteSet(R \X C)
      BY <2>1, FS_Product
    <3>. QED  BY <2>2, <3>1, FS_Product
  <2> DEFINE Y == (R \X C) \X K
             f == [y \in Y |-> <<y[1][1], y[1][2], y[2]>>]
  <2>4. f \in Surjection(Y, X)
    <3>1. f \in [Y -> X]
      <4> HIDE DEF R, C, K
      <4>. QED  OBVIOUS
    <3>2. ASSUME NEW x \in X PROVE \E y \in Y : f[y] = x
      <4> HIDE DEF R, C, K
      <4>1. PICK r \in R, c \in C, h \in K : x = <<r, c, h>>
        OBVIOUS
      <4>2. <<<<r, c>>, h>> \in Y
        OBVIOUS
      <4>3. f[<<<<r, c>>, h>>] = x
        BY <4>1, <4>2
      <4>. QED  BY <4>2, <4>3
    <3> HIDE DEF f, X, Y
    <3>. QED  BY <3>1, <3>2 DEF Surjection
  <2>5. IsFiniteSet(X)
    <3> HIDE DEF f, X, Y
    <3>1. IsFiniteSet(Y)
      BY <2>3 DEF Y
    <3>. QED  BY <2>4, <3>1, FS_Surjection
  <2>6. Column(a, b, k) \in SUBSET X
    BY DEF Column
  <2> HIDE DEF X
  <2>. QED  BY <2>5, <2>6, FS_Subset
<1>3. ASSUME NEW i \in R, NEW j \in C
      PROVE  /\ a[i] = LimbAt(v, i) /\ b[j] = LimbAt(w, j)
             /\ LimbAt(v, i) \in 0 .. Base - 1 /\ LimbAt(w, j) \in 0 .. Base - 1
  <2>1. i \in Nat \ {0} /\ j \in Nat \ {0} /\ i <= Len(a) /\ j <= Len(b)
    BY <1>1
  <2>2. Limb(a, i) = LimbAt(v, i) /\ Limb(b, j) = LimbAt(w, j)
    BY <2>1, NumberIs
  <2>3. Limb(a, i) = a[i] /\ Limb(b, j) = b[j]
    BY <2>1 DEF Limb
  <2>. QED  BY <1>1, <2>1, <2>2, <2>3, AboveIs
<1>4. ASSUME NEW c \in Column(a, b, k)
      PROVE  Addend(a, b, c) \in Nat
  <2>1. PICK i \in R, j \in C, h \in K : c = <<i, j, h>>
    BY DEF Column
  <2>2. Addend(a, b, c) = MulAddU32(a[i], b[j], 0)[h]
    BY <2>1 DEF Addend
  <2> HIDE DEF R, C
  <2>3. a[i] \in 0 .. Base - 1 /\ b[j] \in 0 .. Base - 1
    BY <1>3
  <2> DEFINE x == a[i]
             y == b[j]
  <2>4. x \in 0 .. Base - 1 /\ y \in 0 .. Base - 1
    BY <2>3
  <2>5. Addend(a, b, c) = MulAddU32(x, y, 0)[h]
    BY <2>2
  <2> HIDE DEF x, y
  <2>6. MulAddU32(x, y, 0).low \in 0 .. Base - 1 /\ MulAddU32(x, y, 0).high \in 0 .. Base - 1
    <3> DEFINE p == (x * y) % Base
               q == (x * y) \div Base
    <3>1. p \in 0 .. Base - 1 /\ q \in 0 .. Base - 1 /\ MulAddU32(x, y, 0) = [low |-> p, high |-> q]
      BY <2>4, ProductOfLimbs
    <3> HIDE DEF p, q
    <3>. QED  BY <3>1
  <2>7. Base \in Nat
    BY Powers
  <2>. QED  BY <2>5, <2>6, <2>7
<1>. QED  BY <1>2, <1>3, <1>4

\* Beyond a number's limbs there are none.
LEMMA NoLimb ==
    ASSUME NEW b, NEW w, IsNumber(b, w), NEW j \in Nat \ {0}, j > Len(b)
    PROVE  LimbAt(w, j) = 0
<1>1. Limb(b, j) = LimbAt(w, j) /\ Len(b) \in Nat
  BY NumberIs
<1>. QED  BY <1>1 DEF Limb

\* Row by row.
LEMMA RowAdded ==
    ASSUME NEW a, NEW v, IsNumber(a, v), NEW b, NEW w, IsNumber(b, w), NEW k \in Nat \ {0},
           NEW i \in 1 .. Len(a)
    PROVE  /\ SumOf(a, b, Rows(a, b, k, i)) = SumOf(a, b, Rows(a, b, k, i - 1)) + RowPart(v, w, i, k)
           /\ SumOf(a, b, Rows(a, b, k, i - 1)) \in Nat
           /\ RowPart(v, w, i, k) \in 0 .. 2 * (Base - 1)
<1> DEFINE G == Column(a, b, k)
           S == Rows(a, b, k, i)
           l == <<i, k + 1 - i, "low">>
           h == <<i, k - i, "high">>
           x == LimbAt(v, i)
           y == LimbAt(w, k + 1 - i)
           z == LimbAt(w, k - i)
           L == IF k >= i THEN (x * y) % Base ELSE 0
           H == IF k > i THEN (x * z) \div Base ELSE 0
<1>1. /\ IsFiniteSet(G) /\ \A c \in G : Addend(a, b, c) \in Nat
      /\ \A r \in 1 .. Len(a), j \in 1 .. Len(b) :
           /\ a[r] = LimbAt(v, r) /\ b[j] = LimbAt(w, j)
           /\ LimbAt(v, r) \in 0 .. Base - 1 /\ LimbAt(w, j) \in 0 .. Base - 1
  BY ColumnIs
<1>2. v \in Nat /\ w \in Nat /\ Len(a) \in Nat /\ Len(b) \in Nat /\ i \in Nat \ {0} /\ i <= Len(a)
        /\ Base \in Nat /\ Base > 0
  BY NumberIs, Powers
<1>3. S \in SUBSET G /\ (S \ {l}) \in SUBSET G /\ Rows(a, b, k, i - 1) \in SUBSET G
  BY DEF Rows
<1>4. (S \ {l}) \ {h} = Rows(a, b, k, i - 1)
  <2>1. ASSUME NEW c \in G PROVE c[1] <= i /\ c # l /\ c # h <=> c[1] <= i - 1
    <3>1. PICK r \in 1 .. Len(a), j \in 1 .. Len(b), e \in {"low", "high"} :
             c = <<r, j, e>> /\ r + j = IF e = "low" THEN k + 1 ELSE k
      BY DEF Column
    <3>2. r \in Nat /\ j \in Nat
      BY <1>2
    <3>. QED  BY <1>2, <3>1, <3>2
  <2>. QED  BY <2>1 DEF Rows
<1>5. ASSUME NEW j, NEW e \in {"low", "high"}, j = IF e = "low" THEN k + 1 - i ELSE k - i
      PROVE  <<i, j, e>> \in S <=> j \in 1 .. Len(b)
  <2>1. i + j = IF e = "low" THEN k + 1 ELSE k
    BY <1>2, <1>5
  <2>. QED  BY <1>2, <2>1 DEF Rows, Column
<1>6. ASSUME NEW j \in Nat \ {0} PROVE LimbAt(w, j) \in 0 .. Base - 1
  BY <1>2, AboveIs
<1>7. x \in 0 .. Base - 1
  BY <1>2, AboveIs
<1>8. ASSUME NEW j \in 1 .. Len(b)
      PROVE  /\ Addend(a, b, <<i, j, "low">>) = (x * LimbAt(w, j)) % Base
             /\ Addend(a, b, <<i, j, "high">>) = (x * LimbAt(w, j)) \div Base
  <2>1. a[i] = x /\ b[j] = LimbAt(w, j) /\ LimbAt(w, j) \in 0 .. Base - 1
    BY <1>1
  <2> DEFINE q == LimbAt(w, j)
  <2>2. Addend(a, b, <<i, j, "low">>) = MulAddU32(x, q, 0).low
          /\ Addend(a, b, <<i, j, "high">>) = MulAddU32(x, q, 0).high
    BY <2>1 DEF Addend
  <2> HIDE DEF x
  <2>3. MulAddU32(x, q, 0) = [low |-> (x * q) % Base, high |-> (x * q) \div Base]
    BY <1>7, <2>1, ProductOfLimbs
  <2>. QED  BY <2>2, <2>3
<1>9. x * 0 = 0 /\ 0 % Base = 0 /\ 0 \div Base = 0
  BY <1>2, <1>7
<1>10. L = IF l \in S THEN Addend(a, b, l) ELSE 0
  <2> DEFINE j == k + 1 - i
  <2>1. l \in S <=> j \in 1 .. Len(b)
    BY <1>5
  <2>2. CASE j \in 1 .. Len(b)
    <3>1. k >= i
      BY <1>2, <2>2
    <3>2. Addend(a, b, <<i, j, "low">>) = (x * LimbAt(w, j)) % Base
      BY <1>8, <2>2
    <3>. QED  BY <2>1, <2>2, <3>1, <3>2
  <2>3. CASE j \notin 1 .. Len(b)
    <3>1. CASE k < i
      BY <1>2, <2>1, <2>3, <3>1
    <3>2. CASE k >= i
      <4>1. j \in Nat \ {0} /\ j > Len(b)
        BY <1>2, <2>3, <3>2
      <4>2. y = 0
        BY <4>1, NoLimb
      <4> HIDE DEF x, y, l, S, j
      <4>. QED  BY <1>9, <2>1, <2>3, <3>2, <4>2
    <3>. QED  BY <1>2, <3>1, <3>2
  <2>. QED  BY <2>2, <2>3
<1>11. H = IF h \in S \ {l} THEN Addend(a, b, h) ELSE 0
  <2> DEFINE j == k - i
  <2>1. h \in S \ {l} <=> j \in 1 .. Len(b)
    <3>1. h \in S <=> j \in 1 .. Len(b)
      BY <1>5
    <3>2. h # l
      OBVIOUS
    <3>. QED  BY <3>1, <3>2
  <2>2. CASE j \in 1 .. Len(b)
    <3>1. k > i
      BY <1>2, <2>2
    <3>2. Addend(a, b, <<i, j, "high">>) = (x * LimbAt(w, j)) \div Base
      BY <1>8, <2>2
    <3>. QED  BY <2>1, <2>2, <3>1, <3>2
  <2>3. CASE j \notin 1 .. Len(b)
    <3>1. CASE k <= i
      BY <1>2, <2>1, <2>3, <3>1
    <3>2. CASE k > i
      <4>1. j \in Nat \ {0} /\ j > Len(b)
        BY <1>2, <2>3, <3>2
      <4>2. z = 0
        BY <4>1, NoLimb
      <4> HIDE DEF x, z, l, h, S, j
      <4>. QED  BY <1>9, <2>1, <2>3, <3>2, <4>2
    <3>. QED  BY <1>2, <3>1, <3>2
  <2>. QED  BY <2>2, <2>3
<1>12. L \in 0 .. Base - 1 /\ H \in 0 .. Base - 1
  <2>1. k >= i => k + 1 - i \in Nat \ {0}
    BY <1>2
  <2>2. k > i => k - i \in Nat \ {0}
    BY <1>2
  <2>3. k >= i => y \in 0 .. Base - 1
    BY <1>6, <2>1
  <2>4. k > i => z \in 0 .. Base - 1
    BY <1>6, <2>2
  <2> HIDE DEF x, y, z
  <2>5. k >= i => (x * y) % Base \in 0 .. Base - 1
    BY <1>7, <2>3, ProductOfLimbs
  <2>6. k > i => (x * z) \div Base \in 0 .. Base - 1
    BY <1>7, <2>4, ProductOfLimbs
  <2>. QED  BY <1>2, <2>5, <2>6
<1>13. RowPart(v, w, i, k) = L + H
  BY DEF RowPart
<1> DEFINE U == S \ {l}
           V == U \ {h}
           T == Rows(a, b, k, i - 1)
<1>14. SumOf(a, b, S) = L + SumOf(a, b, U) /\ SumOf(a, b, U) = H + SumOf(a, b, V) /\ V = T /\ SumOf(a, b, T) \in Nat
  <2>1. U \in SUBSET G /\ S \in SUBSET G /\ T \in SUBSET G /\ V = T
    BY <1>3, <1>4
  <2> HIDE DEF G, S, l, h, L, H
  <2>5. IsFiniteSet(G)
    BY <1>1
  <2>6. \A c \in G : Addend(a, b, c) \in Nat
    BY <1>1
  <2>7. \A s \in SUBSET G : \A c :
          SumOf(a, b, s) = (IF c \in s THEN Addend(a, b, c) ELSE 0) + SumOf(a, b, s \ {c})
    <3>1. \A s \in SUBSET G :
             /\ SumOf(a, b, s) \in Nat
             /\ \A c \in s : SumOf(a, b, s) = Addend(a, b, c) + SumOf(a, b, s \ {c})
      BY <2>5, <2>6, SumTakes
    <3> TAKE s \in SUBSET G
    <3> TAKE c
    <3>2. CASE c \in s
      BY <3>1, <3>2
    <3>3. CASE c \notin s
      <4>1. s \ {c} = s
        BY <3>3
      <4>2. SumOf(a, b, s) \in Nat
        BY <3>1
      <4>3. SumOf(a, b, s) = SumOf(a, b, s \ {c})
        BY <4>1, Zenon
      <4> DEFINE r == SumOf(a, b, s)
                 q == SumOf(a, b, s \ {c})
      <4>4. r \in Nat /\ r = q
        BY <4>2, <4>3
      <4> HIDE DEF r, q
      <4>5. r = 0 + q
        BY <4>4
      <4>6. r = (IF c \in s THEN Addend(a, b, c) ELSE 0) + q
        BY <3>3, <4>5
      <4>. QED  BY <4>6 DEF r, q
    <3>. QED  BY <3>2, <3>3
  <2>2. SumOf(a, b, S) = (IF l \in S THEN Addend(a, b, l) ELSE 0) + SumOf(a, b, S \ {l})
    BY <2>1, <2>7
  <2> HIDE DEF U
  <2>3. SumOf(a, b, U) = (IF h \in U THEN Addend(a, b, h) ELSE 0) + SumOf(a, b, U \ {h})
    BY <2>1, <2>7
  <2>4. SumOf(a, b, T) \in Nat
    BY <1>1, <2>1, SumTakes
  <2>. QED  BY <1>10, <1>11, <2>1, <2>2, <2>3, <2>4 DEF U
<1> HIDE DEF S, L, H, U, V, T
<1>. QED  BY <1>2, <1>12, <1>13, <1>14 DEF S, T

\* What a row adds up to, below column k + 1.
RowTotal(v, w, i, k) ==
    IF k < i THEN 0
    ELSE Power(i - 1) * (LimbAt(v, i) * Low(w, k - i) + Power(k - i) * ((LimbAt(v, i) * LimbAt(w, k + 1 - i)) % Base))

\* A row's next column.
LEMMA RowTotalIs ==
    ASSUME NEW v \in Nat, NEW w \in Nat, NEW i \in Nat \ {0}
    PROVE  /\ \A k \in Nat : RowTotal(v, w, i, k) \in Nat
           /\ RowTotal(v, w, i, 0) = 0
           /\ \A k \in Nat \ {0} :
                RowTotal(v, w, i, k) = RowTotal(v, w, i, k - 1) + RowPart(v, w, i, k) * Power(k - 1)
<1> DEFINE x == LimbAt(v, i)
           P == Power(i - 1)
<1>1. i - 1 \in Nat /\ P \in Nat /\ P > 0 /\ Base \in Nat /\ Base > 0
  BY PowerIs
<1>2. x \in 0 .. Base - 1 /\ x \in Nat
  <2>1. x \in 0 .. Base - 1
    BY AboveIs
  <2> HIDE DEF x
  <2>. QED  BY <1>1, <2>1
<1>3. ASSUME NEW j \in Nat
      PROVE  /\ Low(w, j) \in Nat /\ Power(j) \in Nat /\ LimbAt(w, j + 1) \in 0 .. Base - 1
             /\ (x * LimbAt(w, j + 1)) % Base \in Nat /\ (x * LimbAt(w, j + 1)) \div Base \in Nat
  <2>1. Power(j) \in Nat
    BY Powers
  <2>2. Low(w, j) \in 0 .. Power(j) - 1
    BY LowIs
  <2>3. j + 1 \in Nat \ {0}
    OBVIOUS
  <2>4. LimbAt(w, j + 1) \in 0 .. Base - 1
    BY <2>3, AboveIs
  <2> DEFINE y == LimbAt(w, j + 1)
             p == (x * y) % Base
             q == (x * y) \div Base
  <2>5. p \in 0 .. Base - 1 /\ q \in 0 .. Base - 1
    <3> HIDE DEF x, y
    <3>. QED  BY <1>2, <2>4, ProductOfLimbs DEF y
  <2>6. p \in Nat /\ q \in Nat
    <3> HIDE DEF p, q
    <3>. QED  BY <1>1, <2>5
  <2>7. Low(w, j) \in Nat
    BY <2>1, <2>2
  <2>. QED  BY <2>1, <2>4, <2>6, <2>7
<1>4. ASSUME NEW k \in Nat PROVE RowTotal(v, w, i, k) \in Nat
  <2>1. CASE k < i
    BY <2>1 DEF RowTotal
  <2>2. CASE k >= i
    <3> DEFINE j == k - i
               a == Low(w, j)
               Q == Power(j)
               l == (x * LimbAt(w, j + 1)) % Base
    <3>1. j \in Nat /\ k + 1 - i = j + 1
      BY <2>2
    <3>2. a \in Nat /\ Q \in Nat /\ l \in Nat
      <4> HIDE DEF j
      <4>. QED  BY <1>3, <3>1
    <3>3. RowTotal(v, w, i, k) = P * (x * a + Q * l)
      BY <2>2, <3>1 DEF RowTotal
    <3> HIDE DEF P, x, a, Q, l
    <3>4. x * a \in Nat /\ Q * l \in Nat
      BY <1>2, <3>2, Rearranged
    <3>5. x * a + Q * l \in Nat
      BY <3>4
    <3>. QED  BY <1>1, <3>3, <3>5, Rearranged
  <2>. QED  BY <2>1, <2>2
<1>5. RowTotal(v, w, i, 0) = 0
  BY DEF RowTotal
<1>6. ASSUME NEW k \in Nat \ {0}
      PROVE  RowTotal(v, w, i, k) = RowTotal(v, w, i, k - 1) + RowPart(v, w, i, k) * Power(k - 1)
  <2>1. CASE k < i
    <3>1. RowTotal(v, w, i, k) = 0 /\ RowTotal(v, w, i, k - 1) = 0 /\ RowPart(v, w, i, k) = 0
      BY <2>1 DEF RowTotal, RowPart
    <3>2. Power(k - 1) \in Nat
      BY PowerIs
    <3>. QED  BY <3>1, <3>2
  <2>2. CASE k = i
    <3> DEFINE l == (x * LimbAt(w, 0 + 1)) % Base
    <3>1. l \in Nat /\ k - i = 0 /\ k + 1 - i = 0 + 1
      BY <1>3, <2>2
    <3>2. RowTotal(v, w, i, k - 1) = 0
      BY <2>2 DEF RowTotal
    <3>3. RowPart(v, w, i, k) = l + 0
      BY <2>2, <3>1 DEF RowPart
    <3>4. Power(k - 1) = P
      BY <2>2
    <3>5. RowTotal(v, w, i, k) = P * (x * Low(w, 0) + Power(0) * l)
      BY <2>2, <3>1 DEF RowTotal
    <3>6. Low(w, 0) = 0 /\ Power(0) = 1
      BY LowIs, Powers
    <3> HIDE DEF P, x, l
    <3>7. RowTotal(v, w, i, k) = P * (x * 0 + 1 * l)
      BY <3>5, <3>6
    <3>8. x * 0 + 1 * l = l /\ l + 0 = l
      BY <1>2, <3>1
    <3>9. P * l = l * P /\ l * P \in Int
      BY <1>1, <3>1, Rearranged
    <3>10. RowTotal(v, w, i, k) = P * l
      BY <3>7, <3>8
    <3>11. RowPart(v, w, i, k) = l
      BY <3>3, <3>8
    <3>. QED  BY <3>2, <3>4, <3>9, <3>10, <3>11
  <2>3. CASE k > i
    <3> DEFINE j == k - i
               g == j - 1
               e == Low(w, g)
               y == LimbAt(w, j)
               z == LimbAt(w, j + 1)
               Q == Power(g)
               l == (x * y) % Base
               h == (x * y) \div Base
               m == (x * z) % Base
    <3>1. j \in Nat \ {0} /\ j \in Nat /\ g \in Nat /\ g + 1 = j /\ k + 1 - i = j + 1 /\ k - 1 = (i - 1) + j
          /\ (k - 1) - i = g /\ (k - 1) + 1 - i = j /\ k - i = j /\ k - 1 >= i /\ k >= i /\ k > i
      BY <2>3
    <3>2. Q \in Nat /\ Power(j) = Q * Base
      BY <3>1, PowerIs
    <3>3. Power(k - 1) = P * Power(j)
      BY <1>1, <3>1, PowerSums
    <3>4. RowTotal(v, w, i, k) = P * (x * Low(w, j) + Power(j) * m)
      <4>1. RowTotal(v, w, i, k) = P * (x * Low(w, k - i) + Power(k - i) * ((x * LimbAt(w, k + 1 - i)) % Base))
        BY <2>3 DEF RowTotal
      <4> HIDE DEF j, x, P
      <4>. QED  BY <3>1, <4>1
    <3>5. RowTotal(v, w, i, k - 1) = P * (x * e + Q * l)
      <4>1. RowTotal(v, w, i, k - 1) = P * (x * Low(w, (k - 1) - i)
                                            + Power((k - 1) - i) * ((x * LimbAt(w, (k - 1) + 1 - i)) % Base))
        BY <3>1 DEF RowTotal
      <4> HIDE DEF j, g, x, P
      <4>. QED  BY <3>1, <4>1
    <3>6. RowPart(v, w, i, k) = m + h
      <4>1. RowPart(v, w, i, k) = ((x * LimbAt(w, k + 1 - i)) % Base) + ((x * LimbAt(w, k - i)) \div Base)
        BY <3>1 DEF RowPart
      <4> HIDE DEF j, x
      <4>. QED  BY <3>1, <4>1
    <3>7. Low(w, j) = e + y * Q
      BY <3>1, LowIs
    <3>8. e \in Nat /\ m \in Nat /\ y \in 0 .. Base - 1
      <4>1. e \in Nat
        <5> HIDE DEF g
        <5>. QED  BY <1>3, <3>1
      <4>2. m \in Nat
        <5> HIDE DEF j, x
        <5>. QED  BY <1>3, <3>1
      <4>3. y \in 0 .. Base - 1
        BY <3>1, AboveIs
      <4>. QED  BY <4>1, <4>2, <4>3
    <3> HIDE DEF P, x, e, y, Q
    <3>9. x * y \in Nat /\ x * y = h * Base + l /\ l \in Nat /\ h \in Nat
      <4>1. x * y \in Nat /\ x * y = h * Base + l /\ l \in 0 .. Base - 1 /\ h \in 0 .. Base - 1
        BY <1>2, <3>8, ProductOfLimbs
      <4> HIDE DEF l, h
      <4>. QED  BY <1>1, <4>1
    <3> HIDE DEF l, h, m
    <3>10. y \in Nat
      BY <1>1, <3>8
    <3> DEFINE B == Base
               M == Q * B
    <3>11. B \in Nat /\ M \in Nat
      BY <1>1, <3>2, Rearranged
    <3>12. x * (e + y * Q) = x * e + (h * M + Q * l)
      <4>1. y * Q \in Nat /\ x * e \in Nat
        BY <1>2, <3>2, <3>8, <3>10, Rearranged
      <4>2. x * (e + y * Q) = x * e + x * (y * Q)
        <5> DEFINE r == y * Q
        <5>1. r \in Nat
          BY <4>1
        <5> HIDE DEF r
        <5>2. x * (e + r) = x * e + x * r
          BY <1>2, <3>8, <5>1
        <5>. QED  BY <5>2 DEF r
      <4>3. x * (y * Q) = (x * y) * Q
        BY <1>2, <3>2, <3>10, Rearranged
      <4>4. (h * B + l) * Q = (h * B) * Q + l * Q
        <5>1. h * B \in Nat
          BY <3>9, <3>11, Rearranged
        <5>. QED  BY <3>2, <3>9, <5>1, Rearranged
      <4>5. (h * B) * Q = h * M
        <5>1. (h * B) * Q = h * (B * Q) /\ B * Q = Q * B
          BY <3>2, <3>9, <3>11, Rearranged
        <5>. QED  BY <5>1
      <4>6. l * Q = Q * l
        BY <3>2, <3>9, Rearranged
      <4>7. x * (y * Q) = (h * B + l) * Q
        BY <3>9, <4>3
      <4>8. x * (y * Q) = h * M + Q * l
        BY <4>4, <4>5, <4>6, <4>7
      <4>. QED  BY <4>2, <4>8
    <3> DEFINE A == x * e
               C == Q * l
               D == h * M
               E == M * m
    <3>13. A \in Nat /\ C \in Nat /\ D \in Nat /\ E \in Nat
      BY <1>2, <3>2, <3>8, <3>9, <3>11, Rearranged
    <3>14. RowTotal(v, w, i, k) = P * ((A + (D + C)) + E)
      BY <3>2, <3>4, <3>7, <3>12
    <3>15. RowTotal(v, w, i, k - 1) = P * (A + C)
      BY <3>5
    <3>16. RowPart(v, w, i, k) * Power(k - 1) = P * (D + E)
      <4>1. Power(k - 1) = P * M
        BY <3>2, <3>3
      <4>2. (m + h) * M = m * M + h * M /\ m * M = E
        BY <3>8, <3>9, <3>11, Rearranged
      <4>3. (m + h) * M = D + E
        BY <3>13, <4>2
      <4> DEFINE r == m + h
      <4>4. r \in Nat
        BY <3>8, <3>9
      <4> HIDE DEF r, M
      <4>5. r * (P * M) = P * (r * M)
        <5>1. r * (P * M) = (r * P) * M /\ r * P = P * r /\ (P * r) * M = P * (r * M)
          BY <1>1, <3>11, <4>4, Rearranged
        <5>. QED  BY <5>1
      <4>6. r * M = D + E
        BY <4>3 DEF r
      <4>7. RowPart(v, w, i, k) = r
        BY <3>6 DEF r
      <4>. QED  BY <4>1, <4>5, <4>6, <4>7
    <3> HIDE DEF A, C, D, E
    <3>17. P * ((A + (D + C)) + E) = P * (A + C) + P * (D + E)
      <4> DEFINE r == A + C
                 s == D + E
      <4>1. r \in Nat /\ s \in Nat /\ (A + (D + C)) + E = r + s
        BY <3>13
      <4> HIDE DEF r, s
      <4>2. P * (r + s) = P * r + P * s
        BY <1>1, <4>1
      <4>3. P * ((A + (D + C)) + E) = P * (r + s)
        BY <4>1
      <4>. QED  BY <4>2, <4>3 DEF r, s
    <3>. QED  BY <3>14, <3>15, <3>16, <3>17
  <2>. QED  BY <2>1, <2>2, <2>3
<1>. QED  BY <1>4, <1>5, <1>6

\* The sums of the columns' first rows.
ColumnsTo(a, b, n, i) == [k \in 1 .. n |-> SumOf(a, b, Rows(a, b, k, i))]

\* A column's addends are below Base, two to a row.
LEMMA ColumnsBounded ==
    ASSUME NEW a, NEW v, IsNumber(a, v), NEW b, NEW w, IsNumber(b, w), NEW k \in Nat \ {0}
    PROVE  \A i \in 0 .. Len(a) : SumOf(a, b, Rows(a, b, k, i)) \in 0 .. (2 * i) * (Base - 1)
<1> DEFINE S(i) == SumOf(a, b, Rows(a, b, k, i))
           T == {i \in Nat : S(i) \in 0 .. (2 * i) * (Base - 1)}
<1>1. Len(a) \in Nat /\ Base \in Nat /\ Base > 0
  BY NumberIs, Powers
<1>2. 0 \in T
  <2>1. Rows(a, b, k, 0) = {}
    <3>1. \A c \in Column(a, b, k) : c[1] \in 1 .. Len(a)
      BY DEF Column
    <3>. QED  BY <1>1, <3>1 DEF Rows
  <2>2. S(0) = 0
    BY <2>1, SumEmpty
  <2>3. (2 * 0) * (Base - 1) = 0
    BY <1>1
  <2> HIDE DEF S
  <2>. QED  BY <2>2, <2>3
<1>3. ASSUME NEW i \in 1 .. Len(a), i - 1 \in T PROVE i \in T
  <2> DEFINE p == RowPart(v, w, i, k)
             s == S(i - 1)
             B == Base - 1
  <2>1. S(i) = s + p /\ s \in Nat /\ p \in 0 .. 2 * B
    BY RowAdded
  <2>2. s \in 0 .. (2 * (i - 1)) * B /\ i \in Nat
    BY <1>1, <1>3
  <2>3. B \in Nat
    BY <1>1
  <2> HIDE DEF S, s, p, B
  <2>4. (2 * i) * B = (2 * (i - 1)) * B + 2 * B
    <3>1. 2 * i = 2 * (i - 1) + 2 /\ 2 * (i - 1) \in Int
      BY <2>2
    <3> DEFINE r == 2 * (i - 1)
    <3>2. r \in Int /\ 2 * i = r + 2
      BY <3>1
    <3> HIDE DEF r
    <3>3. (r + 2) * B = r * B + 2 * B
      BY <2>3, <3>2, Rearranged
    <3>. QED  BY <3>2, <3>3 DEF r
  <2> DEFINE x == (2 * (i - 1)) * B
  <2>5. x \in Int
    BY <2>2, <2>3
  <2> HIDE DEF x
  <2>6. S(i) \in 0 .. (2 * i) * B
    BY <2>1, <2>2, <2>3, <2>4, <2>5 DEF x
  <2>. QED  BY <2>2, <2>6 DEF B
<1>4. \A i \in 0 .. Len(a) : i \in T
  <2> HIDE DEF T
  <2>. QED  BY <1>1, <1>2, <1>3, Counting
<1>. QED  BY <1>4

\* The columns add up to the product.
LEMMA ColumnsWeighed ==
    ASSUME NEW a, NEW v, IsNumber(a, v), NEW b, NEW w, IsNumber(b, w)
    PROVE  LET n == Len(a) + Len(b)
           IN  \A i \in 0 .. Len(a) : \E t : IsWeighed(t, ColumnsTo(a, b, n, i), n) /\ t[n] = Low(v, i) * w
<1> DEFINE n == Len(a) + Len(b)
           C(i) == ColumnsTo(a, b, n, i)
           T == {i \in 0 .. Len(a) : \E t : IsWeighed(t, C(i), n) /\ t[n] = Low(v, i) * w}
<1>1. v \in Nat /\ w \in Nat /\ Len(a) \in Nat /\ Len(b) \in Nat /\ n \in Nat /\ Base \in Nat /\ Base > 0
  BY NumberIs, Powers
<1>2. \A k \in 1 .. n, i \in 0 .. Len(a) : C(i)[k] = SumOf(a, b, Rows(a, b, k, i)) /\ C(i)[k] \in Nat
  <2> TAKE k \in 1 .. n, i \in 0 .. Len(a)
  <2>1. k \in Nat \ {0}
    BY <1>1
  <2>2. SumOf(a, b, Rows(a, b, k, i)) \in 0 .. (2 * i) * (Base - 1)
    BY <2>1, ColumnsBounded
  <2>3. SumOf(a, b, Rows(a, b, k, i)) \in Nat
    BY <2>2
  <2>. QED  BY <2>3 DEF ColumnsTo
<1>3. 0 \in T
  <2> DEFINE t == [k \in 0 .. n |-> 0]
  <2>1. \A k \in 1 .. n : C(0)[k] = 0
    <3> TAKE k \in 1 .. n
    <3>1. k \in Nat \ {0} /\ 0 \in 0 .. Len(a)
      BY <1>1
    <3>2. SumOf(a, b, Rows(a, b, k, 0)) \in 0 .. (2 * 0) * (Base - 1)
      BY <3>1, ColumnsBounded
    <3>3. (2 * 0) * (Base - 1) = 0
      BY <1>1
    <3> DEFINE s == SumOf(a, b, Rows(a, b, k, 0))
    <3>4. s \in 0 .. 0
      BY <3>2, <3>3
    <3>5. C(0)[k] = s
      BY <1>2, <3>1
    <3> HIDE DEF s, C
    <3>. QED  BY <3>4, <3>5
  <2>2. \A k \in 1 .. n : t[k] = t[k - 1] + C(0)[k] * Power(k - 1)
    <3> TAKE k \in 1 .. n
    <3>1. k \in Nat \ {0} /\ k \in 0 .. n /\ k - 1 \in 0 .. n
      BY <1>1
    <3>2. Power(k - 1) \in Nat
      BY <3>1, PowerIs
    <3>3. t[k] = 0 /\ t[k - 1] = 0 /\ C(0)[k] = 0
      BY <2>1, <3>1
    <3> HIDE DEF C, t
    <3>. QED  BY <3>2, <3>3
  <2>3. t \in [0 .. n -> Nat] /\ t[0] = 0 /\ t[n] = 0
    BY <1>1
  <2>4. Low(v, 0) * w = 0
    BY <1>1, LowIs
  <2> HIDE DEF C, t
  <2>5. IsWeighed(t, C(0), n) /\ t[n] = Low(v, 0) * w
    BY <2>2, <2>3, <2>4 DEF IsWeighed
  <2>. QED  BY <1>1, <2>5
<1>4. ASSUME NEW i \in 1 .. Len(a), i - 1 \in T PROVE i \in T
  <2>1. PICK t : IsWeighed(t, C(i - 1), n) /\ t[n] = Low(v, i - 1) * w
    BY <1>4
  <2> DEFINE u == [k \in 0 .. n |-> t[k] + RowTotal(v, w, i, k)]
  <2>2. i \in Nat \ {0} /\ i \in 0 .. Len(a) /\ i - 1 \in 0 .. Len(a) /\ i <= n
    BY <1>1
  <2>3. \A k \in 0 .. n : k \in Nat /\ t[k] \in Nat /\ RowTotal(v, w, i, k) \in Nat
          /\ u[k] = t[k] + RowTotal(v, w, i, k)
    <3> TAKE k \in 0 .. n
    <3>1. k \in Nat
      BY <1>1
    <3>2. RowTotal(v, w, i, k) \in Nat
      BY <1>1, <2>2, <3>1, RowTotalIs
    <3>3. t[k] \in Nat
      BY <2>1 DEF IsWeighed
    <3>. QED  BY <3>1, <3>2, <3>3
  <2>4. u \in [0 .. n -> Nat]
    BY <2>3
  <2>5. u[0] = 0
    <3>1. t[0] = 0 /\ RowTotal(v, w, i, 0) = 0 /\ 0 \in 0 .. n
      BY <1>1, <2>1, <2>2, RowTotalIs DEF IsWeighed
    <3>. QED  BY <3>1
  <2>6. ASSUME NEW k \in 1 .. n PROVE u[k] = u[k - 1] + C(i)[k] * Power(k - 1)
    <3> DEFINE P == Power(k - 1)
               p == RowPart(v, w, i, k)
               c == C(i - 1)[k]
               r == RowTotal(v, w, i, k - 1)
    <3>1. k \in Nat \ {0} /\ k \in 0 .. n /\ k - 1 \in 0 .. n
      BY <1>1
    <3>2. P \in Nat
      BY <3>1, PowerIs
    <3>3. RowTotal(v, w, i, k) = r + p * P
      BY <1>1, <2>2, <3>1, RowTotalIs
    <3>4. t[k] = t[k - 1] + c * P
      BY <2>1 DEF IsWeighed
    <3>5. C(i)[k] = c + p /\ p \in Nat
      <4>1. C(i)[k] = SumOf(a, b, Rows(a, b, k, i)) /\ c = SumOf(a, b, Rows(a, b, k, i - 1))
        BY <1>2, <2>2
      <4>2. SumOf(a, b, Rows(a, b, k, i)) = SumOf(a, b, Rows(a, b, k, i - 1)) + p /\ p \in 0 .. 2 * (Base - 1)
        BY <3>1, RowAdded
      <4> HIDE DEF C, p, c
      <4>3. p \in Nat
        BY <4>2
      <4>. QED  BY <4>1, <4>2, <4>3
    <3>6. u[k] = t[k] + RowTotal(v, w, i, k) /\ u[k - 1] = t[k - 1] + r /\ t[k - 1] \in Nat /\ r \in Nat /\ c \in Nat
      BY <1>2, <2>2, <2>3, <3>1
    <3> HIDE DEF u, C, P, p, c, r
    <3>7. (c + p) * P = c * P + p * P /\ c * P \in Nat /\ p * P \in Nat
      BY <3>2, <3>5, <3>6, Rearranged
    <3>. QED  BY <3>3, <3>4, <3>5, <3>6, <3>7 DEF P
  <2>7. IsWeighed(u, C(i), n)
    <3> HIDE DEF u, C
    <3>. QED  BY <2>4, <2>5, <2>6 DEF IsWeighed
  <2>8. u[n] = Low(v, i) * w
    <3> DEFINE P == Power(i - 1)
               x == LimbAt(v, i)
               j == n - i
               e == Low(v, i - 1)
    <3>1. j \in Nat /\ Len(b) <= j /\ n + 1 - i = j + 1 /\ j + 1 \in Nat \ {0} /\ j + 1 > Len(b) /\ n >= i
            /\ n \in 0 .. n
      BY <1>1, <2>2
    <3>2. Low(w, j) = w
      BY <3>1, EnoughLimbs
    <3>3. LimbAt(w, j + 1) = 0
      BY <3>1, NoLimb
    <3>4. RowTotal(v, w, i, n) = P * (x * Low(w, j) + Power(j) * ((x * LimbAt(w, j + 1)) % Base))
      <4>1. RowTotal(v, w, i, n) = P * (x * Low(w, n - i) + Power(n - i) * ((x * LimbAt(w, n + 1 - i)) % Base))
        BY <3>1 DEF RowTotal
      <4> HIDE DEF x, P
      <4>. QED  BY <3>1, <4>1
    <3>5. Low(v, i) = e + x * P
      BY <1>1, <2>2, LowIs
    <3>6. P \in Nat /\ Power(j) \in Nat
      BY <2>2, <3>1, PowerIs, Powers
    <3>7. x \in Nat /\ e \in Nat
      <4>1. x \in 0 .. Base - 1
        BY <1>1, <2>2, AboveIs
      <4>2. e \in 0 .. Power(i - 1) - 1
        BY <1>1, <2>2, LowIs
      <4> HIDE DEF x, e
      <4>. QED  BY <1>1, <4>1, <4>2
    <3>8. u[n] = e * w + RowTotal(v, w, i, n)
      BY <2>1, <2>3, <3>1
    <3> HIDE DEF P, x, e, u, j
    <3>9. x * 0 = 0 /\ 0 % Base = 0
      BY <1>1, <3>7
    <3>10. Power(j) * 0 = 0
      BY <3>6
    <3>11. x * w \in Nat
      BY <1>1, <3>7, Rearranged
    <3>12. x * w + 0 = x * w
      BY <3>11
    <3>13. RowTotal(v, w, i, n) = P * (x * w)
      BY <3>2, <3>3, <3>4, <3>9, <3>10, <3>12
    <3>14. (e + x * P) * w = e * w + (x * P) * w
      <4>1. x * P \in Nat
        BY <3>6, <3>7, Rearranged
      <4>. QED  BY <1>1, <3>7, <4>1, Rearranged
    <3>15. (x * P) * w = P * (x * w)
      <4>1. x * P = P * x /\ (P * x) * w = P * (x * w)
        BY <1>1, <3>6, <3>7, Rearranged
      <4>. QED  BY <4>1
    <3>. QED  BY <3>5, <3>8, <3>13, <3>14, <3>15
  <2>. QED  BY <2>2, <2>7, <2>8
<1>5. \A i \in 0 .. Len(a) : i \in T
  <2> HIDE DEF T
  <2>. QED  BY <1>1, <1>3, <1>4, Counting
<1>. QED  BY <1>5

IsProducts(f, a, b, n) ==
    LET column == [k \in 1 .. n |-> Column(a, b, k)]
    IN  f = [k \in 0 .. n |-> IF k = 0 THEN [low |-> 0, high |-> 0]
                              ELSE AddU32sWithCarry(Cardinality(column[k]), SumOf(a, b, column[k]), f[k - 1].high)]

\* The product of two numbers: no carry is out of its range when the columns are few
\* enough.
LEMMA MulBiguintIs ==
    ASSUME NEW a, NEW v, IsNumber(a, v), NEW b, NEW w, IsNumber(b, w), 2 * Len(a) <= MaxNumAddends
    PROVE  IsNumber(MulBiguint(a, b), v * w)
<1> DEFINE n == Len(a) + Len(b)
           c == ColumnsTo(a, b, n, Len(a))
           s == CHOOSE s : IsProducts(s, a, b, n)
           r == [k \in 1 .. (n + 1) |-> IF k <= n THEN s[k].low ELSE s[n].high]
           m == IF Len(a) = 0 THEN 1 ELSE 2 * Len(a)
<1>1. /\ v \in Nat /\ w \in Nat /\ Len(a) \in Nat /\ Len(b) \in Nat /\ n \in Nat /\ Base \in Nat /\ Base > 0
      /\ v < Power(Len(a)) /\ w < Power(Len(b))
  BY NumberIs, Powers
<1>2. \A k \in 1 .. n : c[k] = SumOf(a, b, Column(a, b, k)) /\ c[k] \in 0 .. (2 * Len(a)) * (Base - 1) /\ c[k] \in Nat
  <2> TAKE k \in 1 .. n
  <2>1. k \in Nat \ {0} /\ Len(a) \in 0 .. Len(a)
    BY <1>1
  <2>2. Rows(a, b, k, Len(a)) = Column(a, b, k)
    <3>1. \A e \in Column(a, b, k) : e[1] \in 1 .. Len(a)
      BY DEF Column
    <3>. QED  BY <1>1, <3>1 DEF Rows
  <2>3. SumOf(a, b, Rows(a, b, k, Len(a))) \in 0 .. (2 * Len(a)) * (Base - 1)
    BY <2>1, ColumnsBounded
  <2>4. c[k] = SumOf(a, b, Rows(a, b, k, Len(a)))
    BY DEF ColumnsTo
  <2>5. c[k] = SumOf(a, b, Column(a, b, k))
    BY <2>2, <2>4, Zenon
  <2>6. c[k] \in 0 .. (2 * Len(a)) * (Base - 1)
    BY <2>3, <2>4, Zenon
  <2> HIDE DEF c
  <2>7. c[k] \in Nat
    BY <2>6
  <2>. QED  BY <2>5, <2>6, <2>7
<1>3. c \in [1 .. n -> Nat]
  <2>1. c = [k \in 1 .. n |-> c[k]]
    BY DEF ColumnsTo
  <2> HIDE DEF c
  <2>. QED  BY <1>2, <2>1
<1>4. PICK t : IsWeighed(t, c, n) /\ t[n] = Low(v, Len(a)) * w
  BY <1>1, ColumnsWeighed
<1>5. t[n] = v * w
  <2>1. Low(v, Len(a)) = v
    BY <1>1, LowIs
  <2>. QED  BY <1>4, <2>1
<1>6. v * w < Power(n + 1)
  <2> DEFINE P == Power(Len(a))
             Q == Power(Len(b))
  <2>1. Power(n) = P * Q /\ P \in Nat /\ Q \in Nat /\ v < P /\ w < Q /\ Q >= 1
    BY <1>1, PowerSums, Powers
  <2>2. Power(n) <= Power(n + 1) /\ Power(n) \in Nat /\ Power(n + 1) \in Nat
    BY <1>1, PowerSums, Powers
  <2> HIDE DEF P, Q
  <2>3. v * w <= v * Q /\ v * Q < P * Q /\ v * w \in Nat /\ v * Q \in Nat
    BY <1>1, <2>1
  <2>. QED  BY <1>1, <2>1, <2>2, <2>3
<1>7. \A f : Carries(f, c, n) <=> IsProducts(f, a, b, n)
  <2> TAKE f
  <2> DEFINE column == [k \in 1 .. n |-> Column(a, b, k)]
  <2>1. ASSUME NEW k \in 0 .. n, k # 0
        PROVE  AddU32sWithCarry(Cardinality(column[k]), SumOf(a, b, column[k]), f[k - 1].high)
                 = [low |-> (c[k] + f[k - 1].high) % Base, high |-> (c[k] + f[k - 1].high) \div Base]
    <3>1. k \in 1 .. n
      BY <1>1, <2>1
    <3>2. column[k] = Column(a, b, k)
      BY <3>1
    <3>3. SumOf(a, b, column[k]) = c[k] /\ c[k] \in Nat
      <4>1. SumOf(a, b, column[k]) = SumOf(a, b, Column(a, b, k))
        BY <3>2, Zenon
      <4> HIDE DEF c, column
      <4>. QED  BY <1>2, <3>1, <4>1
    <3> DEFINE x == c[k]
               y == f[k - 1].high
               z == Cardinality(column[k])
    <3>4. x * 1 = x
      BY <3>3
    <3> HIDE DEF x, y, z, c, column
    <3>5. AddU32sWithCarry(z, x, y) = [low |-> (x + y) % Base, high |-> (x + y) \div Base]
      BY <3>4 DEF AddU32sWithCarry, MulAddU32, AddManyGate
    <3>6. SumOf(a, b, column[k]) = x
      BY <3>3 DEF x
    <3>7. AddU32sWithCarry(z, SumOf(a, b, column[k]), y) = AddU32sWithCarry(z, x, y)
      BY <3>6, Zenon
    <3>8. AddU32sWithCarry(z, SumOf(a, b, column[k]), y) = [low |-> (x + y) % Base, high |-> (x + y) \div Base]
      BY <3>5, <3>7
    <3>. QED  BY <3>8 DEF z, x, y
  <2> HIDE DEF c, column
  <2>2. IsProducts(f, a, b, n)
          <=> f = [k \in 0 .. n |-> IF k = 0 THEN [low |-> 0, high |-> 0]
                                    ELSE AddU32sWithCarry(Cardinality(column[k]), SumOf(a, b, column[k]), f[k - 1].high)]
    BY DEF IsProducts, column
  <2> DEFINE F(k) == IF k = 0 THEN [low |-> 0, high |-> 0]
                     ELSE AddU32sWithCarry(Cardinality(column[k]), SumOf(a, b, column[k]), f[k - 1].high)
             E(k) == IF k = 0 THEN [low |-> 0, high |-> 0]
                     ELSE [low |-> (c[k] + f[k - 1].high) % Base, high |-> (c[k] + f[k - 1].high) \div Base]
  <2>3. \A k \in 0 .. n : F(k) = E(k)
    <3> TAKE k \in 0 .. n
    <3>1. CASE k = 0
      BY <3>1
    <3>2. CASE k # 0
      BY <2>1, <3>2
    <3>. QED  BY <3>1, <3>2
  <2>4. Carries(f, c, n) <=> f = [k \in 0 .. n |-> E(k)]
    BY DEF Carries
  <2>5. IsProducts(f, a, b, n) <=> f = [k \in 0 .. n |-> F(k)]
    BY <2>2
  <2> HIDE DEF E, F
  <2>6. [k \in 0 .. n |-> E(k)] = [k \in 0 .. n |-> F(k)]
    BY <2>3
  <2>. QED  BY <2>4, <2>5, <2>6
<1> HIDE DEF c
<1>8. IsProducts(s, a, b, n) /\ Carries(s, c, n)
  <2>1. \A f : Carries(f, c, n) <=> f = CarriesOf(t, n)
    BY <1>1, <1>3, <1>4, CarriesAre
  <2>2. \E f : IsProducts(f, a, b, n)
    BY <1>7, <2>1
  <2>3. IsProducts(s, a, b, n)
    <3> HIDE DEF n
    <3>. QED  BY <2>2
  <2>. QED  BY <1>7, <2>3
<1>9. MulBiguint(a, b) = IF \A k \in 1 .. n : s[k].high < MaxNumAddends THEN r ELSE Stuck
  BY DEF MulBiguint, IsProducts, SumOf
<1> HIDE DEF s
<1>10. \A k \in 1 .. n : s[k].high < MaxNumAddends
  <2>1. m \in Nat \ {0} /\ m <= MaxNumAddends /\ MaxNumAddends \in Nat
    BY <1>1, LimbAssumption
  <2>2. \A k \in 1 .. n : c[k] <= m * (Base - 1)
    <3> TAKE k \in 1 .. n
    <3>1. c[k] \in 0 .. (2 * Len(a)) * (Base - 1)
      BY <1>2
    <3>2. CASE Len(a) = 0
      <4>1. (2 * Len(a)) * (Base - 1) = 0 /\ m * (Base - 1) = Base - 1
        BY <1>1, <3>2
      <4> HIDE DEF m
      <4>2. c[k] \in 0 .. 0
        BY <3>1, <4>1
      <4>. QED  BY <1>1, <4>1, <4>2
    <3>3. CASE Len(a) # 0
      <4>1. m = 2 * Len(a)
        BY <3>3
      <4> HIDE DEF m
      <4>2. m * (Base - 1) \in Int
        BY <1>1, <2>1
      <4>. QED  BY <3>1, <4>1, <4>2
    <3>. QED  BY <3>2, <3>3
  <2> HIDE DEF m, n
  <2>3. \A k \in 0 .. n : s[k].high \in 0 .. m - 1
    BY <1>1, <1>3, <1>8, <2>1, <2>2, CarryBound
  <2>4. ASSUME NEW k \in 1 .. n PROVE s[k].high < MaxNumAddends
    <3>1. k \in 0 .. n
      BY <1>1
    <3>2. s[k].high \in 0 .. m - 1
      BY <2>3, <3>1
    <3>. QED  BY <2>1, <3>2
  <2>. QED  BY <2>4
<1> HIDE DEF n
<1>11. IsNumber(r, t[n])
  BY <1>1, <1>3, <1>4, <1>5, <1>6, <1>8, ColumnsAre
<1>12. MulBiguint(a, b) = r
  <2> HIDE DEF r
  <2>. QED  BY <1>9, <1>10
<1>. QED  BY <1>5, <1>11, <1>12

-----------------------------------------------------------------------------
(* What the operations on residues come to.                                *)

\* A residue in no more limbs than the modulus needs, or in just as many.
IsShort(m, a, v) == v \in 0 .. m - 1 /\ IsNumber(a, v) /\ Len(a) <= NumNonnativeLimbs(m)
IsFull(m, a, v) == v \in 0 .. m - 1 /\ IsNumber(a, v) /\ Len(a) = NumNonnativeLimbs(m)

\* The modulus itself, which a sum may leave.
IsModulus(m, a) == IsNumber(a, m) /\ Len(a) = NumNonnativeLimbs(m)

\* A residue with all its limbs.
LEMMA FullIs ==
    ASSUME NEW m \in {BaseOrder, ScalarOrder}, NEW a, NEW v, IsFull(m, a, v)
    PROVE  IsShort(m, a, v) /\ a # Stuck
<1>1. NumNonnativeLimbs(m) \in Nat
  BY ModulusIs, LimbsOfModulus
<1>2. a # Stuck
  BY NumberIs DEF IsFull
<1>. QED  BY <1>1, <1>2 DEF IsFull, IsShort

\* A short residue is itself its remainder.
LEMMA ShortIs ==
    ASSUME NEW m \in {BaseOrder, ScalarOrder}, NEW a, NEW v, IsShort(m, a, v)
    PROVE  /\ m \in Nat /\ m > 1 /\ v \in Nat /\ v < m /\ v % m = v /\ ValueOf(a) = v /\ a # Stuck
           /\ Canonical(m, a) = v /\ IsNumber(a, v) /\ Len(a) \in Nat
           /\ NumNonnativeLimbs(m) \in Nat /\ m < Power(NumNonnativeLimbs(m))
           /\ 2 * Len(a) <= MaxNumAddends
<1>1. m \in Nat /\ m > 1 /\ v \in Nat /\ v < m
  BY ModulusIs DEF IsShort
<1>2. v % m = v
  BY <1>1, ReducedNumber
<1>3. ValueOf(a) = v /\ a # Stuck /\ Len(a) \in Nat /\ IsNumber(a, v)
  BY NumberIs DEF IsShort
<1>4. NumNonnativeLimbs(m) \in Nat /\ m < Power(NumNonnativeLimbs(m))
  BY <1>1, LimbsOfModulus
<1>5. 2 * NumNonnativeLimbs(m) <= MaxNumAddends
  BY ColumnAssumption
<1>6. Len(a) <= NumNonnativeLimbs(m)
  BY DEF IsShort
<1>7. 2 * Len(a) <= MaxNumAddends
  BY <1>3, <1>4, <1>5, <1>6, LimbAssumption
<1>. QED  BY <1>1, <1>2, <1>3, <1>4, <1>7 DEF Canonical

\* The modulus is no residue.
LEMMA ModulusStays ==
    ASSUME NEW m \in {BaseOrder, ScalarOrder}, NEW a, IsModulus(m, a)
    PROVE  /\ m \in Nat /\ m > 1 /\ a # Stuck /\ Canonical(m, a) = 0 /\ IsNumber(a, m)
           /\ Len(a) \in Nat /\ 2 * Len(a) <= MaxNumAddends
<1>1. m \in Nat /\ m > 1
  BY ModulusIs
<1>2. ValueOf(a) = m /\ a # Stuck /\ IsNumber(a, m) /\ Len(a) \in Nat
  BY NumberIs DEF IsModulus
<1>3. m % m = 0
  BY <1>1, RemainderUnique
<1>4. 2 * Len(a) <= MaxNumAddends
  BY ColumnAssumption DEF IsModulus
<1>. QED  BY <1>1, <1>2, <1>3, <1>4 DEF Canonical

\* A residue, or the modulus, fits the modulus' limbs.
LEMMA LimbsEnough ==
    ASSUME NEW m \in {BaseOrder, ScalarOrder}, NEW v \in Nat, v <= m,
           NEW s, s = SetBiguint(NumNonnativeLimbs(m), v)
    PROVE  /\ IsNumber(s, v) /\ Len(s) = NumNonnativeLimbs(m) /\ s # Stuck
           /\ v < m => IsFull(m, s, v)
           /\ v = m => IsModulus(m, s)
<1> DEFINE n == NumNonnativeLimbs(m)
<1>1. m \in Nat /\ n \in Nat /\ m < Power(n)
  BY ModulusIs, LimbsOfModulus
<1> HIDE DEF n
<1>2. v < Power(n)
  BY <1>1, Powers
<1>3. s = LimbsOf(n, v)
  BY <1>2 DEF SetBiguint, n
<1>4. Len(s) = n /\ IsNumber(s, v) /\ s # Stuck
  BY <1>1, <1>2, <1>3, LimbsAre, SetIs DEF SetBiguint
<1>. QED  BY <1>1, <1>4 DEF IsFull, IsModulus, n

\* The modulus as a constant.
LEMMA ModulusConstant ==
    ASSUME NEW m \in {BaseOrder, ScalarOrder}
    PROVE  IsModulus(m, ConstantBiguint(m))
BY ModulusIs, ConstantIs DEF IsModulus, NumNonnativeLimbs

\* The sum of two residues is there: reduced, or the modulus.
LEMMA PlusIs ==
    ASSUME NEW m \in {BaseOrder, ScalarOrder},
           NEW a, NEW v, IsShort(m, a, v), NEW b, NEW w, IsShort(m, b, w)
    PROVE  /\ v + w = m => IsModulus(m, AddNonnative(m, a, b))
           /\ v + w # m => IsFull(m, AddNonnative(m, a, b), (v + w) % m)
<1> DEFINE o == v + w > m
           s == IF o THEN (v + w) - m ELSE v + w
           c == SetBiguint(NumNonnativeLimbs(m), s)
           modulus == ConstantBiguint(m)
<1>1. /\ m \in Nat /\ m > 1 /\ v \in Nat /\ v < m /\ IsNumber(a, v) /\ a # Stuck /\ Canonical(m, a) = v
  BY ShortIs
<1>2. w \in Nat /\ w < m /\ IsNumber(b, w) /\ b # Stuck /\ Canonical(m, b) = w
  BY ShortIs
<1>3. s \in Nat /\ s <= m
  BY <1>1, <1>2
<1>4. IsNumber(c, s) /\ c # Stuck /\ (s < m => IsFull(m, c, s)) /\ (s = m => IsModulus(m, c))
  <2> HIDE DEF s
  <2>. QED  BY <1>3, LimbsEnough
<1>5. IsNumber(modulus, m)
  BY ModulusConstant DEF IsModulus
<1>6. AddNonnative(m, a, b) =
        IF /\ ConnectBiguint(AddBiguint(a, b), AddBiguint(c, MulBiguintByBool(modulus, o)))
           /\ CmpBiguint(c, modulus)
        THEN c ELSE Stuck
  BY <1>1, <1>2 DEF AddNonnative, AdditionGenerator
<1> HIDE DEF c, modulus
<1>7. IsNumber(MulBiguintByBool(modulus, o), IF o THEN m ELSE 0)
  BY <1>5, ByBoolIs
<1>8. IsNumber(AddBiguint(c, MulBiguintByBool(modulus, o)), s + (IF o THEN m ELSE 0))
  BY <1>4, <1>7, AddBiguintIs
<1>9. IsNumber(AddBiguint(a, b), v + w)
  BY <1>1, <1>2, AddBiguintIs
<1>10. s + (IF o THEN m ELSE 0) = v + w
  BY <1>1, <1>2
<1>11. ConnectBiguint(AddBiguint(a, b), AddBiguint(c, MulBiguintByBool(modulus, o)))
  BY <1>8, <1>9, <1>10, ConnectIs
<1>12. CmpBiguint(c, modulus)
  BY <1>3, <1>4, <1>5, CmpBiguintIs
<1>13. AddNonnative(m, a, b) = c
  BY <1>6, <1>11, <1>12
<1>14. v + w = m => s = m
  BY <1>1
<1>15. v + w # m => s < m /\ s = (v + w) % m
  <2> SUFFICES ASSUME v + w # m PROVE s < m /\ s = (v + w) % m
    OBVIOUS
  <2>1. s \in 0 .. m - 1
    BY <1>1, <1>2, <1>3
  <2>2. v + w = 0 * m + s \/ v + w = 1 * m + s
    BY <1>1, <1>2
  <2> HIDE DEF s
  <2>3. v + w \in Int /\ m > 0
    BY <1>1, <1>2
  <2>4. s = (v + w) % m
    BY <1>1, <2>1, <2>2, <2>3, RemainderUnique
  <2>. QED  BY <1>1, <2>1, <2>4
<1>. QED  BY <1>4, <1>13, <1>14, <1>15

\* A sum with a modulus for an operand: the generator takes it for zero.
LEMMA PlusModulus ==
    ASSUME NEW m \in {BaseOrder, ScalarOrder},
           NEW a, IsModulus(m, a), NEW b, NEW w, IsShort(m, b, w)
    PROVE  AddNonnative(m, a, b) = Stuck /\ AddNonnative(m, b, a) = Stuck
<1> DEFINE c == SetBiguint(NumNonnativeLimbs(m), w)
           modulus == ConstantBiguint(m)
           o == 0 + w > m
           p == w + 0 > m
<1>1. m \in Nat /\ m > 1 /\ IsNumber(a, m) /\ a # Stuck /\ Canonical(m, a) = 0
  BY ModulusStays
<1>2. w \in Nat /\ w < m /\ IsNumber(b, w) /\ b # Stuck /\ Canonical(m, b) = w
  BY ShortIs
<1>3. IsNumber(c, w) /\ c # Stuck
  BY <1>1, <1>2, LimbsEnough
<1>4. IsNumber(modulus, m)
  BY ModulusConstant DEF IsModulus
<1>5. /\ 0 + w = w /\ w + 0 = w /\ ~(w > m) /\ m + w # w /\ w + m # w /\ w + 0 = w
  BY <1>1, <1>2
<1>6. /\ AddNonnative(m, a, b) # Stuck =>
           ConnectBiguint(AddBiguint(a, b), AddBiguint(c, MulBiguintByBool(modulus, o)))
      /\ AddNonnative(m, b, a) # Stuck =>
           ConnectBiguint(AddBiguint(b, a), AddBiguint(c, MulBiguintByBool(modulus, p)))
  <2>1. AdditionGenerator(m, a, b).sum = c /\ AdditionGenerator(m, b, a).sum = c
    BY <1>1, <1>2, <1>5 DEF AdditionGenerator
  <2>2. AdditionGenerator(m, a, b).overflow = o /\ AdditionGenerator(m, b, a).overflow = p
    BY <1>1, <1>2 DEF AdditionGenerator
  <2> HIDE DEF c, modulus, o, p
  <2>. QED  BY <1>1, <1>2, <2>1, <2>2 DEF AddNonnative, modulus
<1> HIDE DEF c, modulus
<1>7. IsNumber(MulBiguintByBool(modulus, o), 0) /\ IsNumber(MulBiguintByBool(modulus, p), 0)
  <2>1. ~o /\ ~p
    BY <1>5
  <2> HIDE DEF o, p
  <2>2. IsNumber(MulBiguintByBool(modulus, o), IF o THEN m ELSE 0)
    BY <1>4, ByBoolIs
  <2>3. IsNumber(MulBiguintByBool(modulus, p), IF p THEN m ELSE 0)
    BY <1>4, ByBoolIs
  <2>. QED  BY <2>1, <2>2, <2>3
<1> HIDE DEF o, p
<1>8. /\ IsNumber(AddBiguint(c, MulBiguintByBool(modulus, o)), w)
      /\ IsNumber(AddBiguint(c, MulBiguintByBool(modulus, p)), w)
  BY <1>3, <1>5, <1>7, AddBiguintIs
<1>9. IsNumber(AddBiguint(a, b), m + w) /\ IsNumber(AddBiguint(b, a), w + m)
  BY <1>1, <1>2, AddBiguintIs
<1>. QED  BY <1>5, <1>6, <1>8, <1>9, ConnectIs

\* The difference of two residues is there, reduced.
LEMMA MinusIs ==
    ASSUME NEW m \in {BaseOrder, ScalarOrder},
           NEW a, NEW v, IsShort(m, a, v), NEW b, NEW w, IsShort(m, b, w)
    PROVE  IsFull(m, SubNonnative(m, a, b), (v - w) % m)
<1> DEFINE o == v < w
           s == (v - w) % m
           c == SetBiguint(NumNonnativeLimbs(m), s)
           modulus == ConstantBiguint(m)
<1>1. /\ m \in Nat /\ m > 1 /\ v \in Nat /\ v < m /\ IsNumber(a, v) /\ a # Stuck /\ Canonical(m, a) = v
  BY ShortIs
<1>2. w \in Nat /\ w < m /\ IsNumber(b, w) /\ b # Stuck /\ Canonical(m, b) = w
  BY ShortIs
<1>3. s = (v - w) + (IF o THEN m ELSE 0) /\ s \in Nat /\ s < m
  <2> DEFINE r == (v - w) + (IF o THEN m ELSE 0)
  <2>1. r \in 0 .. m - 1 /\ v - w \in Int /\ m > 0
    BY <1>1, <1>2
  <2>2. v - w = 0 * m + r \/ v - w = (-1) * m + r
    BY <1>1, <1>2
  <2> HIDE DEF r
  <2>3. s = r
    BY <1>1, <2>1, <2>2, RemainderUnique
  <2>. QED  BY <1>1, <2>1, <2>3 DEF r
<1>4. SubNonnative(m, a, b) =
        IF ConnectBiguint(a, SubBiguint(AddBiguint(c, b), MulBiguintByBool(modulus, o)))
        THEN c ELSE Stuck
  BY <1>1, <1>2 DEF SubNonnative, SubtractionGenerator
<1> HIDE DEF s
<1>5. IsNumber(c, s) /\ IsFull(m, c, s)
  BY <1>1, <1>3, LimbsEnough
<1>6. IsNumber(modulus, m)
  BY ModulusConstant DEF IsModulus
<1> HIDE DEF c, modulus
<1>7. IsNumber(MulBiguintByBool(modulus, o), IF o THEN m ELSE 0)
  BY <1>6, ByBoolIs
<1>8. IsNumber(AddBiguint(c, b), s + w)
  BY <1>2, <1>5, AddBiguintIs
<1>9. (IF o THEN m ELSE 0) <= s + w /\ (s + w) - (IF o THEN m ELSE 0) = v
  BY <1>1, <1>2, <1>3
<1>10. IsNumber(SubBiguint(AddBiguint(c, b), MulBiguintByBool(modulus, o)), v)
  <2> DEFINE k == IF o THEN m ELSE 0
  <2>1. IsNumber(MulBiguintByBool(modulus, o), k) /\ k <= s + w /\ (s + w) - k = v
    BY <1>7, <1>9
  <2> HIDE DEF k
  <2>. QED  BY <1>8, <2>1, SubBiguintIs
<1>11. ConnectBiguint(a, SubBiguint(AddBiguint(c, b), MulBiguintByBool(modulus, o)))
  BY <1>1, <1>10, ConnectIs
<1>. QED  BY <1>4, <1>5, <1>11 DEF s

\* Nothing is subtracted from a modulus left as it is, nor the modulus from anything.
LEMMA MinusModulus ==
    ASSUME NEW m \in {BaseOrder, ScalarOrder},
           NEW a, NEW v, IsShort(m, a, v), NEW b, IsModulus(m, b)
    PROVE  SubNonnative(m, a, b) = Stuck
<1> DEFINE c == SetBiguint(NumNonnativeLimbs(m), v)
           modulus == ConstantBiguint(m)
           o == v < 0
<1>1. /\ m \in Nat /\ m > 1 /\ v \in Nat /\ v < m /\ IsNumber(a, v) /\ a # Stuck /\ Canonical(m, a) = v
      /\ v % m = v
  BY ShortIs
<1>2. IsNumber(b, m) /\ b # Stuck /\ Canonical(m, b) = 0
  BY ModulusStays
<1>3. v - 0 = v /\ ~(v < 0) /\ 0 <= v + m /\ (v + m) - 0 # v /\ (v + m) - 0 = v + m
  BY <1>1
<1>4. SubNonnative(m, a, b) # Stuck =>
        ConnectBiguint(a, SubBiguint(AddBiguint(c, b), MulBiguintByBool(modulus, o)))
  <2>1. SubtractionGenerator(m, a, b).diff = c
    BY <1>1, <1>2, <1>3 DEF SubtractionGenerator
  <2>2. SubtractionGenerator(m, a, b).overflow = o
    BY <1>1, <1>2 DEF SubtractionGenerator
  <2> HIDE DEF c, modulus, o
  <2>. QED  BY <1>1, <1>2, <2>1, <2>2 DEF SubNonnative, modulus
<1>5. IsNumber(c, v)
  BY <1>1, LimbsEnough
<1>6. IsNumber(modulus, m)
  BY ModulusConstant DEF IsModulus
<1> HIDE DEF c, modulus
<1>7. IsNumber(MulBiguintByBool(modulus, o), 0)
  <2>1. ~o
    BY <1>3
  <2> HIDE DEF o
  <2>2. IsNumber(MulBiguintByBool(modulus, o), IF o THEN m ELSE 0)
    BY <1>6, ByBoolIs
  <2>. QED  BY <2>1, <2>2
<1> HIDE DEF o
<1>8. IsNumber(AddBiguint(c, b), v + m)
  BY <1>2, <1>5, AddBiguintIs
<1>9. IsNumber(SubBiguint(AddBiguint(c, b), MulBiguintByBool(modulus, o)), (v + m) - 0)
  BY <1>3, <1>7, <1>8, SubBiguintIs
<1>. QED  BY <1>1, <1>3, <1>4, <1>9, ConnectIs

\* A residue as a constant has no more limbs than the modulus.
LEMMA ConstantShort ==
    ASSUME NEW m \in {BaseOrder, ScalarOrder}, NEW v \in 0 .. m - 1
    PROVE  /\ IsShort(m, ConstantBiguint(v), v)
           /\ Power(NumNonnativeLimbs(m) - 1) <= v => IsFull(m, ConstantBiguint(v), v)
<1> DEFINE n == NumNonnativeLimbs(m)
           k == Len(ConstantBiguint(v))
<1>1. m \in Nat /\ v \in Nat /\ v < m /\ n \in Nat /\ m < Power(n)
  BY ModulusIs, LimbsOfModulus
<1>2. /\ IsNumber(ConstantBiguint(v), v) /\ k \in Nat /\ v < Power(k)
      /\ k = 0 \/ Power(k - 1) <= v
  BY <1>1, ConstantLimbs, NumberIs
<1>3. \A i, j \in Nat : Power(i) \in Nat /\ (i <= j => Power(i) <= Power(j))
  BY PowerSums, Powers
<1> HIDE DEF n, k
<1>4. k <= n
  <2> SUFFICES ASSUME ~(k <= n) PROVE FALSE
    OBVIOUS
  <2>1. k - 1 \in Nat /\ n <= k - 1 /\ k # 0
    BY <1>1, <1>2
  <2>2. Power(n) <= Power(k - 1) /\ Power(n) \in Nat /\ Power(k - 1) \in Nat
    BY <1>1, <1>3, <2>1
  <2>3. Power(k - 1) <= v
    BY <1>2, <2>1
  <2>. QED  BY <1>1, <2>2, <2>3
<1>5. ASSUME Power(n - 1) <= v PROVE k = n
  <2> SUFFICES ASSUME k # n PROVE FALSE
    OBVIOUS
  <2>1. n - 1 \in Nat /\ k <= n - 1
    BY <1>1, <1>2, <1>4
  <2>2. Power(k) <= Power(n - 1) /\ Power(k) \in Nat /\ Power(n - 1) \in Nat
    BY <1>2, <1>3, <2>1
  <2>. QED  BY <1>1, <1>2, <1>5, <2>2
<1>. QED  BY <1>2, <1>4, <1>5 DEF IsShort, IsFull, n, k

\* The quotient of a product by the modulus is less than either residue.
LEMMA QuotientOfProduct ==
    ASSUME NEW m \in Nat, m > 0, NEW v \in 0 .. m - 1, NEW w \in 0 .. m - 1
    PROVE  LET q == (v * w) \div m
           IN  /\ v * w \in Nat /\ q \in Nat /\ q <= v /\ q <= w
               /\ (v * w) % m \in 0 .. m - 1
               /\ v * w = ((v * w) % m) + m * q
<1> DEFINE p == v * w
           q == p \div m
           r == p % m
<1>1. m \in Nat /\ m > 0 /\ v \in Nat /\ w \in Nat /\ v <= m /\ w <= m
  OBVIOUS
<1>2. p \in Nat
  BY <1>1
<1>3. p <= m * w /\ p <= m * v
  <2>1. (m - v) * w \in Nat /\ (m - w) * v \in Nat
    BY <1>1
  <2>2. (m - v) * w = m * w - v * w /\ (m - w) * v = m * v - v * w
    BY <1>1
  <2>3. m * w \in Nat /\ m * v \in Nat
    BY <1>1
  <2>. QED  BY <2>1, <2>2, <2>3
<1> HIDE DEF p
<1>4. p = q * m + r /\ q \in Nat /\ r \in 0 .. m - 1
  BY <1>1, <1>2, Divided
<1> HIDE DEF q, r
<1>5. p = r + m * q
  BY <1>1, <1>4
<1>6. ASSUME NEW u \in Nat, p <= m * u PROVE q <= u
  <2> SUFFICES ASSUME ~(q <= u) PROVE FALSE
    OBVIOUS
  <2>1. q - u - 1 \in Nat
    BY <1>4
  <2>2. m * (q - u - 1) \in Nat
    BY <1>1, <2>1
  <2>3. m * (q - u - 1) = m * q - m * u - m
    BY <1>1, <1>4
  <2>4. m * q \in Nat /\ m * u \in Nat
    BY <1>1, <1>4
  <2>. QED  BY <1>1, <1>2, <1>4, <1>5, <1>6, <2>2, <2>3, <2>4
<1>. QED  BY <1>1, <1>2, <1>3, <1>4, <1>5, <1>6 DEF p, q, r

\* The product of two residues is there when one of them has all its limbs.
LEMMA ProductOfFull ==
    ASSUME NEW m \in {BaseOrder, ScalarOrder},
           NEW a, NEW v, IsShort(m, a, v), NEW b, NEW w, IsShort(m, b, w),
           IsFull(m, a, v) \/ IsFull(m, b, w)
    PROVE  IsFull(m, MulNonnative(m, a, b), (v * w) % m)
<1> DEFINE n == NumNonnativeLimbs(m)
           r == (v * w) % m
           q == (v * w) \div m
           modulus == ConstantBiguint(m)
           c == SetBiguint(n, r)
           d == SetBiguint(Len(a) + Len(b) - n, q)
<1>1. /\ m \in Nat /\ m > 1 /\ v \in Nat /\ v < m /\ IsNumber(a, v) /\ a # Stuck /\ Canonical(m, a) = v
      /\ Len(a) \in Nat /\ 2 * Len(a) <= MaxNumAddends /\ n \in Nat /\ v \in 0 .. m - 1 /\ v < Power(Len(a))
  BY ShortIs, NumberIs DEF IsShort
<1>2. /\ w \in Nat /\ w < m /\ IsNumber(b, w) /\ b # Stuck /\ Canonical(m, b) = w /\ Len(b) \in Nat
      /\ w \in 0 .. m - 1 /\ w < Power(Len(b))
  BY ShortIs, NumberIs DEF IsShort
<1>3. /\ v * w \in Nat /\ q \in Nat /\ q <= v /\ q <= w /\ r \in 0 .. m - 1
      /\ v * w = r + m * q
  BY <1>1, <1>2, QuotientOfProduct
<1>4. MulNonnative(m, a, b) =
        IF /\ Stuck \notin {d, MulBiguint(a, b), MulBiguint(modulus, d)}
           /\ ConnectBiguint(MulBiguint(a, b), AddBiguint(c, MulBiguint(modulus, d)))
        THEN c ELSE Stuck
  BY <1>1, <1>2 DEF MulNonnative, MultiplicationGenerator
<1> HIDE DEF r, q, n
<1>5. IsNumber(c, r) /\ IsFull(m, c, r)
  BY <1>1, <1>3, LimbsEnough DEF n
<1>6. IsNumber(d, q) /\ d # Stuck
  <2>1. Len(a) = n \/ Len(b) = n
    BY DEF IsFull, n
  <2>2. \/ Len(a) + Len(b) - n = Len(a)
        \/ Len(a) + Len(b) - n = Len(b)
    BY <1>1, <1>2, <2>1
  <2>3. q < Power(Len(a)) /\ q < Power(Len(b))
    <3>1. Power(Len(a)) \in Nat /\ Power(Len(b)) \in Nat
      BY <1>1, <1>2, Powers
    <3>. QED  BY <1>1, <1>2, <1>3, <3>1
  <2>. QED  BY <1>1, <1>2, <1>3, <2>2, <2>3, SetIs
<1>7. IsNumber(modulus, m) /\ 2 * Len(modulus) <= MaxNumAddends
  BY ModulusConstant, ModulusStays
<1> HIDE DEF c, d, modulus
<1>8. IsNumber(MulBiguint(a, b), v * w)
  BY <1>1, <1>2, MulBiguintIs
<1>9. IsNumber(MulBiguint(modulus, d), m * q)
  BY <1>6, <1>7, MulBiguintIs
<1>10. IsNumber(AddBiguint(c, MulBiguint(modulus, d)), v * w)
  BY <1>3, <1>5, <1>9, AddBiguintIs
<1>11. ConnectBiguint(MulBiguint(a, b), AddBiguint(c, MulBiguint(modulus, d)))
  BY <1>8, <1>10, ConnectIs
<1>12. Stuck \notin {d, MulBiguint(a, b), MulBiguint(modulus, d)}
  BY <1>6, <1>8, <1>9, NumberIs
<1>. QED  BY <1>4, <1>5, <1>11, <1>12 DEF r

\* The modulus left as it is cannot be multiplied with anything but zero.
LEMMA TimesModulus ==
    ASSUME NEW m \in {BaseOrder, ScalarOrder},
           NEW a, IsModulus(m, a), NEW b, NEW w, IsShort(m, b, w), w # 0
    PROVE  MulNonnative(m, a, b) = Stuck
<1> DEFINE n == NumNonnativeLimbs(m)
           modulus == ConstantBiguint(m)
           c == SetBiguint(n, 0)
           d == SetBiguint(Len(a) + Len(b) - n, 0)
<1>1. /\ m \in Nat /\ m > 1 /\ IsNumber(a, m) /\ a # Stuck /\ Canonical(m, a) = 0
      /\ Len(a) = n /\ n \in Nat /\ 2 * Len(a) <= MaxNumAddends
  BY ModulusStays DEF IsModulus
<1>2. /\ w \in Nat /\ w < m /\ IsNumber(b, w) /\ b # Stuck /\ Canonical(m, b) = w /\ Len(b) \in Nat
  BY ShortIs
<1>3. (0 * w) % m = 0 /\ (0 * w) \div m = 0
  <2>1. 0 * w = 0 /\ 0 = 0 * m + 0
    BY <1>1, <1>2
  <2>. QED  BY <1>1, <2>1, DivUnique
<1>4. MultiplicationGenerator(m, a, b).prod = c /\ MultiplicationGenerator(m, a, b).overflow = d
  BY <1>1, <1>2, <1>3 DEF MultiplicationGenerator
<1>5. MulNonnative(m, a, b) # Stuck =>
        /\ Stuck \notin {d, MulBiguint(a, b), MulBiguint(modulus, d)}
        /\ ConnectBiguint(MulBiguint(a, b), AddBiguint(c, MulBiguint(modulus, d)))
  <2> HIDE DEF c, d, modulus
  <2>. QED  BY <1>4 DEF MulNonnative, modulus
<1>6. IsNumber(c, 0)
  BY <1>1, LimbsEnough
<1>7. Len(a) + Len(b) - n \in Nat
  BY <1>1, <1>2
<1>8. d # Stuck => IsNumber(d, 0)
  BY <1>7, SetIs
<1>9. IsNumber(modulus, m) /\ 2 * Len(modulus) <= MaxNumAddends
  BY ModulusConstant, ModulusStays
<1> HIDE DEF c, d, modulus, n
<1>10. IsNumber(MulBiguint(a, b), m * w)
  BY <1>1, <1>2, MulBiguintIs
<1>11. d # Stuck => IsNumber(AddBiguint(c, MulBiguint(modulus, d)), 0)
  <2> SUFFICES ASSUME d # Stuck PROVE IsNumber(AddBiguint(c, MulBiguint(modulus, d)), 0)
    OBVIOUS
  <2>1. m * 0 = 0 /\ 0 + 0 = 0
    BY <1>1
  <2>2. IsNumber(MulBiguint(modulus, d), m * 0)
    BY <1>8, <1>9, MulBiguintIs
  <2>3. IsNumber(MulBiguint(modulus, d), 0)
    BY <2>1, <2>2
  <2>4. IsNumber(AddBiguint(c, MulBiguint(modulus, d)), 0 + 0)
    BY <1>6, <2>3, AddBiguintIs
  <2>. QED  BY <2>1, <2>4
<1>12. m * w # 0
  BY <1>1, <1>2
<1>13. d # Stuck => ~ConnectBiguint(MulBiguint(a, b), AddBiguint(c, MulBiguint(modulus, d)))
  BY <1>10, <1>11, <1>12, ConnectIs
<1>. QED  BY <1>5, <1>13

\* The inverse of a residue other than zero, and only its, is there.
LEMMA InverseOfFull ==
    ASSUME NEW m \in {BaseOrder, ScalarOrder}, NEW a, NEW v, IsFull(m, a, v)
    PROVE  /\ v = 0 => InvNonnative(m, a) = Stuck
           /\ v # 0 => /\ IsFull(m, InvNonnative(m, a), ModInverse(m, v))
                       /\ (v * ModInverse(m, v)) % m = 1
<1>0. IsShort(m, a, v)
  BY FullIs
<1>1. /\ m \in Nat /\ m > 1 /\ v \in Nat /\ v < m /\ IsNumber(a, v) /\ a # Stuck /\ Canonical(m, a) = v
      /\ v % m = v /\ Len(a) \in Nat /\ 2 * Len(a) <= MaxNumAddends
      /\ NumNonnativeLimbs(m) \in Nat /\ m < Power(NumNonnativeLimbs(m))
  BY <1>0, ShortIs
<1>2. v = 0 => InvNonnative(m, a) = Stuck
  BY <1>1 DEF InvNonnative
<1> SUFFICES ASSUME v # 0
             PROVE  /\ IsFull(m, InvNonnative(m, a), ModInverse(m, v))
                    /\ (v * ModInverse(m, v)) % m = 1
  BY <1>2
<1> DEFINE w == ModInverse(m, v)
           q == (v * w) \div m
           modulus == ConstantBiguint(m)
           c == SetBiguint(Len(a), w)
           d == SetBiguint(Len(a), q)
<1>3. w \in 0 .. m - 1 /\ (v * w) % m = 1
  BY <1>1, InverseIs
<1>4. /\ v * w \in Nat /\ q \in Nat /\ q <= v /\ q <= w
      /\ v * w = ((v * w) % m) + m * q
  <2>1. m > 0 /\ v \in 0 .. m - 1
    BY <1>1
  <2> HIDE DEF w
  <2>. QED  BY <1>1, <1>3, <2>1, QuotientOfProduct DEF q
<1>5. InvNonnative(m, a) =
        IF /\ Stuck \notin {c, d, MulBiguint(a, c), MulBiguint(modulus, d)}
           /\ ConnectBiguint(MulBiguint(a, c), AddBiguint(MulBiguint(modulus, d), ConstantBiguint(1)))
        THEN c ELSE Stuck
  BY <1>1 DEF InvNonnative, InverseGenerator
<1> HIDE DEF w, q
<1>6. w \in Nat /\ w < m /\ q <= m
  BY <1>1, <1>3, <1>4
<1>7. Len(a) = NumNonnativeLimbs(m)
  BY DEF IsFull
<1>8. IsNumber(c, w) /\ IsFull(m, c, w) /\ c # Stuck
  <2>1. w <= m
    BY <1>1, <1>6
  <2>. QED  BY <1>6, <1>7, <2>1, LimbsEnough
<1>9. IsNumber(d, q) /\ d # Stuck
  BY <1>4, <1>6, <1>7, LimbsEnough
<1>10. IsNumber(modulus, m) /\ 2 * Len(modulus) <= MaxNumAddends
  BY ModulusConstant, ModulusStays
<1> HIDE DEF c, d, modulus
<1>11. IsNumber(MulBiguint(a, c), v * w)
  BY <1>1, <1>8, MulBiguintIs
<1>12. IsNumber(MulBiguint(modulus, d), m * q)
  BY <1>9, <1>10, MulBiguintIs
<1>13. IsNumber(ConstantBiguint(1), 1)
  BY ConstantIs
<1>14. m * q \in Nat /\ v * w = m * q + 1
  BY <1>1, <1>3, <1>4
<1>15. IsNumber(AddBiguint(MulBiguint(modulus, d), ConstantBiguint(1)), v * w)
  BY <1>12, <1>13, <1>14, AddBiguintIs
<1>16. ConnectBiguint(MulBiguint(a, c), AddBiguint(MulBiguint(modulus, d), ConstantBiguint(1)))
  BY <1>11, <1>15, ConnectIs
<1>17. Stuck \notin {c, d, MulBiguint(a, c), MulBiguint(modulus, d)}
  BY <1>8, <1>9, <1>11, <1>12, NumberIs
<1>. QED  BY <1>3, <1>5, <1>8, <1>16, <1>17 DEF w

-----------------------------------------------------------------------------
(* What the point gadgets come to.                                         *)

\* Coordinates in no more limbs than the modulus needs, or in just as many.
Tidy(p) == Len(p.x) <= NumNonnativeLimbs(BaseOrder) /\ Len(p.y) <= NumNonnativeLimbs(BaseOrder)
Long(p) == Len(p.x) = NumNonnativeLimbs(BaseOrder) /\ Len(p.y) = NumNonnativeLimbs(BaseOrder)

\* The coordinates of a tidy point are residues.
LEMMA TidyIs ==
    ASSUME NEW p, NEW P, IsPoint(p, P)
    PROVE  /\ BaseOrder \in Nat /\ BaseOrder > 3 /\ BaseOrder \in {BaseOrder, ScalarOrder}
           /\ P.x \in Nat /\ P.y \in Nat /\ P.x < BaseOrder /\ P.y < BaseOrder
           /\ Tidy(p) => IsShort(BaseOrder, p.x, P.x) /\ IsShort(BaseOrder, p.y, P.y)
           /\ Long(p) => Tidy(p) /\ IsFull(BaseOrder, p.x, P.x) /\ IsFull(BaseOrder, p.y, P.y)
           /\ ~IsStuck(p) /\ p # StuckPoint
<1>1. BaseOrder \in Nat /\ BaseOrder > 3 /\ BaseOrder \in {BaseOrder, ScalarOrder}
  BY ModulusIs, CurveAssumption
<1>2. P.x \in 0 .. BaseOrder - 1 /\ P.y \in 0 .. BaseOrder - 1 /\ IsNumber(p.x, P.x) /\ IsNumber(p.y, P.y)
      /\ p.x # Stuck /\ p.y # Stuck
  BY PointIs DEF IsPoint
<1>3. NumNonnativeLimbs(BaseOrder) \in Nat
  BY <1>1, LimbsOfModulus
<1>4. ~IsStuck(p) /\ p # StuckPoint
  BY <1>2 DEF IsStuck, StuckPoint
<1>. QED  BY <1>1, <1>2, <1>3, <1>4 DEF IsShort, IsFull, Tidy, Long

\* A full number that is not stuck.
LEMMA FullStays ==
    ASSUME NEW m \in {BaseOrder, ScalarOrder}, NEW a, NEW v, IsFull(m, a, v)
    PROVE  a # Stuck /\ v \in Nat /\ Len(a) = NumNonnativeLimbs(m)
BY FullIs, ShortIs DEF IsFull

\* The line's third point is there unless the coordinates' sum is the modulus.
LEMMA MirroredExact ==
    ASSUME NEW p, NEW P, IsPoint(p, P), Tidy(p), NEW x, NEW v, IsShort(BaseOrder, x, v),
           NEW s, NEW l, IsFull(BaseOrder, s, l)
    PROVE  /\ v + P.x = BaseOrder => Mirrored(p, x, s) = StuckPoint
           /\ v + P.x # BaseOrder => ~IsStuck(Mirrored(p, x, s)) /\ Long(Mirrored(p, x, s))
<1> DEFINE m == BaseOrder
           sq == Mul(s, s)
           su == Plus(x, p.x)
           x3 == Minus(sq, su)
           di == Minus(p.x, x3)
           pr == Mul(s, di)
           y3 == Minus(pr, p.y)
<1>1. m \in {BaseOrder, ScalarOrder} /\ IsShort(m, p.x, P.x) /\ IsShort(m, p.y, P.y)
  BY TidyIs
<1>2. IsShort(m, s, l)
  BY <1>1, FullIs
<1>3. IsFull(m, sq, (l * l) % m)
  BY <1>1, <1>2, ProductOfFull DEF Mul
<1>4. IsShort(m, sq, (l * l) % m)
  BY <1>1, <1>3, FullIs
<1>5. /\ v + P.x = m => IsModulus(m, su)
      /\ v + P.x # m => IsFull(m, su, (v + P.x) % m)
  BY <1>1, PlusIs DEF Plus
<1>6. Mirrored(p, x, s) = IF Stuck \in {x3, y3} THEN StuckPoint ELSE [x |-> x3, y |-> y3]
  BY DEF Mirrored
<1>7. CASE v + P.x = m
  <2> HIDE DEF sq, su, y3
  <2>1. x3 = Stuck
    BY <1>1, <1>4, <1>5, <1>7, MinusModulus DEF Minus
  <2> HIDE DEF x3
  <2>. QED  BY <1>6, <1>7, <2>1
<1>8. CASE v + P.x # m
  <2> DEFINE X == (((l * l) % m) - ((v + P.x) % m)) % m
             D == (P.x - X) % m
             R == (l * D) % m
             Y == (R - P.y) % m
  <2>1. IsShort(m, su, (v + P.x) % m)
    BY <1>1, <1>5, <1>8, FullIs
  <2>2. IsFull(m, x3, X)
    <3> HIDE DEF sq, su
    <3>. QED  BY <1>1, <1>4, <2>1, MinusIs DEF Minus
  <2> HIDE DEF x3, X
  <2>3. IsShort(m, x3, X)
    BY <1>1, <2>2, FullIs
  <2>4. IsFull(m, di, D)
    BY <1>1, <2>3, MinusIs DEF Minus
  <2> HIDE DEF di, D
  <2>5. IsShort(m, di, D)
    BY <1>1, <2>4, FullIs
  <2>6. IsFull(m, pr, R)
    BY <1>1, <1>2, <2>5, ProductOfFull DEF Mul
  <2> HIDE DEF pr, R
  <2>7. IsShort(m, pr, R)
    BY <1>1, <2>6, FullIs
  <2>8. IsFull(m, y3, Y)
    BY <1>1, <2>7, MinusIs DEF Minus
  <2> HIDE DEF y3, Y
  <2>9. x3 # Stuck /\ y3 # Stuck /\ Len(x3) = NumNonnativeLimbs(m) /\ Len(y3) = NumNonnativeLimbs(m)
    BY <1>1, <2>2, <2>8, FullStays
  <2>10. Mirrored(p, x, s) = [x |-> x3, y |-> y3]
    BY <1>6, <2>9
  <2>. QED  BY <1>8, <2>9, <2>10 DEF IsStuck, Long
<1>. QED  BY <1>7, <1>8

\* curve_add is stuck where SumFails says, and has all limbs elsewhere.
LEMMA SumExact ==
    ASSUME NEW p, NEW P, IsPoint(p, P), Tidy(p), NEW q, NEW Q, IsPoint(q, Q), Tidy(q)
    PROVE  /\ IsStuck(CurveAdd(p, q)) <=> SumFails(P, Q)
           /\ ~SumFails(P, Q) => CurveAdd(p, q) # StuckPoint /\ Long(CurveAdd(p, q))
<1> DEFINE m == BaseOrder
           dy == Minus(q.y, p.y)
           dx == Minus(q.x, p.x)
           i == Inv(dx)
           s == Mul(dy, i)
           over == (Q.x - P.x) % m
           rise == (Q.y - P.y) % m
           inv == ModInverse(m, over)
           l == (rise * inv) % m
<1>1. /\ m \in {BaseOrder, ScalarOrder} /\ IsShort(m, p.x, P.x) /\ IsShort(m, p.y, P.y)
      /\ IsShort(m, q.x, Q.x) /\ IsShort(m, q.y, Q.y)
      /\ m \in Nat /\ m > 0 /\ P.x \in Nat /\ Q.x \in Nat /\ P.x < m /\ Q.x < m
  BY TidyIs
<1>2. CurveAdd(p, q) = Mirrored(p, q.x, s)
  BY DEF CurveAdd
<1>3. IsFull(m, dx, over) /\ IsFull(m, dy, rise)
  BY <1>1, MinusIs DEF Minus
<1>4. over = 0 <=> P.x = Q.x
  <2> DEFINE d == Q.x - P.x
             r == IF d < 0 THEN d + m ELSE d
  <2>1. r \in 0 .. m - 1 /\ d \in Int /\ (d = 0 * m + r \/ d = (-1) * m + r) /\ (r = 0 <=> d = 0)
    BY <1>1
  <2> HIDE DEF r, d
  <2>2. d % m = r
    BY <1>1, <2>1, RemainderUnique
  <2>3. over = r
    BY <2>2 DEF d
  <2>4. d = 0 <=> P.x = Q.x
    BY <1>1 DEF d
  <2>. QED  BY <2>1, <2>3, <2>4
<1> HIDE DEF dx, dy, over, rise
<1>5. CASE P.x = Q.x
  <2>1. i = Stuck
    BY <1>1, <1>3, <1>4, <1>5, InverseOfFull DEF Inv
  <2> HIDE DEF i
  <2>2. s = Stuck
    BY <2>1, StuckStays DEF Mul
  <2> HIDE DEF s
  <2>3. CurveAdd(p, q) = StuckPoint
    BY <1>2, <2>2, MirroredStuck
  <2>. QED  BY <1>5, <2>3 DEF SumFails, IsStuck, StuckPoint
<1>6. CASE P.x # Q.x
  <2>1. IsFull(m, i, inv)
    BY <1>1, <1>3, <1>4, <1>6, InverseOfFull DEF Inv
  <2> HIDE DEF i, inv
  <2>2. IsShort(m, i, inv) /\ IsShort(m, dy, rise)
    BY <1>1, <1>3, <2>1, FullIs
  <2>3. IsFull(m, s, l)
    BY <1>1, <2>1, <2>2, ProductOfFull DEF Mul
  <2> HIDE DEF s, l
  <2>4. /\ Q.x + P.x = m => Mirrored(p, q.x, s) = StuckPoint
        /\ Q.x + P.x # m => ~IsStuck(Mirrored(p, q.x, s)) /\ Long(Mirrored(p, q.x, s))
    BY <1>1, <2>3, MirroredExact
  <2>5. Q.x + P.x = P.x + Q.x
    BY <1>1
  <2>6. IsStuck(StuckPoint)
    BY DEF IsStuck, StuckPoint
  <2>7. SumFails(P, Q) <=> Q.x + P.x = m
    BY <1>6, <2>5 DEF SumFails
  <2>. QED  BY <1>2, <2>4, <2>6, <2>7
<1>. QED  BY <1>5, <1>6

\* Two and three have inverses modulo the coordinates' order.
LEMMA SmallFactors ==
    ASSUME NEW v \in Nat, v < BaseOrder
    PROVE  /\ v + v # BaseOrder
           /\ v # 0 => (v + v) % BaseOrder # 0 /\ (3 * v) % BaseOrder # 0
<1> DEFINE m == BaseOrder
<1>1. m \in Nat /\ m > 3 /\ m \in {BaseOrder, ScalarOrder} /\ m > 0
  BY ModulusIs, CurveAssumption
<1>2. 2 % m = 2 /\ 3 % m = 3 /\ v % m = v
  BY <1>1, ReducedNumber
<1> HIDE DEF m
<1>3. ASSUME v # 0 PROVE (v + v) % m # 0 /\ (3 * v) % m # 0
  <2>1. (2 * v) % m # 0
    BY <1>1, <1>2, <1>3, ProductOfResidues DEF m
  <2>2. (3 * v) % m # 0
    BY <1>1, <1>2, <1>3, ProductOfResidues DEF m
  <2>3. 2 * v = v + v
    OBVIOUS
  <2>. QED  BY <2>1, <2>2, <2>3
<1>4. v + v # m
  <2> SUFFICES ASSUME v + v = m PROVE FALSE
    OBVIOUS
  <2>1. v # 0
    BY <1>1
  <2>2. m % m = 0
    <3>1. m = 1 * m + 0 /\ 0 \in 0 .. m - 1
      BY <1>1
    <3>. QED  BY <1>1, <3>1, RemainderUnique
  <2>. QED  BY <1>3, <2>1, <2>2
<1>. QED  BY <1>3, <1>4 DEF m

\* What a sum and a product leave of the modulus.
LEMMA Splits ==
    ASSUME NEW m \in Nat, m > 0, NEW a \in Nat, NEW r, r = a % m
    PROVE  r \in 0 .. m - 1 /\ \E k \in Int : a = k * m + r
BY RemainderOfInteger

\* Three times a number, added up modulo m.
LEMMA TripledCongruent ==
    ASSUME NEW m \in Nat, NEW d \in Int, NEW c \in Int, NEW r \in Int, NEW t \in Int, NEW u \in Int,
           Congruent(d, r, m), Congruent(r + r, t, m), Congruent(t + r, u, m)
    PROVE  Congruent(3 * d + c, u + c, m)
<1>0. PICK k1 \in Int : d = r + k1 * m
  BY DEF Congruent
<1>5. PICK k2 \in Int : r + r = t + k2 * m
  BY DEF Congruent
<1>6. PICK k3 \in Int : t + r = u + k3 * m
  BY DEF Congruent
<1> DEFINE k == 3 * k1 + k2 + k3
           e1 == k1 * m
           e2 == k2 * m
           e3 == k3 * m
           e == k * m
<1>1. e = 3 * e1 + e2 + e3 /\ e1 \in Int /\ e2 \in Int /\ e3 \in Int /\ k \in Int
  OBVIOUS
<1>2. d = r + e1 /\ r + r = t + e2 /\ t + r = u + e3
  BY <1>0, <1>5, <1>6
<1> HIDE DEF e, e1, e2, e3, k
<1>3. 3 * d + c = (u + c) + e
  BY <1>1, <1>2
<1>. QED  BY <1>1, <1>3 DEF Congruent, e

\* The slope's numerator, computed by three sums, is three times the square and CurveA.
LEMMA Tripled ==
    ASSUME NEW x \in Nat, x < BaseOrder,
           NEW S, S = (x * x) % BaseOrder, NEW T, T = (S + S) % BaseOrder, NEW U, U = (T + S) % BaseOrder
    PROVE  /\ S + S # BaseOrder /\ T + S # BaseOrder
           /\ U + CurveA = BaseOrder <=> (3 * x * x + CurveA) % BaseOrder = 0
<1> DEFINE m == BaseOrder
           A == CurveA
           sq == x * x
<1>1. m \in Nat /\ m > 3 /\ m \in {BaseOrder, ScalarOrder} /\ m > 0 /\ A \in 0 .. m - 1 /\ A # 0
  BY ModulusIs, CurveAssumption
<1>2. sq \in Nat /\ 3 * x * x = 3 * sq
  OBVIOUS
<1> HIDE DEF m, A, sq
<1>3. PICK k1 \in Int : sq = k1 * m + S
  BY <1>1, <1>2, Splits DEF sq, m
<1>4. S \in 0 .. m - 1 /\ S \in Nat
  BY <1>1, <1>2, Splits DEF sq, m
<1> DEFINE a == S + S
<1>5. a \in Nat /\ T = a % m
  BY <1>4 DEF m
<1> HIDE DEF a
<1>6. T \in 0 .. m - 1 /\ T \in Nat /\ \E k \in Int : a = k * m + T
  <2>1. \A d \in Nat : \A r : r = d % m => r \in 0 .. m - 1 /\ \E k \in Int : d = k * m + r
    BY <1>1, Splits
  <2>2. T \in 0 .. m - 1 /\ \E k \in Int : a = k * m + T
    BY <1>5, <2>1, Zenon
  <2>3. \A r \in 0 .. m - 1 : r \in Nat
    BY <1>1
  <2>. QED  BY <2>2, <2>3, Zenon
<1> DEFINE b == T + S
<1>7. b \in Nat /\ U = b % m
  BY <1>4, <1>6 DEF m
<1> HIDE DEF b
<1>8. U \in 0 .. m - 1 /\ U \in Nat /\ \E k \in Int : b = k * m + U
  <2>1. \A d \in Nat : \A r : r = d % m => r \in 0 .. m - 1 /\ \E k \in Int : d = k * m + r
    BY <1>1, Splits
  <2>2. U \in 0 .. m - 1 /\ \E k \in Int : b = k * m + U
    BY <1>7, <2>1, Zenon
  <2>3. \A r \in 0 .. m - 1 : r \in Nat
    BY <1>1
  <2>. QED  BY <2>2, <2>3, Zenon
<1>14. PICK k2 \in Int : S + S = k2 * m + T
  BY <1>6 DEF a
<1>15. PICK k3 \in Int : T + S = k3 * m + U
  BY <1>8 DEF b
<1>9. S + S # m /\ (S # 0 => (3 * S) % m # 0)
  BY <1>1, <1>4, SmallFactors DEF m
<1>10. T + S # m
  <2> SUFFICES ASSUME T + S = m PROVE FALSE
    OBVIOUS
  <2>1. 3 * S = (k2 + 1) * m + 0
    <3>1. (k2 + 1) * m = k2 * m + m /\ k2 * m \in Int
      BY <1>1
    <3>. QED  BY <1>1, <1>4, <1>14, <1>6, <3>1
  <2>2. (3 * S) % m = 0
    <3> DEFINE v == 3 * S
               l == k2 + 1
    <3>1. v \in Int /\ l \in Int /\ v = l * m + 0
      BY <1>4, <2>1
    <3>2. m \in Nat /\ m > 0 /\ 0 \in 0 .. m - 1
      BY <1>1
    <3> HIDE DEF v, l
    <3>3. v % m = 0
      BY <3>1, <3>2, RemainderUnique
    <3>. QED  BY <3>3 DEF v
  <2>3. S = 0
    BY <1>9, <2>2
  <2>4. T = 0
    <3>1. 0 % m = 0
      BY <1>1, ReducedNumber
    <3>. QED  BY <2>3, <3>1 DEF m
  <2>. QED  BY <1>1, <2>3, <2>4
<1>11. Congruent(3 * sq + A, U + A, m)
  <2>1. sq \in Int /\ A \in Int /\ S \in Int /\ T \in Int /\ U \in Int
    BY <1>1, <1>2, <1>4, <1>6, <1>8
  <2>2. \A a1, b1 \in Int, k \in Int : a1 = k * m + b1 => Congruent(a1, b1, m)
    <3> TAKE a1, b1 \in Int, k \in Int
    <3> HAVE a1 = k * m + b1
    <3>1. a1 = b1 + k * m
      BY <1>1
    <3>. QED  BY <3>1 DEF Congruent
  <2>3. S + S \in Int /\ T + S \in Int
    BY <2>1
  <2>4. Congruent(sq, S, m) /\ Congruent(S + S, T, m) /\ Congruent(T + S, U, m)
    BY <1>3, <1>14, <1>15, <2>1, <2>2, <2>3, Zenon
  <2>. QED  BY <1>1, <2>1, <2>4, TripledCongruent, Zenon
<1>12. (3 * sq + A) % m = (U + A) % m
  <2> DEFINE v == 3 * sq + A
             w == U + A
  <2>1. v \in Int /\ w \in Int /\ Congruent(v, w, m)
    BY <1>1, <1>2, <1>8, <1>11
  <2>2. m \in Nat /\ m > 0
    BY <1>1
  <2> HIDE DEF v, w
  <2>3. v % m = w % m
    BY <2>1, <2>2, SameRemainder
  <2>. QED  BY <2>3 DEF v, w
<1>13. (U + A) % m = 0 <=> U + A = m
  <2> DEFINE r == IF U + A < m THEN U + A ELSE U + A - m
  <2> DEFINE d == U + A
  <2>0. m \in Nat /\ U \in Nat /\ A \in Nat /\ U < m /\ A < m /\ A > 0 /\ 0 * m = 0 /\ 1 * m = m
    BY <1>1, <1>8
  <2>1. r \in 0 .. m - 1 /\ d \in Int /\ (d = 0 * m + r \/ d = 1 * m + r) /\ (r = 0 <=> d = m)
    <3>1. CASE d < m
      <4>1. r = d /\ d > 0 /\ d \in Nat
        BY <2>0, <3>1
      <4> HIDE DEF r, d
      <4>. QED  BY <2>0, <3>1, <4>1
    <3>2. CASE ~(d < m)
      <4>1. r = d - m /\ d >= m /\ d < m + m /\ d \in Nat
        BY <2>0, <3>2
      <4> HIDE DEF r, d
      <4>. QED  BY <2>0, <4>1
    <3>. QED  BY <3>1, <3>2
  <2>2. d \in Int /\ (d = 0 * m + r \/ d = 1 * m + r)
    BY <2>1
  <2> HIDE DEF r, d
  <2>3. d % m = r
    BY <1>1, <2>1, <2>2, RemainderUnique
  <2>. QED  BY <2>1, <2>3 DEF d
<1>. QED  BY <1>2, <1>9, <1>10, <1>12, <1>13 DEF m, A

\* curve_double is stuck where DoubleFails says, and has all limbs elsewhere.
LEMMA DoubleExact ==
    ASSUME NEW p, NEW P, IsPoint(p, P), Tidy(p), Len(p.x) = NumNonnativeLimbs(BaseOrder), P.y # 0
    PROVE  /\ DoubleFails(P) => CurveDouble(p) = StuckPoint
           /\ ~DoubleFails(P) => CurveDouble(p) # StuckPoint /\ Long(CurveDouble(p))
<1> DEFINE m == BaseOrder
           sq == Mul(p.x, p.x)
           two == Plus(sq, sq)
           triple == Plus(two, sq)
           A == ConstantBiguint(CurveA)
           top == Plus(triple, A)
           yy == Plus(p.y, p.y)
           i == Inv(yy)
           s == Mul(top, i)
           S == (P.x * P.x) % m
           T == (S + S) % m
           U == (T + S) % m
           W == (P.y + P.y) % m
           I == ModInverse(m, W)
<1>1. /\ m \in Nat /\ m \in {BaseOrder, ScalarOrder} /\ m > 3 /\ IsShort(m, p.x, P.x) /\ IsShort(m, p.y, P.y)
      /\ P.x \in Nat /\ P.y \in Nat /\ P.x < m /\ P.y < m /\ CurveA \in 0 .. m - 1
  BY TidyIs, CurveAssumption
<1>2. IsFull(m, p.x, P.x)
  BY <1>1 DEF IsShort, IsFull
<1>3. /\ S + S # m /\ T + S # m
      /\ U + CurveA = m <=> DoubleFails(P)
  <2> DEFINE x == P.x
  <2>1. /\ x \in Nat /\ x < BaseOrder /\ S = (x * x) % BaseOrder
        /\ T = (S + S) % BaseOrder /\ U = (T + S) % BaseOrder
    BY <1>1
  <2> HIDE DEF S, T, U, x
  <2>2. /\ S + S # BaseOrder /\ T + S # BaseOrder
        /\ U + CurveA = BaseOrder <=> (3 * x * x + CurveA) % BaseOrder = 0
    BY <2>1, Tripled
  <2>. QED  BY <2>2 DEF DoubleFails, x
<1>4. P.y + P.y # m /\ W # 0 /\ P.x + P.x # m
  BY <1>1, SmallFactors
<1>5. CurveDouble(p) = Mirrored(p, p.x, s)
  BY DEF CurveDouble
<1>6. IsFull(m, sq, S)
  BY <1>1, <1>2, ProductOfFull DEF Mul
<1> HIDE DEF sq, S
<1>7. IsShort(m, sq, S)
  BY <1>1, <1>6, FullIs
<1>8. IsFull(m, two, T)
  BY <1>1, <1>3, <1>7, PlusIs DEF Plus
<1> HIDE DEF two, T
<1>9. IsShort(m, two, T)
  BY <1>1, <1>8, FullIs
<1>10. IsFull(m, triple, U)
  BY <1>1, <1>3, <1>7, <1>9, PlusIs DEF Plus
<1> HIDE DEF triple, U
<1>11. IsShort(m, triple, U)
  BY <1>1, <1>10, FullIs
<1>12. IsShort(m, A, CurveA)
  BY <1>1, ConstantShort
<1> HIDE DEF A
<1>13. /\ U + CurveA = m => IsModulus(m, top)
       /\ U + CurveA # m => IsFull(m, top, (U + CurveA) % m)
  BY <1>1, <1>11, <1>12, PlusIs DEF Plus
<1> HIDE DEF top
<1>14. IsFull(m, yy, W)
  BY <1>1, <1>4, PlusIs DEF Plus
<1> HIDE DEF yy, W
<1>15. IsFull(m, i, I) /\ (W * I) % m = 1
  BY <1>1, <1>4, <1>14, InverseOfFull DEF Inv
<1>16. I # 0 /\ IsShort(m, i, I)
  <2> HIDE DEF i, I
  <2>1. IsShort(m, i, I) /\ W \in Nat
    BY <1>1, <1>14, <1>15, FullIs, FullStays
  <2>2. W * 0 = 0 /\ 0 % m = 0
    BY <1>1, <2>1, ReducedNumber
  <2>. QED  BY <1>15, <2>1, <2>2
<1> HIDE DEF i, I
<1>17. CASE U + CurveA = m
  <2>1. s = Stuck
    BY <1>1, <1>13, <1>16, <1>17, TimesModulus DEF Mul
  <2> HIDE DEF s
  <2>2. CurveDouble(p) = StuckPoint
    BY <1>5, <2>1, MirroredStuck
  <2>. QED  BY <1>3, <1>17, <2>2
<1>18. CASE U + CurveA # m
  <2> DEFINE l == (((U + CurveA) % m) * I) % m
  <2>1. IsShort(m, top, (U + CurveA) % m)
    BY <1>1, <1>13, <1>18, FullIs
  <2>2. IsFull(m, s, l)
    BY <1>1, <1>15, <1>16, <2>1, ProductOfFull DEF Mul
  <2> HIDE DEF s, l
  <2>3. ~IsStuck(Mirrored(p, p.x, s)) /\ Long(Mirrored(p, p.x, s))
    BY <1>1, <1>4, <2>2, MirroredExact
  <2>4. IsStuck(StuckPoint)
    BY DEF IsStuck, StuckPoint
  <2>. QED  BY <1>3, <1>5, <1>18, <2>3, <2>4
<1>. QED  BY <1>17, <1>18

\* A flag leaves a number's limbs as many as they are.
LEMMA ByBoolShort ==
    ASSUME NEW m \in {BaseOrder, ScalarOrder}, NEW a, NEW v, IsShort(m, a, v), NEW b
    PROVE  IsShort(m, MulBiguintByBool(a, b), IF b THEN v ELSE 0)
<1>1. v \in 0 .. m - 1 /\ m \in Nat /\ m > 1 /\ a # Stuck /\ Len(a) \in Nat /\ IsNumber(a, v)
      /\ Len(a) <= NumNonnativeLimbs(m)
  BY ShortIs DEF IsShort
<1>2. IsNumber(MulBiguintByBool(a, b), IF b THEN v ELSE 0)
  BY <1>1, ByBoolIs
<1>3. MulBiguintByBool(a, b) = [i \in 1 .. Len(a) |-> IF b THEN a[i] ELSE 0]
  BY <1>1 DEF MulBiguintByBool
<1>4. Len(MulBiguintByBool(a, b)) = Len(a)
  BY <1>1, <1>3
<1>. QED  BY <1>1, <1>2, <1>4 DEF IsShort

\* A choice between two tidy points is never stuck.
LEMMA SelectedExact ==
    ASSUME NEW sum, NEW p, NEW S, NEW P, IsPoint(sum, S), IsPoint(p, P), Tidy(sum), Tidy(p),
           NEW b
    PROVE  ~IsStuck(Selected(sum, p, b)) /\ Long(Selected(sum, p, b))
<1> DEFINE m == BaseOrder
           x == Plus(MulBiguintByBool(sum.x, b), MulBiguintByBool(p.x, ~b))
           y == Plus(MulBiguintByBool(sum.y, b), MulBiguintByBool(p.y, ~b))
<1>1. /\ m \in Nat /\ m > 0 /\ m \in {BaseOrder, ScalarOrder}
      /\ IsShort(m, sum.x, S.x) /\ IsShort(m, sum.y, S.y)
      /\ IsShort(m, p.x, P.x) /\ IsShort(m, p.y, P.y)
  BY TidyIs
<1>2. Selected(sum, p, b) = IF Stuck \in {x, y} THEN StuckPoint ELSE [x |-> x, y |-> y]
  BY DEF Selected
<1>3. ASSUME NEW a, NEW c, NEW v, NEW w, IsShort(m, a, v), IsShort(m, c, w)
      PROVE  LET r == Plus(MulBiguintByBool(a, b), MulBiguintByBool(c, ~b))
             IN  r # Stuck /\ Len(r) = NumNonnativeLimbs(m)
  <2> DEFINE ab == MulBiguintByBool(a, b)
             cb == MulBiguintByBool(c, ~b)
             u == IF b THEN v ELSE 0
             t == IF ~b THEN w ELSE 0
  <2>1. IsShort(m, ab, u)
    BY <1>1, <1>3, ByBoolShort
  <2>2. IsShort(m, cb, t)
    BY <1>1, <1>3, ByBoolShort
  <2>3. u + t # m
    BY <1>1, <1>3 DEF IsShort
  <2> HIDE DEF ab, cb, u, t
  <2>4. IsFull(m, Plus(ab, cb), (u + t) % m)
    BY <1>1, <2>1, <2>2, <2>3, PlusIs DEF Plus
  <2>5. Plus(ab, cb) # Stuck /\ Len(Plus(ab, cb)) = NumNonnativeLimbs(m)
    BY <1>1, <2>4, FullStays
  <2>. QED  BY <2>5 DEF ab, cb
<1>4. x # Stuck /\ Len(x) = NumNonnativeLimbs(m)
  BY <1>1, <1>3
<1>5. y # Stuck /\ Len(y) = NumNonnativeLimbs(m)
  BY <1>1, <1>3
<1> HIDE DEF x, y
<1>. QED  BY <1>2, <1>4, <1>5 DEF IsStuck, Long

\* A point read from a table has all its limbs.
LEMMA RandomAccessLong ==
    ASSUME NEW index, NEW points
    PROVE  Long(RandomAccessCurvePoints(index, points))
<1> DEFINE n == NumNonnativeLimbs(BaseOrder)
<1>1. n \in Nat
  BY ModulusIs, LimbsOfModulus
<1> HIDE DEF n
<1>2. \A f : Len([i \in 1 .. n |-> f[i]]) = n
  BY <1>1
<1>3. ASSUME NEW a PROVE Len([i \in 1 .. n |-> Limb(a, i)]) = n
  BY <1>1
<1>4. Long([x |-> [i \in 1 .. n |-> Limb(points[index + 1].x, i)],
            y |-> [i \in 1 .. n |-> Limb(points[index + 1].y, i)]])
  BY <1>3 DEF Long, n
<1>. QED  BY <1>4 DEF RandomAccessCurvePoints, n

\* A constant is tidy, a virtual point has all its limbs, and so a negative.
LEMMA PointsAreTidy ==
    /\ \A P \in Affine : /\ Tidy(ConstantAffinePoint(P))
                         /\ Long(VirtualAffinePoint(P))
                         /\ Power(NumNonnativeLimbs(BaseOrder) - 1) <= P.x
                              => Len(ConstantAffinePoint(P).x) = NumNonnativeLimbs(BaseOrder)
    /\ \A p, P : IsPoint(p, P) /\ Tidy(p) => Tidy(CurveNeg(p)) /\ ~IsStuck(CurveNeg(p))
<1> DEFINE m == BaseOrder
           n == NumNonnativeLimbs(BaseOrder)
<1>1. m \in Nat /\ m > 1 /\ m \in {BaseOrder, ScalarOrder}
  BY ModulusIs
<1>2. ASSUME NEW P \in Affine
      PROVE  /\ Tidy(ConstantAffinePoint(P)) /\ Long(VirtualAffinePoint(P))
             /\ Power(n - 1) <= P.x => Len(ConstantAffinePoint(P).x) = n
  <2>1. P.x \in 0 .. m - 1 /\ P.y \in 0 .. m - 1
    BY DEF Affine
  <2>2. /\ IsShort(m, ConstantBiguint(P.x), P.x) /\ IsShort(m, ConstantBiguint(P.y), P.y)
        /\ Power(n - 1) <= P.x => IsFull(m, ConstantBiguint(P.x), P.x)
    BY <1>1, <2>1, ConstantShort
  <2>3. Tidy(ConstantAffinePoint(P)) /\ (Power(n - 1) <= P.x => Len(ConstantAffinePoint(P).x) = n)
    BY <2>2 DEF Tidy, ConstantAffinePoint, IsShort, IsFull
  <2>4. \A v \in 0 .. m - 1 : Len(SetBiguint(n, v)) = n
    <3> TAKE v \in 0 .. m - 1
    <3>1. v \in Nat /\ v <= m
      BY <1>1
    <3>. QED  BY <1>1, <3>1, LimbsEnough
  <2>5. Long(VirtualAffinePoint(P))
    BY <2>1, <2>4 DEF Long, VirtualAffinePoint
  <2>. QED  BY <2>3, <2>5
<1>3. ASSUME NEW p, NEW P, IsPoint(p, P), Tidy(p)
      PROVE  Tidy(CurveNeg(p)) /\ ~IsStuck(CurveNeg(p))
  <2>1. /\ IsShort(m, p.x, P.x) /\ IsShort(m, p.y, P.y)
    BY <1>3, TidyIs
  <2>2. IsShort(m, ConstantBiguint(0), 0)
    BY <1>1, ConstantShort
  <2>3. IsFull(m, NegNonnative(m, p.y), (0 - P.y) % m)
    BY <1>1, <2>1, <2>2, MinusIs DEF NegNonnative
  <2>4. NegNonnative(m, p.y) # Stuck /\ Len(NegNonnative(m, p.y)) = n /\ n \in Nat
    BY <1>1, <2>3, FullStays, LimbsOfModulus
  <2>5. p.x # Stuck /\ Len(p.x) <= n
    BY <1>1, <2>1, ShortIs DEF IsShort
  <2>. QED  BY <2>4, <2>5 DEF CurveNeg, Tidy, IsStuck
<1>. QED  BY <1>2, <1>3

\* curve_conditional_add is stuck with its sum, wanted or not.
LEMMA ConditionalExact ==
    ASSUME NEW p, NEW j, IsMultiple(p, j), Tidy(p), NEW q, NEW k, IsMultiple(q, k), Tidy(q), NEW b
    PROVE  /\ IsStuck(CurveConditionalAdd(p, q, b)) <=> SumFails(Times(j), Times(k))
           /\ ~SumFails(Times(j), Times(k)) => Long(CurveConditionalAdd(p, q, b))
<1> DEFINE sum == CurveAdd(p, q)
<1>1. CurveConditionalAdd(p, q, b) = Selected(sum, p, b)
  BY DEF CurveConditionalAdd
<1>2. IsPoint(p, Times(j)) /\ IsPoint(q, Times(k))
  BY DEF IsMultiple
<1>3. /\ IsStuck(sum) <=> SumFails(Times(j), Times(k))
      /\ ~SumFails(Times(j), Times(k)) => sum # StuckPoint /\ Long(sum)
  BY <1>2, SumExact
<1>4. CASE SumFails(Times(j), Times(k))
  <2>1. sum = StuckPoint
    <3>1. ASSUME sum # StuckPoint PROVE FALSE
      <4>1. IsPoint(sum, AddAffine(Times(j), Times(k)))
        BY <1>2, <3>1, SumIs
      <4>. QED  BY <1>3, <1>4, <4>1, TidyIs
    <3>. QED  BY <3>1
  <2>2. Selected(sum, p, b) = StuckPoint
    BY <2>1, SelectedStuck
  <2>. QED  BY <1>1, <1>4, <2>2 DEF IsStuck, StuckPoint
<1>5. CASE ~SumFails(Times(j), Times(k))
  <2>1. IsPoint(sum, AddAffine(Times(j), Times(k)))
    BY <1>2, <1>3, <1>5, SumIs
  <2>2. Tidy(sum)
    BY <1>3, <1>5, <2>1, TidyIs
  <2>3. ~IsStuck(Selected(sum, p, b)) /\ Long(Selected(sum, p, b))
    BY <1>2, <2>1, <2>2, SelectedExact
  <2>. QED  BY <1>1, <1>5, <2>3
<1>. QED  BY <1>4, <1>5

\* No multiple of the generator has y = 0: the group's order is odd.
LEMMA NoVerticalTangent ==
    ASSUME NEW k \in Nat, k % ScalarOrder # 0
    PROVE  Times(k).y # 0
<1> DEFINE P == Times(k)
           m == BaseOrder
<1>1. P \in Affine /\ AddAffine(P, P) = Times(k + k)
  BY TimesIs
<1>2. (k + k) % ScalarOrder # 0
  <2>1. 2 % ScalarOrder # 0
    <3>1. (2 ^ 1) % ScalarOrder # 0
      BY PowersNonzero
    <3>2. 2 ^ 0 = 1 /\ 2 ^ (0 + 1) = 2 * 2 ^ 0 /\ 0 + 1 = 1
      BY Doubling
    <3>. QED  BY <3>1, <3>2
  <2>2. (2 * k) % ScalarOrder # 0
    BY <2>1, ProductNonzero
  <2>. QED  BY <2>2
<1>3. Times(k + k) \in Affine
  BY <1>2, TimesIs
<1> HIDE DEF P
<1> SUFFICES ASSUME P.y = 0 PROVE FALSE
  BY DEF P
<1>4. P.zero = FALSE /\ P.x \in 0 .. m - 1 /\ P = [x |-> P.x, y |-> P.y, zero |-> FALSE]
  BY <1>1 DEF Affine
<1>5. NegAffine(P) = P
  <2>1. (m - P.y) % m = 0
    <3>1. m \in Nat /\ m > 0 /\ m - P.y = 1 * m + 0 /\ 0 \in 0 .. m - 1 /\ m - P.y \in Int
      BY ModulusIs
    <3>. QED  BY <3>1, RemainderUnique
  <2>2. NegAffine(P) = [x |-> P.x, y |-> (m - P.y) % m, zero |-> FALSE]
    BY <1>1, NegAffineIs
  <2>. QED  BY <1>4, <2>1, <2>2
<1>6. AddAffine(P, P) = Zero
  BY <1>4, <1>5 DEF AddAffine
<1>7. Zero.zero = TRUE
  BY DEF Zero
<1>. QED  BY <1>1, <1>3, <1>6, <1>7 DEF Affine

\* The key is found valid on the curve, where CurveA times x and CurveB do not add up to the modulus.
LEMMA ValidExact ==
    ASSUME NEW p, NEW P, IsPoint(p, P), Long(p), OnCurve(P) => P.y # 0
    PROVE  CurveAssertValid(p) <=> OnCurve(P) /\ ((CurveA * P.x) % BaseOrder) + CurveB # BaseOrder
<1> DEFINE m == BaseOrder
           A == ConstantBiguint(CurveA)
           B == ConstantBiguint(CurveB)
           xx == Mul(p.x, p.x)
           xc == Mul(xx, p.x)
           ax == Mul(A, p.x)
           axb == Plus(ax, B)
           yy == Mul(p.y, p.y)
           rhs == Plus(xc, axb)
           XX == (P.x * P.x) % m
           XC == (XX * P.x) % m
           AX == (CurveA * P.x) % m
           AXB == (AX + CurveB) % m
           YY == (P.y * P.y) % m
<1>1. /\ m \in Nat /\ m \in {BaseOrder, ScalarOrder} /\ m > 0
      /\ IsFull(m, p.x, P.x) /\ IsFull(m, p.y, P.y) /\ IsShort(m, p.x, P.x) /\ IsShort(m, p.y, P.y)
      /\ P.x \in Nat /\ P.y \in Nat /\ P.x < m /\ P.y < m
      /\ CurveA \in 0 .. m - 1 /\ CurveB \in 0 .. m - 1 /\ CurveA \in Nat /\ CurveB \in Nat
  <2>1. /\ m \in Nat /\ m \in {BaseOrder, ScalarOrder} /\ m > 0
        /\ IsFull(m, p.x, P.x) /\ IsFull(m, p.y, P.y) /\ IsShort(m, p.x, P.x) /\ IsShort(m, p.y, P.y)
        /\ P.x \in Nat /\ P.y \in Nat /\ P.x < m /\ P.y < m
    BY TidyIs
  <2>2. CurveA \in 0 .. m - 1 /\ CurveB \in 0 .. m - 1
    BY CurveAssumption
  <2>. QED  BY <2>1, <2>2
<1>2. CurveAssertValid(p) <=> Stuck \notin {yy, rhs} /\ ConnectBiguint(yy, rhs)
  BY DEF CurveAssertValid
<1>3. IsShort(m, A, CurveA) /\ IsShort(m, B, CurveB)
  BY <1>1, ConstantShort
<1>4. IsFull(m, xx, XX)
  BY <1>1, ProductOfFull DEF Mul
<1>5. IsFull(m, yy, YY)
  BY <1>1, ProductOfFull DEF Mul
<1> HIDE DEF A, B
<1>6. IsFull(m, ax, AX)
  BY <1>1, <1>3, ProductOfFull DEF Mul
<1>20. /\ XX \in Nat /\ YY \in Nat /\ AX \in Nat /\ YY \in 0 .. m - 1
       /\ Congruent(XX, P.x * P.x, m) /\ Congruent(AX, CurveA * P.x, m)
  <2>1. P.x * P.x \in Nat /\ P.y * P.y \in Nat /\ CurveA * P.x \in Nat
    BY <1>1
  <2>2. \A u \in Nat : u % m \in 0 .. m - 1 /\ Congruent(u % m, u, m)
    BY <1>1, ReducedNumber
  <2>3. \A u \in 0 .. m - 1 : u \in Nat
    BY <1>1
  <2>. QED  BY <2>1, <2>2, <2>3, Zenon
<1>21. YY = 0 => P.y = 0
  <2> SUFFICES ASSUME P.y # 0 PROVE YY # 0
    OBVIOUS
  <2>1. P.y % m # 0
    BY <1>1, ReducedNumber
  <2>. QED  BY <1>1, <2>1, ProductOfResidues
<1> HIDE DEF xx, ax, yy, YY
<1>7. IsShort(m, xx, XX) /\ IsShort(m, ax, AX)
  BY <1>1, <1>4, <1>6, FullIs
<1>8. IsFull(m, xc, XC)
  <2> HIDE DEF XX
  <2>. QED  BY <1>1, <1>7, ProductOfFull DEF Mul
<1>22. XC \in Nat /\ Congruent(XC, XX * P.x, m)
  <2> DEFINE u == XX * P.x
  <2>1. u \in Nat
    BY <1>1, <1>20
  <2>2. \A d \in Nat : d % m \in 0 .. m - 1 /\ Congruent(d % m, d, m)
    BY <1>1, ReducedNumber
  <2>3. \A d \in 0 .. m - 1 : d \in Nat
    BY <1>1
  <2>. QED  BY <2>1, <2>2, <2>3, Zenon
<1> HIDE DEF xc, XC
<1>9. IsShort(m, xc, XC)
  BY <1>1, <1>8, FullIs
<1>10. /\ AX + CurveB = m => IsModulus(m, axb)
       /\ AX + CurveB # m => IsFull(m, axb, AXB)
  <2> HIDE DEF AX
  <2>. QED  BY <1>1, <1>3, <1>7, PlusIs DEF Plus
<1> HIDE DEF axb
<1>11. CASE AX + CurveB = m
  <2>1. rhs = Stuck
    BY <1>1, <1>9, <1>10, <1>11, PlusModulus DEF Plus
  <2> HIDE DEF rhs
  <2>. QED  BY <1>2, <1>11, <2>1
<1>12. CASE AX + CurveB # m
  <2> DEFINE R == (XC + AXB) % m
  <2>1. IsShort(m, axb, AXB)
    BY <1>1, <1>10, <1>12, FullIs
  <2>2. /\ XC + AXB = m => IsModulus(m, rhs)
        /\ XC + AXB # m => IsFull(m, rhs, R)
    <3> HIDE DEF AXB
    <3>. QED  BY <1>1, <1>9, <2>1, PlusIs DEF Plus
  <2> DEFINE C == XX * P.x + CurveA * P.x + CurveB
  <2>3. R = C % m
    <3> DEFINE d == XX * P.x
               e == CurveA * P.x
    <3>1. /\ d \in Int /\ e \in Int /\ e + CurveB \in Int /\ d + (e + CurveB) \in Int
          /\ AX + CurveB \in Int /\ AX \in Int /\ CurveB \in Int /\ XC \in Int /\ AX + CurveB \in Nat
      BY <1>1, <1>20, <1>22
    <3>2. Congruent(AXB, AX + CurveB, m) /\ AXB \in 0 .. m - 1
      <4> DEFINE u == AX + CurveB
      <4> HIDE DEF u
      <4>1. u \in Nat
        BY <3>1 DEF u
      <4>2. Congruent(u % m, u, m) /\ u % m \in 0 .. m - 1
        BY <1>1, <4>1, ReducedNumber
      <4>. QED  BY <4>2 DEF u
    <3>3. AXB \in Int /\ XC + AXB \in Int
      BY <1>22, <3>2
    <3> HIDE DEF AXB
    <3>4. Congruent(CurveB, CurveB, m)
      BY <1>1, <3>1, ReducedIs
    <3>5. Congruent(AX, e, m) /\ Congruent(XC, d, m)
      BY <1>20, <1>22
    <3> HIDE DEF AX, d, e
    <3>6. Congruent(AX + CurveB, e + CurveB, m)
      BY <1>1, <3>1, <3>4, <3>5, CongruentResults
    <3>7. Congruent(AXB, e + CurveB, m)
      BY <1>1, <3>1, <3>2, <3>3, <3>6, CongruentOrder
    <3>8. Congruent(XC + AXB, d + (e + CurveB), m)
      BY <1>1, <3>1, <3>3, <3>5, <3>7, CongruentResults
    <3>9. (XC + AXB) % m = (d + (e + CurveB)) % m
      BY <1>1, <3>1, <3>3, <3>8, SameRemainder
    <3>10. d + (e + CurveB) = C
      <4>1. d + (e + CurveB) = d + e + CurveB
        BY <3>1
      <4>. QED  BY <4>1 DEF d, e
    <3>. QED  BY <3>9, <3>10
  <2>4. OnCurve(P) <=> YY = R
    BY <2>3 DEF OnCurve, YY
  <2>5. IsNumber(yy, YY) /\ yy # Stuck
    BY <1>1, <1>5, FullStays DEF IsFull
  <2>6. CASE XC + AXB = m
    <3>1. IsNumber(rhs, m)
      BY <2>2, <2>6 DEF IsModulus
    <3>2. YY # m
      BY <1>1, <1>20
    <3> HIDE DEF rhs
    <3>3. ~CurveAssertValid(p)
      BY <1>2, <2>5, <3>1, <3>2, ConnectIs
    <3>4. R = 0
      <4>1. m % m = 0
        <5>1. m = 1 * m + 0 /\ 0 \in 0 .. m - 1 /\ m \in Int
          BY <1>1
        <5>. QED  BY <1>1, <5>1, RemainderUnique
      <4>. QED  BY <2>6, <4>1
    <3> HIDE DEF R
    <3>5. ~OnCurve(P)
      BY <1>21, <2>4, <3>4
    <3>. QED  BY <3>3, <3>5
  <2>7. CASE XC + AXB # m
    <3>1. IsNumber(rhs, R) /\ rhs # Stuck
      BY <1>1, <2>2, <2>7, FullStays DEF IsFull
    <3> HIDE DEF rhs, R
    <3>2. CurveAssertValid(p) <=> YY = R
      BY <1>2, <2>5, <3>1, ConnectIs
    <3>. QED  BY <1>12, <2>4, <3>2
  <2>. QED  BY <2>6, <2>7
<1>. QED  BY <1>11, <1>12

-----------------------------------------------------------------------------
(* Where the witness generation is stuck.                                  *)

\* All limbs are no more than all limbs.
LEMMA LongIsTidy ==
    /\ NumNonnativeLimbs(BaseOrder) \in Nat
    /\ \A p : Long(p) => Tidy(p) /\ Len(p.x) = NumNonnativeLimbs(BaseOrder)
<1>1. NumNonnativeLimbs(BaseOrder) \in Nat
  BY ModulusIs, LimbsOfModulus
<1>. QED  BY <1>1 DEF Long, Tidy

\* curve_add on multiples of the generator.
LEMMA SumOfMultiplesExact ==
    ASSUME NEW p, NEW j, IsMultiple(p, j), Tidy(p), NEW q, NEW k, IsMultiple(q, k), Tidy(q)
    PROVE  /\ IsStuck(CurveAdd(p, q)) <=> SumFails(Times(j), Times(k))
           /\ ~IsStuck(CurveAdd(p, q)) => Tidy(CurveAdd(p, q))
<1>1. IsPoint(p, Times(j)) /\ IsPoint(q, Times(k))
  BY DEF IsMultiple
<1>2. /\ IsStuck(CurveAdd(p, q)) <=> SumFails(Times(j), Times(k))
      /\ ~SumFails(Times(j), Times(k)) => CurveAdd(p, q) # StuckPoint /\ Long(CurveAdd(p, q))
  BY <1>1, SumExact
<1>. QED  BY <1>2, LongIsTidy

\* Doublings, as many as a window has bits, are stuck with the first that fails.
LEMMA DoubledExact ==
    ASSUME NEW p, NEW k, IsMultiple(p, k), Tidy(p), Len(p.x) = NumNonnativeLimbs(BaseOrder)
    PROVE  \/ /\ \E j \in 0 .. WindowBits - 1 : DoubleFails(Times(k * 2 ^ j))
              /\ Doubled(p) = StuckPoint
           \/ /\ ~ \E j \in 0 .. WindowBits - 1 : DoubleFails(Times(k * 2 ^ j))
              /\ IsMultiple(Doubled(p), k * WindowSize) /\ Tidy(Doubled(p))
<1> DEFINE n == WindowBits
           f == CHOOSE f : IsChain(f, p, n)
           Fails(j) == DoubleFails(Times(k * 2 ^ j))
           l == NumNonnativeLimbs(BaseOrder)
           Good(q, j) == IsMultiple(q, k * 2 ^ j) /\ Tidy(q) /\ Len(q.x) = l
<1>1. n \in Nat /\ k \in Nat
  BY Weights DEF IsMultiple
<1>2. Doubled(p) = f[n]
  BY DEF Doubled, IsChain
<1>3. IsChain(f, p, n)
  BY <1>1, ChainExists
<1> HIDE DEF f
<1>4. \A j \in 0 .. n : f[j] = IF j = 0 THEN p ELSE CurveDouble(f[j - 1])
  <2> TAKE j \in 0 .. n
  <2> DEFINE h == [i \in 0 .. n |-> IF i = 0 THEN p ELSE CurveDouble(f[i - 1])]
  <2>1. f = h
    BY <1>3 DEF IsChain
  <2>2. h[j] = IF j = 0 THEN p ELSE CurveDouble(f[j - 1])
    OBVIOUS
  <2> HIDE DEF h
  <2>. QED  BY <2>1, <2>2
<1>5. ASSUME NEW q, NEW i \in Nat, Good(q, i)
      PROVE  /\ Fails(i) => CurveDouble(q) = StuckPoint
             /\ ~Fails(i) => Good(CurveDouble(q), i + 1)
  <2> DEFINE a == 2 ^ i
             b == k * a
  <2>1. a \in Nat /\ 2 ^ (i + 1) = 2 * a
    BY Doubling
  <2>2. IsMultiple(q, b) /\ Tidy(q) /\ Len(q.x) = l
    BY <1>5
  <2>3. Fails(i) <=> DoubleFails(Times(b))
    OBVIOUS
  <2>4. k * 2 ^ (i + 1) = 2 * b
    <3> HIDE DEF a
    <3>. QED  BY <1>1, <2>1
  <2> HIDE DEF b, Fails, l
  <2>5. b \in Nat /\ b % ScalarOrder # 0 /\ IsPoint(q, Times(b))
    BY <2>2, MultipleIs DEF IsMultiple
  <2>6. Times(b).y # 0
    BY <2>5, NoVerticalTangent
  <2>7. /\ DoubleFails(Times(b)) => CurveDouble(q) = StuckPoint
        /\ ~DoubleFails(Times(b)) => CurveDouble(q) # StuckPoint /\ Long(CurveDouble(q))
    BY <2>2, <2>5, <2>6, DoubleExact DEF l
  <2>8. CurveDouble(q) = StuckPoint \/ IsMultiple(CurveDouble(q), 2 * b)
    BY <2>2, DoubleOfMultiple
  <2>. QED  BY <2>3, <2>4, <2>7, <2>8, LongIsTidy DEF l
<1> DEFINE T == {j \in Nat : \/ (\E i \in 0 .. j - 1 : Fails(i)) /\ f[j] = StuckPoint
                             \/ ~(\E i \in 0 .. j - 1 : Fails(i)) /\ Good(f[j], j)}
<1>6. 0 \in T
  <2>1. 2 ^ 0 = 1 /\ k * 1 = k /\ 0 \in 0 .. n /\ 0 .. 0 - 1 = {}
    BY <1>1
  <2>2. f[0] = p
    BY <1>4, <2>1
  <2>3. Good(f[0], 0)
    BY <2>1, <2>2
  <2> HIDE DEF Good, Fails
  <2>. QED  BY <2>1, <2>3
<1>7. ASSUME NEW j \in 1 .. n, j - 1 \in T PROVE j \in T
  <2> DEFINE i == j - 1
             q == f[i]
  <2>1. /\ i \in Nat /\ j = i + 1 /\ j \in Nat /\ j # 0 /\ j \in 0 .. n /\ i \in 0 .. j - 1
        /\ \A h \in 0 .. j - 1 : h = i \/ h \in 0 .. i - 1
        /\ \A h \in 0 .. i - 1 : h \in 0 .. j - 1
    BY <1>1
  <2> HIDE DEF Good, Fails
  <2>2. \/ (\E h \in 0 .. i - 1 : Fails(h)) /\ q = StuckPoint
        \/ ~(\E h \in 0 .. i - 1 : Fails(h)) /\ Good(q, i)
    BY <1>7
  <2>3. f[j] = CurveDouble(q)
    BY <1>4, <2>1
  <2> HIDE DEF i, q
  <2>4. CASE q = StuckPoint /\ \E h \in 0 .. i - 1 : Fails(h)
    <3>1. IsStuck(StuckPoint)
      BY DEF IsStuck, StuckPoint
    <3>2. f[j] = StuckPoint
      BY <2>3, <2>4, <3>1, StuckSum
    <3>3. \E h \in 0 .. j - 1 : Fails(h)
      BY <2>1, <2>4
    <3>. QED  BY <2>1, <3>2, <3>3
  <2>5. CASE Good(q, i) /\ ~ \E h \in 0 .. i - 1 : Fails(h)
    <3>1. /\ Fails(i) => f[j] = StuckPoint
          /\ ~Fails(i) => Good(f[j], j)
      BY <1>5, <2>1, <2>3, <2>5
    <3>2. (\E h \in 0 .. j - 1 : Fails(h)) <=> Fails(i)
      BY <2>1, <2>5
    <3>. QED  BY <2>1, <3>1, <3>2
  <2>. QED  BY <2>2, <2>4, <2>5
<1>8. n \in T
  <2> HIDE DEF T
  <2>1. \A j \in 0 .. n : j \in T
    BY <1>1, <1>6, <1>7, Counting
  <2>. QED  BY <1>1, <2>1
<1>. QED  BY <1>2, <1>8 DEF WindowSize

\* The limbs of the points the loops hold.
ShapeInv ==
    /\ stage \in Scaled => Tidy(fixed)
    /\ stage \in Tabled => \A t \in 1 .. Len(table) : Tidy(table[t])
    /\ stage \in Windowing => Tidy(windowed)
    /\ stage = "windowed" => Len(windowed.x) = NumNonnativeLimbs(BaseOrder)

\* A step is stuck where Exceptional says, and leaves points in their limbs elsewhere.
Exact == (stage' = "stuck" <=> Exceptional) /\ ShapeInv'

\* Nothing is held once stuck.
LEMMA StuckShape ==
    ASSUME stage' \notin Scaled
    PROVE  ShapeInv'
BY DEF ShapeInv, Scaled, Tabled, Windowing

\* The digest's wiring fails for a digest from the order on.
LEMMA WireExact ==
    ASSUME IInv, WireDigest
    PROVE  Exact
<1> DEFINE n == ScalarOrder
           h == inst.digest
           r == h % n
<1>1. stage = "wire" /\ inst \in Instances
  BY DEF WireDigest, IInv, InstInv
<1>2. h \in Nat /\ h < Power(NumLimbs) /\ ByteArrayToScalar(h) = r
  BY <1>1, InstanceIs DEF ByteArrayToScalar
<1>3. stage' = IF LimbsOf(NumLimbs, h) = Scalar(r) THEN "key" ELSE "stuck"
  BY <1>2 DEF WireDigest
<1>4. Exceptional <=> h >= n
  BY <1>1 DEF Exceptional
<1> HIDE DEF h
<1>5. r \in 0 .. n - 1 /\ (h < n => r = h)
  BY <1>2, OrderIs, ReducedNumber
<1> HIDE DEF r
<1>6. Scalar(r) = LimbsOf(NumLimbs, r) /\ r < Power(NumLimbs) /\ r \in Nat /\ NumLimbs \in Nat
  BY <1>5, OrderIs, ScalarIs DEF IsScalar
<1>7. LimbsOf(NumLimbs, h) = Scalar(r) => h = r
  BY <1>2, <1>6, ValueOfLimbs
<1>8. LimbsOf(NumLimbs, h) = Scalar(r) <=> h < n
  <2>1. h = r => h < n
    BY <1>5, OrderIs
  <2>. QED  BY <1>5, <1>6, <1>7, <2>1
<1>9. h >= n <=> ~(h < n)
  BY <1>2, OrderIs
<1>10. stage' \notin Scaled
  BY <1>3 DEF Scaled
<1>. QED  BY <1>3, <1>4, <1>8, <1>9, <1>10, StuckShape DEF Exact

\* The key's check fails off the curve, and on it where a sum is the modulus.
LEMMA KeyExact ==
    ASSUME IInv, AssertKeyValid
    PROVE  Exact
<1> DEFINE P == inst.pk
<1>1. stage = "key" /\ inst \in Instances /\ (P = Times(inst.sk) \/ ~OnCurve(P))
      /\ stage' = IF CurveAssertValid(Key) THEN "scalars" ELSE "stuck"
  BY DEF AssertKeyValid, IInv, InstInv
<1>2. P \in Affine /\ inst.sk \in 1 .. ScalarOrder - 1
  BY <1>1, InstanceIs
<1>3. IsPoint(Key, P) /\ Long(Key)
  BY <1>2, VirtualPointIs, PointsAreTidy DEF Key
<1>4. OnCurve(P) => P.y # 0
  <2>1. inst.sk \in Nat /\ inst.sk % ScalarOrder # 0
    BY <1>2, BelowOrder
  <2>. QED  BY <1>1, <2>1, NoVerticalTangent
<1>5. Exceptional <=> ~OnCurve(P) \/ ((CurveA * P.x) % BaseOrder) + CurveB = BaseOrder
  BY <1>1 DEF Exceptional
<1> HIDE DEF P
<1>6. CurveAssertValid(Key) <=> OnCurve(P) /\ ((CurveA * P.x) % BaseOrder) + CurveB # BaseOrder
  BY <1>3, <1>4, ValidExact
<1>7. stage' \notin Scaled
  BY <1>1 DEF Scaled
<1>8. stage' = "stuck" <=> ~CurveAssertValid(Key)
  BY <1>1
<1>. QED  BY <1>5, <1>6, <1>7, <1>8, StuckShape DEF Exact

\* The scalars fail for the s that has no inverse.
LEMMA ScalarsExact ==
    ASSUME IInv, ComputeScalars
    PROVE  Exact
<1> DEFINE n == ScalarOrder
           msg == ByteArrayToScalar(inst.digest)
           s == inst.s
           c == InvNonnative(n, Scalar(s))
<1>1. /\ stage = "scalars" /\ inst \in Instances
      /\ u1' = MulNonnative(n, Scalar(msg), c) /\ u2' = MulNonnative(n, Scalar(inst.r), c)
      /\ stage' = IF Stuck \in {u1', u2'} THEN "stuck" ELSE "fixed"
      /\ fixed' = ConstantAffinePoint(Times(FixedStart))
  BY DEF ComputeScalars, IInv, InstInv
<1>2. msg \in 0 .. n - 1 /\ inst.r \in 0 .. n - 1 /\ s \in 0 .. n - 1
  BY <1>1, InstanceIs
<1>3. Exceptional <=> s = 0
  BY <1>1 DEF Exceptional
<1>4. \A v \in 0 .. n - 1 : IsFull(n, Scalar(v), v) /\ IsShort(n, Scalar(v), v)
  <2> TAKE v \in 0 .. n - 1
  <2>1. IsScalar(Scalar(v), v)
    BY ScalarIs
  <2>2. IsNumber(Scalar(v), v) /\ Len(Scalar(v)) = NumLimbs
    BY <2>1, ScalarIs
  <2>3. IsFull(n, Scalar(v), v)
    BY <2>2 DEF IsFull, NumLimbs
  <2>. QED  BY <2>3, OrderIs, FullIs
<1> HIDE DEF msg, s
<1>5. /\ s = 0 => c = Stuck
      /\ s # 0 => IsFull(n, c, ModInverse(n, s))
  BY <1>2, <1>4, OrderIs, InverseOfFull
<1> HIDE DEF c
<1>6. ASSUME NEW v \in 0 .. n - 1
      PROVE  /\ s = 0 => MulNonnative(n, Scalar(v), c) = Stuck
             /\ s # 0 => MulNonnative(n, Scalar(v), c) # Stuck
  <2>1. s = 0 => MulNonnative(n, Scalar(v), c) = Stuck
    BY <1>5, StuckStays
  <2>2. ASSUME s # 0 PROVE MulNonnative(n, Scalar(v), c) # Stuck
    <3> DEFINE w == ModInverse(n, s)
               y == (v * w) % n
    <3>1. IsFull(n, c, w) /\ IsShort(n, c, w) /\ IsShort(n, Scalar(v), v)
      BY <1>4, <1>5, <2>2, OrderIs, FullIs
    <3> HIDE DEF w
    <3>2. IsFull(n, MulNonnative(n, Scalar(v), c), y)
      BY <3>1, OrderIs, ProductOfFull
    <3> HIDE DEF y
    <3>. QED  BY <3>2, OrderIs, FullIs
  <2>. QED  BY <2>1, <2>2
<1>7. stage' = "stuck" <=> s = 0
  <2>1. /\ s = 0 => u1' = Stuck
        /\ s # 0 => u1' # Stuck /\ u2' # Stuck
    BY <1>1, <1>2, <1>6
  <2>. QED  BY <1>1, <2>1
<1>8. ShapeInv'
  <2>1. Tidy(fixed')
    <3>1. FixedStart \in 1 .. n - 1
      BY InstanceAssumption
    <3>2. Times(FixedStart) \in Affine
      BY <3>1, BelowOrder
    <3>. QED  BY <1>1, <3>2, PointsAreTidy
  <2>2. stage' \notin Tabled /\ stage' \notin Windowing /\ stage' # "windowed"
    BY <1>1 DEF Tabled, Scaled, Windowing
  <2>. QED  BY <2>1, <2>2 DEF ShapeInv
<1>. QED  BY <1>3, <1>7, <1>8 DEF Exact

\* A window of the fixed-base product fails with its sum.
LEMMA FixedExact ==
    ASSUME IInv, ShapeInv, FixedWindow
    PROVE  Exact
<1> DEFINE d == Windows(u1)[step + 1]
           T == Weight(step)
           f == IF d = 0 THEN 1 ELSE d
           q == RandomAccessCurvePoints(d, FixedMultiples(step + 1))
           M == FixedMultiple
<1>1. /\ stage = "fixed" /\ step < NumWindows
      /\ fixed' = CurveConditionalAdd(fixed, q, d # 0)
      /\ stage' = IF IsStuck(fixed') THEN "stuck" ELSE "fixed"
  BY DEF FixedWindow
<1>2. IsMultiple(q, T * f) /\ f \in Nat /\ T \in Nat /\ step \in Nat /\ NumWindows \in Nat
  BY <1>1, FixedEntry
<1>3. IsMultiple(fixed, M) /\ Tidy(fixed)
  BY <1>1, ScalarFacts DEF ShapeInv, Scaled
<1>4. Tidy(q)
  BY RandomAccessLong, LongIsTidy
<1>5. Exceptional <=> SumFails(Times(M), Times(f * T))
  BY <1>1, <1>2 DEF Exceptional
<1> HIDE DEF q, M, T, f
<1>6. f * T = T * f
  BY <1>2
<1>7. /\ IsStuck(fixed') <=> SumFails(Times(M), Times(T * f))
      /\ ~SumFails(Times(M), Times(T * f)) => Long(fixed')
  BY <1>1, <1>2, <1>3, <1>4, ConditionalExact
<1>8. stage' = "stuck" <=> Exceptional
  BY <1>1, <1>5, <1>6, <1>7
<1>9. CASE stage' = "stuck"
  BY <1>8, <1>9, StuckShape DEF Exact, Scaled
<1>10. CASE stage' = "fixed"
  <2>1. Tidy(fixed')
    BY <1>1, <1>7, <1>10, LongIsTidy
  <2>. QED  BY <1>8, <1>10, <2>1 DEF Exact, ShapeInv, Tabled, Scaled, Windowing
<1>. QED  BY <1>1, <1>9, <1>10

\* What is held of a multiple below the order, and of its negative.
LEMMA ConstantsExact ==
    ASSUME NEW k \in 1 .. ScalarOrder - 1
    PROVE  LET p == ConstantAffinePoint(Times(k))
               q == ConstantAffinePoint(NegAffine(Times(k)))
               l == ScalarOrder - (k % ScalarOrder)
           IN  /\ IsMultiple(p, k) /\ Tidy(p) /\ IsMultiple(q, l) /\ Tidy(q)
               /\ Times(l).x = Times(k).x
<1>1. k \in Nat /\ k % ScalarOrder # 0 /\ Times(k) \in Affine
  BY BelowOrder
<1>2. /\ NegAffine(Times(k)) \in Affine /\ NegAffine(Times(k)).x = Times(k).x
      /\ NegAffine(Times(k)) = Times(ScalarOrder - (k % ScalarOrder))
  BY <1>1, NegAffineIs, NegTimes
<1>. QED  BY <1>1, <1>2, ConstantMultiple, PointsAreTidy

\* Its starting point is subtracted unless a coordinate meets.
LEMMA StartExact ==
    ASSUME IInv, ShapeInv, SubtractFixedStart
    PROVE  Exact
<1> DEFINE q == ConstantAffinePoint(NegAffine(Times(FixedStart)))
           l == ScalarOrder - (FixedStart % ScalarOrder)
           e == ConstantAffinePoint(Times(inst.blind))
           M == FixedMultiple
<1>1. /\ stage = "fixed" /\ step = NumWindows /\ NumWindows \in Nat
      /\ fixed' = CurveAdd(fixed, q) /\ table' = <<e>>
      /\ stage' = IF IsStuck(fixed') THEN "stuck" ELSE "table"
  BY Weights DEF SubtractFixedStart
<1>2. IsMultiple(fixed, M) /\ Tidy(fixed) /\ inst.blind \in 1 .. ScalarOrder - 1
  BY <1>1, ScalarFacts, InstanceIs DEF ShapeInv, Scaled
<1>3. FixedStart \in 1 .. ScalarOrder - 1
  BY InstanceAssumption
<1>4. IsMultiple(q, l) /\ Tidy(q) /\ Times(l).x = Times(FixedStart).x /\ Tidy(e)
  BY <1>2, <1>3, ConstantsExact
<1>5. Exceptional <=> SumFails(Times(M), Times(FixedStart))
  BY <1>1 DEF Exceptional
<1> HIDE DEF q, l, e, M
<1>6. SumFails(Times(M), Times(FixedStart)) <=> SumFails(Times(M), Times(l))
  BY <1>4 DEF SumFails
<1>7. /\ IsStuck(fixed') <=> SumFails(Times(M), Times(l))
      /\ ~IsStuck(fixed') => Tidy(fixed')
  BY <1>1, <1>2, <1>4, SumOfMultiplesExact
<1>8. stage' = "stuck" <=> Exceptional
  BY <1>1, <1>5, <1>6, <1>7
<1>9. CASE stage' = "stuck"
  BY <1>8, <1>9, StuckShape DEF Exact, Scaled
<1>10. CASE stage' = "table"
  <2>1. Tidy(fixed')
    BY <1>1, <1>7, <1>10
  <2>2. Len(table') = 1 /\ table'[1] = e
    BY <1>1
  <2>3. \A t \in 1 .. Len(table') : Tidy(table'[t])
    BY <1>4, <2>2
  <2>. QED  BY <1>8, <1>10, <2>1, <2>3 DEF Exact, ShapeInv, Windowing
<1>. QED  BY <1>1, <1>9, <1>10

\* An entry of the table fails with its sum.
LEMMA ExtendExact ==
    ASSUME IInv, ShapeInv, ExtendTable
    PROVE  Exact
<1> DEFINE l == table[step]
           e == CurveAdd(Key, l)
           M == TableMultiple(step)
<1>1. /\ stage = "table" /\ step < WindowSize /\ WindowSize \in Nat
      /\ table' = Append(table, CurveAdd(Key, Last(table))) /\ fixed' = fixed
      /\ stage' = IF IsStuck(Last(table')) THEN "stuck" ELSE "table"
  BY Weights DEF ExtendTable
<1>2. /\ step = Len(table) /\ step \in 1 .. Len(table) /\ step \in Nat /\ IsSequence(table)
      /\ IsMultiple(l, M) /\ Last(table) = l
  <2>1. /\ step = Len(table) /\ step \in 1 .. WindowSize /\ IsSequence(table)
        /\ \A t \in 1 .. Len(table) : IsMultiple(table[t], TableMultiple(t))
    BY <1>1 DEF IInv, TableInv, Tabled, Scaled
  <2>2. step \in 1 .. Len(table) /\ step \in Nat
    BY <1>1, <2>1
  <2>. QED  BY <2>1, <2>2 DEF Last
<1>3. Tidy(fixed) /\ \A t \in 1 .. Len(table) : Tidy(table[t])
  BY <1>1 DEF ShapeInv, Scaled, Tabled
<1>4. IsMultiple(Key, inst.sk) /\ Tidy(Key) /\ inst.pk = Times(inst.sk)
  <2>1. inst \in Instances /\ inst.pk = Times(inst.sk) /\ IsMultiple(Key, inst.sk)
    BY <1>1, ScalarFacts, KeyIs DEF Scaled
  <2>2. inst.pk \in Affine
    BY <2>1, InstanceIs
  <2>3. Long(Key)
    BY <2>2, PointsAreTidy DEF Key
  <2>. QED  BY <2>1, <2>3, LongIsTidy
<1>5. Exceptional <=> SumFails(Times(inst.sk), Times(M))
  <2>1. Exceptional <=> SumFails(inst.pk, Times(M))
    BY <1>1 DEF Exceptional
  <2>. QED  BY <1>4, <2>1
<1>6. Tidy(l)
  BY <1>2, <1>3
<1>7. /\ IsStuck(e) <=> SumFails(Times(inst.sk), Times(M))
      /\ ~IsStuck(e) => Tidy(e)
  <2> HIDE DEF l, M
  <2>. QED  BY <1>2, <1>4, <1>6, SumOfMultiplesExact
<1>8. table' = Append(table, e)
  BY <1>1, <1>2
<1> HIDE DEF e, l, M
<1>9. /\ Len(table') = step + 1 /\ table'[step + 1] = e
      /\ \A t \in 1 .. step : table'[t] = table[t]
  BY <1>2, <1>8, AppendIs
<1>10. Last(table') = e
  BY <1>9 DEF Last
<1>11. stage' = "stuck" <=> Exceptional
  BY <1>1, <1>5, <1>7, <1>10
<1>12. CASE stage' = "stuck"
  BY <1>11, <1>12, StuckShape DEF Exact, Scaled
<1>13. CASE stage' = "table"
  <2>1. Tidy(e)
    BY <1>1, <1>7, <1>10, <1>13
  <2>2. \A t \in 1 .. Len(table') : Tidy(table'[t])
    <3> TAKE t \in 1 .. Len(table')
    <3>1. t = step + 1 \/ t \in 1 .. step
      BY <1>2, <1>9
    <3>. QED  BY <1>2, <1>3, <1>9, <2>1, <3>1
  <2>. QED  BY <1>1, <1>3, <1>11, <1>13, <2>2 DEF Exact, ShapeInv, Windowing
<1>. QED  BY <1>1, <1>12, <1>13

\* No step is exceptional that computes nothing.
LEMMA StartUnblindingExact ==
    ASSUME IInv, ShapeInv, StartUnblinding
    PROVE  Exact
<1>1. /\ stage = "table" /\ step = WindowSize /\ WindowSize \in Nat /\ stage' = "unblind"
      /\ fixed' = fixed /\ table' = table
  BY Weights DEF StartUnblinding
<1>2. ~Exceptional
  BY <1>1 DEF Exceptional
<1>3. Tidy(fixed) /\ \A t \in 1 .. Len(table) : Tidy(table[t])
  BY <1>1 DEF ShapeInv, Scaled, Tabled
<1>. QED  BY <1>1, <1>2, <1>3 DEF Exact, ShapeInv, Windowing

\* An entry's blinding point is subtracted unless a coordinate meets.
LEMMA UnblindExact ==
    ASSUME IInv, ShapeInv, UnblindTable
    PROVE  Exact
<1> DEFINE b == inst.blind
           q == ConstantAffinePoint(NegAffine(Times(b)))
           l == ScalarOrder - (b % ScalarOrder)
           j == step + 1
           M == TableMultiple(j)
           e == CurveAdd(q, table[j])
<1>1. /\ stage = "unblind" /\ step < WindowSize /\ WindowSize \in Nat
      /\ table' = [table EXCEPT ![j] = e] /\ fixed' = fixed
      /\ stage' = IF IsStuck(table'[j]) THEN "stuck" ELSE "unblind"
  BY Weights DEF UnblindTable
<1>2. /\ j \in 1 .. Len(table) /\ IsSequence(table) /\ IsMultiple(table[j], M)
  <2>1. /\ Len(table) = WindowSize /\ step \in 1 .. WindowSize /\ IsSequence(table)
        /\ \A t \in 1 .. Len(table) : IsMultiple(table[t], TableMultiple(t))
    BY <1>1 DEF IInv, TableInv, Tabled, Scaled
  <2>2. j \in 1 .. Len(table)
    BY <1>1, <2>1
  <2> HIDE DEF j
  <2>. QED  BY <2>1, <2>2
<1>3. Tidy(fixed) /\ \A t \in 1 .. Len(table) : Tidy(table[t])
  BY <1>1 DEF ShapeInv, Scaled, Tabled
<1>4. b \in 1 .. ScalarOrder - 1
  BY <1>1, ScalarFacts, InstanceIs DEF Scaled
<1>5. IsMultiple(q, l) /\ Tidy(q) /\ Times(l).x = Times(b).x
  BY <1>4, ConstantsExact
<1>6. Exceptional <=> SumFails(Times(b), Times(M))
  BY <1>1 DEF Exceptional
<1> HIDE DEF q, l, M, j
<1>7. SumFails(Times(b), Times(M)) <=> SumFails(Times(l), Times(M))
  BY <1>5 DEF SumFails
<1>8. /\ IsStuck(e) <=> SumFails(Times(l), Times(M))
      /\ ~IsStuck(e) => Tidy(e)
  <2>1. Tidy(table[j])
    BY <1>2, <1>3
  <2>. QED  BY <1>2, <1>5, <2>1, SumOfMultiplesExact
<1> HIDE DEF e
<1> DEFINE r == [table EXCEPT ![j] = e]
<1>9. /\ Len(r) = Len(table) /\ r[j] = e /\ (\A t \in 1 .. Len(table) : t # j => r[t] = table[t])
      /\ IsSequence(r)
  <2>1. j \in 1 .. Len(table)
    BY <1>2
  <2>2. IsSequence(table)
    BY <1>2
  <2>. QED  BY <2>1, <2>2, ChangedIs, Zenon
<1> HIDE DEF r
<1>10. table' = r
  BY <1>1 DEF r
<1>11. stage' = "stuck" <=> Exceptional
  BY <1>1, <1>6, <1>7, <1>8, <1>9, <1>10
<1>12. CASE stage' = "stuck"
  BY <1>11, <1>12, StuckShape DEF Exact, Scaled
<1>13. CASE stage' = "unblind"
  <2>1. Tidy(e)
    BY <1>1, <1>8, <1>9, <1>10, <1>13
  <2>2. \A t \in 1 .. Len(table') : Tidy(table'[t])
    BY <1>3, <1>9, <1>10, <2>1
  <2>. QED  BY <1>1, <1>3, <1>11, <1>13, <2>2 DEF Exact, ShapeInv, Windowing
<1>. QED  BY <1>1, <1>12, <1>13

\* The windowed product starts with all limbs.
LEMMA StartWindowsExact ==
    ASSUME IInv, ShapeInv, StartWindows
    PROVE  Exact
<1>1. /\ stage = "unblind" /\ step = WindowSize /\ WindowSize \in Nat /\ stage' = "windowed"
      /\ fixed' = fixed /\ table' = table
      /\ windowed' = ConstantAffinePoint(Times(WindowedStart))
  BY Weights DEF StartWindows
<1>2. ~Exceptional
  BY <1>1 DEF Exceptional
<1>3. Tidy(fixed) /\ \A t \in 1 .. Len(table) : Tidy(table[t])
  BY <1>1 DEF ShapeInv, Scaled, Tabled
<1>4. Times(WindowedStart) \in Affine
  <2>1. WindowedStart \in 1 .. ScalarOrder - 1
    BY InstanceAssumption
  <2>. QED  BY <2>1, BelowOrder
<1>5. Tidy(windowed') /\ Len(windowed'.x) = NumNonnativeLimbs(BaseOrder)
  BY <1>1, <1>4, StartAssumption, PointsAreTidy
<1>. QED  BY <1>1, <1>2, <1>3, <1>5 DEF Exact, ShapeInv

\* A window of it fails with a doubling or its sum.
LEMMA WindowExact ==
    ASSUME IInv, ShapeInv, AddWindow
    PROVE  Exact
<1> DEFINE d == Windows(u2)[step]
           q == RandomAccessCurvePoints(d, table)
           k == TableMultiple(d + 1)
           M == WindowedMultiple
           a == M * WindowSize
           p == Doubled(windowed)
           Fails == \E j \in 0 .. WindowBits - 1 : DoubleFails(Times(M * 2 ^ j))
<1>1. /\ stage = "windowed" /\ step > 0 /\ fixed' = fixed /\ table' = table
      /\ windowed' = CurveConditionalAdd(p, q, d # 0)
      /\ stage' = IF IsStuck(windowed') THEN "stuck" ELSE "windowed"
  BY DEF AddWindow
<1>2. Tidy(fixed) /\ (\A t \in 1 .. Len(table) : Tidy(table[t])) /\ Tidy(windowed)
      /\ Len(windowed.x) = NumNonnativeLimbs(BaseOrder)
  BY <1>1 DEF ShapeInv, Scaled, Tabled, Windowing
<1>3. /\ IsMultiple(windowed, M) /\ d \in 0 .. WindowSize - 1
      /\ IsMultiple(q, IF d = 0 THEN inst.blind ELSE d * inst.sk) /\ step \in Nat
  <2>1. step \in 1 .. NumWindows /\ NumWindows \in Nat
    BY <1>1, WindowEntry
  <2>. QED  BY <1>1, <2>1, WindowEntry
<1>4. Exceptional <=> Fails \/ SumFails(Times(a), Times(k))
  BY <1>1, <1>3 DEF Exceptional
<1> HIDE DEF p, M, Fails
<1>5. IsMultiple(q, k) /\ Tidy(q)
  <2>0. d \in 0 .. WindowSize - 1 /\ WindowSize \in Nat
    BY <1>3, Weights
  <2> HIDE DEF d, q
  <2>1. d + 1 \in 1 .. WindowSize /\ (d + 1 = 1 <=> d = 0) /\ (d + 1) - 1 = d
    BY <2>0
  <2> DEFINE j == d + 1
  <2> HIDE DEF j
  <2>2. j \in 1 .. WindowSize /\ (j = 1 <=> d = 0) /\ j - 1 = d
    BY <2>1 DEF j
  <2>3. TableMultiple(j) = IF j = 1 THEN inst.blind ELSE (j - 1) * inst.sk
    BY <1>1, <2>2, TableIs
  <2>4. TableMultiple(j) = IF d = 0 THEN inst.blind ELSE d * inst.sk
    BY <2>2, <2>3
  <2>5. IsMultiple(q, TableMultiple(j))
    BY <1>3, <2>4
  <2>6. Tidy(q)
    BY RandomAccessLong, LongIsTidy DEF q
  <2>. QED  BY <2>5, <2>6 DEF j
<1>6. \/ Fails /\ p = StuckPoint
      \/ ~Fails /\ IsMultiple(p, a) /\ Tidy(p)
  BY <1>2, <1>3, DoubledExact DEF p, Fails
<1> HIDE DEF q, d, k, a
<1>7. stage' = "stuck" <=> IsStuck(windowed')
  BY <1>1
<1>8. CASE Fails /\ p = StuckPoint
  <2>1. IsStuck(StuckPoint)
    BY DEF IsStuck, StuckPoint
  <2>2. CurveAdd(p, q) = StuckPoint
    BY <1>8, <2>1, StuckSum
  <2>3. windowed' = StuckPoint
    BY <1>1, <2>2, SelectedStuck DEF CurveConditionalAdd
  <2>4. stage' = "stuck"
    BY <1>7, <2>1, <2>3
  <2>. QED  BY <1>4, <1>8, <2>4, StuckShape DEF Exact, Scaled
<1>9. CASE ~Fails /\ IsMultiple(p, a) /\ Tidy(p)
  <2>1. /\ IsStuck(windowed') <=> SumFails(Times(a), Times(k))
        /\ ~SumFails(Times(a), Times(k)) => Long(windowed')
    BY <1>1, <1>5, <1>9, ConditionalExact
  <2>2. stage' = "stuck" <=> Exceptional
    BY <1>4, <1>7, <1>9, <2>1
  <2>3. CASE stage' = "stuck"
    BY <2>2, <2>3, StuckShape DEF Exact, Scaled
  <2>4. CASE stage' = "windowed"
    <3>1. Tidy(windowed') /\ Len(windowed'.x) = NumNonnativeLimbs(BaseOrder)
      BY <1>7, <2>1, <2>4, LongIsTidy
    <3>. QED  BY <1>1, <1>2, <2>2, <2>4, <3>1 DEF Exact, ShapeInv
  <2>. QED  BY <1>1, <2>3, <2>4
<1>. QED  BY <1>6, <1>8, <1>9

\* Its starting point, doubled as often, is subtracted unless a coordinate meets.
LEMMA WindowsEndExact ==
    ASSUME IInv, ShapeInv, SubtractWindowedStart
    PROVE  Exact
<1> DEFINE K == WindowedStart * Weight(NumWindows)
           c == ConstantAffinePoint(Times(K))
           q == CurveNeg(c)
           l == ScalarOrder - (K % ScalarOrder)
           M == WindowedMultiple
<1>1. /\ stage = "windowed" /\ step = 0 /\ fixed' = fixed /\ table' = table
      /\ windowed' = CurveAdd(windowed, q)
      /\ stage' = IF IsStuck(windowed') THEN "stuck" ELSE "compare"
  BY DEF SubtractWindowedStart
<1>2. Tidy(fixed) /\ (\A t \in 1 .. Len(table) : Tidy(table[t])) /\ Tidy(windowed)
  BY <1>1 DEF ShapeInv, Scaled, Tabled, Windowing
<1>3. IsMultiple(windowed, M)
  BY <1>1 DEF IInv, WindowedInv, Windowing
<1>4. Exceptional <=> SumFails(Times(M), Times(K))
  BY <1>1 DEF Exceptional
<1>5. K \in Nat /\ K % ScalarOrder # 0
  <2> DEFINE T == Weight(NumWindows)
  <2>1. T \in Nat /\ T % ScalarOrder # 0
    BY Weights
  <2>2. WindowedStart \in Nat /\ WindowedStart % ScalarOrder # 0
    BY InstanceAssumption, BelowOrder
  <2> HIDE DEF T
  <2>3. WindowedStart * T \in Nat
    BY <2>1, <2>2
  <2>. QED  BY <2>1, <2>2, <2>3, ProductNonzero DEF T
<1> HIDE DEF K, M
<1>6. IsMultiple(q, l) /\ Tidy(q)
  <2>1. IsMultiple(c, K) /\ Times(K) \in Affine
    BY <1>5, ConstantMultiple, TimesIs
  <2>2. Tidy(c) /\ IsPoint(c, Times(K))
    BY <2>1, PointsAreTidy DEF IsMultiple
  <2> HIDE DEF c
  <2>3. Tidy(q) /\ ~IsStuck(q)
    BY <2>2, PointsAreTidy
  <2>. QED  BY <2>1, <2>3, NegIs
<1>7. Times(l).x = Times(K).x
  <2>1. Times(K) \in Affine /\ NegAffine(Times(K)) = Times(l)
    BY <1>5, TimesIs, NegTimes
  <2>2. NegAffine(Times(K)).x = Times(K).x
    BY <2>1, NegAffineIs
  <2>. QED  BY <2>1, <2>2
<1> HIDE DEF q, l, c
<1>8. SumFails(Times(M), Times(K)) <=> SumFails(Times(M), Times(l))
  BY <1>7 DEF SumFails
<1>9. /\ IsStuck(windowed') <=> SumFails(Times(M), Times(l))
      /\ ~IsStuck(windowed') => Tidy(windowed')
  BY <1>1, <1>2, <1>3, <1>6, SumOfMultiplesExact
<1>10. stage' = "stuck" <=> Exceptional
  BY <1>1, <1>4, <1>8, <1>9
<1>11. CASE stage' = "stuck"
  BY <1>10, <1>11, StuckShape DEF Exact, Scaled
<1>12. CASE stage' = "compare"
  <2>1. Tidy(windowed')
    BY <1>1, <1>9, <1>12
  <2>. QED  BY <1>1, <1>2, <1>10, <1>12, <2>1 DEF Exact, ShapeInv
<1>. QED  BY <1>1, <1>11, <1>12

\* The last sum.
LEMMA CompareExact ==
    ASSUME IInv, ShapeInv, Compare
    PROVE  Exact
<1> DEFINE p == CurveAdd(fixed, windowed)
           j == FixedMultiple
           k == WindowedMultiple
<1>1. /\ stage = "compare"
      /\ stage' = IF IsStuck(p) THEN "stuck"
                  ELSE IF ConnectBiguint(Scalar(inst.r), p.x) THEN "accepted" ELSE "rejected"
  BY DEF Compare
<1>2. IsMultiple(fixed, j) /\ IsMultiple(windowed, k) /\ Tidy(fixed) /\ Tidy(windowed)
  BY <1>1 DEF IInv, FixedInv, WindowedInv, ShapeInv, Scaled, Windowing
<1>3. Exceptional <=> SumFails(Times(j), Times(k))
  BY <1>1 DEF Exceptional
<1> HIDE DEF j, k
<1>4. IsStuck(p) <=> SumFails(Times(j), Times(k))
  BY <1>2, SumOfMultiplesExact
<1> HIDE DEF p
<1>5. stage' \in {"stuck", "accepted", "rejected"} /\ (stage' = "stuck" <=> IsStuck(p))
  BY <1>1
<1>6. stage' \notin Scaled
  BY <1>5 DEF Scaled
<1>. QED  BY <1>3, <1>4, <1>5, <1>6, StuckShape DEF Exact

\* Every step is stuck exactly at an exception and keeps the points in their limbs.
LEMMA NextExact ==
    ASSUME IInv, ShapeInv, Next
    PROVE  Exact
BY WireExact, KeyExact, ScalarsExact, FixedExact, StartExact, ExtendExact, StartUnblindingExact, UnblindExact,
   StartWindowsExact, WindowExact, WindowsEndExact, CompareExact DEF Next

\* Along every behaviour they stay in their limbs.
LEMMA InductiveShape == Spec => [](IInv /\ ShapeInv)
<1>1. Init => ShapeInv
  BY DEF Init, ShapeInv, Scaled, Tabled, Windowing
<1>2. ShapeInv /\ UNCHANGED vars => ShapeInv'
  BY DEF ShapeInv, Scaled, Tabled, Windowing, vars
<1>3. IInv /\ ShapeInv /\ [Next]_vars => ShapeInv'
  BY <1>2, NextExact DEF Exact
<1>. QED  BY <1>1, <1>3, InitInv, NextInv, PTL DEF Spec

\* Whatever the field, the curve's group, the limbs and the windows: the honest
\* prover's witness ends early where Exceptional says and nowhere else. No
\* limb count, carry, range check or quotient of biguint.rs and nonnative.rs
\* stops it elsewhere, in no step of the loops.
THEOREM EcdsaStuck == Spec => StuckExactlyAtExceptions
<1>1. IInv /\ ShapeInv /\ [Next]_vars => [stage' = "stuck" <=> Exceptional]_vars
  BY NextExact DEF Exact
<1>. QED  BY <1>1, InductiveShape, PTL DEF Spec, StuckExactlyAtExceptions

=============================================================================
