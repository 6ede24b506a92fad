--------------------------- MODULE MessageTheorems ---------------------------
(***************************************************************************)
(* What holds of signed messages for payloads of any bytes and length and  *)
(* any sizes of bytes, blocks and layout: a proof reads the text that was  *)
(* signed, and what the library builds can be proved.  Powers of two are   *)
(* counted as subsets, as the provers know nothing else of ^.              *)
(***************************************************************************)
EXTENDS SignedMessage, FiniteSetTheorems, FunctionTheorems, SequenceTheorems, WellFoundedInduction, TLAPS

-----------------------------------------------------------------------------
(* Powers of two, and the digits of a number.                              *)

\* A power of two counts the subsets of a set.
LEMMA PowerCounts ==
    ASSUME NEW n \in Nat, NEW S, IsFiniteSet(S), Cardinality(S) = n
    PROVE  IsFiniteSet(SUBSET S) /\ Cardinality(SUBSET S) = 2 ^ n
BY FS_SUBSET

LEMMA PowerType ==
    ASSUME NEW n \in Nat
    PROVE  2 ^ n \in Nat /\ 2 ^ n > 0
<1>1. IsFiniteSet(1 .. n) /\ Cardinality(1 .. n) = n
  BY FS_Interval
<1>2. IsFiniteSet(SUBSET (1 .. n)) /\ Cardinality(SUBSET (1 .. n)) = 2 ^ n
  BY <1>1, PowerCounts
<1>3. SUBSET (1 .. n) # {}
  OBVIOUS
<1>. QED  BY <1>2, <1>3, FS_CardinalityType, FS_EmptySet

\* Subsets of two disjoint sets are pairs of subsets.
LEMMA PowerOfSum ==
    ASSUME NEW a \in Nat, NEW b \in Nat
    PROVE  2 ^ (a + b) = 2 ^ a * 2 ^ b
<1> DEFINE A == 1 .. a
           B == (a + 1) .. (a + b)
           f == [s \in SUBSET (A \cup B) |-> <<s \cap A, s \cap B>>]
<1>1. IsFiniteSet(A) /\ Cardinality(A) = a /\ IsFiniteSet(B) /\ Cardinality(B) = b
  BY FS_Interval
<1>2. A \cup B = 1 .. (a + b) /\ A \cap B = {}
  OBVIOUS
<1>3. IsFiniteSet(A \cup B) /\ Cardinality(A \cup B) = a + b
  <2>1. IsFiniteSet(1 .. (a + b)) /\ Cardinality(1 .. (a + b)) = a + b
    <3>1. 1 \in Int /\ a + b \in Int /\ a + b >= 0
      OBVIOUS
    <3> DEFINE n == a + b
    <3> HIDE DEF n
    <3>2. IsFiniteSet(1 .. n) /\ Cardinality(1 .. n) = n
      BY <3>1, FS_Interval DEF n
    <3>. QED  BY <3>2 DEF n
  <2>. QED  BY <1>2, <2>1
<1> HIDE DEF A, B
<1>4. f \in Bijection(SUBSET (A \cup B), (SUBSET A) \X (SUBSET B))
  <2>1. f \in [SUBSET (A \cup B) -> (SUBSET A) \X (SUBSET B)]
    OBVIOUS
  <2>2. ASSUME NEW s \in SUBSET (A \cup B), NEW t \in SUBSET (A \cup B), f[s] = f[t]
        PROVE  s = t
    <3>1. s \cap A = t \cap A /\ s \cap B = t \cap B
      BY <2>2
    <3>. QED  BY <3>1
  <2>3. ASSUME NEW p \in (SUBSET A) \X (SUBSET B)
        PROVE  \E s \in SUBSET (A \cup B) : f[s] = p
    <3>1. PICK x \in SUBSET A, y \in SUBSET B : p = <<x, y>>
      OBVIOUS
    <3>2. x \cup y \in SUBSET (A \cup B) /\ (x \cup y) \cap A = x /\ (x \cup y) \cap B = y
      BY <1>2
    <3>. QED  BY <3>1, <3>2
  <2>. QED  BY <2>1, <2>2, <2>3 DEF Bijection, Injection, Surjection, IsInjective
<1>5. Cardinality(SUBSET (A \cup B)) = Cardinality((SUBSET A) \X (SUBSET B))
  <2>1. IsFiniteSet(SUBSET (A \cup B))
    BY <1>3, FS_SUBSET
  <2> HIDE DEF f
  <2>. QED  BY <1>4, <2>1, FS_Bijection DEF ExistsBijection
<1>6. Cardinality((SUBSET A) \X (SUBSET B)) = Cardinality(SUBSET A) * Cardinality(SUBSET B)
  BY <1>1, FS_SUBSET, FS_Product
<1>7. Cardinality(SUBSET A) = 2 ^ a /\ Cardinality(SUBSET B) = 2 ^ b /\ Cardinality(SUBSET (A \cup B)) = 2 ^ (a + b)
  <2>1. a + b \in Nat
    OBVIOUS
  <2>. QED  BY <1>1, <1>3, <2>1, PowerCounts
<1>. QED  BY <1>5, <1>6, <1>7

LEMMA DivUnique ==
    ASSUME NEW k \in Nat, NEW T \in Nat, T > 0, NEW r \in Nat, r < T, NEW a \in Nat, a = k * T + r
    PROVE  a \div T = k /\ a % T = r
<1>1. a = T * (a \div T) + (a % T) /\ a % T \in 0 .. T - 1 /\ a \div T \in Nat
  OBVIOUS
<1> DEFINE x == a \div T
           y == a % T
<1>2. T * x + y = k * T + r /\ y \in 0 .. T - 1 /\ x \in Nat
  BY <1>1
<1> HIDE DEF x, y
<1>3. T * (x - k) = r - y
  BY <1>2
<1>4. x - k < 1
  <2>1. SUFFICES ASSUME x - k >= 1 PROVE FALSE
    BY <1>2
  <2>2. T * (x - k) >= T
    BY <1>2, <2>1
  <2>. QED  BY <1>2, <1>3, <2>2
<1>5. x - k > -1
  <2>1. SUFFICES ASSUME x - k <= -1 PROVE FALSE
    BY <1>2
  <2>2. T * (x - k) <= -T
    BY <1>2, <2>1
  <2>. QED  BY <1>2, <1>3, <2>2
<1>6. x = k /\ y = r
  BY <1>2, <1>3, <1>4, <1>5
<1>. QED  BY <1>6 DEF x, y

\* The radices of a quarter, of a character's value and of a byte.
Q == 2 ^ Quarter
C == Q * (Q * Q)
B == Q * C

LEMMA Radices ==
    /\ Q \in Nat /\ Q >= 2 /\ C \in Nat /\ C > 0 /\ B \in Nat /\ B > 0 /\ Q * Q \in Nat /\ Q * Q > 0
    /\ 2 ^ (2 * Quarter) = Q * Q /\ 2 ^ (3 * Quarter) = C /\ 2 ^ (4 * Quarter) = B
    /\ Char = 0 .. C - 1 /\ Byte = 0 .. B - 1
<1>1. Quarter \in Nat /\ Quarter >= 1
  BY MessageAssumption
<1>2. Q \in Nat /\ Q > 0
  BY <1>1, PowerType DEF Q
<1>3. Q >= 2
  <2> DEFINE k == Quarter - 1
  <2>a. k \in Nat
    BY <1>1
  <2> HIDE DEF k
  <2>b. \A a \in Nat : 2 ^ (a + k) = 2 ^ a * 2 ^ k
    BY <2>a, PowerOfSum
  <2>1. 2 ^ (1 + k) = 2 ^ 1 * 2 ^ k
    BY <2>b, 1 \in Nat, Zenon
  <2>2. 2 ^ k \in Nat /\ 2 ^ k > 0
    BY <2>a, PowerType
  <2>3. 1 + k = Quarter
    BY <1>1 DEF k
  <2>4. 2 ^ 1 = 2
    OBVIOUS
  <2>. QED  BY <2>1, <2>2, <2>3, <2>4 DEF Q
<1>4. 2 ^ (2 * Quarter) = Q * Q
  <2>1. Quarter + Quarter = 2 * Quarter
    BY <1>1
  <2>. QED  BY <1>1, <2>1, PowerOfSum DEF Q
<1>5. 2 ^ (3 * Quarter) = C
  <2>1. Quarter + 2 * Quarter = 3 * Quarter /\ 2 * Quarter \in Nat
    BY <1>1
  <2>2. 2 ^ (Quarter + 2 * Quarter) = 2 ^ Quarter * 2 ^ (2 * Quarter)
    BY <1>1, <2>1, PowerOfSum
  <2>. QED  BY <1>4, <2>1, <2>2 DEF Q, C
<1>6. 2 ^ (4 * Quarter) = B
  <2>1. Quarter + 3 * Quarter = 4 * Quarter /\ 3 * Quarter \in Nat
    BY <1>1
  <2>2. 2 ^ (Quarter + 3 * Quarter) = 2 ^ Quarter * 2 ^ (3 * Quarter)
    BY <1>1, <2>1, PowerOfSum
  <2>. QED  BY <1>5, <2>1, <2>2 DEF Q, B
<1>7. Q * Q \in Nat /\ Q * Q > 0
  BY <1>2
<1>8. C \in Nat /\ C > 0
  BY <1>2, <1>7 DEF C
<1>9. B \in Nat /\ B > 0
  BY <1>2, <1>8 DEF B
<1>. QED  BY <1>2, <1>3, <1>4, <1>5, <1>6, <1>7, <1>8, <1>9 DEF Char, Byte, Values

\* The quotients by powers of a radix that take a number's digits.
LEMMA Shifts ==
    /\ 2 ^ (3 * Quarter * 0) = 1 /\ 2 ^ (3 * Quarter * 1) = C
    /\ 2 ^ (3 * Quarter * 2) = C * C /\ 2 ^ (3 * Quarter * 3) = C * (C * C)
    /\ 2 ^ (4 * Quarter * 0) = 1 /\ 2 ^ (4 * Quarter * 1) = B /\ 2 ^ (4 * Quarter * 2) = B * B
<1> DEFINE a == 3 * Quarter
           b == 4 * Quarter
<1>1. a \in Nat /\ b \in Nat /\ 2 ^ a = C /\ 2 ^ b = B
  BY MessageAssumption, Radices
<1> HIDE DEF a, b
<1>2. a * 0 = 0 /\ a * 1 = a /\ a * 2 = a + a /\ a * 3 = a + (a + a) /\ b * 0 = 0 /\ b * 1 = b /\ b * 2 = b + b
      /\ a + a \in Nat
  BY <1>1
<1>3. 2 ^ (a + a) = C * C /\ 2 ^ (b + b) = B * B
  BY <1>1, PowerOfSum
<1>4. 2 ^ (a + (a + a)) = C * (C * C)
  BY <1>1, <1>2, <1>3, PowerOfSum
<1>5. 2 ^ 0 = 1
  OBVIOUS
<1>6. /\ 2 ^ (a * 0) = 1 /\ 2 ^ (a * 1) = C /\ 2 ^ (a * 2) = C * C /\ 2 ^ (a * 3) = C * (C * C)
      /\ 2 ^ (b * 0) = 1 /\ 2 ^ (b * 1) = B /\ 2 ^ (b * 2) = B * B
  BY <1>1, <1>2, <1>3, <1>4, <1>5
<1>. QED  BY <1>6 DEF a, b

\* The digits of n to the base R are these.
Digits3(n, R, x, y, z) ==
    n \in Nat /\ (n \div (R * R)) % R = x /\ (n \div R) % R = y /\ (n \div 1) % R = z
Digits4(n, R, w, x, y, z) ==
    (n \div (R * (R * R))) % R = w /\ Digits3(n, R, x, y, z)

\* Three digits, and four, from the number they make up.
LEMMA TakeThree ==
    ASSUME NEW R \in Nat, R > 0, NEW x \in 0 .. R - 1, NEW y \in 0 .. R - 1, NEW z \in 0 .. R - 1,
           NEW n, n = (x * R + y) * R + z
    PROVE  Digits3(n, R, x, y, z)
<1> DEFINE p == x * R + y
           r == y * R + z
<1>0. n = p * R + z
  OBVIOUS
<1>1. R * R \in Nat /\ R * R > 0 /\ x * R \in Nat /\ y * R \in Nat
  OBVIOUS
<1>2. p \in Nat
  BY <1>1
<1> HIDE DEF p
<1>3. p * R \in Nat
  BY <1>2
<1>4. n \in Nat
  BY <1>0, <1>3
<1>5. r \in Nat /\ r < R * R
  <2>1. y * R <= (R - 1) * R
    OBVIOUS
  <2>2. (R - 1) * R = R * R - R
    OBVIOUS
  <2>. QED  BY <1>1, <2>1, <2>2
<1>6. n = x * (R * R) + r
  <2>1. p * R = (x * R) * R + y * R
    BY <1>1 DEF p
  <2>2. (x * R) * R = x * (R * R)
    OBVIOUS
  <2>. QED  BY <1>0, <1>1, <2>1, <2>2
<1> HIDE DEF r
<1>7. n \div (R * R) = x
  BY <1>1, <1>4, <1>5, <1>6, DivUnique
<1>8. n \div R = p /\ n % R = z
  BY <1>0, <1>2, <1>4, DivUnique
<1>9. p % R = y
  BY <1>2, DivUnique DEF p
<1>10. x % R = x /\ n \div 1 = n
  <2>1. x = 0 * R + x /\ n = n * 1 + 0
    BY <1>4
  <2>. QED  BY <1>4, <2>1, DivUnique
<1>. QED  BY <1>4, <1>7, <1>8, <1>9, <1>10 DEF Digits3

LEMMA TakeFour ==
    ASSUME NEW R \in Nat, R > 0, NEW w \in 0 .. R - 1,
           NEW x \in 0 .. R - 1, NEW y \in 0 .. R - 1, NEW z \in 0 .. R - 1,
           NEW n, n = ((w * R + x) * R + y) * R + z
    PROVE  Digits4(n, R, w, x, y, z)
<1> DEFINE p == (w * R + x) * R + y
           k == R * R
           t == y * R + z
<1>0. n = p * R + z
  OBVIOUS
<1>1. p \in Nat /\ p \div k = w /\ (p \div R) % R = x /\ p % R = y
  <2>1. p \in Nat /\ (p \div k) % R = w /\ (p \div R) % R = x /\ (p \div 1) % R = y
    <3>1. p = (w * R + x) * R + y
      OBVIOUS
    <3> HIDE DEF p
    <3>2. Digits3(p, R, w, x, y)
      BY <3>1, TakeThree
    <3>. QED  BY <3>2 DEF Digits3
  <2>2. w * R \in Nat /\ x * R \in Nat /\ k \in Nat /\ k > 0
    OBVIOUS
  <2>3. x * R + y \in Nat /\ x * R + y < k
    <3>1. x * R <= (R - 1) * R /\ (R - 1) * R = k - R
      OBVIOUS
    <3> HIDE DEF k
    <3>. QED  BY <2>2, <3>1
  <2>4. p = w * k + (x * R + y)
    <3>1. (w * R + x) * R = (w * R) * R + x * R /\ (w * R) * R = w * k
      OBVIOUS
    <3>. QED  BY <3>1
  <2> HIDE DEF p, k
  <2>5. p \div k = w
    BY <2>1, <2>2, <2>3, <2>4, DivUnique
  <2>6. p \div 1 = p
    <3>1. p = p * 1 + 0
      BY <2>1
    <3>. QED  BY <2>1, <3>1, DivUnique
  <2>. QED  BY <2>1, <2>5, <2>6
<1> HIDE DEF p
<1>2. n \in Nat /\ n \div R = p /\ n % R = z
  <2>1. p * R \in Nat
    BY <1>1
  <2>2. n \in Nat
    BY <1>0, <2>1
  <2>. QED  BY <1>0, <1>1, <2>2, DivUnique
<1>3. k \in Nat /\ k > 0 /\ R * k \in Nat /\ R * k > 0
  OBVIOUS
<1>4. n \div (R * k) = w /\ n \div k = p \div R
  <2>1. p = k * w + (p % k) /\ (p % k) \in 0 .. k - 1
    BY <1>1, <1>3
  <2>2. p = R * (p \div R) + y /\ (p \div R) \in Nat
    BY <1>1
  <2> DEFINE g == p % k
             e == p \div R
  <2>3. n = w * (R * k) + (g * R + z) /\ g * R + z \in Nat /\ g * R + z < R * k
    <3>1. p * R = (k * w + g) * R
      BY <2>1
    <3>2. (k * w + g) * R = w * (R * k) + g * R
      BY <1>3, <2>1
    <3>3. g \in Nat /\ g <= k - 1
      BY <1>3, <2>1
    <3> HIDE DEF g, k
    <3>4. g * R <= (k - 1) * R /\ (k - 1) * R = R * k - R /\ g * R \in Nat
      BY <1>3, <3>3
    <3>5. n = w * (R * k) + (g * R + z)
      <4>1. p * R = w * (R * k) + g * R
        BY <3>1, <3>2
      <4>2. w * (R * k) \in Nat
        BY <1>3
      <4>. QED  BY <1>0, <3>4, <4>1, <4>2
    <3>. QED  BY <1>3, <3>4, <3>5
  <2>4. n = e * k + t /\ t \in Nat /\ t < k
    <3>1. p * R = (R * e + y) * R
      BY <2>2
    <3>2. e \in Nat
      BY <2>2
    <3> HIDE DEF e
    <3>3. (R * e + y) * R = e * k + y * R
      BY <3>2
    <3>4. y * R <= (R - 1) * R /\ (R - 1) * R = k - R /\ y * R \in Nat
      OBVIOUS
    <3> HIDE DEF k
    <3>5. n = e * k + t
      BY <1>0, <1>3, <3>1, <3>2, <3>3, <3>4
    <3>. QED  BY <1>3, <3>4, <3>5
  <2>5. e \in Nat /\ g \in Nat
    BY <1>3, <2>1, <2>2
  <2> HIDE DEF g, e, k, t
  <2>6. n \div (R * k) = w
    <3> DEFINE rk == R * k
               gz == g * R + z
    <3>1. n = w * rk + gz /\ gz \in Nat /\ gz < rk /\ rk \in Nat /\ rk > 0 /\ w \in Nat
      BY <1>3, <2>3
    <3> HIDE DEF rk, gz
    <3>2. n \div rk = w
      BY <1>2, <3>1, DivUnique
    <3>. QED  BY <3>2 DEF rk
  <2>7. n \div k = e
    BY <1>2, <1>3, <2>4, <2>5, DivUnique
  <2>. QED  BY <2>6, <2>7 DEF e
<1>5. w % R = w /\ n \div 1 = n
  <2>1. w = 0 * R + w /\ n = n * 1 + 0
    BY <1>2
  <2>. QED  BY <1>2, <2>1, DivUnique
<1>. QED  BY <1>1, <1>2, <1>4, <1>5 DEF Digits3, Digits4

\* Quotient and remainder.
LEMMA Divided ==
    ASSUME NEW a \in Nat, NEW T \in Nat, T > 0
    PROVE  /\ a = (a \div T) * T + (a % T) /\ a \div T \in Nat /\ a % T \in 0 .. T - 1
           /\ \A U \in Nat : a < U * T => a \div T \in 0 .. U - 1
<1> DEFINE x == a \div T
           y == a % T
<1>1. a = x * T + y /\ x \in Nat /\ y \in 0 .. T - 1
  OBVIOUS
<1> HIDE DEF x, y
<1>2. ASSUME NEW U \in Nat, a < U * T
      PROVE  x \in 0 .. U - 1
  <2>1. SUFFICES ASSUME x >= U PROVE FALSE
    BY <1>1
  <2>2. x * T >= U * T
    BY <1>1, <2>1
  <2>3. x * T \in Nat /\ U * T \in Nat
    BY <1>1
  <2>. QED  BY <1>1, <1>2, <2>2, <2>3
<1>. QED  BY <1>1, <1>2 DEF x, y

\* Three bytes and the four characters' values that stand for the same number;
\* the second and the third byte are cut in two.
Regrouped(b1, b2, b3, v1, h, l, m, u, v4) ==
    /\ v1 \in Char /\ v4 \in Char /\ h \in 0 .. Q - 1 /\ u \in 0 .. Q - 1
    /\ l \in 0 .. Q * Q - 1 /\ m \in 0 .. Q * Q - 1
    /\ b1 = v1 * Q + h /\ b2 = l * (Q * Q) + m /\ b3 = u * C + v4
    /\ h * (Q * Q) + l \in Char /\ m * Q + u \in Char
    /\ (b1 * B + b2) * B + b3 = ((v1 * C + (h * (Q * Q) + l)) * C + (m * Q + u)) * C + v4

LEMMA Regroup ==
    ASSUME NEW b1 \in Byte, NEW b2 \in Byte, NEW b3 \in Byte
    PROVE  \E v1, h, l, m, u, v4 : Regrouped(b1, b2, b3, v1, h, l, m, u, v4)
<1> DEFINE K == Q * Q
           v1 == b1 \div Q
           h == b1 % Q
           l == b2 \div K
           m == b2 % K
           u == b3 \div C
           v4 == b3 % C
<1>1. /\ Q \in Nat /\ Q > 0 /\ K \in Nat /\ K > 0 /\ C \in Nat /\ C > 0
      /\ B = C * Q /\ B = K * K /\ B = Q * C /\ C = Q * K
  BY Radices DEF B, C
<1>2. b1 \in Nat /\ b1 < C * Q /\ b2 \in Nat /\ b2 < K * K /\ b3 \in Nat /\ b3 < Q * C
  BY <1>1, Radices
<1> HIDE DEF K
<1>3. b1 = v1 * Q + h /\ v1 \in 0 .. C - 1 /\ h \in 0 .. Q - 1
  BY <1>1, <1>2, Divided
<1>4. b2 = l * K + m /\ l \in 0 .. K - 1 /\ m \in 0 .. K - 1
  BY <1>1, <1>2, Divided
<1>5. b3 = u * C + v4 /\ u \in 0 .. Q - 1 /\ v4 \in 0 .. C - 1
  BY <1>1, <1>2, Divided
<1> HIDE DEF v1, h, l, m, u, v4
<1>6. h * K + l \in 0 .. C - 1
  <2>1. h * K <= (Q - 1) * K /\ (Q - 1) * K = C - K /\ h * K \in Nat
    BY <1>1, <1>3
  <2>. QED  BY <1>1, <1>4, <2>1
<1>7. m * Q + u \in 0 .. C - 1
  <2>1. m * Q <= (K - 1) * Q /\ (K - 1) * Q = C - Q /\ m * Q \in Nat
    BY <1>1, <1>4
  <2>. QED  BY <1>1, <1>5, <2>1
<1>8. (b1 * B + b2) * B + b3 = ((v1 * C + (h * K + l)) * C + (m * Q + u)) * C + v4
  <2>1. /\ v1 \in Int /\ h \in Int /\ l \in Int /\ m \in Int /\ u \in Int /\ v4 \in Int
        /\ Q \in Int
    BY <1>1, <1>3, <1>4, <1>5
  <2>2. ((v1 * Q + h) * (Q * (Q * (Q * Q))) + (l * (Q * Q) + m)) * (Q * (Q * (Q * Q))) + (u * (Q * (Q * Q)) + v4)
          = ((v1 * (Q * (Q * Q)) + (h * (Q * Q) + l)) * (Q * (Q * Q)) + (m * Q + u)) * (Q * (Q * Q)) + v4
    BY <2>1
  <2>. QED  BY <1>3, <1>4, <1>5, <2>2 DEF B, C, K
<1>9. Regrouped(b1, b2, b3, v1, h, l, m, u, v4)
  BY <1>3, <1>4, <1>5, <1>6, <1>7, <1>8, Radices DEF Regrouped, K
<1>. QED  BY <1>9

\* A group's bytes are the digits of its number, and so are its characters' values.
LEMMA GroupDigits ==
    ASSUME NEW b1 \in Byte, NEW b2 \in Byte, NEW b3 \in Byte, NEW n, n = (b1 * B + b2) * B + b3,
           NEW v1, NEW h, NEW l, NEW m, NEW u, NEW v4, Regrouped(b1, b2, b3, v1, h, l, m, u, v4)
    PROVE  Digits3(n, B, b1, b2, b3) /\ Digits4(n, C, v1, h * (Q * Q) + l, m * Q + u, v4)
<1>1. Digits3(n, B, b1, b2, b3)
  BY Radices, TakeThree
<1> DEFINE v2 == h * (Q * Q) + l
           v3 == m * Q + u
<1>2. /\ v1 \in 0 .. C - 1 /\ v2 \in 0 .. C - 1 /\ v3 \in 0 .. C - 1 /\ v4 \in 0 .. C - 1
      /\ n = ((v1 * C + v2) * C + v3) * C + v4 /\ C \in Nat /\ C > 0
  BY Radices DEF Regrouped
<1> HIDE DEF v2, v3
<1>3. Digits4(n, C, v1, v2, v3, v4)
  BY <1>2, TakeFour
<1>. QED  BY <1>1, <1>3 DEF v2, v3

\* The way to cut a value in two is unique.
LEMMA SplitUnique ==
    ASSUME NEW x \in Nat, NEW y \in Nat, NEW hi \in Nat, NEW lo \in Nat, y < 2 ^ lo, x < 2 ^ hi
    PROVE  Splits(x * 2 ^ lo + y, hi, lo) = {<<x, y>>}
<1> DEFINE T == 2 ^ lo
           U == 2 ^ hi
<1>1. T \in Nat /\ T > 0 /\ U \in Nat
  BY PowerType
<1> HIDE DEF T, U
<1>2. Splits(x * T + y, hi, lo) = {s \in (0 .. U - 1) \X (0 .. T - 1) : s[1] * T + s[2] = x * T + y}
  BY DEF Splits, Values, T, U
<1>3. <<x, y>> \in (0 .. U - 1) \X (0 .. T - 1)
  BY <1>1 DEF T, U
<1>4. ASSUME NEW a \in 0 .. U - 1, NEW b \in 0 .. T - 1, a * T + b = x * T + y
      PROVE  a = x /\ b = y
  <2>1. a * T + b \in Nat /\ a \in Nat /\ b \in Nat /\ b < T /\ y < T
    BY <1>1 DEF T
  <2> DEFINE z == a * T + b
  <2>2. z = a * T + b /\ z = x * T + y /\ z \in Nat
    BY <1>4, <2>1
  <2> HIDE DEF z
  <2>3. z \div T = a /\ z % T = b
    BY <1>1, <2>1, <2>2, DivUnique
  <2>4. z \div T = x /\ z % T = y
    BY <1>1, <2>1, <2>2, DivUnique
  <2>. QED  BY <2>3, <2>4
<1>5. ASSUME NEW s \in (0 .. U - 1) \X (0 .. T - 1), s[1] * T + s[2] = x * T + y
      PROVE  s = <<x, y>>
  <2>1. s[1] \in 0 .. U - 1 /\ s[2] \in 0 .. T - 1 /\ s = <<s[1], s[2]>>
    OBVIOUS
  <2>2. s[1] = x /\ s[2] = y
    BY <1>4, <1>5, <2>1
  <2>. QED  BY <2>1, <2>2
<1>6. Splits(x * T + y, hi, lo) = {<<x, y>>}
  BY <1>2, <1>3, <1>5
<1>. QED  BY <1>6 DEF T

-----------------------------------------------------------------------------
(* Encoding and decoding.                                                  *)

\* A byte, zero where there is none.
ByteAt(bs, j) == IF j \in DOMAIN bs THEN bs[j] ELSE 0

\* The value of the k-th character of a group.
ValueAt(bs, g, k) == (GroupOfBytes(bs, g) \div 2 ^ (3 * Quarter * (4 - k))) % 2 ^ (3 * Quarter)

LEMMA ByteAtType ==
    ASSUME NEW bs \in Seq(Byte), NEW j
    PROVE  ByteAt(bs, j) \in Byte
<1>1. 0 \in Byte
  BY Radices
<1>. QED  BY <1>1 DEF ByteAt

LEMMA GroupNumber ==
    ASSUME NEW bs, NEW g
    PROVE  GroupOfBytes(bs, g) = (ByteAt(bs, 3 * g + 1) * B + ByteAt(bs, 3 * g + 2)) * B + ByteAt(bs, 3 * g + 3)
BY Radices DEF GroupOfBytes, ByteAt

\* The values of a group's characters put the bytes together again.
LEMMA GroupValues ==
    ASSUME NEW bs \in Seq(Byte), NEW g
    PROVE  /\ Digits3(GroupOfBytes(bs, g), B, ByteAt(bs, 3 * g + 1), ByteAt(bs, 3 * g + 2), ByteAt(bs, 3 * g + 3))
           /\ \E h, l, m, u :
                /\ Regrouped(ByteAt(bs, 3 * g + 1), ByteAt(bs, 3 * g + 2), ByteAt(bs, 3 * g + 3),
                             ValueAt(bs, g, 1), h, l, m, u, ValueAt(bs, g, 4))
                /\ ValueAt(bs, g, 2) = h * (Q * Q) + l /\ ValueAt(bs, g, 3) = m * Q + u
<1> DEFINE b1 == ByteAt(bs, 3 * g + 1)
           b2 == ByteAt(bs, 3 * g + 2)
           b3 == ByteAt(bs, 3 * g + 3)
           n == GroupOfBytes(bs, g)
<1>1. b1 \in Byte /\ b2 \in Byte /\ b3 \in Byte
  BY ByteAtType
<1>2. n = (b1 * B + b2) * B + b3
  BY GroupNumber
<1>3. /\ 4 - 1 = 3 /\ 4 - 2 = 2 /\ 4 - 3 = 1 /\ 4 - 4 = 0
  OBVIOUS
<1>4. /\ ValueAt(bs, g, 1) = (n \div (C * (C * C))) % C
      /\ ValueAt(bs, g, 2) = (n \div (C * C)) % C
      /\ ValueAt(bs, g, 3) = (n \div C) % C
      /\ ValueAt(bs, g, 4) = (n \div 1) % C
  BY <1>3, Shifts, Radices DEF ValueAt
<1> HIDE DEF b1, b2, b3, n
<1>5. PICK v1, h, l, m, u, v4 : Regrouped(b1, b2, b3, v1, h, l, m, u, v4)
  BY <1>1, Regroup
<1>6. Digits3(n, B, b1, b2, b3) /\ Digits4(n, C, v1, h * (Q * Q) + l, m * Q + u, v4)
  BY <1>1, <1>2, <1>5, GroupDigits
<1>7. /\ ValueAt(bs, g, 1) = v1 /\ ValueAt(bs, g, 2) = h * (Q * Q) + l
      /\ ValueAt(bs, g, 3) = m * Q + u /\ ValueAt(bs, g, 4) = v4
  BY <1>4, <1>6 DEF Digits4, Digits3
<1>. QED  BY <1>5, <1>6, <1>7 DEF b1, b2, b3, n

LEMMA ValueAtType ==
    ASSUME NEW bs \in Seq(Byte), NEW g, NEW k \in 1 .. 4
    PROVE  ValueAt(bs, g, k) \in Char
<1>1. k \in {1, 2, 3, 4}
  OBVIOUS
<1>. QED  BY <1>1, GroupValues DEF Regrouped

\* Lengths: so many characters, and as many bytes again.
LEMMA Lengths ==
    ASSUME NEW n \in Nat
    PROVE  /\ CeilDiv(4 * n, 3) \in Nat /\ (3 * CeilDiv(4 * n, 3)) \div 4 = n
           /\ n = 3 * (n \div 3) + (n % 3) /\ n \div 3 \in Nat /\ n % 3 \in 0 .. 2
           /\ CeilDiv(4 * n, 3) = 4 * (n \div 3) + (IF n % 3 = 0 THEN 0 ELSE (n % 3) + 1)
BY DEF CeilDiv

\* What encodes no byte is zero.
LEMMA PastTheEnd ==
    ASSUME NEW bs \in Seq(Byte), NEW g \in Nat, NEW k \in 1 .. 4, 4 * g + k > CeilDiv(4 * Len(bs), 3)
    PROVE  ValueAt(bs, g, k) = 0
<1> DEFINE n == Len(bs)
           a == n \div 3
           r == n % 3
<1>1. /\ n \in Nat /\ a \in Nat /\ r \in 0 .. 2 /\ n = 3 * a + r
      /\ 4 * g + k > 4 * a + (IF r = 0 THEN 0 ELSE r + 1) /\ DOMAIN bs = 1 .. n
  <2>1. n \in Nat /\ DOMAIN bs = 1 .. n
    OBVIOUS
  <2> HIDE DEF n
  <2>2. CeilDiv(4 * n, 3) = 4 * a + (IF r = 0 THEN 0 ELSE r + 1)
    BY <2>1, Lengths
  <2>3. n = 3 * a + r /\ a \in Nat /\ r \in 0 .. 2
    BY <2>1, Lengths
  <2>4. 4 * g + k > CeilDiv(4 * n, 3)
    BY DEF n
  <2>. QED  BY <2>1, <2>2, <2>3, <2>4
<1> HIDE DEF n, a, r
<1>2. PICK h, l, m, u :
        /\ Regrouped(ByteAt(bs, 3 * g + 1), ByteAt(bs, 3 * g + 2), ByteAt(bs, 3 * g + 3),
                     ValueAt(bs, g, 1), h, l, m, u, ValueAt(bs, g, 4))
        /\ ValueAt(bs, g, 2) = h * (Q * Q) + l /\ ValueAt(bs, g, 3) = m * Q + u
  BY GroupValues
<1>3. \A x, y, T \in Nat : T > 0 /\ x * T + y = 0 => x = 0 /\ y = 0
  OBVIOUS
<1>4. /\ Q \in Nat /\ Q > 0 /\ Q * Q \in Nat /\ Q * Q > 0 /\ C \in Nat /\ C > 0
      /\ l \in Nat /\ m \in Nat /\ u \in Nat /\ h \in Nat /\ ValueAt(bs, g, 1) \in Nat /\ ValueAt(bs, g, 4) \in Nat
  BY <1>2, Radices DEF Regrouped
<1>a. /\ ByteAt(bs, 3 * g + 1) = ValueAt(bs, g, 1) * Q + h /\ ByteAt(bs, 3 * g + 2) = l * (Q * Q) + m
      /\ ByteAt(bs, 3 * g + 3) = u * C + ValueAt(bs, g, 4)
  BY <1>2 DEF Regrouped
<1>5. ByteAt(bs, 3 * g + 3) = 0 => u = 0 /\ ValueAt(bs, g, 4) = 0
  BY <1>a, <1>3, <1>4
<1>6. ByteAt(bs, 3 * g + 2) = 0 => l = 0 /\ m = 0
  BY <1>a, <1>3, <1>4
<1>7. ByteAt(bs, 3 * g + 1) = 0 => h = 0 /\ ValueAt(bs, g, 1) = 0
  BY <1>a, <1>3, <1>4
<1>8. CASE g > a \/ (g = a /\ r = 0)
  <2>1. /\ 3 * g + 1 \notin DOMAIN bs /\ 3 * g + 2 \notin DOMAIN bs /\ 3 * g + 3 \notin DOMAIN bs
    BY <1>1, <1>8
  <2>2. /\ ValueAt(bs, g, 1) = 0 /\ h = 0 /\ l = 0 /\ m = 0 /\ u = 0 /\ ValueAt(bs, g, 4) = 0
    BY <1>5, <1>6, <1>7, <2>1 DEF ByteAt
  <2>3. ValueAt(bs, g, 2) = 0 /\ ValueAt(bs, g, 3) = 0
    BY <1>2, <1>4, <2>2
  <2>4. k \in {1, 2, 3, 4}
    OBVIOUS
  <2>. QED  BY <2>2, <2>3, <2>4
<1>9. CASE g = a /\ r = 1
  <2>1. /\ 3 * g + 2 \notin DOMAIN bs /\ 3 * g + 3 \notin DOMAIN bs /\ k \in {3, 4}
    BY <1>1, <1>9
  <2>2. m = 0 /\ u = 0 /\ ValueAt(bs, g, 4) = 0
    BY <1>5, <1>6, <2>1 DEF ByteAt
  <2>3. ValueAt(bs, g, 3) = 0
    BY <1>2, <1>4, <2>2
  <2>. QED  BY <2>1, <2>2, <2>3
<1>10. CASE g = a /\ r = 2
  <2>1. 3 * g + 3 \notin DOMAIN bs /\ k = 4
    BY <1>1, <1>10
  <2>. QED  BY <1>5, <2>1 DEF ByteAt
<1>11. g >= a
  BY <1>1
<1>. QED  BY <1>1, <1>8, <1>9, <1>10, <1>11

\* Positions of characters and bytes within their groups.
LEMMA Positions ==
    ASSUME NEW i \in Nat, i > 0
    PROVE  /\ (i - 1) \div 4 \in Nat /\ ((i - 1) % 4) + 1 \in 1 .. 4 /\ i = 4 * ((i - 1) \div 4) + (((i - 1) % 4) + 1)
           /\ (i - 1) \div 3 \in Nat /\ ((i - 1) % 3) + 1 \in 1 .. 3 /\ i = 3 * ((i - 1) \div 3) + (((i - 1) % 3) + 1)
OBVIOUS

LEMMA Encoded ==
    ASSUME NEW bs \in Seq(Byte)
    PROVE  LET e == base64url_encode(bs)
           IN  /\ e \in Seq(Range(Alphabet)) /\ Len(e) = CeilDiv(4 * Len(bs), 3)
               /\ \A i \in 1 .. Len(e) : e[i] = Alphabet[ValueAt(bs, (i - 1) \div 4, ((i - 1) % 4) + 1)]
<1> DEFINE n == CeilDiv(4 * Len(bs), 3)
           V(i) == Alphabet[ValueAt(bs, (i - 1) \div 4, ((i - 1) % 4) + 1)]
           e == base64url_encode(bs)
<1>1. n \in Nat
  BY Lengths
<1>2. ASSUME NEW i \in 1 .. n
      PROVE  e[i] = V(i) /\ e[i] \in Range(Alphabet)
  <2>1. e[i] = Alphabet[(GroupOfBytes(bs, (i - 1) \div 4) \div 2 ^ (3 * Quarter * (3 - ((i - 1) % 4)))) % 2 ^ (3 * Quarter)]
    BY DEF base64url_encode
  <2> DEFINE k == (i - 1) % 4
  <2>2. k \in 0 .. 3 /\ 3 - k = 4 - (k + 1)
    BY <1>1
  <2>3. e[i] = V(i)
    BY <2>1, <2>2 DEF ValueAt
  <2>4. ValueAt(bs, (i - 1) \div 4, k + 1) \in Char
    BY <2>2, ValueAtType
  <2>. QED  BY <2>3, <2>4, MessageAssumption DEF Range
<1>3. e = [i \in 1 .. n |-> e[i]] /\ DOMAIN e = 1 .. n
  BY DEF base64url_encode
<1> HIDE DEF e, V
<1>4. e \in [1 .. n -> Range(Alphabet)]
  BY <1>2, <1>3
<1> HIDE DEF n
<1>5. e \in Seq(Range(Alphabet)) /\ Len(e) = n
  BY <1>1, <1>4
<1>. QED  BY <1>2, <1>5 DEF e, V, n

\* Four characters of a group, as the circuit and the library look at them.
IsGroup(c, bs, g) == \A k \in 1 .. 4 : c[k] = Alphabet[ValueAt(bs, g, k)]

GroupText(bs, g) == <<ByteAt(bs, 3 * g + 1), ByteAt(bs, 3 * g + 2), ByteAt(bs, 3 * g + 3)>>

\* The constraints on a group admit its bytes and nothing else.
LEMMA GroupDecoded ==
    ASSUME NEW bs \in Seq(Byte), NEW g, NEW c, IsGroup(c, bs, g)
    PROVE  GroupDecodings(c) = {GroupText(bs, g)}
<1> DEFINE x(k) == ValueAt(bs, g, k)
           q == Quarter
           six(i) == {v \in Char : Alphabet[v] = c[i]}
<1>1. \A k \in 1 .. 4 : x(k) \in Char /\ six(k) = {x(k)}
  <2> TAKE k \in 1 .. 4
  <2>1. x(k) \in Char /\ c[k] = Alphabet[x(k)]
    BY ValueAtType DEF IsGroup
  <2>2. \A v, w \in Char : Alphabet[v] = Alphabet[w] => v = w
    BY MessageAssumption
  <2> HIDE DEF x
  <2>. QED  BY <2>1, <2>2
<1>2. PICK h, l, m, u :
        /\ Regrouped(ByteAt(bs, 3 * g + 1), ByteAt(bs, 3 * g + 2), ByteAt(bs, 3 * g + 3), x(1), h, l, m, u, x(4))
        /\ x(2) = h * (Q * Q) + l /\ x(3) = m * Q + u
  BY GroupValues
<1>3. Splits(x(2), q, 2 * q) = {<<h, l>>}
  <2>1. h \in Nat /\ l \in Nat /\ h < 2 ^ q /\ l < 2 ^ (2 * q) /\ 2 ^ (2 * q) = Q * Q
        /\ q \in Nat /\ 2 * q \in Nat
    BY <1>2, Radices, MessageAssumption DEF Regrouped, Q
  <2>2. Splits(h * 2 ^ (2 * q) + l, q, 2 * q) = {<<h, l>>}
    <3> DEFINE k == 2 * q
    <3>1. h \in Nat /\ l \in Nat /\ h < 2 ^ q /\ l < 2 ^ k /\ q \in Nat /\ k \in Nat
      BY <2>1
    <3> HIDE DEF k
    <3>2. Splits(h * 2 ^ k + l, q, k) = {<<h, l>>}
      BY <3>1, SplitUnique
    <3>. QED  BY <3>2 DEF k
  <2>. QED  BY <1>2, <2>1, <2>2
<1>4. Splits(x(3), 2 * q, q) = {<<m, u>>}
  <2>1. m \in Nat /\ u \in Nat /\ m < 2 ^ (2 * q) /\ u < 2 ^ q /\ 2 ^ q = Q
        /\ q \in Nat /\ 2 * q \in Nat
    BY <1>2, Radices, MessageAssumption DEF Regrouped, Q
  <2>2. Splits(m * 2 ^ q + u, 2 * q, q) = {<<m, u>>}
    BY <2>1, SplitUnique
  <2>. QED  BY <1>2, <2>1, <2>2
<1> DEFINE T(v, s1, s2) == << v[1] * 2 ^ q + s1[1],
                              s1[2] * 2 ^ (2 * q) + s2[1],
                              s2[2] * 2 ^ (3 * q) + v[4] >>
           vs == <<x(1), x(2), x(3), x(4)>>
<1>5. GroupDecodings(c) = UNION { {T(v, s1, s2) : s1 \in Splits(v[2], q, 2 * q), s2 \in Splits(v[3], 2 * q, q)} :
                                   v \in six(1) \X six(2) \X six(3) \X six(4) }
  BY DEF GroupDecodings
<1>6. six(1) \X six(2) \X six(3) \X six(4) = {vs}
  <2>1. six(1) = {x(1)} /\ six(2) = {x(2)} /\ six(3) = {x(3)} /\ six(4) = {x(4)}
    BY <1>1
  <2> HIDE DEF six, x
  <2>. QED  BY <2>1
<1>7. vs[1] = x(1) /\ vs[2] = x(2) /\ vs[3] = x(3) /\ vs[4] = x(4)
  OBVIOUS
<1> HIDE DEF vs, six, x
<1>8. GroupDecodings(c) = {T(vs, s1, s2) : s1 \in Splits(vs[2], q, 2 * q), s2 \in Splits(vs[3], 2 * q, q)}
  <2> HIDE DEF T
  <2>. QED  BY <1>5, <1>6
<1>9. GroupDecodings(c) = {T(vs, <<h, l>>, <<m, u>>)}
  <2> HIDE DEF T
  <2>. QED  BY <1>3, <1>4, <1>7, <1>8, SMTT(30)
<1>10. T(vs, <<h, l>>, <<m, u>>) = << x(1) * Q + h, l * (Q * Q) + m, u * C + x(4) >>
  BY <1>7, Radices DEF Q
<1>11. << x(1) * Q + h, l * (Q * Q) + m, u * C + x(4) >> = GroupText(bs, g)
  BY <1>2 DEF Regrouped, GroupText
<1>. QED  BY <1>9, <1>10, <1>11

\* The characters of so many groups, and the text they stand for.
IsChars(cs, bs, K) ==
    /\ DOMAIN cs = 1 .. 4 * K /\ Len(cs) = 4 * K
    /\ \A i \in 1 .. 4 * K : cs[i] = Alphabet[ValueAt(bs, (i - 1) \div 4, ((i - 1) % 4) + 1)]

TextOf(bs, K) == [i \in 1 .. 3 * K |-> ByteAt(bs, i)]

LEMMA CharsOfGroup ==
    ASSUME NEW bs \in Seq(Byte), NEW K \in Nat, NEW cs, IsChars(cs, bs, K), NEW g \in 0 .. K - 1
    PROVE  \A k \in 1 .. 4 : 4 * g + k \in 1 .. 4 * K /\ cs[4 * g + k] = Alphabet[ValueAt(bs, g, k)]
<1> TAKE k \in 1 .. 4
<1>1. 4 * g + k \in 1 .. 4 * K
  OBVIOUS
<1>2. (4 * g + k - 1) \div 4 = g /\ ((4 * g + k - 1) % 4) + 1 = k
  OBVIOUS
<1> DEFINE i == 4 * g + k
<1>3. i \in 1 .. 4 * K /\ (i - 1) \div 4 = g /\ ((i - 1) % 4) + 1 = k
  BY <1>1, <1>2
<1> HIDE DEF i
<1>4. cs[i] = Alphabet[ValueAt(bs, g, k)]
  BY <1>3 DEF IsChars
<1>. QED  BY <1>1, <1>4 DEF i

\* The decoder's constraints admit the text and nothing else.
LEMMA TextDecoded ==
    ASSUME NEW bs \in Seq(Byte), NEW K \in Nat, NEW cs, IsChars(cs, bs, K)
    PROVE  Decodings(cs) = {TextOf(bs, K)}
<1> DEFINE groups == 0 .. Len(cs) \div 4 - 1
           triples == [g \in groups |-> GroupDecodings(SubSeq(cs, 4 * g + 1, 4 * g + 4))]
           choices == {f \in [groups -> UNION Range(triples)] :
                         \A g \in groups : f[g] \in triples[g]}
           out(f) == [i \in 1 .. 3 * Cardinality(groups) |-> f[(i - 1) \div 3][((i - 1) % 3) + 1]]
           f0 == [g \in groups |-> GroupText(bs, g)]
<1>1. groups = 0 .. K - 1 /\ Cardinality(groups) = K
  <2>1. Len(cs) \div 4 = K
    BY DEF IsChars
  <2>2. Cardinality(0 .. K - 1) = K
    BY FS_Interval
  <2>. QED  BY <2>1, <2>2
<1>2. ASSUME NEW g \in groups
      PROVE  triples[g] = {GroupText(bs, g)}
  <2> DEFINE c == SubSeq(cs, 4 * g + 1, 4 * g + 4)
  <2>1. \A k \in 1 .. 4 : 4 * g + k \in 1 .. 4 * K /\ cs[4 * g + k] = Alphabet[ValueAt(bs, g, k)]
    <3>1. g \in 0 .. K - 1
      BY <1>1
    <3>. QED  BY <3>1, CharsOfGroup
  <2>2. \A k \in 1 .. 4 : c[k] = cs[4 * g + k]
    <3>1. g \in Nat
      BY <1>1
    <3> DEFINE a == 4 * g + 1
               b == 4 * g + 4
    <3>2. a \in Int /\ b \in Int /\ b - a + 1 = 4 /\ \A k \in 1 .. 4 : a + k - 1 = 4 * g + k
      BY <3>1
    <3>3. \A i \in a .. b : cs[i] \in {cs[j] : j \in 1 .. 4 * K}
      <4>1. \A i \in a .. b : i \in 1 .. 4 * K
        BY <1>1
      <4>. QED  BY <4>1
    <3> HIDE DEF a, b
    <3>4. \A k \in 1 .. b - a + 1 : SubSeq(cs, a, b)[k] = cs[a + k - 1]
      BY <3>2, <3>3, SubSeqProperties
    <3>. QED  BY <3>2, <3>4 DEF a, b
  <2>3. IsGroup(c, bs, g)
    BY <2>1, <2>2 DEF IsGroup
  <2> HIDE DEF c
  <2>4. GroupDecodings(c) = {GroupText(bs, g)}
    BY <2>3, GroupDecoded
  <2>. QED  BY <2>4 DEF c
<1>3. Decodings(cs) = IF \E g \in groups : triples[g] = {} THEN {} ELSE {out(f) : f \in choices}
  BY DEF Decodings
<1>a. DOMAIN triples = groups
  OBVIOUS
<1> HIDE DEF groups, triples
<1>4. choices = {f0}
  <2>1. f0 \in choices
    <3>1. \A g \in groups : GroupText(bs, g) \in UNION Range(triples)
      BY <1>2, <1>a DEF Range
    <3>. QED  BY <1>2, <3>1
  <2>2. ASSUME NEW f \in choices PROVE f = f0
    <3>1. \A g \in groups : f[g] = GroupText(bs, g)
      BY <1>2
    <3>. QED  BY <3>1
  <2>. QED  BY <2>1, <2>2
<1>5. ~\E g \in groups : triples[g] = {}
  BY <1>2
<1>6. out(f0) = TextOf(bs, K)
  <2>1. ASSUME NEW i \in 1 .. 3 * K
        PROVE  f0[(i - 1) \div 3][((i - 1) % 3) + 1] = ByteAt(bs, i)
    <3> DEFINE g == (i - 1) \div 3
               k == (i - 1) % 3
    <3>1. g \in 0 .. K - 1 /\ k \in 0 .. 2 /\ i = 3 * g + (k + 1)
      OBVIOUS
    <3> HIDE DEF g, k
    <3>2. f0[g] = GroupText(bs, g)
      BY <1>1, <3>1
    <3>3. GroupText(bs, g)[k + 1] = ByteAt(bs, 3 * g + (k + 1))
      <4>1. k \in {0, 1, 2}
        BY <3>1
      <4>2. /\ GroupText(bs, g)[1] = ByteAt(bs, 3 * g + 1) /\ GroupText(bs, g)[2] = ByteAt(bs, 3 * g + 2)
            /\ GroupText(bs, g)[3] = ByteAt(bs, 3 * g + 3)
        BY DEF GroupText
      <4>. QED  BY <4>1, <4>2
    <3>4. f0[g][k + 1] = ByteAt(bs, i)
      BY <3>1, <3>2, <3>3
    <3>. QED  BY <3>4 DEF g, k
  <2> HIDE DEF f0
  <2>. QED  BY <1>1, <2>1 DEF TextOf
<1> HIDE DEF out, f0, choices
<1>. QED  BY <1>3, <1>4, <1>5, <1>6

\* The library decodes the same text.
LEMMA LibraryDecodes ==
    ASSUME NEW bs \in Seq(Byte), NEW K \in Nat, NEW cs, IsChars(cs, bs, K)
    PROVE  base64url_decode(cs) = TextOf(bs, K)
<1>1. ASSUME NEW g \in 0 .. K - 1
      PROVE  GroupOfChars(cs, g) = GroupOfBytes(bs, g)
  <2> DEFINE v(i) == IF 4 * g + i \in DOMAIN cs THEN CharValue(cs[4 * g + i]) ELSE 0
  <2>1. \A k \in 1 .. 4 : v(k) = ValueAt(bs, g, k)
    <3> TAKE k \in 1 .. 4
    <3>1. 4 * g + k \in 1 .. 4 * K /\ cs[4 * g + k] = Alphabet[ValueAt(bs, g, k)]
      BY CharsOfGroup
    <3>2. v(k) = CharValue(Alphabet[ValueAt(bs, g, k)])
      BY <3>1 DEF IsChars
    <3>3. CharValue(Alphabet[ValueAt(bs, g, k)]) = ValueAt(bs, g, k)
      <4>1. ValueAt(bs, g, k) \in Char
        BY ValueAtType
      <4>. QED  BY <4>1, MessageAssumption DEF CharValue
    <3>. QED  BY <3>2, <3>3
  <2>2. GroupOfChars(cs, g) = ((v(1) * C + v(2)) * C + v(3)) * C + v(4)
    BY Radices DEF GroupOfChars
  <2> HIDE DEF v
  <2>3. v(1) = ValueAt(bs, g, 1) /\ v(2) = ValueAt(bs, g, 2) /\ v(3) = ValueAt(bs, g, 3) /\ v(4) = ValueAt(bs, g, 4)
    BY <2>1
  <2>. QED  BY <2>2, <2>3, GroupValues, GroupNumber DEF Regrouped
<1>2. (3 * Len(cs)) \div 4 = 3 * K
  BY DEF IsChars
<1>3. ASSUME NEW i \in 1 .. 3 * K
      PROVE  (GroupOfChars(cs, (i - 1) \div 3) \div 2 ^ (4 * Quarter * (2 - ((i - 1) % 3)))) % 2 ^ (4 * Quarter) = ByteAt(bs, i)
  <2> DEFINE g == (i - 1) \div 3
             k == (i - 1) % 3
  <2>1. g \in 0 .. K - 1 /\ k \in 0 .. 2 /\ i = 3 * g + (k + 1)
    OBVIOUS
  <2> HIDE DEF g, k
  <2> DEFINE n == GroupOfBytes(bs, g)
  <2>2. GroupOfChars(cs, g) = n
    BY <1>1, <2>1
  <2>3. Digits3(n, B, ByteAt(bs, 3 * g + 1), ByteAt(bs, 3 * g + 2), ByteAt(bs, 3 * g + 3))
    BY GroupValues
  <2> HIDE DEF n
  <2>4. (n \div 2 ^ (4 * Quarter * (2 - k))) % 2 ^ (4 * Quarter) = ByteAt(bs, 3 * g + (k + 1))
    <3>1. k \in {0, 1, 2}
      BY <2>1
    <3>2. CASE k = 0
      BY <2>3, <3>2, Shifts, Radices DEF Digits3
    <3>3. CASE k = 1
      BY <2>3, <3>3, Shifts, Radices DEF Digits3
    <3>4. CASE k = 2
      BY <2>3, <3>4, Shifts, Radices DEF Digits3
    <3>. QED  BY <3>1, <3>2, <3>3, <3>4
  <2>. QED  BY <2>1, <2>2, <2>4 DEF g, k
<1>. QED  BY <1>2, <1>3 DEF base64url_decode, TextOf

-----------------------------------------------------------------------------
(* Messages and their padding.                                             *)

Headers == OtherHeader \cup {Header}

\* A sequence that repeats an element so often, if at all.
Repeats(r, b, n, S) ==
    /\ r \in Seq(S) /\ Len(r) = IF n > 0 THEN n ELSE 0
    /\ \A i \in 1 .. n : r[i] = b

LEMMA Repeated ==
    ASSUME NEW b, NEW S, b \in S, NEW n \in Int
    PROVE  Repeats(Repeat(b, n), b, n, S)
<1> DEFINE k == IF n > 0 THEN n ELSE 0
<1>1. k \in Nat /\ 1 .. n = 1 .. k
  OBVIOUS
<1> HIDE DEF k
<1>2. Repeat(b, n) = [i \in 1 .. k |-> b]
  BY <1>1 DEF Repeat
<1>3. [i \in 1 .. k |-> b] \in Seq(S) /\ Len([i \in 1 .. k |-> b]) = k
  BY <1>1
<1>4. \A i \in 1 .. n : Repeat(b, n)[i] = b
  BY DEF Repeat
<1>. QED  BY <1>2, <1>3, <1>4 DEF k, Repeats

\* One sequence after another, of known lengths.
Joined(c, a, k, b, l, S) ==
    /\ c \in Seq(S) /\ Len(c) = k + l
    /\ \A i \in 1 .. k : c[i] = a[i]
    /\ \A i \in k + 1 .. k + l : c[i] = b[i - k]

LEMMA Join ==
    ASSUME NEW S, NEW a \in Seq(S), NEW b \in Seq(S), NEW k, NEW l, Len(a) = k, Len(b) = l
    PROVE  Joined(a \o b, a, k, b, l, S)
<1> DEFINE c == a \o b
<1>1. k \in Nat /\ l \in Nat
  OBVIOUS
<1>2. c \in Seq(S) /\ Len(c) = Len(a) + Len(b)
      /\ \A i \in 1 .. Len(a) + Len(b) : c[i] = IF i <= Len(a) THEN a[i] ELSE b[i - Len(a)]
  BY ConcatProperties
<1> HIDE DEF c
<1>3. c \in Seq(S) /\ Len(c) = k + l /\ \A i \in 1 .. k + l : c[i] = IF i <= k THEN a[i] ELSE b[i - k]
  BY <1>2
<1>4. \A i \in 1 .. k : c[i] = a[i]
  BY <1>1, <1>3
<1>5. \A i \in k + 1 .. k + l : c[i] = b[i - k]
  BY <1>1, <1>3
<1>. QED  BY <1>3, <1>4, <1>5 DEF Joined, c

LEMMA CeilDivBounds ==
    ASSUME NEW a \in Nat, NEW b \in Nat, b > 0
    PROVE  CeilDiv(a, b) \in Nat /\ CeilDiv(a, b) * b >= a /\ CeilDiv(a, b) * b < a + b
<1> DEFINE x == a + b - 1
           c == x \div b
           r == x % b
<1>1. x \in Nat
  OBVIOUS
<1>2. x = c * b + r /\ c \in Nat /\ r \in 0 .. b - 1
  <2> HIDE DEF x
  <2>. QED  BY <1>1, Divided
<1>3. CeilDiv(a, b) = c
  BY DEF CeilDiv
<1> HIDE DEF c, r
<1>4. c * b \in Nat
  BY <1>2
<1>. QED  BY <1>2, <1>3, <1>4

\* The characters of the largest payload make whole groups.
MaxGroups == MaxDecoded \div 3

LEMMA LayoutType ==
    /\ MaxGroups \in Nat /\ MaxDecoded = 3 * MaxGroups /\ max_payload_b64_len = 4 * MaxGroups
    /\ Len(Header) \in Nat /\ payload_b64_byte_offset = Len(Header) + 1
    /\ max_msg_len_bytes = Len(Header) + 1 + max_payload_b64_len
<1>1. MaxGroups \in Nat /\ MaxDecoded = 3 * MaxGroups
  BY MessageAssumption DEF MaxGroups
<1>2. Header \in Seq(Byte)
  BY MessageAssumption
<1>3. max_payload_b64_len = 4 * MaxGroups
  <2>1. Repeat(0, MaxDecoded) \in Seq(Byte) /\ Len(Repeat(0, MaxDecoded)) = MaxDecoded
    <3>1. MaxDecoded \in Nat /\ MaxDecoded > 0 /\ 0 \in Byte
      BY Radices, MessageAssumption
    <3> HIDE DEF MaxGroups
    <3>. QED  BY <3>1, Repeated DEF Repeats
  <2>2. Len(base64url_encode(Repeat(0, MaxDecoded))) = CeilDiv(4 * MaxDecoded, 3)
    BY <2>1, Encoded
  <2>3. CeilDiv(4 * (3 * MaxGroups), 3) = 4 * MaxGroups
    BY <1>1 DEF CeilDiv
  <2>. QED  BY <1>1, <2>2, <2>3 DEF max_payload_b64_len
<1>. QED  BY <1>1, <1>2, <1>3 DEF payload_b64_byte_offset, max_msg_len_bytes

\* The circuit has blocks for the longest message of the layout.
LEMMA MaxBlocksType ==
    max_blocks \in Nat /\ max_blocks * BlockBytes >= max_msg_len_bytes + LengthBytes + 1
<1> DEFINE w == 4 * Quarter
           x == max_msg_len_bytes + LengthBytes
           b == BlockBytes
<1>1. w \in Nat /\ w > 0 /\ x \in Nat /\ b \in Nat /\ b > 0
  <2>1. max_msg_len_bytes \in Nat
    BY LayoutType
  <2>2. Quarter \in Nat \ {0} /\ LengthBytes \in 1 .. BlockBytes - 1
    BY MessageAssumption
  <2>3. BlockBytes \in Nat
    BY MessageAssumption
  <2>. QED  BY <2>1, <2>2, <2>3
<1>2. max_blocks = CeilDiv(w * x + 1, w * b)
  BY DEF max_blocks
<1> HIDE DEF w, x, b
<1>3. w * x + 1 \in Nat /\ w * b \in Nat /\ w * b > 0
  BY <1>1
<1> DEFINE c == w * x + 1
           d == w * b
<1>4. c \in Nat /\ d \in Nat /\ d > 0 /\ max_blocks = CeilDiv(c, d)
  BY <1>2, <1>3
<1> HIDE DEF c, d
<1>5. max_blocks \in Nat /\ max_blocks * d >= c
  BY <1>4, CeilDivBounds
<1> DEFINE M == max_blocks
<1>6. M \in Nat /\ M * (w * b) >= w * x + 1
  BY <1>5 DEF c, d
<1> HIDE DEF M
<1>7. M * (w * b) = w * (M * b) /\ M * b \in Nat
  BY <1>1, <1>6
<1>8. M * b > x
  <2>1. SUFFICES ASSUME M * b <= x PROVE FALSE
    BY <1>1, <1>7
  <2>2. w * (M * b) <= w * x
    BY <1>1, <1>7, <2>1
  <2>. QED  BY <1>1, <1>3, <1>6, <1>7, <2>2
<1>. QED  BY <1>1, <1>5, <1>7, <1>8 DEF M, b, x

LEMMA MarkerType == Marker \in Nat /\ Marker # 0
<1>1. 4 * Quarter - 1 \in Nat
  BY MessageAssumption
<1>2. 2 ^ (4 * Quarter - 1) \in Nat /\ 2 ^ (4 * Quarter - 1) > 0
  BY <1>1, PowerType
<1>. QED  BY <1>2 DEF Marker

LEMMA LengthFieldType ==
    ASSUME NEW l \in Nat
    PROVE  LengthField(l) \in Seq(Nat) /\ Len(LengthField(l)) = LengthBytes
<1>1. LengthBytes \in Nat /\ Quarter \in Nat
  BY MessageAssumption
<1>2. ASSUME NEW i \in 1 .. LengthBytes
      PROVE  ((4 * Quarter * l) \div 2 ^ (4 * Quarter * (LengthBytes - i))) % 2 ^ (4 * Quarter) \in Nat
  <2> DEFINE a == 4 * Quarter * (LengthBytes - i)
             x == 4 * Quarter * l
             p == 2 ^ a
             r == 2 ^ (4 * Quarter)
  <2>1. a \in Nat /\ x \in Nat /\ 4 * Quarter \in Nat
    BY <1>1
  <2> HIDE DEF a, x
  <2>2. p \in Nat /\ p > 0 /\ r \in Nat /\ r > 0
    BY <2>1, PowerType
  <2> HIDE DEF p, r
  <2>3. x \div p \in Nat
    BY <2>1, <2>2, Divided
  <2>4. (x \div p) % r \in Nat
    BY <2>2, <2>3
  <2>. QED  BY <2>4 DEF a, x, p, r
<1>3. LengthField(l) \in [1 .. LengthBytes -> Nat]
  BY <1>2 DEF LengthField
<1>. QED  BY <1>1, <1>3

\* What a padded message is made of.
LEMMA Padded ==
    ASSUME NEW m \in Seq(Byte)
    PROVE  LET n == Len(m)
               N == BlockCount(n)
               s == Sha256Padded(m)
           IN  /\ N \in Nat /\ N * BlockBytes \in Nat
               /\ N * BlockBytes >= n + 1 + LengthBytes /\ N * BlockBytes < n + 1 + LengthBytes + BlockBytes
               /\ s \in Seq(Nat) /\ Len(s) = N * BlockBytes
               /\ \A i \in 1 .. n : s[i] = m[i]
               /\ s[n + 1] = Marker
               /\ \A i \in n + 2 .. N * BlockBytes - LengthBytes : s[i] = 0
<1> DEFINE n == Len(m)
           N == BlockCount(n)
           T == N * BlockBytes
           z == Repeat(0, T - n - 1 - LengthBytes)
           f == LengthField(n)
           s == Sha256Padded(m)
<1>1. /\ n \in Nat /\ BlockBytes \in Nat /\ BlockBytes > 0 /\ LengthBytes \in Nat
  BY MessageAssumption
<1>2. N \in Nat /\ T >= n + 1 + LengthBytes /\ T < n + 1 + LengthBytes + BlockBytes /\ T \in Nat
  <2>1. n + 1 + LengthBytes \in Nat
    BY <1>1
  <2> HIDE DEF n
  <2>2. N \in Nat /\ T >= n + 1 + LengthBytes /\ T < n + 1 + LengthBytes + BlockBytes
    BY <1>1, <2>1, CeilDivBounds DEF BlockCount
  <2> HIDE DEF N
  <2>. QED  BY <1>1, <2>2
<1> HIDE DEF N
<1>3. m \in Seq(Nat) /\ \A i \in 1 .. n : m[i] \in Nat
  <2>1. Byte \subseteq Nat
    BY Radices
  <2> HIDE DEF n
  <2>2. m \in Seq(Nat)
    BY <2>1, SeqMonotonic
  <2>. QED  BY <2>2 DEF n
<1>4. z \in Seq(Nat) /\ Len(z) = T - n - 1 - LengthBytes /\ \A i \in 1 .. T - n - 1 - LengthBytes : z[i] = 0
  <2> DEFINE k == T - n - 1 - LengthBytes
  <2>1. k \in Nat
    BY <1>1, <1>2
  <2> HIDE DEF k
  <2>2. Repeat(0, k) \in Seq(Nat) /\ Len(Repeat(0, k)) = k /\ \A i \in 1 .. k : Repeat(0, k)[i] = 0
    <3>1. Repeats(Repeat(0, k), 0, k, Nat)
      BY <2>1, Repeated
    <3>. QED  BY <2>1, <3>1 DEF Repeats
  <2>. QED  BY <2>2 DEF k
<1>5. f \in Seq(Nat) /\ Len(f) = LengthBytes
  BY <1>1, LengthFieldType
<1>6. s = ((m \o <<Marker>>) \o z) \o f
  BY DEF Sha256Padded, N
<1>7. <<Marker>> \in Seq(Nat) /\ Len(<<Marker>>) = 1 /\ <<Marker>>[1] = Marker
  BY MarkerType
<1> HIDE DEF s, z, f, T
<1> DEFINE u == m \o <<Marker>>
           v == u \o z
<1>8. Joined(u, m, n, <<Marker>>, 1, Nat)
  BY <1>1, <1>3, <1>7, Join
<1>9. u \in Seq(Nat) /\ Len(u) = n + 1 /\ (\A i \in 1 .. n : u[i] = m[i]) /\ u[n + 1] = Marker
  BY <1>1, <1>7, <1>8 DEF Joined
<1> DEFINE k == T - n - 1 - LengthBytes
<1> HIDE DEF u
<1>a. k \in Nat /\ n + 1 + k = T - LengthBytes
  BY <1>1, <1>2
<1>b. Len(z) = k /\ \A i \in 1 .. k : z[i] = 0
  BY <1>4
<1> HIDE DEF k
<1>10. Joined(v, u, n + 1, z, k, Nat)
  BY <1>4, <1>9, <1>b, Join
<1> HIDE DEF v
<1>11. Joined(s, v, n + 1 + k, f, LengthBytes, Nat)
  <2>1. s = v \o f
    BY <1>6 DEF v, u
  <2>2. v \in Seq(Nat) /\ Len(v) = n + 1 + k
    BY <1>10 DEF Joined
  <2>. QED  BY <1>5, <2>1, <2>2, Join
<1>c. s \in Seq(Nat) /\ Len(s) = T
  BY <1>1, <1>2, <1>11, <1>a DEF Joined
<1>12. \A i \in 1 .. n : s[i] = m[i]
  <2> TAKE i \in 1 .. n
  <2>1. i \in 1 .. n + 1 + k /\ i \in 1 .. n + 1
    BY <1>1, <1>a
  <2>. QED  BY <1>9, <1>10, <1>11, <2>1 DEF Joined
<1>13. s[n + 1] = Marker
  <2>1. n + 1 \in 1 .. n + 1 + k /\ n + 1 \in 1 .. n + 1
    BY <1>1, <1>a
  <2>. QED  BY <1>9, <1>10, <1>11, <2>1 DEF Joined
<1>14. \A i \in n + 2 .. T - LengthBytes : s[i] = 0
  <2> TAKE i \in n + 2 .. T - LengthBytes
  <2>1. i \in 1 .. n + 1 + k /\ i \in n + 1 + 1 .. n + 1 + k /\ i - (n + 1) \in 1 .. k
    BY <1>1, <1>2, <1>a
  <2>2. s[i] = v[i] /\ v[i] = z[i - (n + 1)]
    BY <1>10, <1>11, <2>1 DEF Joined
  <2>. QED  BY <1>b, <2>1, <2>2
<1>. QED  BY <1>2, <1>c, <1>12, <1>13, <1>14 DEF T, N, s

\* The buffer begins with the padded message, and is as long as the circuit's at least.
LEMMA Buffered ==
    ASSUME NEW m \in Seq(Byte), NEW junk
    PROVE  LET T == BlockCount(Len(m)) * BlockBytes
               b == Buffer(m, junk)
           IN  /\ b \in Seq(Nat \cup {junk}) /\ Len(b) >= T /\ Len(b) \in Nat
               /\ \A k \in Nat : k <= max_blocks => k * BlockBytes <= Len(b) /\ k * BlockBytes \in Nat
               /\ \A i \in 1 .. T : b[i] = Sha256Padded(m)[i]
<1> DEFINE T == BlockCount(Len(m)) * BlockBytes
           r == Repeat(junk, BufferBytes - T)
           S == Nat \cup {junk}
           s == Sha256Padded(m)
           b == Buffer(m, junk)
<1>1. s \in Seq(S) /\ Len(s) = T /\ T \in Nat
  <2>1. s \in Seq(Nat) /\ Len(s) = T /\ T \in Nat
    BY Padded
  <2>. QED  BY <2>1, SeqMonotonic
<1>2. max_blocks \in Nat /\ BlockBytes \in Nat /\ BufferBytes = max_blocks * BlockBytes /\ BufferBytes \in Nat
  BY MaxBlocksType, MessageAssumption DEF BufferBytes
<1> HIDE DEF s, T
<1>3. r \in Seq(S) /\ Len(r) = IF BufferBytes - T > 0 THEN BufferBytes - T ELSE 0
  <2>1. BufferBytes - T \in Int /\ junk \in S
    BY <1>1, <1>2
  <2>. QED  BY <2>1, Repeated DEF Repeats
<1>4. b = s \o r
  BY DEF Buffer, s, T
<1> HIDE DEF r, S, b
<1> DEFINE l == Len(r)
<1>5. Joined(b, s, T, r, l, S) /\ l \in Nat
  <2>1. l \in Nat /\ Len(s) = T /\ Len(r) = l
    BY <1>1, <1>3
  <2> HIDE DEF l
  <2>2. Joined(s \o r, s, T, r, l, S)
    BY <1>1, <1>3, <2>1, Join
  <2>. QED  BY <1>4, <2>1, <2>2
<1> HIDE DEF l
<1>6. Len(b) >= T /\ Len(b) >= BufferBytes /\ Len(b) \in Nat
  <2>1. Len(b) = T + l
    BY <1>5 DEF Joined
  <2>2. l >= BufferBytes - T
    BY <1>1, <1>2, <1>3 DEF l
  <2>. QED  BY <1>1, <1>2, <1>5, <2>1, <2>2
<1>7. b \in Seq(S) /\ \A i \in 1 .. T : b[i] = s[i]
  BY <1>5 DEF Joined
<1>8. \A k \in Nat : k <= max_blocks => k * BlockBytes <= Len(b) /\ k * BlockBytes \in Nat
  <2> TAKE k \in Nat
  <2> HAVE k <= max_blocks
  <2>1. k * BlockBytes <= max_blocks * BlockBytes /\ k * BlockBytes \in Nat
    BY <1>2
  <2>. QED  BY <1>2, <1>6, <2>1
<1>. QED  BY <1>6, <1>7, <1>8 DEF S, b, T, s

\* A token's message: the header, the separator and the payload, without a marker.
Message(m, h, cs) ==
    /\ m \in Seq(Byte) /\ Len(m) = Len(h) + 1 + Len(cs)
    /\ \A i \in 1 .. Len(h) : m[i] = h[i]
    /\ m[Len(h) + 1] = Dot
    /\ \A i \in 1 .. Len(cs) : m[Len(h) + 1 + i] = cs[i]
    /\ \A i \in 1 .. Len(m) : m[i] # Marker

LEMMA MessageMade ==
    ASSUME NEW h \in Headers, NEW bs \in Seq(Byte)
    PROVE  Message(MessageOf(h, base64url_encode(bs)), h, base64url_encode(bs))
<1> DEFINE cs == base64url_encode(bs)
           k == Len(h)
           l == Len(cs)
           u == h \o <<Dot>>
           m == MessageOf(h, cs)
<1>1. /\ h \in Seq(Byte) /\ k \in Nat /\ Dot \in Byte
      /\ \A i \in 1 .. k : h[i] # Marker
      /\ Dot # Marker
  <2>1. h \in Seq(Byte) /\ Marker \notin ToSet(h) \cup {Dot, Alphabet[0]} /\ Dot \in Byte
    BY MessageAssumption DEF Headers
  <2>2. \A i \in 1 .. k : h[i] \in ToSet(h)
    BY <2>1 DEF ToSet
  <2>. QED  BY <2>1, <2>2
<1>2. /\ cs \in Seq(Byte) /\ l \in Nat
      /\ \A i \in 1 .. l : cs[i] # Marker
  <2>1. cs \in Seq(Range(Alphabet))
    BY Encoded
  <2>2. Range(Alphabet) \subseteq Byte /\ Marker \notin Range(Alphabet)
    BY MessageAssumption DEF Range
  <2>3. cs \in Seq(Byte)
    BY <2>1, <2>2, SeqMonotonic
  <2> HIDE DEF cs
  <2>4. \A i \in 1 .. l : cs[i] \in Range(Alphabet)
    BY <2>1
  <2>. QED  BY <2>2, <2>3, <2>4
<1>3. m = u \o cs
  BY DEF MessageOf
<1> HIDE DEF cs, m
<1>4. Joined(u, h, k, <<Dot>>, 1, Byte)
  <2>1. <<Dot>> \in Seq(Byte) /\ Len(<<Dot>>) = 1
    BY <1>1
  <2>. QED  BY <1>1, <2>1, Join
<1>5. u \in Seq(Byte) /\ Len(u) = k + 1 /\ u[k + 1] = Dot /\ \A i \in 1 .. k : u[i] = h[i]
  BY <1>1, <1>4 DEF Joined
<1> HIDE DEF u
<1>6. Joined(m, u, k + 1, cs, l, Byte)
  <2>1. Joined(u \o cs, u, k + 1, cs, l, Byte)
    BY <1>2, <1>5, Join
  <2>. QED  BY <1>3, <2>1
<1> HIDE DEF k, l
<1>7. m \in Seq(Byte) /\ Len(m) = k + 1 + l
  BY <1>6 DEF Joined
<1>8. \A i \in 1 .. k : m[i] = h[i]
  <2> TAKE i \in 1 .. k
  <2>1. i \in 1 .. k + 1
    BY <1>1 DEF k
  <2>. QED  BY <1>5, <1>6, <2>1 DEF Joined
<1>9. m[k + 1] = Dot
  <2>1. k + 1 \in 1 .. k + 1
    BY <1>1
  <2>. QED  BY <1>5, <1>6, <2>1 DEF Joined
<1>10. \A i \in 1 .. l : m[k + 1 + i] = cs[i]
  <2> TAKE i \in 1 .. l
  <2> DEFINE j == k + 1 + i
  <2>2. j \in k + 1 + 1 .. k + 1 + l /\ j - (k + 1) = i
    BY <1>1, <1>2
  <2> HIDE DEF j
  <2>3. m[j] = cs[j - (k + 1)]
    BY <1>6, <2>2 DEF Joined
  <2>. QED  BY <2>2, <2>3 DEF j
<1>11. \A i \in 1 .. k + 1 + l : m[i] # Marker
  <2> TAKE i \in 1 .. k + 1 + l
  <2>1. CASE i <= k
    BY <1>1, <1>8, <2>1
  <2>2. CASE i = k + 1
    BY <1>1, <1>9, <2>2
  <2>3. CASE i > k + 1
    <3>1. i - (k + 1) \in 1 .. l /\ k + 1 + (i - (k + 1)) = i
      BY <1>1, <1>2, <2>3
    <3>2. m[i] = cs[i - (k + 1)]
      BY <1>10, <3>1
    <3>. QED  BY <1>2, <3>1, <3>2
  <2>. QED  BY <1>1, <1>2, <2>1, <2>2, <2>3
<1>. QED  BY <1>7, <1>8, <1>9, <1>10, <1>11 DEF Message, k, l, m, cs

LessThan == {ss \in Nat \X Nat : ss[1] < ss[2]}

\* A set of numbers that is not empty has a least one.
LEMMA LeastNatural ==
    ASSUME NEW T \in SUBSET Nat, T # {}
    PROVE  \E b \in T : \A c \in T : b <= c
<1>1. PICK b \in T : \A c \in T : ~(<<c, b>> \in OpToRel(<, Nat))
  BY WFMin, NatLessThanWellFounded
<1>2. OpToRel(<, Nat) = LessThan
  BY DEF OpToRel, LessThan
<1>3. \A c \in T : <<c, b>> \notin LessThan
  BY <1>1, <1>2
<1>4. \A c \in T : ~(c < b)
  <2>1. SUFFICES ASSUME NEW c \in T, c < b PROVE FALSE
    OBVIOUS
  <2>2. <<c, b>> \in Nat \X Nat /\ <<c, b>>[1] < <<c, b>>[2]
    BY <2>1
  <2>. QED  BY <1>3, <2>2 DEF LessThan
<1>5. \A c \in T : c \in Nat /\ b \in Nat
  OBVIOUS
<1>. QED  BY <1>4, <1>5

\* A number is less than two to its power, so the range check's width exists.
LEMMA BelowPower == \A n \in Nat : n < 2 ^ n
<1>1. SUFFICES ASSUME \E n \in Nat : ~(n < 2 ^ n) PROVE FALSE
  OBVIOUS
<1> DEFINE S == {n \in Nat : ~(n < 2 ^ n)}
<1>2. PICK n \in S : \A k \in S : n <= k
  BY <1>1, LeastNatural
<1>3. n # 0
  BY PowerType
<1>4. n - 1 \in Nat /\ n - 1 < 2 ^ (n - 1)
  BY <1>2, <1>3
<1>5. 2 ^ n = 2 ^ (n - 1) * 2
  <2>1. 2 ^ ((n - 1) + 1) = 2 ^ (n - 1) * 2 ^ 1
    BY <1>4, PowerOfSum
  <2>2. (n - 1) + 1 = n
    BY <1>2
  <2>. QED  BY <2>1, <2>2
<1>6. 2 ^ (n - 1) \in Nat
  BY <1>4, PowerType
<1>. QED  BY <1>2, <1>4, <1>5, <1>6

LEMMA RangeType ==
    /\ RangeBits \in Nat
    /\ \A d \in Nat : d < BlockBytes => d \in Values(RangeBits)
    /\ \A d \in Values(RangeBits) : d \in Nat
<1> DEFINE T == BufferBytes
           S == {n \in Nat : 2 ^ n >= T}
<1>1. T \in Nat /\ BlockBytes \in Nat /\ BlockBytes > 0 /\ T >= BlockBytes
  <2>1. max_blocks \in Nat /\ BlockBytes \in Nat /\ BlockBytes > 0 /\ max_blocks * BlockBytes > 0
    BY MaxBlocksType, LayoutType, MessageAssumption
  <2>2. max_blocks >= 1
    BY <2>1
  <2> DEFINE M == max_blocks
             b == BlockBytes
  <2>3. M \in Nat /\ b \in Nat /\ M >= 1 /\ T = M * b
    BY <2>1, <2>2 DEF BufferBytes
  <2> HIDE DEF M, b, T
  <2>4. M * b >= b
    BY <2>3
  <2>. QED  BY <2>1, <2>3, <2>4 DEF b
<1> HIDE DEF T
<1>2. T \in S
  BY <1>1, BelowPower, PowerType
<1>3. PICK n \in S : \A k \in S : n <= k
  BY <1>2, LeastNatural
<1>4. n \in 0 .. T /\ 2 ^ n >= T /\ \A c \in 0 .. n - 1 : 2 ^ c < T
  <2>1. n <= T
    BY <1>2, <1>3
  <2>2. ASSUME NEW c \in 0 .. n - 1 PROVE 2 ^ c < T
    <3>1. c \in Nat /\ c \notin S
      BY <1>3
    <3>2. 2 ^ c \in Nat
      BY <3>1, PowerType
    <3>. QED  BY <1>1, <3>1, <3>2
  <2>. QED  BY <1>1, <1>3, <2>1, <2>2
<1> DEFINE p == CHOOSE b \in 0 .. T : 2 ^ b >= T /\ \A c \in 0 .. b - 1 : 2 ^ c < T
<1>5. p \in 0 .. T /\ 2 ^ p >= T
  BY <1>4
<1>6. RangeBits = p + 1
  BY DEF RangeBits, T
<1> HIDE DEF p
<1>7. p \in Nat /\ RangeBits \in Nat
  BY <1>1, <1>5, <1>6
<1>8. 2 ^ RangeBits = 2 ^ p * 2 /\ 2 ^ p \in Nat
  <2>1. 2 ^ (p + 1) = 2 ^ p * 2 ^ 1
    BY <1>7, PowerOfSum
  <2>. QED  BY <1>6, <1>7, <2>1, PowerType
<1>9. 2 ^ RangeBits \in Nat /\ 2 ^ RangeBits > BlockBytes
  BY <1>1, <1>5, <1>8
<1>. QED  BY <1>1, <1>7, <1>9 DEF Values

\* The digest fixes the blocks, and the marker the length: whatever a prover claims.
LEMMA LengthIsRead ==
    ASSUME NEW m \in Seq(Byte), \A i \in 1 .. Len(m) : m[i] # Marker,
           NEW junk, NEW n \in 1 .. max_blocks, NEW len,
           SelectedDigest(Buffer(m, junk), n) = Sha256(m),
           constrain_sha256_padding(Buffer(m, junk), len, n)
    PROVE  len = Len(m)
<1> DEFINE b == Buffer(m, junk)
           s == Sha256Padded(m)
           T == BlockCount(Len(m)) * BlockBytes
           U == n * BlockBytes
           l == Len(m)
<1>1. /\ T \in Nat /\ l \in Nat
      /\ s \in Seq(Nat) /\ Len(s) = T
      /\ \A i \in 1 .. l : s[i] # Marker
      /\ \A i \in l + 2 .. T - LengthBytes : s[i] = 0
  <2>1. T \in Nat /\ s \in Seq(Nat) /\ Len(s) = T
    BY Padded
  <2>2. \A i \in 1 .. l : s[i] = m[i]
    BY Padded
  <2>3. \A i \in l + 2 .. T - LengthBytes : s[i] = 0
    BY Padded
  <2> HIDE DEF s, T
  <2>. QED  BY <2>1, <2>2, <2>3
<1>2. /\ b \in Seq(Nat \cup {junk})
      /\ \A i \in 1 .. T : b[i] = s[i]
      /\ U \in Nat /\ U <= Len(b)
  <2>1. n \in Nat /\ n <= max_blocks
    BY MaxBlocksType
  <2>. QED  BY <2>1, Buffered
<1>3. SubSeq(b, 1, U) = s
  BY DEF SelectedDigest, Sha256
<1>4. MarkerSelected(b, len) /\ U - len - (LengthBytes + 1) \in Values(RangeBits)
  BY DEF constrain_sha256_padding
<1> HIDE DEF b, s, T, U
<1>5. U = T
  <2>1. \A i \in 1 .. U : b[i] \in Nat \cup {junk}
    BY <1>2
  <2>2. Len(SubSeq(b, 1, U)) = IF 1 <= U THEN U - 1 + 1 ELSE 0
    BY <1>2, <2>1, SubSeqProperties
  <2>. QED  BY <1>1, <1>2, <1>3, <2>2
<1>6. len \in Nat /\ b[len + 1] = Marker
  <2>1. BufferBytes \in Nat
    BY MaxBlocksType, MessageAssumption DEF BufferBytes
  <2>. QED  BY <1>4, <2>1 DEF MarkerSelected
<1>7. len + 1 <= T - LengthBytes /\ LengthBytes \in Nat
  <2>1. U - len - (LengthBytes + 1) \in Nat /\ LengthBytes \in Nat
    BY <1>4, RangeType, MessageAssumption
  <2>. QED  BY <1>1, <1>5, <1>6, <2>1
<1>8. s[len + 1] = Marker
  BY <1>1, <1>2, <1>6, <1>7
<1>9. ~(len + 1 \in 1 .. l)
  BY <1>1, <1>8
<1>10. ~(len + 1 \in l + 2 .. T - LengthBytes)
  BY <1>1, <1>8, MarkerType
<1>. QED  BY <1>1, <1>6, <1>7, <1>9, <1>10 DEF l

\* The header constraint admits the one header: no header has a separator in it.
LEMMA HeaderIsRead ==
    ASSUME NEW h \in Headers, NEW cs, NEW m, Message(m, h, cs), Len(cs) \in Nat,
           payload_b64_byte_offset <= Len(m),
           NEW b, \A i \in 1 .. Len(m) : b[i] = m[i] /\ b[i] \in Nat,
           constrain_jwt_header(b)
    PROVE  h = Header
<1> DEFINE H == Header
           o == Len(H) + 1
           k == Len(h)
           r == H \o <<Dot>>
<1>1. /\ H \in Seq(Byte) /\ h \in Seq(Byte) /\ Dot \in Byte
      /\ \A i \in 1 .. Len(H) : H[i] # Dot
      /\ \A i \in 1 .. k : h[i] # Dot
  BY MessageAssumption DEF Headers, ToSet
<1>2. o = payload_b64_byte_offset /\ Len(H) \in Nat /\ k \in Nat /\ Len(m) = k + 1 + Len(cs)
  BY <1>1, LayoutType DEF Message
<1>3. Joined(r, H, Len(H), <<Dot>>, 1, Byte)
  <2>1. <<Dot>> \in Seq(Byte) /\ Len(<<Dot>>) = 1
    BY <1>1
  <2>. QED  BY <1>1, <2>1, Join
<1>4. (\A i \in 1 .. Len(H) : r[i] = H[i]) /\ r[Len(H) + 1] = Dot
  BY <1>2, <1>3 DEF Joined
<1>5. SubSeq(b, 1, o) = r
  BY <1>2 DEF constrain_jwt_header
<1> HIDE DEF r
<1>6. \A i \in 1 .. o : r[i] = m[i]
  <2>1. \A i \in 1 .. o : b[i] \in Nat /\ b[i] = m[i]
    BY <1>2
  <2>2. o \in Int
    BY <1>2
  <2> HIDE DEF o
  <2>3. \A i \in 1 .. o - 1 + 1 : SubSeq(b, 1, o)[i] = b[1 + i - 1]
    BY <2>1, <2>2, SubSeqProperties
  <2>4. \A i \in 1 .. o : SubSeq(b, 1, o)[i] = b[i]
    BY <2>2, <2>3
  <2>. QED  BY <1>5, <2>1, <2>4
<1>7. \A i \in 1 .. k : m[i] = h[i]
  BY DEF Message
<1>8. m[k + 1] = Dot
  BY DEF Message
<1> HIDE DEF H, k
<1>9. k = Len(H)
  <2>1. CASE k < Len(H)
    <3>1. k + 1 \in 1 .. Len(H) /\ k + 1 \in 1 .. o
      BY <1>2, <2>1
    <3>. QED  BY <1>1, <1>4, <1>6, <1>8, <3>1
  <2>2. CASE k > Len(H)
    <3>1. o \in 1 .. k /\ o \in 1 .. o
      BY <1>2, <2>2
    <3>2. h[o] = Dot
      BY <1>4, <1>6, <1>7, <3>1
    <3>. QED  BY <1>1, <3>1, <3>2
  <2>. QED  BY <1>2, <2>1, <2>2
<1>10. \A i \in 1 .. Len(H) : h[i] = H[i]
  BY <1>2, <1>4, <1>6, <1>7, <1>9
<1>. QED  BY <1>1, <1>9, <1>10 DEF H, k

\* The decoder's window holds the payload's characters and 'A's after them.
LEMMA WindowIsRead ==
    ASSUME NEW bs \in Seq(Byte), NEW m, Message(m, Header, base64url_encode(bs)),
           Len(bs) <= MaxDecoded,
           NEW b, \A i \in 1 .. Len(m) : b[i] = m[i]
    PROVE  IsChars(DecoderInput(b, Len(m) - payload_b64_byte_offset), bs, MaxGroups)
<1> DEFINE cs == base64url_encode(bs)
           l == Len(cs)
           o == payload_b64_byte_offset
           w == DecoderInput(b, Len(m) - o)
           K == 4 * MaxGroups
<1>1. K \in Nat /\ max_payload_b64_len = K /\ o = Len(Header) + 1 /\ o \in Nat /\ MaxGroups \in Nat
  BY LayoutType
<1>2. l \in Nat /\ l = CeilDiv(4 * Len(bs), 3)
      /\ \A i \in 1 .. l : cs[i] = Alphabet[ValueAt(bs, (i - 1) \div 4, ((i - 1) % 4) + 1)]
  BY Encoded
<1>3. Len(m) = o + l /\ \A i \in 1 .. l : m[o + i] = cs[i]
  BY <1>1 DEF Message
<1> HIDE DEF cs, l, o
<1>4. DOMAIN w = 1 .. K /\ Len(w) = K
  <2>1. w = [i \in 1 .. K |-> IF IsActive(i - 1, Len(m) - o) THEN b[o + i] ELSE Alphabet[0]]
    BY <1>1 DEF DecoderInput, o
  <2>. QED  BY <1>1, <2>1
<1>5. \A i \in 1 .. K : w[i] = IF i <= l THEN b[o + i] ELSE Alphabet[0]
  <2> TAKE i \in 1 .. K
  <2>1. w[i] = IF i - 1 < Len(m) - o THEN b[o + i] ELSE Alphabet[0]
    BY <1>1 DEF DecoderInput, IsActive, o
  <2>2. Len(m) - o = l
    BY <1>1, <1>2, <1>3
  <2>. QED  BY <1>1, <1>2, <2>1, <2>2
<1> HIDE DEF w
<1>6. \A i \in 1 .. K : w[i] = Alphabet[ValueAt(bs, (i - 1) \div 4, ((i - 1) % 4) + 1)]
  <2> TAKE i \in 1 .. K
  <2>1. CASE i <= l
    <3>1. i \in 1 .. l /\ o + i \in 1 .. Len(m)
      BY <1>1, <1>2, <1>3, <2>1
    <3>. QED  BY <1>2, <1>3, <1>5, <2>1, <3>1
  <2>2. CASE i > l
    <3> DEFINE g == (i - 1) \div 4
               k == ((i - 1) % 4) + 1
    <3>1. g \in Nat /\ k \in 1 .. 4 /\ i = 4 * g + k
      BY <1>1, Positions
    <3> HIDE DEF g, k
    <3>2. 4 * g + k > CeilDiv(4 * Len(bs), 3)
      BY <1>2, <2>2, <3>1
    <3>3. ValueAt(bs, g, k) = 0
      BY <3>1, <3>2, PastTheEnd
    <3>4. w[i] = Alphabet[0]
      BY <1>1, <1>2, <1>5, <2>2
    <3>. QED  BY <3>3, <3>4 DEF g, k
  <2>. QED  BY <1>1, <1>2, <2>1, <2>2
<1>. QED  BY <1>1, <1>4, <1>6 DEF IsChars, w, K, o

\* The text of the layout's groups: the payload, and zeros after it.
LEMMA TextIsPayload ==
    ASSUME NEW bs \in Seq(Byte), Len(bs) <= MaxDecoded
    PROVE  TextOf(bs, MaxGroups) = bs \o Repeat(0, MaxDecoded - Len(bs))
<1> DEFINE k == Len(bs)
           d == MaxDecoded - Len(bs)
           z == Repeat(0, d)
           r == bs \o z
           t == TextOf(bs, MaxGroups)
<1>1. k \in Nat /\ d \in Nat /\ k + d = 3 * MaxGroups /\ 3 * MaxGroups \in Nat
  BY LayoutType
<1>2. Repeats(z, 0, d, Byte)
  <2>1. 0 \in Byte /\ d \in Int
    BY <1>1, Radices
  <2> HIDE DEF d
  <2>. QED  BY <2>1, Repeated
<1> HIDE DEF d, z
<1>3. z \in Seq(Byte) /\ Len(z) = d /\ \A i \in 1 .. d : z[i] = 0
  BY <1>1, <1>2 DEF Repeats
<1>4. Joined(r, bs, k, z, d, Byte)
  BY <1>3, Join
<1> HIDE DEF r
<1>5. r \in Seq(Byte) /\ Len(r) = 3 * MaxGroups
  BY <1>1, <1>4 DEF Joined
<1>6. t = [i \in 1 .. 3 * MaxGroups |-> ByteAt(bs, i)]
  BY DEF TextOf
<1>7. \A i \in 1 .. 3 * MaxGroups : r[i] = ByteAt(bs, i)
  <2> TAKE i \in 1 .. 3 * MaxGroups
  <2>1. CASE i <= k
    <3>1. i \in 1 .. k /\ i \in DOMAIN bs
      BY <1>1, <2>1
    <3>. QED  BY <1>4, <3>1 DEF Joined, ByteAt
  <2>2. CASE i > k
    <3>1. i \in k + 1 .. k + d /\ i - k \in 1 .. d /\ i \notin DOMAIN bs
      BY <1>1, <2>2
    <3>2. r[i] = z[i - k]
      BY <1>4, <3>1 DEF Joined
    <3>. QED  BY <1>3, <3>1, <3>2 DEF ByteAt
  <2>. QED  BY <1>1, <2>1, <2>2
<1>. QED  BY <1>5, <1>6, <1>7 DEF r, z, d

\* Bytes decoded and characters encoded fit the layout together.
LEMMA LayoutFits ==
    ASSUME NEW bs \in Seq(Byte)
    PROVE  /\ Len(base64url_encode(bs)) \in Nat
           /\ Len(base64url_encode(bs)) <= max_payload_b64_len <=> Len(bs) <= MaxDecoded
           /\ Len(base64url_decode(base64url_encode(bs))) = Len(bs)
<1> DEFINE cs == base64url_encode(bs)
           n == Len(bs)
           c == CeilDiv(4 * n, 3)
<1>1. n \in Nat
  OBVIOUS
<1>2. Len(cs) = c
  BY Encoded
<1>3. Len(base64url_decode(cs)) = n
  <2>1. (3 * c) \div 4 = n /\ c \in Nat
    BY <1>1, Lengths
  <2>2. (3 * Len(cs)) \div 4 = n
    BY <1>2, <2>1
  <2> HIDE DEF cs, n
  <2>3. DOMAIN base64url_decode(cs) = 1 .. n
    BY <2>2 DEF base64url_decode
  <2>4. Len(base64url_decode(cs)) = (3 * Len(cs)) \div 4
    BY <1>1, <2>2 DEF base64url_decode
  <2>. QED  BY <2>2, <2>4
<1>4. c \in Nat /\ (c <= 4 * MaxGroups <=> n <= 3 * MaxGroups)
  <2>1. MaxGroups \in Nat
    BY LayoutType
  <2> HIDE DEF n
  <2>2. c \in Nat /\ c * 3 >= 4 * n /\ c * 3 < 4 * n + 3
    <3> DEFINE x == 4 * n
    <3>1. x \in Nat /\ 3 \in Nat /\ 3 > 0
      BY <1>1
    <3> HIDE DEF x
    <3>2. CeilDiv(x, 3) \in Nat /\ CeilDiv(x, 3) * 3 >= x /\ CeilDiv(x, 3) * 3 < x + 3
      BY <3>1, CeilDivBounds
    <3>. QED  BY <3>2 DEF x
  <2> HIDE DEF c
  <2>. QED  BY <1>1, <2>1, <2>2
<1>. QED  BY <1>2, <1>3, <1>4, LayoutType

\* What the proof of a token shows, whatever its prover claims.
LEMMA BaseIsRead ==
    ASSUME NEW h \in Headers, NEW bs \in Payload, jwt.header = h, jwt.payload = base64url_encode(bs),
           NEW junk, NEW len, NEW n, NEW text,
           BaseHolds(Buffer(MessageOf(h, base64url_encode(bs)), junk), len, n, text)
    PROVE  /\ h = Header /\ len = Len(MessageOf(h, base64url_encode(bs)))
           /\ text = bs \o Repeat(0, MaxDecoded - Len(bs))
<1> DEFINE cs == base64url_encode(bs)
           m == MessageOf(h, cs)
           b == Buffer(m, junk)
<1>1. bs \in Seq(Byte)
  BY MessageAssumption
<1>2. Message(m, h, cs)
  BY <1>1, MessageMade
<1>3. Len(cs) \in Nat /\ (Len(cs) <= max_payload_b64_len <=> Len(bs) <= MaxDecoded)
  BY <1>1, LayoutFits
<1>4. /\ n \in 1 .. max_blocks /\ SelectedDigest(b, n) = Sha256(m)
      /\ constrain_sha256_padding(b, len, n) /\ constrain_jwt_header(b)
      /\ len - payload_b64_byte_offset \in 0 .. max_payload_b64_len
      /\ text \in Decodings(DecoderInput(b, len - payload_b64_byte_offset))
  BY DEF BaseHolds
<1> HIDE DEF cs, m
<1>5. m \in Seq(Byte) /\ Len(m) \in Nat /\ \A i \in 1 .. Len(m) : m[i] # Marker
  BY <1>2 DEF Message
<1>6. len = Len(m)
  BY <1>4, <1>5, LengthIsRead
<1>7. \A i \in 1 .. Len(m) : b[i] = m[i] /\ b[i] \in Nat
  <2> DEFINE T == BlockCount(Len(m)) * BlockBytes
  <2>1. T \in Nat /\ T >= Len(m) + 1 + LengthBytes
    BY <1>5, Padded
  <2>2. \A i \in 1 .. Len(m) : Sha256Padded(m)[i] = m[i]
    BY <1>5, Padded
  <2>3. \A i \in 1 .. T : b[i] = Sha256Padded(m)[i]
    BY <1>5, Buffered
  <2>4. LengthBytes \in Nat
    BY MessageAssumption
  <2> HIDE DEF T, b
  <2>5. \A i \in 1 .. Len(m) : m[i] \in Nat
    BY <1>5, Radices
  <2>6. \A i \in 1 .. Len(m) : i \in 1 .. T
    BY <1>5, <2>1, <2>4
  <2>. QED  BY <2>2, <2>3, <2>5, <2>6
<1> HIDE DEF b
<1>8. payload_b64_byte_offset \in Nat /\ max_payload_b64_len \in Nat
  BY LayoutType
<1>9. payload_b64_byte_offset <= Len(m) /\ Len(m) - payload_b64_byte_offset <= max_payload_b64_len
  BY <1>4, <1>5, <1>6, <1>8
<1>10. h = Header
  BY <1>2, <1>3, <1>4, <1>7, <1>9, HeaderIsRead
<1>11. Len(m) - payload_b64_byte_offset = Len(cs)
  BY <1>2, <1>3, <1>10, LayoutType DEF Message
<1>12. Len(bs) <= MaxDecoded
  BY <1>3, <1>9, <1>11
<1>13. IsChars(DecoderInput(b, len - payload_b64_byte_offset), bs, MaxGroups)
  <2>1. Message(m, Header, base64url_encode(bs))
    BY <1>2, <1>10 DEF cs
  <2>2. \A i \in 1 .. Len(m) : b[i] = m[i]
    BY <1>7
  <2>. QED  BY <1>1, <1>6, <1>12, <2>1, <2>2, WindowIsRead
<1>14. text = TextOf(bs, MaxGroups)
  BY <1>1, <1>4, <1>13, LayoutType, TextDecoded
<1>. QED  BY <1>1, <1>6, <1>10, <1>12, <1>14, TextIsPayload DEF m, cs

-----------------------------------------------------------------------------
(* The specification.                                                      *)

\* Tokens are what an issuer signed, and a credential in memory is the token's
\* and of a length the layout has room for.
IInv ==
    /\ jwt = None => cred = None /\ base = None
    /\ jwt # None => \E h \in Headers, bs \in Payload : jwt = Token(h, bs)
    /\ cred # None => /\ cred.header = jwt.header /\ cred.payload = jwt.payload
                      /\ Len(jwt.bytes) <= MaxDecoded
    /\ SignedTextIsRead

LEMMA InitIInv == Init => IInv
BY DEF Init, IInv, SignedTextIsRead

LEMMA NextIInv == IInv /\ [Next]_vars => IInv'
<1> SUFFICES ASSUME IInv, [Next]_vars PROVE IInv'
  OBVIOUS
<1> USE DEF Headers
<1>1. CASE Build
  <2>1. PICK bs \in Payload : /\ Len(bs) <= MaxDecoded /\ jwt' = Token(Header, bs)
                              /\ cred' = [header |-> Header, payload |-> base64url_encode(bs)]
                              /\ base' = base /\ jwt = None
    BY <1>1 DEF Build
  <2>2. jwt' # None /\ base' = None
    BY <2>1, NoneAssumption DEF IInv
  <2>3. jwt'.header = Header /\ jwt'.payload = base64url_encode(bs) /\ jwt'.bytes = bs
    BY <2>1 DEF Token
  <2>4. cred'.header = Header /\ cred'.payload = base64url_encode(bs)
    BY <2>1
  <2>. QED  BY <2>1, <2>2, <2>3, <2>4 DEF IInv, SignedTextIsRead
<1>2. CASE SignElsewhere
  <2>1. PICK h \in Headers, bs \in Payload : jwt' = Token(h, bs)
    BY <1>2 DEF SignElsewhere
  <2>2. jwt' # None /\ base' = None /\ cred' = None
    BY <1>2, <2>1, NoneAssumption DEF IInv, SignElsewhere
  <2>. QED  BY <2>1, <2>2 DEF IInv, SignedTextIsRead
<1>3. CASE Load
  <2>1. /\ jwt # None /\ jwt' = jwt /\ base' = base
        /\ cred' = [header |-> jwt.header, payload |-> jwt.payload]
        /\ Len(base64url_decode(jwt.payload)) <= MaxDecoded
    BY <1>3 DEF Load
  <2>2. PICK h \in Headers, bs \in Payload : jwt = Token(h, bs)
    BY <2>1 DEF IInv
  <2>3. jwt.payload = base64url_encode(bs) /\ jwt.bytes = bs /\ bs \in Seq(Byte)
    BY <2>2, MessageAssumption DEF Token
  <2>4. Len(bs) <= MaxDecoded
    BY <2>1, <2>3, LayoutFits
  <2>5. cred'.header = jwt.header /\ cred'.payload = jwt.payload
    BY <2>1
  <2>. QED  BY <2>1, <2>3, <2>4, <2>5 DEF IInv, SignedTextIsRead
<1>4. CASE ProveBase
  <2>1. /\ cred # None /\ jwt' = jwt /\ cred' = cred /\ FilledHolds
        /\ base' = Shown(Len(MessageOf(cred.header, cred.payload)), FilledText)
    BY <1>4 DEF ProveBase
  <2>2. jwt # None /\ cred.header = jwt.header /\ cred.payload = jwt.payload
    BY <2>1 DEF IInv
  <2>3. PICK h \in Headers, bs \in Payload : jwt = Token(h, bs)
    BY <2>2 DEF IInv
  <2>4. jwt.header = h /\ jwt.payload = base64url_encode(bs) /\ jwt.bytes = bs
    BY <2>3 DEF Token
  <2> DEFINE m == MessageOf(h, base64url_encode(bs))
  <2>5. BaseHolds(Buffer(m, 0), Len(m), BlockCount(Len(m)), FilledText)
    BY <2>1, <2>2, <2>4 DEF FilledHolds
  <2>6. h = Header /\ FilledText = bs \o Repeat(0, MaxDecoded - Len(bs))
    BY <2>4, <2>5, BaseIsRead
  <2>7. base'.len = Len(MessageOf(jwt.header, jwt.payload)) /\ base'.text = FilledText
    BY <2>1, <2>2 DEF Shown
  <2>8. SignedTextIsRead'
    BY <2>1, <2>4, <2>6, <2>7 DEF SignedTextIsRead
  <2>. QED  BY <2>1, <2>2, <2>8 DEF IInv
<1>5. CASE ProveAny
  <2>1. jwt # None /\ jwt' = jwt /\ cred' = cred
    BY <1>5 DEF ProveAny
  <2>2. PICK h \in Headers, bs \in Payload : jwt = Token(h, bs)
    BY <2>1 DEF IInv
  <2>3. jwt.header = h /\ jwt.payload = base64url_encode(bs) /\ jwt.bytes = bs
    BY <2>2 DEF Token
  <2> DEFINE m == MessageOf(h, base64url_encode(bs))
  <2>4. \E junk, len, n, text : BaseHolds(Buffer(m, junk), len, n, text) /\ base' = Shown(len, text)
    BY <1>5, <2>3 DEF ProveAny
  <2>5. PICK junk, len, n, text : BaseHolds(Buffer(m, junk), len, n, text) /\ base' = Shown(len, text)
    BY <2>4
  <2>6. h = Header /\ len = Len(m) /\ text = bs \o Repeat(0, MaxDecoded - Len(bs))
    BY <2>3, <2>5, BaseIsRead
  <2>7. base'.len = len /\ base'.text = text
    BY <2>5 DEF Shown
  <2>8. SignedTextIsRead'
    BY <2>1, <2>3, <2>6, <2>7 DEF SignedTextIsRead
  <2>. QED  BY <2>1, <2>8 DEF IInv
<1>6. CASE UNCHANGED vars
  BY <1>6 DEF IInv, SignedTextIsRead, vars
<1>. QED  BY <1>1, <1>2, <1>3, <1>4, <1>5, <1>6 DEF Next

\* Every proof reads the text the issuer signed, to its end and no further,
\* from a token under the one header: for payloads of any bytes and length, any
\* block and byte size, and any length, block count and left-over bytes a prover
\* claims (jwt_base's padding and payload constraints).
THEOREM SignedText == Spec => []SignedTextIsRead
<1>1. IInv => SignedTextIsRead
  BY DEF IInv
<1>. QED  BY <1>1, InitIInv, NextIInv, PTL DEF Spec

\* The values prove_jwt_base fills in satisfy every constraint.
LEMMA FilledSatisfies ==
    ASSUME NEW bs \in Payload, Len(bs) <= MaxDecoded,
           jwt.header = Header, jwt.payload = base64url_encode(bs),
           cred.header = Header, cred.payload = base64url_encode(bs)
    PROVE  FilledHolds
<1> DEFINE cs == base64url_encode(bs)
           m == MessageOf(Header, cs)
           b == Buffer(m, 0)
           s == Sha256Padded(m)
           l == Len(m)
           N == BlockCount(l)
           T == N * BlockBytes
           o == payload_b64_byte_offset
           M == max_blocks
           K == 4 * MaxGroups
<1>1. bs \in Seq(Byte)
  BY MessageAssumption
<1>2. Message(m, Header, cs)
  BY <1>1, MessageMade DEF Headers
<1>3. Len(cs) \in Nat /\ Len(cs) <= K /\ K \in Nat /\ max_payload_b64_len = K
      /\ o \in Nat /\ o = Len(Header) + 1 /\ Len(Header) \in Nat /\ MaxGroups \in Nat
  BY <1>1, LayoutFits, LayoutType
<1>4. \A i \in 1 .. Len(cs) : cs[i] = Alphabet[ValueAt(bs, (i - 1) \div 4, ((i - 1) % 4) + 1)]
  BY <1>1, Encoded
<1>5. Len(cs) = CeilDiv(4 * Len(bs), 3)
  BY <1>1, Encoded
<1>6. base64url_encode(bs) = cs
  OBVIOUS
<1> HIDE DEF cs, m
<1>7. m \in Seq(Byte) /\ l = o + Len(cs) /\ l \in Nat
  BY <1>2, <1>3 DEF Message
<1>8. /\ N \in Nat /\ T \in Nat /\ T >= l + 1 + LengthBytes /\ T < l + 1 + LengthBytes + BlockBytes
      /\ s \in Seq(Nat) /\ Len(s) = T
  BY <1>7, Padded
<1>9. (\A i \in 1 .. l : s[i] = m[i]) /\ s[l + 1] = Marker
  BY <1>7, Padded
<1>10. /\ b \in Seq(Nat \cup {0}) /\ T <= Len(b) /\ Len(b) \in Nat
       /\ \A i \in 1 .. T : b[i] = s[i]
  BY <1>7, Buffered
<1>11. /\ M \in Nat /\ M * BlockBytes >= l + 1 + LengthBytes /\ BufferBytes = M * BlockBytes /\ M * BlockBytes \in Nat
       /\ BlockBytes \in Nat /\ BlockBytes > 0 /\ LengthBytes \in Nat
  <2>1. max_msg_len_bytes = o + K
    BY <1>3, LayoutType
  <2>2. M \in Nat /\ M * BlockBytes >= max_msg_len_bytes + LengthBytes + 1
    BY MaxBlocksType
  <2>3. BlockBytes \in Nat /\ BlockBytes > 0 /\ LengthBytes \in Nat
    BY MessageAssumption
  <2> HIDE DEF M
  <2>4. M * BlockBytes \in Nat
    BY <2>2, <2>3
  <2>. QED  BY <1>3, <1>7, <2>1, <2>2, <2>3, <2>4 DEF BufferBytes, M
<1> HIDE DEF b, s, l, o, K
<1>12. N \in 1 .. M
  <2> DEFINE B8 == BlockBytes
  <2>1. N * B8 > 0 /\ N * B8 < M * B8 + B8 /\ B8 \in Nat /\ B8 > 0 /\ N \in Nat /\ M \in Nat
    <3> DEFINE V == M * B8
    <3>1. V \in Nat /\ V >= l + 1 + LengthBytes
      BY <1>11
    <3> HIDE DEF T, V
    <3>2. T > 0 /\ T < V + B8
      BY <1>7, <1>8, <1>11, <3>1
    <3>. QED  BY <1>8, <1>11, <3>2 DEF T, V
  <2> HIDE DEF N, M, B8
  <2>2. N # 0
    BY <2>1
  <2>3. ASSUME N > M PROVE FALSE
    <3>1. N * B8 >= (M + 1) * B8
      BY <2>1, <2>3
    <3>2. (M + 1) * B8 = M * B8 + B8
      BY <2>1
    <3>3. N * B8 \in Nat /\ M * B8 \in Nat
      BY <2>1
    <3>. QED  BY <2>1, <3>1, <3>2, <3>3
  <2>. QED  BY <2>1, <2>2, <2>3
<1>13. T <= BufferBytes
  <2>1. N \in Nat /\ M \in Nat /\ N <= M /\ BlockBytes \in Nat
    BY <1>8, <1>11, <1>12
  <2> HIDE DEF N, M
  <2>2. N * BlockBytes <= M * BlockBytes
    BY <2>1
  <2>. QED  BY <1>11, <2>2
<1>14. SelectedDigest(b, N) = Sha256(m)
  <2> DEFINE d == SubSeq(b, 1, T)
  <2>1. \A i \in 1 .. T : b[i] \in Nat
    BY <1>8, <1>10
  <2> HIDE DEF T
  <2>2. d \in Seq(Nat) /\ Len(d) = (IF 1 <= T THEN T - 1 + 1 ELSE 0) /\ \A i \in 1 .. T - 1 + 1 : d[i] = b[1 + i - 1]
    BY <1>8, <2>1, SubSeqProperties
  <2>3. \A i \in 1 .. T : d[i] = b[i]
    BY <1>8, <2>2
  <2> HIDE DEF d
  <2>4. Len(d) = T
    BY <1>8, <2>2
  <2>5. d = s
    BY <1>8, <1>10, <2>2, <2>3, <2>4, SMTT(30)
  <2>. QED  BY <2>5 DEF SelectedDigest, Sha256, d, T, s
<1> HIDE DEF N, M
<1> HIDE DEF T
<1>15. constrain_sha256_padding(b, l, N)
  <2>1. l \in 0 .. BufferBytes - 1 /\ l + 1 \in 1 .. T
    BY <1>7, <1>8, <1>11, <1>13, SMTT(30)
  <2>2. b[l + 1] = Marker
    BY <1>9, <1>10, <2>1
  <2>3. T - l - (LengthBytes + 1) \in Nat /\ T - l - (LengthBytes + 1) < BlockBytes
    <3>1. BlockBytes \in Nat /\ LengthBytes \in Nat
      BY <1>11
    <3>2. l \in Nat /\ T \in Nat /\ T >= l + 1 + LengthBytes /\ T < l + 1 + LengthBytes + BlockBytes
      BY <1>7, <1>8
    <3>. QED  BY <3>1, <3>2
  <2>4. l + BlockBytes + LengthBytes - T \in Nat /\ l + BlockBytes + LengthBytes - T < BlockBytes
    <3>1. BlockBytes \in Nat /\ LengthBytes \in Nat
      BY <1>11
    <3>2. l \in Nat /\ T \in Nat /\ T >= l + 1 + LengthBytes /\ T < l + 1 + LengthBytes + BlockBytes
      BY <1>7, <1>8
    <3>. QED  BY <3>1, <3>2
  <2>. QED  BY <2>1, <2>2, <2>3, <2>4, RangeType DEF constrain_sha256_padding, MarkerSelected, T
<1>16. \A i \in 1 .. l : b[i] = m[i] /\ b[i] \in Nat
  <2>1. \A i \in 1 .. l : i \in 1 .. T
    BY <1>7, <1>8, <1>11
  <2>2. \A i \in 1 .. l : s[i] \in Nat
    BY <1>8, <2>1
  <2>. QED  BY <1>9, <1>10, <2>1, <2>2
<1>17. constrain_jwt_header(b)
  <2> DEFINE r == Header \o <<Dot>>
             d == SubSeq(b, 1, o)
             k == Len(Header)
  <2>1. Header \in Seq(Byte) /\ Dot \in Byte /\ <<Dot>> \in Seq(Byte) /\ Len(<<Dot>>) = 1
    BY MessageAssumption
  <2>2. Joined(r, Header, k, <<Dot>>, 1, Byte)
    BY <2>1, Join
  <2>3. r \in Seq(Byte) /\ Len(r) = o /\ r[o] = Dot /\ \A i \in 1 .. k : r[i] = Header[i]
    BY <1>3, <2>2 DEF Joined
  <2>4. \A i \in 1 .. o : r[i] = m[i]
    <3>1. (\A i \in 1 .. k : m[i] = Header[i]) /\ m[k + 1] = Dot
      BY <1>2 DEF Message
    <3>. QED  BY <1>3, <2>3, <3>1
  <2>5. \A i \in 1 .. o : i \in 1 .. l
    BY <1>3, <1>7
  <2>6. \A i \in 1 .. o : b[i] = m[i] /\ b[i] \in Nat
    BY <1>16, <2>5
  <2> HIDE DEF r
  <2>7. d \in Seq(Nat) /\ Len(d) = (IF 1 <= o THEN o - 1 + 1 ELSE 0) /\ \A i \in 1 .. o - 1 + 1 : d[i] = b[1 + i - 1]
    BY <1>3, <2>6, SubSeqProperties
  <2> HIDE DEF d
  <2>8. Len(d) = o /\ \A i \in 1 .. o : d[i] = b[i]
    BY <1>3, <2>7
  <2>9. d = r
    <3>1. \A i \in 1 .. o : d[i] = r[i]
      BY <2>4, <2>6, <2>8
    <3>2. d \in Seq(Nat) /\ r \in Seq(Byte)
      BY <2>3, <2>7
    <3>. QED  BY <2>3, <2>8, <3>1, <3>2
  <2>. QED  BY <2>9 DEF constrain_jwt_header, d, r, o
<1>18. IsChars(DecoderInput(b, l - o), bs, MaxGroups)
  <2>1. \A i \in 1 .. Len(m) : b[i] = m[i]
    BY <1>16 DEF l
  <2>. QED  BY <1>1, <1>2, <1>6, <2>1, WindowIsRead DEF l, o
<1>19. FilledText = TextOf(bs, MaxGroups)
  <2> DEFINE j == Len(cs)
             d == K - Len(cs)
             z == Repeat(Alphabet[0], d)
             w == cs \o z
             S == Byte
  <2>1. j \in Nat /\ d \in Nat /\ j + d = K
    BY <1>3
  <2>2. Alphabet[0] \in S /\ cs \in Seq(S)
    <3>1. 0 \in Char /\ Range(Alphabet) \subseteq Byte
      BY MessageAssumption, Radices DEF Range
    <3>2. cs \in Seq(Range(Alphabet))
      BY <1>1, Encoded DEF cs
    <3>. QED  BY <3>1, <3>2, SeqMonotonic, MessageAssumption
  <2> HIDE DEF d, S, j
  <2>3. Repeats(z, Alphabet[0], d, S)
    BY <2>1, <2>2, Repeated
  <2> HIDE DEF z
  <2>4. z \in Seq(S) /\ Len(z) = d /\ \A i \in 1 .. d : z[i] = Alphabet[0]
    BY <2>1, <2>3 DEF Repeats
  <2>5. Joined(w, cs, j, z, d, S)
    BY <2>2, <2>4, Join DEF j
  <2> HIDE DEF w
  <2>6. w \in Seq(S) /\ Len(w) = K
    BY <2>1, <2>5 DEF Joined
  <2>7. \A i \in 1 .. K : w[i] = Alphabet[ValueAt(bs, (i - 1) \div 4, ((i - 1) % 4) + 1)]
    <3> TAKE i \in 1 .. K
    <3>1. CASE i <= j
      <4>1. i \in 1 .. j
        BY <1>3, <2>1, <3>1
      <4>2. w[i] = cs[i]
        BY <2>5, <4>1 DEF Joined
      <4>. QED  BY <1>4, <4>1, <4>2 DEF j
    <3>2. CASE i > j
      <4> DEFINE g == (i - 1) \div 4
                 k == ((i - 1) % 4) + 1
      <4>1. g \in Nat /\ k \in 1 .. 4 /\ i = 4 * g + k
        BY <1>3, Positions
      <4> HIDE DEF g, k
      <4>2. 4 * g + k > CeilDiv(4 * Len(bs), 3)
        BY <1>5, <2>1, <3>2, <4>1 DEF j
      <4>3. ValueAt(bs, g, k) = 0
        BY <1>1, <4>1, <4>2, PastTheEnd
      <4>4. i \in j + 1 .. j + d /\ i - j \in 1 .. d
        BY <1>3, <2>1, <3>2
      <4>5. w[i] = Alphabet[0]
        BY <2>4, <2>5, <4>4 DEF Joined
      <4>. QED  BY <4>3, <4>5 DEF g, k
    <3>. QED  BY <1>3, <2>1, <3>1, <3>2
  <2>8. IsChars(w, bs, MaxGroups)
    BY <2>6, <2>7 DEF IsChars, K
  <2>9. FilledText = base64url_decode(w)
    BY <1>3, <1>6 DEF FilledText, w, z, d, K
  <2>. QED  BY <1>1, <1>3, <2>8, <2>9, LibraryDecodes
<1>20. FilledText \in Decodings(DecoderInput(b, l - o))
  BY <1>1, <1>3, <1>18, <1>19, TextDecoded
<1>21. l - o \in 0 .. max_payload_b64_len
  BY <1>3, <1>7
<1>22. BaseHolds(b, l, N, FilledText)
  BY <1>6, <1>12, <1>14, <1>15, <1>17, <1>20, <1>21 DEF BaseHolds, m, M, o
<1>. QED  BY <1>6, <1>22 DEF FilledHolds, m, b, l, N, cs

\* A credential of a token under the one header can always be proved: the
\* library's padding, decoding and filling satisfy jwt_base's constraints for
\* payloads of every length the layout has room for.
THEOREM CredentialProvable == Spec => []CredentialCanBeProved
<1>1. IInv => CredentialCanBeProved
  <2> SUFFICES ASSUME IInv, cred # None, cred.header = Header PROVE FilledHolds
    BY DEF CredentialCanBeProved
  <2>1. jwt # None /\ jwt.header = Header /\ cred.payload = jwt.payload /\ Len(jwt.bytes) <= MaxDecoded
    BY DEF IInv
  <2>2. PICK h \in Headers, bs \in Payload : jwt = Token(h, bs)
    BY <2>1 DEF IInv
  <2>3. jwt.payload = base64url_encode(bs) /\ jwt.bytes = bs
    BY <2>2 DEF Token
  <2>. QED  BY <2>1, <2>3, FilledSatisfies
<1>. QED  BY <1>1, InitIInv, NextIInv, PTL DEF Spec

=============================================================================
