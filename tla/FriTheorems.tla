----------------------------- MODULE FriTheorems -----------------------------
(***************************************************************************)
(* The query rounds of FRI accept the openings of the committed trees and  *)
(* nothing else, and a compressed proof is restored to what it was, for    *)
(* trees, caps, reductions, queries and fields of every size.              *)
(* Hashes are symbolic, so collisions are left out.  The argument:         *)
(*   - the buffer of digests holds, below every node, its subtrees in the  *)
(*     order fill_subtree writes them, so that the arithmetic of prove     *)
(*     reads off the sibling of every node on the way up (BufferLaid,      *)
(*     PathIs);                                                            *)
(*   - a climb along given siblings meets the entry of the cap exactly if  *)
(*     the leaf and the siblings are the tree's (ClimbMeets), for a climb  *)
(*     by an index and for one by bits;                                    *)
(*   - indices, taken apart into bits or divided by arities, name the same *)
(*     nodes (MiddleBits, IndexIs, BitsOfIndices);                         *)
(*   - so a round verifies exactly if it is the opening (RoundAccepts,     *)
(*     RoundAcceptsInCircuit), which is what the verdicts of IInv say.     *)
(* And a proof that is compressed is restored:                             *)
(*   - a sibling is left out of a path exactly if it is on the way up of   *)
(*     some query or an earlier one comes the same way, and restoring,     *)
(*     layer by layer, has it by the time it is needed (PathsCompressed,   *)
(*     FillKeeps, PathsRestored, TreeRestored);                            *)
(*   - an element is inferred for exactly the cosets that a query comes to *)
(*     first, in the order in which they are completed, and it is the      *)
(*     value left out of them (InferredIs, CompleteKeeps, CosetsAre);      *)
(*   - so every round is restored (RoundsRestored).                        *)
(***************************************************************************)
EXTENDS FriQueries, FiniteSetTheorems, FunctionTheorems, SequenceTheorems,
        WellFoundedInduction, TLAPS

-----------------------------------------------------------------------------
(* Numbers.                                                                *)

LessThan == {ss \in Nat \X Nat : ss[1] < ss[2]}

\* A set of numbers that is not empty has a least one.
LEMMA LeastNatural ==
    ASSUME NEW T \in SUBSET Nat, T # {}
    PROVE  \E b \in T : \A c \in T : b <= c
<1>1. PICK b \in T : \A c \in T : ~(<<c, b>> \in OpToRel(<, Nat))
  BY WFMin, NatLessThanWellFounded
<1>2. OpToRel(<, Nat) = LessThan
  BY DEF OpToRel, LessThan
<1>3. \A c \in T : <<c, b>> \notin LessThan
  BY <1>1, <1>2
<1>4. \A c \in T : ~(c < b)
  <2>1. SUFFICES ASSUME NEW c \in T, c < b PROVE FALSE
    OBVIOUS
  <2>2. <<c, b>> \in Nat \X Nat /\ <<c, b>>[1] < <<c, b>>[2]
    BY <2>1
  <2>. QED  BY <1>3, <2>2 DEF LessThan
<1>5. \A c \in T : c \in Nat /\ b \in Nat
  OBVIOUS
<1>. QED  BY <1>4, <1>5

\* What holds at zero and is handed on holds up to the end.
LEMMA Counting ==
    ASSUME NEW n \in Nat, NEW T, 0 \in T, \A i \in 1 .. n : i - 1 \in T => i \in T
    PROVE  \A i \in 0 .. n : i \in T
<1> DEFINE Off == {i \in 0 .. n : i \notin T}
<1>1. SUFFICES ASSUME Off # {} PROVE FALSE
  OBVIOUS
<1>2. Off \in SUBSET Nat
  OBVIOUS
<1> HIDE DEF Off
<1>3. PICK i \in Off : \A k \in Off : i <= k
  BY <1>1, <1>2, LeastNatural
<1> USE DEF Off
<1>4. i \in 1 .. n /\ i - 1 \in 0 .. n
  BY <1>3
<1>5. i - 1 \notin Off
  BY <1>3, <1>4
<1>. QED  BY <1>3, <1>4, <1>5

\* A power of two counts the subsets of a set.
LEMMA PowerCounts ==
    ASSUME NEW n \in Nat, NEW S, IsFiniteSet(S), Cardinality(S) = n
    PROVE  IsFiniteSet(SUBSET S) /\ Cardinality(SUBSET S) = 2 ^ n
BY FS_SUBSET

LEMMA PowerType ==
    ASSUME NEW n \in Nat
    PROVE  2 ^ n \in Nat /\ 2 ^ n > 0
<1>1. IsFiniteSet(1 .. n) /\ Cardinality(1 .. n) = n
  BY FS_Interval
<1>2. IsFiniteSet(SUBSET (1 .. n)) /\ Cardinality(SUBSET (1 .. n)) = 2 ^ n
  BY <1>1, PowerCounts
<1>3. SUBSET (1 .. n) # {}
  OBVIOUS
<1>. QED  BY <1>2, <1>3, FS_CardinalityType, FS_EmptySet

\* Subsets of two disjoint sets are pairs of subsets.
LEMMA PowerOfSum ==
    ASSUME NEW a \in Nat, NEW b \in Nat
    PROVE  2 ^ (a + b) = 2 ^ a * 2 ^ b
<1> DEFINE A == 1 .. a
           B == (a + 1) .. (a + b)
           f == [s \in SUBSET (A \cup B) |-> <<s \cap A, s \cap B>>]
<1>1. IsFiniteSet(A) /\ Cardinality(A) = a /\ IsFiniteSet(B) /\ Cardinality(B) = b
  BY FS_Interval
<1>2. A \cup B = 1 .. (a + b) /\ A \cap B = {}
  OBVIOUS
<1>3. IsFiniteSet(A \cup B) /\ Cardinality(A \cup B) = a + b
  <2>1. IsFiniteSet(1 .. (a + b)) /\ Cardinality(1 .. (a + b)) = a + b
    <3>1. 1 \in Int /\ a + b \in Int /\ a + b >= 0
      OBVIOUS
    <3> DEFINE n == a + b
    <3> HIDE DEF n
    <3>2. IsFiniteSet(1 .. n) /\ Cardinality(1 .. n) = n
      BY <3>1, FS_Interval DEF n
    <3>. QED  BY <3>2 DEF n
  <2>. QED  BY <1>2, <2>1
<1> HIDE DEF A, B
<1>4. f \in Bijection(SUBSET (A \cup B), (SUBSET A) \X (SUBSET B))
  <2>1. f \in [SUBSET (A \cup B) -> (SUBSET A) \X (SUBSET B)]
    OBVIOUS
  <2>2. ASSUME NEW s \in SUBSET (A \cup B), NEW t \in SUBSET (A \cup B), f[s] = f[t]
        PROVE  s = t
    <3>1. s \cap A = t \cap A /\ s \cap B = t \cap B
      BY <2>2
    <3>. QED  BY <3>1
  <2>3. ASSUME NEW p \in (SUBSET A) \X (SUBSET B)
        PROVE  \E s \in SUBSET (A \cup B) : f[s] = p
    <3>1. PICK x \in SUBSET A, y \in SUBSET B : p = <<x, y>>
      OBVIOUS
    <3>2. x \cup y \in SUBSET (A \cup B) /\ (x \cup y) \cap A = x /\ (x \cup y) \cap B = y
      BY <1>2
    <3>. QED  BY <3>1, <3>2
  <2>. QED  BY <2>1, <2>2, <2>3 DEF Bijection, Injection, Surjection, IsInjective
<1>5. Cardinality(SUBSET (A \cup B)) = Cardinality((SUBSET A) \X (SUBSET B))
  <2>1. IsFiniteSet(SUBSET (A \cup B))
    BY <1>3, FS_SUBSET
  <2> HIDE DEF f
  <2>. QED  BY <1>4, <2>1, FS_Bijection DEF ExistsBijection
<1>6. Cardinality((SUBSET A) \X (SUBSET B)) = Cardinality(SUBSET A) * Cardinality(SUBSET B)
  BY <1>1, FS_SUBSET, FS_Product
<1>7. /\ Cardinality(SUBSET A) = 2 ^ a /\ Cardinality(SUBSET B) = 2 ^ b
      /\ Cardinality(SUBSET (A \cup B)) = 2 ^ (a + b)
  <2>1. a + b \in Nat
    OBVIOUS
  <2>. QED  BY <1>1, <1>3, <2>1, PowerCounts
<1>. QED  BY <1>5, <1>6, <1>7

\* A quotient and a remainder are what they are built from.
LEMMA DivUnique ==
    ASSUME NEW k \in Nat, NEW T \in Nat, T > 0, NEW r \in Nat, r < T, NEW a \in Nat, a = k * T + r
    PROVE  a \div T = k /\ a % T = r
<1>1. a = T * (a \div T) + (a % T) /\ a % T \in 0 .. T - 1 /\ a \div T \in Nat
  OBVIOUS
<1> DEFINE x == a \div T
           y == a % T
<1>2. T * x + y = k * T + r /\ y \in 0 .. T - 1 /\ x \in Nat
  BY <1>1
<1> HIDE DEF x, y
<1>3. T * (x - k) = r - y
  BY <1>2
<1>4. x - k < 1
  <2>1. SUFFICES ASSUME x - k >= 1 PROVE FALSE
    BY <1>2
  <2>2. T * (x - k) >= T
    BY <1>2, <2>1
  <2>. QED  BY <1>2, <1>3, <2>2
<1>5. x - k > -1
  <2>1. SUFFICES ASSUME x - k <= -1 PROVE FALSE
    BY <1>2
  <2>2. T * (x - k) <= -T
    BY <1>2, <2>1
  <2>. QED  BY <1>2, <1>3, <2>2
<1>6. x = k /\ y = r
  BY <1>2, <1>3, <1>4, <1>5
<1>. QED  BY <1>6 DEF x, y

\* Quotient and remainder.
LEMMA Divided ==
    ASSUME NEW a \in Nat, NEW T \in Nat, T > 0
    PROVE  /\ a = (a \div T) * T + (a % T) /\ a \div T \in Nat /\ a % T \in 0 .. T - 1
           /\ \A U \in Nat : a < U * T => a \div T \in 0 .. U - 1
<1> DEFINE x == a \div T
           y == a % T
<1>1. a = x * T + y /\ x \in Nat /\ y \in 0 .. T - 1
  OBVIOUS
<1> HIDE DEF x, y
<1>2. ASSUME NEW U \in Nat, a < U * T
      PROVE  x \in 0 .. U - 1
  <2>1. SUFFICES ASSUME x >= U PROVE FALSE
    BY <1>1
  <2>2. x * T >= U * T
    BY <1>1, <2>1
  <2>3. x * T \in Nat /\ U * T \in Nat
    BY <1>1
  <2>. QED  BY <1>1, <1>2, <2>2, <2>3
<1>. QED  BY <1>1, <1>2 DEF x, y

LEMMA Doubling ==
    ASSUME NEW n \in Nat
    PROVE  2 ^ n \in Nat /\ 2 ^ n >= 1 /\ 2 ^ (n + 1) = 2 * 2 ^ n
<1>1. 2 ^ n \in Nat /\ 2 ^ n > 0
  BY PowerType
<1>2. \A b \in Nat : 2 ^ (n + b) = 2 ^ n * 2 ^ b
  BY PowerOfSum
<1>3. 2 ^ (n + 1) = 2 ^ n * 2 ^ 1
  BY <1>2, 1 \in Nat, Zenon
<1>4. 2 ^ 1 = 2
  OBVIOUS
<1>5. 2 ^ n * 2 = 2 * 2 ^ n
  BY <1>1
<1>. QED  BY <1>1, <1>3, <1>4, <1>5

LEMMA PowerZero == 2 ^ 0 = 1
OBVIOUS

\* Dividing once by a product is dividing by one factor after the other.
LEMMA DivTwice ==
    ASSUME NEW a \in Nat, NEW T \in Nat, T > 0, NEW U \in Nat, U > 0
    PROVE  (a \div T) \div U = a \div (T * U) /\ (a \div T) % U = (a % (T * U)) \div T
<1> DEFINE x == a \div T
           y == a % T
           z == x \div U
           w == x % U
<1>1. a = x * T + y /\ x \in Nat /\ y \in 0 .. T - 1
  BY Divided
<1> HIDE DEF x, y
<1>2. x = z * U + w /\ z \in Nat /\ w \in 0 .. U - 1
  BY <1>1, Divided
<1> HIDE DEF z, w
<1>3. T * U \in Nat /\ T * U > 0
  OBVIOUS
<1> DEFINE V == T * U
           r == w * T + y
<1>4. r \in Nat /\ r < V
  <2>1. w * T <= (U - 1) * T /\ w * T \in Nat
    BY <1>2
  <2>2. (U - 1) * T = V - T
    OBVIOUS
  <2>. QED  BY <1>1, <2>1, <2>2, <1>3
<1>5. a = z * V + r
  <2>1. x * T = (z * U) * T + w * T
    BY <1>2, <1>1
  <2>2. (z * U) * T = z * V
    BY <1>2
  <2>3. z * V \in Int /\ w * T \in Int
    BY <1>2, <1>3
  <2> HIDE DEF V
  <2>. QED  BY <1>1, <2>1, <2>2, <2>3
<1> HIDE DEF V, r
<1>6. V \in Nat /\ V > 0
  BY <1>3 DEF V
<1>7. a \div V = z /\ a % V = r
  BY <1>2, <1>4, <1>5, <1>6, DivUnique
<1>8. r \div T = w
  <2>1. r = w * T + y /\ y \in Nat /\ y < T /\ w \in Nat
    BY <1>1, <1>2 DEF r
  <2>. QED  BY <1>4, <2>1, DivUnique
<1>. QED  BY <1>7, <1>8 DEF V, z, w, x

-----------------------------------------------------------------------------
(* Trees.                                                                  *)

IsFlattening(f, ss, n) ==
    f = [i \in 1 .. n |-> IF i = 1 THEN ss[i] ELSE f[i - 1] \o ss[i]]

\* FlattenSeq is defined by such a function.
LEMMA FlatteningExists ==
    ASSUME NEW ss, NEW n \in Nat
    PROVE  \E f : IsFlattening(f, ss, n)
<1> DEFINE Without == {m \in Nat : ~\E f : IsFlattening(f, ss, m)}
<1>1. SUFFICES ASSUME n \in Without PROVE FALSE
  OBVIOUS
<1>2. PICK m \in Without : \A k \in Without : m <= k
  <2>1. Without \in SUBSET Nat /\ Without # {}
    BY <1>1
  <2> HIDE DEF Without
  <2>. QED  BY <2>1, LeastNatural
<1>3. CASE m = 0
  <2>1. IsFlattening([k \in 1 .. 0 |-> ss[k]], ss, 0)
    BY DEF IsFlattening
  <2>. QED  BY <1>2, <1>3, <2>1
<1>4. CASE m # 0
  <2>1. m - 1 \in Nat /\ m - 1 \notin Without
    BY <1>2, <1>4
  <2>2. PICK f : IsFlattening(f, ss, m - 1)
    BY <2>1
  <2> DEFINE g == [k \in 1 .. m |-> IF k < m THEN f[k] ELSE IF m = 1 THEN ss[m] ELSE f[m - 1] \o ss[m]]
  <2>3. \A k \in 1 .. m : g[k] = IF k = 1 THEN ss[k] ELSE g[k - 1] \o ss[k]
    <3> TAKE k \in 1 .. m
    <3>1. CASE k < m
      <4>1. k \in 1 .. m - 1 /\ (k = 1 \/ (k - 1 \in 1 .. m /\ k - 1 < m))
        BY <2>1, <3>1
      <4>2. f[k] = IF k = 1 THEN ss[k] ELSE f[k - 1] \o ss[k]
        BY <2>2, <4>1 DEF IsFlattening
      <4>. QED  BY <3>1, <4>1, <4>2
    <3>2. CASE k = m
      <4>1. k = 1 \/ (k - 1 \in 1 .. m /\ k - 1 < m)
        BY <2>1, <3>2
      <4>. QED  BY <2>1, <3>2, <4>1
    <3>. QED  BY <2>1, <3>1, <3>2
  <2>4. g = [k \in 1 .. m |-> g[k]]
    OBVIOUS
  <2> HIDE DEF g
  <2>5. IsFlattening(g, ss, m)
    BY <2>3, <2>4 DEF IsFlattening
  <2>. QED  BY <1>2, <2>5
<1>. QED  BY <1>2, <1>3, <1>4

\* A sequence of a length.
Sized(a, k, S) == k \in Nat /\ a \in Seq(S) /\ Len(a) = k

\* A sequence followed by another.
Joined(u, a, b, k, l, S) ==
    /\ Sized(u, k + l, S)
    /\ \A i \in 1 .. k : u[i] = a[i]
    /\ \A i \in 1 .. l : u[k + i] = b[i]

\* Two sequences laid one after the other keep their entries in order.
LEMMA Joining ==
    ASSUME NEW S, NEW a, NEW b, NEW k, NEW l, Sized(a, k, S), Sized(b, l, S)
    PROVE  Joined(a \o b, a, b, k, l, S)
<1> USE DEF Sized
<1>1. a \o b \in Seq(S) /\ Len(a \o b) = k + l /\ k + l \in Nat
  OBVIOUS
<1>2. \A i \in 1 .. k + l : (a \o b)[i] = IF i <= k THEN a[i] ELSE b[i - k]
  OBVIOUS
<1>3. ASSUME NEW i \in 1 .. k PROVE (a \o b)[i] = a[i]
  BY <1>2
<1>4. ASSUME NEW i \in 1 .. l PROVE (a \o b)[k + i] = b[i]
  <2>1. k + i \in 1 .. k + l /\ ~(k + i <= k) /\ (k + i) - k = i
    OBVIOUS
  <2>. QED  BY <1>2, <2>1
<1>. QED  BY <1>1, <1>3, <1>4 DEF Joined

\* A sequence holds n parts of l elements, the first of them first.
Holds(t, ss, n, l, S) ==
    /\ t \in Seq(S) /\ Len(t) = n * l
    /\ \A c \in 1 .. n : \A j \in 1 .. l : (c - 1) * l + j \in 1 .. n * l /\ t[(c - 1) * l + j] = ss[c][j]

\* A row of equal blocks is extended by one more block.
LEMMA HoldsGrows ==
    ASSUME NEW S, NEW ss, NEW n \in Nat, NEW l \in Nat, NEW t, Holds(t, ss, n, l, S),
           ss[n + 1] \in Seq(S), Len(ss[n + 1]) = l
    PROVE  Holds(t \o ss[n + 1], ss, n + 1, l, S)
<1> DEFINE k == n * l
           b == ss[n + 1]
           u == t \o b
<1>1. k \in Nat /\ (n + 1) * l = k + l
  OBVIOUS
<1>2. t \in Seq(S) /\ Len(t) = k /\ b \in Seq(S) /\ Len(b) = l
  BY DEF Holds
<1>3. \A c \in 1 .. n : \A j \in 1 .. l : (c - 1) * l + j \in 1 .. k /\ t[(c - 1) * l + j] = ss[c][j]
  BY DEF Holds
<1>4. ((n + 1) - 1) * l = k
  OBVIOUS
<1> HIDE DEF k, b
<1>5. /\ u \in Seq(S) /\ Len(u) = k + l
      /\ \A i \in 1 .. k : u[i] = t[i]
      /\ \A i \in 1 .. l : u[k + i] = b[i]
  <2>1. Sized(t, k, S) /\ Sized(b, l, S)
    BY <1>1, <1>2 DEF Sized
  <2>2. Joined(u, t, b, k, l, S)
    BY <2>1, Joining
  <2> HIDE DEF u
  <2>. QED  BY <2>2 DEF Joined, Sized
<1> HIDE DEF u
<1>6. ASSUME NEW c \in 1 .. n + 1, NEW j \in 1 .. l
      PROVE  (c - 1) * l + j \in 1 .. k + l /\ u[(c - 1) * l + j] = ss[c][j]
  <2>1. CASE c = n + 1
    <3>1. (c - 1) * l + j = k + j
      BY <1>4, <2>1
    <3>2. k + j \in 1 .. k + l
      BY <1>1
    <3>. QED  BY <1>5, <2>1, <3>1, <3>2 DEF b
  <2>2. CASE c # n + 1
    <3>1. c \in 1 .. n
      BY <2>2
    <3> DEFINE p == (c - 1) * l + j
    <3>2. p \in 1 .. k /\ t[p] = ss[c][j]
      BY <1>3, <3>1
    <3> HIDE DEF p
    <3>3. p \in 1 .. k + l
      BY <1>1, <3>2
    <3>. QED  BY <1>5, <3>2, <3>3 DEF p
  <2>. QED  BY <2>1, <2>2
<1>. QED  BY <1>1, <1>5, <1>6 DEF Holds, u, b

\* Flattened, blocks of one length lie one after the other.
LEMMA Flattened ==
    ASSUME NEW S, NEW n \in Nat, n >= 1, NEW l \in Nat, NEW ss \in [1 .. n -> Seq(S)],
           \A c \in 1 .. n : Len(ss[c]) = l
    PROVE  Holds(FlattenSeq(ss), ss, n, l, S)
<1>1. Len(ss) = n
  OBVIOUS
<1> DEFINE f == CHOOSE g : IsFlattening(g, ss, n)
<1>2. IsFlattening(f, ss, n)
  BY FlatteningExists
<1>3. FlattenSeq(ss) = f[n]
  BY <1>1 DEF FlattenSeq, IsFlattening
<1> HIDE DEF f
<1>4. \A i \in 1 .. n : f[i] = IF i = 1 THEN ss[i] ELSE f[i - 1] \o ss[i]
  BY <1>2 DEF IsFlattening
<1> DEFINE T == {i \in 0 .. n : i = 0 \/ Holds(f[i], ss, i, l, S)}
<1>5. 0 \in T
  OBVIOUS
<1>6. ASSUME NEW i \in 1 .. n, i - 1 \in T PROVE i \in T
  <2>1. ss[i] \in Seq(S) /\ Len(ss[i]) = l
    OBVIOUS
  <2>2. CASE i = 1
    <3>1. f[1] = ss[1]
      BY <1>4, <2>2
    <3>2. 1 * l = l
      OBVIOUS
    <3>3. \A c \in 1 .. 1 : \A j \in 1 .. l : c = 1 /\ (c - 1) * l + j = j
      OBVIOUS
    <3>4. Holds(f[1], ss, 1, l, S)
      BY <2>1, <2>2, <3>1, <3>2, <3>3 DEF Holds
    <3>. QED  BY <2>2, <3>4
  <2>3. CASE i # 1
    <3> DEFINE k == i - 1
    <3>1. k \in Nat /\ i = k + 1 /\ k # 0
      BY <2>3
    <3>2. Holds(f[k], ss, k, l, S)
      BY <1>6, <3>1
    <3> HIDE DEF k
    <3>3. f[i] = f[k] \o ss[k + 1]
      BY <1>4, <2>3, <3>1 DEF k
    <3>4. ss[k + 1] \in Seq(S) /\ Len(ss[k + 1]) = l
      BY <2>1, <3>1
    <3>5. Holds(f[k] \o ss[k + 1], ss, k + 1, l, S)
      BY <3>1, <3>2, <3>4, HoldsGrows
    <3>6. Holds(f[i], ss, i, l, S)
      BY <3>1, <3>3, <3>5, Zenon
    <3>. QED  BY <3>6
  <2>. QED  BY <2>2, <2>3
<1> HIDE DEF T
<1>7. \A i \in 0 .. n : i \in T
  BY <1>5, <1>6, Counting
<1>8. n \in T /\ n # 0
  BY <1>7
<1>. QED  BY <1>3, <1>8 DEF T

\* Two subtrees under a node.
Parent(l, r) ==
    [ digests |-> l.digests \o <<l.root, r.root>> \o r.digests,
      root    |-> TwoToOne(l.root, r.root) ]

Level(g, leaves, height, h) ==
    [k \in 0 .. 2 ^ (height - h) - 1 |->
        IF h = 0
        THEN [digests |-> <<>>, root |-> LeafHash(leaves[k + 1])]
        ELSE LET l == g[2 * k]
                 r == g[2 * k + 1]
             IN  [ digests |-> l.digests \o <<l.root, r.root>> \o r.digests,
                   root    |-> TwoToOne(l.root, r.root) ]]

IsGrowing(f, leaves, height, n) ==
    f = [h \in 0 .. n |-> Level(f[h - 1], leaves, height, h)]

\* Subtrees is such a function.
LEMMA GrowingExists ==
    ASSUME NEW leaves, NEW height, NEW n \in Nat
    PROVE  \E f : IsGrowing(f, leaves, height, n)
<1> DEFINE With == {m \in Nat : \E f : IsGrowing(f, leaves, height, m)}
<1>0. \A x, y : Level(x, leaves, height, 0) = Level(y, leaves, height, 0)
  BY DEF Level
<1>1. 0 \in With
  <2> DEFINE g == [h \in 0 .. 0 |-> Level(0, leaves, height, 0)]
  <2>1. \A h \in 0 .. 0 : Level(0, leaves, height, 0) = Level(g[h - 1], leaves, height, h)
    BY <1>0
  <2>2. g = [h \in 0 .. 0 |-> Level(g[h - 1], leaves, height, h)]
    BY <2>1
  <2> HIDE DEF g
  <2>. QED  BY <2>2 DEF IsGrowing
<1>2. ASSUME NEW m \in 1 .. n, m - 1 \in With PROVE m \in With
  <2>1. PICK f : IsGrowing(f, leaves, height, m - 1)
    BY <1>2
  <2> DEFINE step(e, k) == Level(e[k - 1], leaves, height, k)
             g == [k \in 0 .. m |-> IF k < m THEN f[k] ELSE step(f, m)]
  <2>2. \A k \in 0 .. m - 1 : f[k] = step(f, k)
    BY <2>1 DEF IsGrowing
  <2>3. \A k \in 0 .. m : g[k] = step(g, k)
    <3> TAKE k \in 0 .. m
    <3>1. k = 0 \/ (k - 1 \in 0 .. m /\ k - 1 < m /\ k # 0)
      OBVIOUS
    <3>2. CASE k = 0
      <4>1. 0 \in 0 .. m - 1 /\ 0 < m /\ 0 \in 0 .. m
        OBVIOUS
      <4>2. g[0] = step(f, 0)
        BY <2>2, <4>1
      <4>3. step(f, 0) = step(g, 0)
        BY <1>0
      <4>. QED  BY <3>2, <4>2, <4>3
    <3>3. CASE k # 0 /\ k < m
      <4>1. k \in 0 .. m - 1 /\ k - 1 \in 0 .. m /\ k - 1 < m
        BY <3>3
      <4>2. g[k - 1] = f[k - 1] /\ g[k] = f[k]
        BY <3>3, <4>1
      <4>. QED  BY <2>2, <4>1, <4>2
    <3>4. CASE k # 0 /\ k = m
      <4>1. k - 1 \in 0 .. m /\ k - 1 < m
        BY <3>4
      <4>2. g[k - 1] = f[k - 1] /\ g[k] = step(f, k)
        BY <3>4, <4>1
      <4>. QED  BY <4>2
    <3>. QED  BY <3>2, <3>3, <3>4
  <2>4. g = [k \in 0 .. m |-> g[k]]
    OBVIOUS
  <2> HIDE DEF g
  <2>5. IsGrowing(g, leaves, height, m)
    BY <2>3, <2>4 DEF IsGrowing
  <2>. QED  BY <2>5
<1> HIDE DEF With
<1>3. \A m \in 0 .. n : m \in With
  BY <1>1, <1>2, Counting
<1>4. n \in With
  BY <1>3
<1>. QED  BY <1>4 DEF With

\* The subtrees of every height over the leaves.
Grown(f, leaves, height) ==
    /\ \A k \in 0 .. 2 ^ height - 1 :
          f[0][k] = [digests |-> <<>>, root |-> LeafHash(leaves[k + 1])]
    /\ \A h \in 1 .. height : \A k \in 0 .. 2 ^ (height - h) - 1 :
          f[h][k] = Parent(f[h - 1][2 * k], f[h - 1][2 * k + 1])

\* Every node of the subtrees is built from the two below it.
LEMMA SubtreesGrown ==
    ASSUME NEW leaves, NEW height \in Nat
    PROVE  Grown(Subtrees(leaves, height), leaves, height)
<1> DEFINE f == CHOOSE g : IsGrowing(g, leaves, height, height)
<1>1. IsGrowing(f, leaves, height, height)
  BY GrowingExists
<1>2. Subtrees(leaves, height) = f
  BY DEF Subtrees, IsGrowing, Level
<1> HIDE DEF f
<1>3. \A h \in 0 .. height : f[h] = Level(f[h - 1], leaves, height, h)
  BY <1>1 DEF IsGrowing
<1>4. height - 0 = height /\ 0 \in 0 .. height
  OBVIOUS
<1>5. \A k \in 0 .. 2 ^ height - 1 :
         f[0][k] = [digests |-> <<>>, root |-> LeafHash(leaves[k + 1])]
  BY <1>3, <1>4 DEF Level
<1>6. ASSUME NEW h \in 1 .. height, NEW k \in 0 .. 2 ^ (height - h) - 1
      PROVE  f[h][k] = Parent(f[h - 1][2 * k], f[h - 1][2 * k + 1])
  <2>1. f[h] = Level(f[h - 1], leaves, height, h) /\ h # 0
    BY <1>3
  <2>. QED  BY <2>1 DEF Level, Parent
<1>. QED  BY <1>2, <1>5, <1>6 DEF Grown

\* All the roots there are, for typing.
Roots(f) == {f[n[1]][n[2]].root : n \in Nat \X Nat}

LEMMA RootsHold ==
    ASSUME NEW f, NEW h \in Nat, NEW k \in Nat
    PROVE  f[h][k].root \in Roots(f)
<1> DEFINE n == <<h, k>>
<1>1. n \in Nat \X Nat /\ n[1] = h /\ n[2] = k
  OBVIOUS
<1> HIDE DEF n
<1>. QED  BY <1>1 DEF Roots

\* The buffer of two subtrees under a node.
Buffered(d, l, r, n, S) ==
    /\ Sized(d, 2 * n + 2, S)
    /\ \A i \in 1 .. n : d[i] = l.digests[i]
    /\ d[n + 1] = l.root /\ d[n + 2] = r.root
    /\ \A i \in 1 .. n : d[n + 2 + i] = r.digests[i]

\* fill_subtree: left digests, the two roots, right digests.
LEMMA ParentBuffer ==
    ASSUME NEW S, NEW l, NEW r, NEW n, l.root \in S, r.root \in S,
           Sized(l.digests, n, S), Sized(r.digests, n, S)
    PROVE  Buffered(Parent(l, r).digests, l, r, n, S)
<1> DEFINE a == l.digests
           b == <<l.root, r.root>>
           c == r.digests
           m == n + 2
           ab == a \o b
           d == ab \o c
<1>1. Sized(b, 2, S) /\ b[1] = l.root /\ b[2] = r.root
  BY DEF Sized
<1>2. Sized(a, n, S) /\ Sized(c, n, S) /\ n \in Nat /\ m = n + 2
  BY DEF Sized
<1>3. Parent(l, r).digests = d
  BY DEF Parent
<1> HIDE DEF a, b, c
<1>4. Joined(ab, a, b, n, 2, S)
  BY <1>1, <1>2, Joining
<1> HIDE DEF ab
<1>5. Sized(ab, m, S)
  BY <1>4 DEF Joined
<1> HIDE DEF m
<1>6. Joined(d, ab, c, m, n, S)
  BY <1>2, <1>5, Joining
<1> HIDE DEF d
<1>7. \A i \in 1 .. n : d[i] = a[i]
  BY <1>2, <1>4, <1>6 DEF Joined
<1>8. d[n + 1] = b[1] /\ d[n + 2] = b[2]
  <2>1. 1 \in 1 .. 2 /\ 2 \in 1 .. 2 /\ n + 1 \in 1 .. m /\ n + 2 \in 1 .. m
    BY <1>2
  <2>. QED  BY <1>4, <1>6, <2>1 DEF Joined
<1>9. Sized(d, 2 * n + 2, S)
  BY <1>2, <1>6 DEF Joined, Sized
<1>10. \A i \in 1 .. n : d[n + 2 + i] = c[i]
  BY <1>2, <1>6 DEF Joined
<1>. QED  BY <1>1, <1>3, <1>7, <1>8, <1>9, <1>10 DEF Buffered, a, c

\* The nodes below a node.
LEMMA Below ==
    ASSUME NEW height \in Nat, NEW h \in 1 .. height, NEW k \in 0 .. 2 ^ (height - h) - 1
    PROVE  /\ k \in Nat /\ h - 1 \in 0 .. height /\ 2 * k \in Nat
           /\ 2 * k \in 0 .. 2 ^ (height - (h - 1)) - 1
           /\ 2 * k + 1 \in 0 .. 2 ^ (height - (h - 1)) - 1
<1> DEFINE m == height - h
           w == 2 ^ m
           x == 2 ^ (m + 1)
<1>1. m \in Nat /\ height - (h - 1) = m + 1
  OBVIOUS
<1>2. k \in 0 .. w - 1
  OBVIOUS
<1> HIDE DEF m
<1>3. w \in Nat /\ w >= 1 /\ x = 2 * w
  BY <1>1, Doubling
<1>4. x = 2 ^ (height - (h - 1))
  BY <1>1
<1> HIDE DEF w, x
<1>5. 2 * k \in 0 .. x - 1 /\ 2 * k + 1 \in 0 .. x - 1
  BY <1>2, <1>3
<1>. QED  BY <1>2, <1>3, <1>4, <1>5

\* The length of a subtree's part of the buffer.
BufferLen(h) == 2 * (2 ^ h - 1)

\* The digests below a node of height h are 2^(h+1) - 2.
LEMMA BufferLens ==
    /\ BufferLen(0) = 0
    /\ \A h \in Nat : BufferLen(h) \in Nat /\ BufferLen(h + 1) = 2 * BufferLen(h) + 2
                      /\ BufferLen(h) + 2 = 2 * 2 ^ h
<1>1. BufferLen(0) = 0
  BY PowerZero DEF BufferLen
<1>2. ASSUME NEW h \in Nat
      PROVE  BufferLen(h) \in Nat /\ BufferLen(h + 1) = 2 * BufferLen(h) + 2
             /\ BufferLen(h) + 2 = 2 * 2 ^ h
  <2> DEFINE w == 2 ^ h
             x == 2 ^ (h + 1)
  <2>1. w \in Nat /\ w >= 1 /\ x = 2 * w
    BY Doubling
  <2>2. BufferLen(h) = 2 * (w - 1) /\ BufferLen(h + 1) = 2 * (x - 1)
    BY DEF BufferLen
  <2> HIDE DEF w, x
  <2>3. BufferLen(h) \in Nat /\ BufferLen(h + 1) = 2 * BufferLen(h) + 2 /\ BufferLen(h) + 2 = 2 * w
    BY <2>1, <2>2
  <2>. QED  BY <2>3 DEF w
<1>. QED  BY <1>1, <1>2

\* A subtree's part of the buffer is a sequence of roots of that length.
LEMMA BufferTyped ==
    ASSUME NEW leaves, NEW height \in Nat, NEW f, Grown(f, leaves, height)
    PROVE  \A h \in 0 .. height : \A k \in 0 .. 2 ^ (height - h) - 1 :
              Sized(f[h][k].digests, BufferLen(h), Roots(f))
<1> DEFINE Typed(h) == \A k \in 0 .. 2 ^ (height - h) - 1 :
              Sized(f[h][k].digests, BufferLen(h), Roots(f))
           T == {h \in 0 .. height : Typed(h)}
<1>1. 0 \in T
  <2>1. height - 0 = height /\ 0 \in 0 .. height
    OBVIOUS
  <2>2. \A k \in 0 .. 2 ^ height - 1 : f[0][k].digests = <<>>
    <3>1. \A x : [digests |-> <<>>, root |-> x].digests = <<>>
      OBVIOUS
    <3>. QED  BY <3>1 DEF Grown
  <2>3. Sized(<<>>, BufferLen(0), Roots(f))
    BY BufferLens DEF Sized
  <2>4. Typed(0)
    BY <2>1, <2>2, <2>3
  <2>. QED  BY <2>1, <2>4
<1>2. ASSUME NEW h \in 1 .. height, h - 1 \in T PROVE h \in T
  <2> DEFINE i == h - 1
             n == BufferLen(i)
  <2>1. i \in Nat /\ i + 1 = h /\ Typed(i)
    BY <1>2
  <2>2. n \in Nat /\ BufferLen(h) = 2 * n + 2
    BY <2>1, BufferLens
  <2>3. ASSUME NEW k \in 0 .. 2 ^ (height - h) - 1
        PROVE  Sized(f[h][k].digests, BufferLen(h), Roots(f))
    <3> DEFINE l == f[i][2 * k]
               r == f[i][2 * k + 1]
    <3>1. f[h][k] = Parent(l, r)
      BY DEF Grown
    <3>2. /\ k \in Nat /\ 2 * k \in 0 .. 2 ^ (height - i) - 1
          /\ 2 * k + 1 \in 0 .. 2 ^ (height - i) - 1
      BY Below
    <3>3. l.root \in Roots(f) /\ r.root \in Roots(f)
      BY <2>1, <3>2, RootsHold
    <3>4. Sized(l.digests, n, Roots(f)) /\ Sized(r.digests, n, Roots(f))
      BY <2>1, <3>2
    <3> HIDE DEF l, r, n
    <3>5. Buffered(Parent(l, r).digests, l, r, n, Roots(f))
      BY <3>3, <3>4, ParentBuffer
    <3>. QED  BY <2>2, <3>1, <3>5 DEF Buffered
  <2>. QED  BY <2>3
<1> HIDE DEF T
<1>3. \A h \in 0 .. height : h \in T
  BY <1>1, <1>2, Counting
<1>. QED  BY <1>3 DEF T

-----------------------------------------------------------------------------
(* Where the buffer holds which root.                                      *)

LEMMA PowerSum ==
    ASSUME NEW a \in Nat, NEW b \in Nat, NEW c, c = a + b
    PROVE  2 ^ c = 2 ^ a * 2 ^ b /\ 2 ^ a \in Nat /\ 2 ^ b \in Nat /\ 2 ^ c \in Nat
           /\ 2 ^ a >= 1 /\ 2 ^ b >= 1 /\ 2 ^ c >= 1
<1>1. 2 ^ (a + b) = 2 ^ a * 2 ^ b
  BY PowerOfSum
<1>2. c \in Nat /\ 2 ^ c = 2 ^ (a + b)
  OBVIOUS
<1>. QED  BY <1>1, <1>2, Doubling

\* The place of a pair's left or right root.
Entry(p, j, b) == 2 * (p * 2 ^ (j + 1) + 2 ^ j - 1) + b

\* A subtree's buffer holds the roots of the pairs of every layer.
Laid(f, h, k) ==
    \A j \in 0 .. h - 1 : \A p \in 0 .. 2 ^ (h - 1 - j) - 1 : \A b \in 0 .. 1 :
        /\ Entry(p, j, b) \in 0 .. BufferLen(h) - 1
        /\ f[h][k].digests[Entry(p, j, b) + 1] = f[j][k * 2 ^ (h - j) + 2 * p + b].root

\* The middle of the buffer, and a pair of the left or the right half.
LEMMA EntryOfTop ==
    ASSUME NEW i \in Nat, NEW b \in 0 .. 1
    PROVE  Entry(0, i, b) = BufferLen(i) + b
<1> DEFINE w == 2 ^ i
           x == 2 ^ (i + 1)
<1>1. w \in Nat /\ x \in Nat
  BY Doubling
<1>2. Entry(0, i, b) = 2 * (0 * x + w - 1) + b /\ BufferLen(i) = 2 * (w - 1)
  BY DEF Entry, BufferLen
<1> HIDE DEF w, x
<1>3. 0 * x = 0
  BY <1>1
<1>. QED  BY <1>1, <1>2, <1>3

\* Entries of the right half lie one left half and two roots further on.
LEMMA EntryOfRight ==
    ASSUME NEW i \in Nat, NEW j \in 0 .. i - 1, NEW q \in Nat, NEW b \in 0 .. 1
    PROVE  Entry(2 ^ (i - 1 - j) + q, j, b) = BufferLen(i) + 2 + Entry(q, j, b)
           /\ Entry(q, j, b) \in Int
<1> DEFINE F == 2 ^ (i - 1 - j)
           J == 2 ^ (j + 1)
           w == 2 ^ j
           T == 2 ^ i
<1>1. F \in Nat /\ J \in Nat /\ T = F * J /\ T \in Nat
  <2>1. i - 1 - j \in Nat /\ j + 1 \in Nat /\ i = (i - 1 - j) + (j + 1)
    OBVIOUS
  <2>. QED  BY <2>1, PowerSum
<1>2. w \in Nat
  BY Doubling
<1>3. /\ Entry(F + q, j, b) = 2 * ((F + q) * J + w - 1) + b
      /\ Entry(q, j, b) = 2 * (q * J + w - 1) + b
      /\ BufferLen(i) + 2 = 2 * T
  BY BufferLens DEF Entry
<1> HIDE DEF F, J, w, T
<1>4. (F + q) * J = F * J + q * J /\ q * J \in Nat /\ F * J \in Nat
  BY <1>1
<1>. QED  BY <1>1, <1>2, <1>3, <1>4 DEF F

\* Every node's buffer holds every root below it where Entry says.
LEMMA BufferLaid ==
    ASSUME NEW leaves, NEW height \in Nat, NEW f, Grown(f, leaves, height)
    PROVE  \A h \in 0 .. height : \A k \in 0 .. 2 ^ (height - h) - 1 : Laid(f, h, k)
<1> DEFINE T == {h \in 0 .. height : \A k \in 0 .. 2 ^ (height - h) - 1 : Laid(f, h, k)}
<1>1. 0 \in T
  BY DEF Laid
<1>2. ASSUME NEW h \in 1 .. height, h - 1 \in T PROVE h \in T
  <2>1. SUFFICES ASSUME NEW k \in 0 .. 2 ^ (height - h) - 1 PROVE Laid(f, h, k)
    OBVIOUS
  <2> DEFINE i == h - 1
             n == BufferLen(i)
             l == f[i][2 * k]
             r == f[i][2 * k + 1]
             d == f[h][k].digests
  <2>2. /\ i \in Nat /\ h = i + 1 /\ k \in Nat /\ i \in 0 .. height
        /\ 2 * k \in 0 .. 2 ^ (height - i) - 1 /\ 2 * k + 1 \in 0 .. 2 ^ (height - i) - 1
    <3>1. /\ k \in Nat /\ h - 1 \in 0 .. height /\ 2 * k \in Nat
          /\ 2 * k \in 0 .. 2 ^ (height - (h - 1)) - 1
          /\ 2 * k + 1 \in 0 .. 2 ^ (height - (h - 1)) - 1
      BY Below
    <3>2. h - 1 \in Nat /\ h = (h - 1) + 1
      OBVIOUS
    <3>. QED  BY <3>1, <3>2, Zenon
  <2>3. n \in Nat /\ BufferLen(h) = 2 * n + 2
    BY <2>2, BufferLens
  <2>4. Laid(f, i, 2 * k) /\ Laid(f, i, 2 * k + 1)
    BY <1>2, <2>2
  <2>5. f[h][k] = Parent(l, r)
    BY DEF Grown
  <2>6. Buffered(d, l, r, n, Roots(f))
    <3>1. Sized(l.digests, n, Roots(f)) /\ Sized(r.digests, n, Roots(f))
      BY <2>2, BufferTyped
    <3>2. l.root \in Roots(f) /\ r.root \in Roots(f)
      BY <2>2, RootsHold
    <3>3. Buffered(Parent(l, r).digests, l, r, n, Roots(f))
      BY <3>1, <3>2, ParentBuffer
    <3>. QED  BY <2>5, <3>3
  <2>7. ASSUME NEW j \in 0 .. h - 1, NEW p \in 0 .. 2 ^ (h - 1 - j) - 1, NEW b \in 0 .. 1
        PROVE  /\ Entry(p, j, b) \in 0 .. BufferLen(h) - 1
               /\ d[Entry(p, j, b) + 1] = f[j][k * 2 ^ (h - j) + 2 * p + b].root
    <3>1. CASE j = i
      <4>1. h - 1 - j = 0 /\ 2 ^ 0 = 1 /\ h - j = 1 /\ 2 ^ 1 = 2
        BY <2>2, <3>1
      <4>2. p = 0
        <5>1. p \in 0 .. 2 ^ 0 - 1
          BY <4>1
        <5>. QED  BY <4>1, <5>1
      <4>3. Entry(p, j, b) = n + b
        BY <2>2, <3>1, <4>2, EntryOfTop
      <4>4. k * 2 ^ (h - j) + 2 * p + b = 2 * k + b
        BY <2>2, <4>1, <4>2
      <4>5. d[(n + b) + 1] = f[i][2 * k + b].root
        <5> HIDE DEF d, n
        <5>1. d[n + 1] = f[i][2 * k].root /\ d[n + 2] = f[i][2 * k + 1].root
          BY <2>6 DEF Buffered
        <5>2. CASE b = 0
          <6>1. (n + b) + 1 = n + 1 /\ 2 * k + b = 2 * k
            BY <2>2, <2>3, <5>2
          <6>. QED  BY <5>1, <6>1
        <5>3. CASE b = 1
          <6>1. (n + b) + 1 = n + 2 /\ 2 * k + b = 2 * k + 1
            BY <2>2, <2>3, <5>3
          <6>. QED  BY <5>1, <6>1
        <5>. QED  BY <5>2, <5>3
      <4> HIDE DEF d, n
      <4>. QED  BY <2>3, <3>1, <4>3, <4>4, <4>5
    <3>2. CASE j # i
      <4> DEFINE m == i - 1 - j
                 F == 2 ^ m
                 e == Entry(p, j, b)
      <4>1. m \in Nat /\ j \in 0 .. i - 1 /\ j \in Nat
        BY <2>2, <3>2
      <4>2. F \in Nat /\ 2 ^ (m + 1) = 2 * F /\ 2 ^ (m + 2) = 4 * F
        <5>1. m + 1 \in Nat /\ (m + 1) + 1 = m + 2
          BY <4>1
        <5> HIDE DEF m
        <5>2. F \in Nat /\ 2 ^ (m + 1) = 2 * F
          BY <4>1, Doubling
        <5>3. 2 ^ (m + 2) = 2 * 2 ^ (m + 1)
          BY <5>1, Doubling
        <5>. QED  BY <5>2, <5>3
      <4>3. h - 1 - j = m + 1 /\ h - j = m + 2 /\ i - j = m + 1
        BY <2>2, <4>1
      <4>4. p \in 0 .. 2 * F - 1 /\ 2 ^ (h - j) = 4 * F /\ 2 ^ (i - j) = 2 * F
        BY <4>2, <4>3
      <4>5. CASE p < F
        <5>1. p \in 0 .. 2 ^ (i - 1 - j) - 1
          BY <4>2, <4>4, <4>5
        <5>2. e \in 0 .. n - 1 /\ l.digests[e + 1] = f[j][(2 * k) * 2 ^ (i - j) + 2 * p + b].root
          BY <2>4, <4>1, <5>1 DEF Laid
        <5>3. (2 * k) * 2 ^ (i - j) + 2 * p + b = k * 2 ^ (h - j) + 2 * p + b
          <6>1. (2 * k) * (2 * F) = k * (4 * F)
            BY <2>2, <4>2
          <6>. QED  BY <4>4, <6>1
        <5> HIDE DEF e, n, d, l, r, F, m
        <5>4. e + 1 \in 1 .. n /\ e \in 0 .. (2 * n + 2) - 1
          BY <2>3, <5>2
        <5>5. d[e + 1] = l.digests[e + 1]
          BY <2>6, <5>4 DEF Buffered
        <5>6. /\ e \in 0 .. BufferLen(h) - 1
              /\ d[e + 1] = f[j][k * 2 ^ (h - j) + 2 * p + b].root
          BY <2>3, <5>2, <5>3, <5>4, <5>5
        <5>. QED  BY <5>6 DEF e, d
      <4>6. CASE p >= F
        <5> DEFINE q == p - F
                   g == Entry(q, j, b)
        <5>1. q \in Nat /\ q \in 0 .. 2 ^ (i - 1 - j) - 1 /\ p = F + q
          <6> HIDE DEF F
          <6>1. q \in Nat /\ q \in 0 .. F - 1 /\ p = F + q
            BY <4>2, <4>4, <4>6
          <6>. QED  BY <6>1 DEF F
        <5>2. g \in 0 .. n - 1 /\ r.digests[g + 1] = f[j][(2 * k + 1) * 2 ^ (i - j) + 2 * q + b].root
          <6> HIDE DEF q
          <6>. QED  BY <2>4, <4>1, <5>1 DEF Laid
        <5>3. (2 * k + 1) * 2 ^ (i - j) + 2 * q + b = k * 2 ^ (h - j) + 2 * p + b
          <6> HIDE DEF F, q
          <6>1. (2 * k + 1) * (2 * F) = k * (4 * F) + 2 * F /\ k * (4 * F) \in Int
            BY <2>2, <4>2
          <6>. QED  BY <4>2, <4>4, <5>1, <6>1
        <5>4. e = n + 2 + g
          <6> HIDE DEF q
          <6>1. Entry(F + q, j, b) = n + 2 + g
            BY <2>2, <4>1, <5>1, EntryOfRight, ZenonT(30)
          <6>. QED  BY <5>1, <6>1
        <5> HIDE DEF e, g, q, n, d, l, r, F, m
        <5>5. g + 1 \in 1 .. n /\ e \in 0 .. (2 * n + 2) - 1 /\ e + 1 = n + 2 + (g + 1)
          BY <2>3, <5>2, <5>4
        <5>6. d[e + 1] = r.digests[g + 1]
          BY <2>6, <5>5 DEF Buffered
        <5>7. /\ e \in 0 .. BufferLen(h) - 1
              /\ d[e + 1] = f[j][k * 2 ^ (h - j) + 2 * p + b].root
          BY <2>3, <5>2, <5>3, <5>5, <5>6
        <5>. QED  BY <5>7 DEF e, d
      <4>. QED  BY <4>2, <4>4, <4>5, <4>6
    <3>. QED  BY <3>1, <3>2
  <2> HIDE DEF i, n, l, r
  <2>. QED  BY <2>7 DEF Laid
<1> HIDE DEF T
<1>3. \A h \in 0 .. height : h \in T
  BY <1>1, <1>2, Counting
<1>. QED  BY <1>3 DEF T

-----------------------------------------------------------------------------
(* Paths.                                                                  *)

\* What a path under a tree's cap holds.
Siblings(f, index, layers) ==
    [i \in 1 .. layers |-> f[i - 1][Sibling(index \div 2 ^ (i - 1))].root]

LEMMA TreeFields ==
    ASSUME NEW leaves, NEW height, NEW capHeight
    PROVE  LET t == Tree(leaves, height, capHeight)
           IN  t.leaves = leaves /\ t.layers = height - capHeight
BY DEF Tree

\* A sibling differs in its lowest bit.
LEMMA SiblingOf ==
    ASSUME NEW m \in Nat
    PROVE  Sibling(m) = 2 * (m \div 2) + (1 - (m % 2)) /\ m = 2 * (m \div 2) + (m % 2)
           /\ m \div 2 \in Nat /\ m % 2 \in 0 .. 1
<1>1. m = 2 * (m \div 2) + (m % 2) /\ m % 2 \in 0 .. 1 /\ m \div 2 \in Nat
  OBVIOUS
<1>. QED  BY <1>1 DEF Sibling

\* An index c of a subtree and w within it, some layers up.
Within(index, L, i, c, w) ==
    /\ index \div 2 ^ (i - 1)
         = c * 2 ^ (L - (i - 1)) + 2 * (w \div 2 ^ i) + ((w \div 2 ^ (i - 1)) % 2)
    /\ Sibling(index \div 2 ^ (i - 1))
         = c * 2 ^ (L - (i - 1)) + 2 * (w \div 2 ^ i) + (1 - ((w \div 2 ^ (i - 1)) % 2))
    /\ w \div 2 ^ i \in 0 .. 2 ^ (L - i) - 1
    /\ (w \div 2 ^ (i - 1)) % 2 \in 0 .. 1

\* An index splits into that of its subtree under the cap and the one within.
LEMMA IndexWithin ==
    ASSUME NEW index \in Nat, NEW L \in Nat, NEW i \in 1 .. L,
           NEW c, c = index \div 2 ^ L, NEW w, w = index % 2 ^ L
    PROVE  Within(index, L, i, c, w)
<1> DEFINE T == 2 ^ L
           D == 2 ^ (i - 1)
           N == 2 ^ (L - i)
           E == 2 ^ i
           M == 2 ^ (L - (i - 1))
           x == w \div D
<1>1. /\ T \in Nat /\ T >= 1 /\ D \in Nat /\ D >= 1 /\ N \in Nat /\ N >= 1
      /\ E = 2 * D /\ T = N * E /\ M = 2 * N
  <2>1. i - 1 \in Nat /\ L - i \in Nat /\ i \in Nat /\ L = (L - i) + i
        /\ (i - 1) + 1 = i /\ (L - i) + 1 = L - (i - 1)
    OBVIOUS
  <2>2. T = N * E /\ T \in Nat /\ N \in Nat /\ T >= 1 /\ N >= 1
    BY <2>1, PowerSum
  <2> DEFINE a == i - 1
             b == L - i
  <2>3. a \in Nat /\ b \in Nat /\ a + 1 = i /\ b + 1 = L - (i - 1)
    BY <2>1
  <2> HIDE DEF a, b
  <2>4. 2 ^ a \in Nat /\ 2 ^ a >= 1 /\ 2 ^ (a + 1) = 2 * 2 ^ a /\ 2 ^ (b + 1) = 2 * 2 ^ b
    BY <2>3, Doubling
  <2>5. D = 2 ^ a /\ N = 2 ^ b
    BY DEF a, b
  <2>6. E = 2 ^ (a + 1) /\ M = 2 ^ (b + 1)
    BY <2>3
  <2>. QED  BY <2>2, <2>4, <2>5, <2>6
<1> HIDE DEF T, D, N, E, M
<1>2. index = c * T + w /\ c \in Nat /\ w \in 0 .. T - 1
  <2>1. T > 0 /\ c = index \div T /\ w = index % T
    BY <1>1 DEF T
  <2>2. index = (index \div T) * T + (index % T) /\ index \div T \in Nat /\ index % T \in 0 .. T - 1
    BY <1>1, <2>1, Divided
  <2>. QED  BY <2>1, <2>2
<1>3. w \in Nat /\ w < N * E
  BY <1>1, <1>2
<1>4. w = x * D + (w % D) /\ x \in Nat /\ w % D \in 0 .. D - 1
  BY <1>1, <1>3, Divided
<1>5. x \div 2 = w \div E /\ w \div E \in 0 .. N - 1
  <2>1. x \div 2 = w \div (D * 2)
    <3>1. 2 \in Nat /\ 2 > 0 /\ D > 0
      BY <1>1
    <3>. QED  BY <1>1, <1>3, <3>1, DivTwice
  <2>2. E > 0 /\ E \in Nat /\ D * 2 = E
    BY <1>1
  <2>3. w \div E \in 0 .. N - 1
    BY <1>1, <1>3, <2>2, Divided
  <2>. QED  BY <2>1, <2>2, <2>3
<1> DEFINE y == w % D
<1> HIDE DEF x, y
<1>6. y \in Nat /\ y < D /\ w = x * D + y
  BY <1>1, <1>4 DEF y
<1>7. index = (c * M + x) * D + y /\ c * M + x \in Nat
  <2>1. c * T = (c * M) * D
    <3>1. N * (2 * D) = (2 * N) * D
      BY <1>1
    <3>2. T = M * D
      BY <1>1, <3>1
    <3>3. M \in Nat
      BY <1>1
    <3>. QED  BY <1>1, <1>2, <3>2, <3>3
  <2>2. c * M \in Nat
    BY <1>1, <1>2
  <2>3. (c * M + x) * D = (c * M) * D + x * D
    BY <1>1, <1>4, <2>2
  <2>4. x * D \in Nat /\ (c * M) * D \in Nat
    BY <1>1, <1>4, <2>2
  <2>. QED  BY <1>2, <1>4, <1>6, <2>1, <2>2, <2>3, <2>4
<1> DEFINE m == c * M + x
<1>8. index \div D = m
  <2> HIDE DEF m
  <2>1. m \in Nat /\ index = m * D + y
    BY <1>7 DEF m
  <2>. QED  BY <1>1, <1>6, <2>1, DivUnique
<1>9. x = 2 * (x \div 2) + (x % 2) /\ x \div 2 \in Nat /\ x % 2 \in 0 .. 1
  BY <1>4, SiblingOf
<1> DEFINE p == x \div 2
           b == x % 2
           u == c * N + p
<1> HIDE DEF p, b
<1>10. x = 2 * p + b /\ p \in Nat /\ b \in 0 .. 1
  BY <1>9 DEF p, b
<1>11. u \in Nat /\ m = 2 * u + b
  <2>1. c * N \in Nat /\ c * M = 2 * (c * N)
    BY <1>1, <1>2
  <2>. QED  BY <1>10, <2>1
<1> HIDE DEF m
<1>12. Sibling(m) = c * M + 2 * p + (1 - b)
  <2>1. m \in Nat
    BY <1>10, <1>11
  <2>2. c * N \in Nat /\ c * M = 2 * (c * N)
    BY <1>1, <1>2
  <2>. QED  BY <1>10, <1>11, <2>1, <2>2 DEF Sibling
<1>13. m = c * M + 2 * p + b
  BY <1>10, <1>7, <1>1, <1>2 DEF m
<1>14. /\ index \div D = c * M + 2 * (w \div E) + ((w \div D) % 2)
       /\ Sibling(index \div D) = c * M + 2 * (w \div E) + (1 - ((w \div D) % 2))
       /\ w \div E \in 0 .. N - 1 /\ (w \div D) % 2 \in 0 .. 1
  <2>1. p = w \div E /\ b = (w \div D) % 2
    BY <1>5 DEF p, b, x
  <2>. QED  BY <1>5, <1>8, <1>10, <1>12, <1>13, <2>1
<1>. QED  BY <1>2, <1>3, <1>14 DEF Within, D, E, M, N, T

\* merkle_tree_prove finds the siblings of the nodes from a leaf to the cap.
LEMMA PathIs ==
    ASSUME NEW leaves, NEW height \in Nat, NEW capHeight \in 0 .. height,
           NEW index \in 0 .. 2 ^ height - 1
    PROVE  /\ Path(Tree(leaves, height, capHeight), index)
                = Siblings(Subtrees(leaves, height), index, height - capHeight)
           /\ index \div 2 ^ (height - capHeight) \in 0 .. 2 ^ capHeight - 1
           /\ Tree(leaves, height, capHeight).cap[index \div 2 ^ (height - capHeight) + 1]
                = Subtrees(leaves, height)[height - capHeight][index \div 2 ^ (height - capHeight)].root
<1> DEFINE f == Subtrees(leaves, height)
           L == height - capHeight
           C == 2 ^ capHeight
           T == 2 ^ L
           c == index \div T
           w == index % T
           subs == [k \in 1 .. C |-> f[L][k - 1]]
           ss == [k \in 1 .. C |-> f[L][k - 1].digests]
           t == Tree(leaves, height, capHeight)
           n == BufferLen(L)
<1>1. L \in Nat /\ L \in 0 .. height /\ height - L = capHeight /\ capHeight \in Nat
  OBVIOUS
<1>2. C \in Nat /\ C >= 1 /\ T \in Nat /\ T >= 1 /\ 2 ^ height = C * T
  <2>1. height = capHeight + L
    BY <1>1
  <2>. QED  BY <1>1, <2>1, PowerSum
<1>3. Grown(f, leaves, height)
  BY SubtreesGrown
<1>4. /\ t.layers = L
      /\ t.digests = FlattenSeq(ss)
      /\ t.cap = [k \in 1 .. C |-> f[L][k - 1].root]
  <2> DEFINE s1 == [k \in DOMAIN subs |-> subs[k].digests]
             s2 == [k \in DOMAIN subs |-> subs[k].root]
             roots == [k \in 1 .. C |-> f[L][k - 1].root]
  <2>1. t = [leaves |-> leaves, layers |-> L, digests |-> FlattenSeq(s1), cap |-> s2]
    BY DEF Tree
  <2> HIDE DEF f, C, t, L
  <2>2. s1 = ss
    OBVIOUS
  <2>3. s2 = roots
    OBVIOUS
  <2> HIDE DEF s1, s2, ss, roots
  <2>4. t.layers = L /\ t.digests = FlattenSeq(s1) /\ t.cap = s2
    BY <2>1
  <2>. QED  BY <2>2, <2>3, <2>4 DEF roots
<1>5. c \in 0 .. C - 1 /\ w \in 0 .. T - 1 /\ index \in Nat
  <2>1. index < C * T /\ index \in Nat
    <3> HIDE DEF T, C
    <3>. QED  BY <1>2
  <2> HIDE DEF T, C
  <2>. QED  BY <1>2, <2>1, Divided
<1>6. \A k \in 1 .. C : Sized(ss[k], n, Roots(f))
  <2>1. \A k \in 0 .. C - 1 : Sized(f[L][k].digests, n, Roots(f))
    <3>1. \A h \in 0 .. height : \A k \in 0 .. 2 ^ (height - h) - 1 :
              Sized(f[h][k].digests, BufferLen(h), Roots(f))
      <4> HIDE DEF f
      <4>. QED  BY <1>3, BufferTyped
    <3> HIDE DEF f
    <3>. QED  BY <1>1, <3>1
  <2> HIDE DEF f, C, L, n
  <2>. QED  BY <1>2, <2>1
<1>7. Holds(FlattenSeq(ss), ss, C, n, Roots(f))
  <2>1. n \in Nat
    BY <1>1, BufferLens
  <2> HIDE DEF f, C, L, n
  <2>2. ss \in [1 .. C -> Seq(Roots(f))] /\ \A k \in 1 .. C : Len(ss[k]) = n
    <3>1. \A k \in 1 .. C : ss[k] \in Seq(Roots(f)) /\ Len(ss[k]) = n
      BY <1>6 DEF Sized
    <3>. QED  BY <3>1
  <2> HIDE DEF ss
  <2>. QED  BY <1>2, <2>1, <2>2, Flattened
<1>8. Laid(f, L, c)
  <2>1. \A h \in 0 .. height : \A k \in 0 .. 2 ^ (height - h) - 1 : Laid(f, h, k)
    <3> HIDE DEF f
    <3>. QED  BY <1>3, BufferLaid
  <2> HIDE DEF f, c
  <2>. QED  BY <1>1, <1>5, <2>1
<1>9. ASSUME NEW i \in 1 .. L
      PROVE  t.digests[1 + n * c + SiblingIndex(w \div 2 ^ i, i - 1, (w \div 2 ^ (i - 1)) % 2)]
                = f[i - 1][Sibling(index \div 2 ^ (i - 1))].root
  <2> DEFINE p == w \div 2 ^ i
             b == 1 - ((w \div 2 ^ (i - 1)) % 2)
             e == Entry(p, i - 1, b)
  <2>1. /\ p \in 0 .. 2 ^ (L - i) - 1 /\ b \in 0 .. 1
        /\ Sibling(index \div 2 ^ (i - 1)) = c * 2 ^ (L - (i - 1)) + 2 * p + b
    <3> DEFINE bb == (w \div 2 ^ (i - 1)) % 2
    <3>1. /\ p \in 0 .. 2 ^ (L - i) - 1 /\ bb \in 0 .. 1
          /\ Sibling(index \div 2 ^ (i - 1)) = c * 2 ^ (L - (i - 1)) + 2 * p + (1 - bb)
      <4>1. c = index \div 2 ^ L /\ w = index % 2 ^ L
        OBVIOUS
      <4> HIDE DEF L, c, w
      <4>2. Within(index, L, i, c, w)
        BY <1>1, <1>5, <4>1, IndexWithin
      <4>. QED  BY <4>2 DEF Within
    <3> HIDE DEF bb, p
    <3>2. 1 - bb \in 0 .. 1
      BY <3>1
    <3>. QED  BY <3>1, <3>2 DEF bb
  <2>2. i - 1 \in 0 .. L - 1 /\ L - 1 - (i - 1) = L - i /\ (i - 1) + 1 = i
    BY <1>1
  <2>3. SiblingIndex(p, i - 1, (w \div 2 ^ (i - 1)) % 2) = e
    BY <2>2 DEF SiblingIndex, Entry
  <2> HIDE DEF p, b
  <2>4. /\ e \in 0 .. n - 1
        /\ f[L][c].digests[e + 1] = f[i - 1][c * 2 ^ (L - (i - 1)) + 2 * p + b].root
    <3> HIDE DEF f, c, L
    <3>1. p \in 0 .. 2 ^ (L - 1 - (i - 1)) - 1
      BY <2>1, <2>2
    <3>. QED  BY <1>8, <2>1, <2>2, <3>1 DEF Laid
  <2> HIDE DEF e, n, ss, f, c, w, C, L
  <2>5. e + 1 \in 1 .. n /\ c + 1 \in 1 .. C /\ (c + 1) - 1 = c
    <3>1. n \in Nat
      BY <1>1, BufferLens DEF n
    <3>. QED  BY <1>2, <1>5, <2>4, <3>1
  <2>6. FlattenSeq(ss)[((c + 1) - 1) * n + (e + 1)] = ss[c + 1][e + 1]
    BY <1>7, <2>5 DEF Holds
  <2>7. ss[c + 1] = f[L][c].digests
    BY <2>5 DEF ss
  <2>8. ((c + 1) - 1) * n + (e + 1) = 1 + n * c + e
    <3>1. n \in Nat
      BY <1>1, BufferLens DEF n
    <3>2. c * n = n * c /\ c * n \in Int
      BY <1>2, <1>5, <3>1
    <3>. QED  BY <2>4, <2>5, <3>2, <3>1
  <2>9. t.digests[1 + n * c + e] = f[i - 1][c * 2 ^ (L - (i - 1)) + 2 * p + b].root
    BY <1>4, <2>4, <2>6, <2>7, <2>8, Zenon
  <2>. QED  BY <2>1, <2>3, <2>9, Zenon DEF p
<1>10. Path(t, index) = Siblings(f, index, L)
  <2>1. Path(t, index) = [i \in 1 .. L |->
           t.digests[1 + n * c + SiblingIndex(w \div 2 ^ i, i - 1, (w \div 2 ^ (i - 1)) % 2)]]
    <3> HIDE DEF t, f, L
    <3>. QED  BY <1>4 DEF Path, BufferLen
  <2> HIDE DEF t, f, L, n, c, w
  <2>. QED  BY <1>9, <2>1 DEF Siblings
<1>11. t.cap[c + 1] = f[L][c].root
  <2> HIDE DEF t, f, L, c, C
  <2>1. c + 1 \in 1 .. C /\ (c + 1) - 1 = c
    BY <1>2, <1>5
  <2>. QED  BY <1>4, <2>1
<1>. QED  BY <1>5, <1>10, <1>11

-----------------------------------------------------------------------------
(* Verifying a path.                                                       *)

\* One layer up, from digests and from digests with their indices.
Joint(digest, sibling, parity) ==
    IF parity = 1 THEN TwoToOne(sibling, digest) ELSE TwoToOne(digest, sibling)

\* The digests that a path leads to.
Climbs(g, data, index, path, L) ==
    /\ g[0] = LeafHash(data)
    /\ \A i \in 1 .. L : g[i] = Joint(g[i - 1], path[i], (index \div 2 ^ (i - 1)) % 2)

UpStep(s, data, index, path, i) ==
    IF i = 0
    THEN [digest |-> LeafHash(data), index |-> index]
    ELSE [ digest |-> IF s.index % 2 = 1 THEN TwoToOne(path[i], s.digest)
                                         ELSE TwoToOne(s.digest, path[i]),
           index  |-> s.index \div 2 ]

IsUp(g, data, index, path, n) == g = [i \in 0 .. n |-> UpStep(g[i - 1], data, index, path, i)]

LEMMA UpExists ==
    ASSUME NEW data, NEW index, NEW path, NEW n \in Nat
    PROVE  \E f : IsUp(f, data, index, path, n)
<1> DEFINE With == {m \in Nat : \E f : IsUp(f, data, index, path, m)}
           step(e, k) == UpStep(e[k - 1], data, index, path, k)
<1>0. \A e, g : step(e, 0) = step(g, 0)
  BY DEF UpStep
<1>1. 0 \in With
  <2> DEFINE g == [k \in 0 .. 0 |-> step(<<>>, 0)]
  <2>1. g = [k \in 0 .. 0 |-> step(g, k)]
    BY <1>0
  <2> HIDE DEF g
  <2>. QED  BY <2>1 DEF IsUp
<1>2. ASSUME NEW m \in 1 .. n, m - 1 \in With PROVE m \in With
  <2>1. PICK f : IsUp(f, data, index, path, m - 1)
    BY <1>2
  <2> DEFINE g == [k \in 0 .. m |-> IF k < m THEN f[k] ELSE step(f, m)]
  <2>2. \A k \in 0 .. m - 1 : f[k] = step(f, k)
    BY <2>1 DEF IsUp
  <2>3. \A k \in 0 .. m : g[k] = step(g, k)
    <3> TAKE k \in 0 .. m
    <3>1. CASE k = 0
      <4>1. g[k] = step(f, 0)
        BY <2>2, <3>1
      <4>. QED  BY <1>0, <3>1, <4>1
    <3>2. CASE k # 0
      <4>1. g[k - 1] = f[k - 1] /\ g[k] = step(f, k)
        BY <2>2, <3>2
      <4>. QED  BY <4>1
    <3>. QED  BY <3>1, <3>2
  <2>4. g = [k \in 0 .. m |-> step(g, k)]
    BY <2>3
  <2> HIDE DEF g
  <2>. QED  BY <2>4 DEF IsUp
<1> HIDE DEF With
<1>3. \A m \in 0 .. n : m \in With
  BY <1>1, <1>2, Counting
<1>. QED  BY <1>3 DEF With

\* What is climbed decides.
Decides(g, data, index, cap, path, L) ==
    VerifiesToCap(data, index, cap, path) <=> g[L] = cap[index \div 2 ^ L + 1]

\* verify_merkle_proof_to_cap climbs along the index's bits to its place in the cap.
LEMMA VerifiesClimbing ==
    ASSUME NEW data, NEW index \in Nat, NEW cap, NEW path, NEW L \in Nat, Len(path) = L
    PROVE  \E g : Climbs(g, data, index, path, L) /\ Decides(g, data, index, cap, path, L)
<1> DEFINE u == CHOOSE g : IsUp(g, data, index, path, L)
           g == [i \in 0 .. L |-> u[i].digest]
<1>1. IsUp(u, data, index, path, L)
  BY UpExists
<1>2. VerifiesToCap(data, index, cap, path) <=> u[L].digest = cap[u[L].index + 1]
  BY DEF VerifiesToCap, IsUp, UpStep
<1> HIDE DEF u
<1>3. \A i \in 0 .. L : u[i] = UpStep(u[i - 1], data, index, path, i)
  BY <1>1 DEF IsUp
<1>4. u[0].digest = LeafHash(data) /\ u[0].index = index
  <2>1. 0 \in 0 .. L
    OBVIOUS
  <2>2. u[0] = [digest |-> LeafHash(data), index |-> index]
    BY <1>3, <2>1 DEF UpStep
  <2>. QED  BY <2>2
<1>5. \A i \in 1 .. L : /\ u[i].digest = Joint(u[i - 1].digest, path[i], u[i - 1].index % 2)
                        /\ u[i].index = u[i - 1].index \div 2
  <2> TAKE i \in 1 .. L
  <2>1. u[i] = UpStep(u[i - 1], data, index, path, i) /\ i # 0
    BY <1>3
  <2>. QED  BY <2>1 DEF UpStep, Joint
<1> DEFINE T == {i \in 0 .. L : u[i].index = index \div 2 ^ i}
<1>6. 0 \in T
  BY <1>4, PowerZero
<1>7. ASSUME NEW i \in 1 .. L, i - 1 \in T PROVE i \in T
  <2> DEFINE m == i - 1
             w == 2 ^ m
  <2>1. m \in Nat /\ i = m + 1 /\ u[m].index = index \div w
    BY <1>7
  <2> HIDE DEF m
  <2>2. w \in Nat /\ w >= 1 /\ 2 ^ (m + 1) = 2 * w
    BY <2>1, Doubling
  <2> HIDE DEF w
  <2>3. (index \div w) \div 2 = index \div (w * 2)
    <3>1. w > 0 /\ 2 \in Nat /\ 2 > 0
      BY <2>2
    <3>. QED  BY <2>2, <3>1, DivTwice
  <2>4. w * 2 = 2 ^ i
    BY <2>1, <2>2
  <2>5. u[i].index = u[m].index \div 2
    BY <1>5 DEF m
  <2>. QED  BY <2>1, <2>3, <2>4, <2>5
<1> HIDE DEF T
<1>8. \A i \in 0 .. L : i \in T
  BY <1>6, <1>7, Counting
<1>9. \A i \in 0 .. L : u[i].index = index \div 2 ^ i
  BY <1>8 DEF T
<1>10. ASSUME NEW i \in 1 .. L
       PROVE  g[i] = Joint(g[i - 1], path[i], (index \div 2 ^ (i - 1)) % 2)
  <2>1. i - 1 \in 0 .. L /\ i \in 0 .. L
    OBVIOUS
  <2>2. u[i - 1].index = index \div 2 ^ (i - 1)
    BY <1>9, <2>1
  <2>3. g[i] = u[i].digest /\ g[i - 1] = u[i - 1].digest
    BY <2>1
  <2> HIDE DEF g
  <2>. QED  BY <1>5, <2>2, <2>3
<1>11. g[0] = LeafHash(data) /\ g[L] = u[L].digest /\ u[L].index = index \div 2 ^ L
  BY <1>4, <1>9
<1> HIDE DEF g
<1>12. Climbs(g, data, index, path, L)
  BY <1>10, <1>11 DEF Climbs
<1>13. Decides(g, data, index, cap, path, L)
  BY <1>2, <1>11 DEF Decides
<1>. QED  BY <1>12, <1>13

\* The digests are the tree's if and only if the leaf and the siblings are.
Meets(g, f, leaves, data, index, path, L) ==
    g[L] = f[L][index \div 2 ^ L].root
      <=> /\ data = leaves[index + 1]
          /\ \A i \in 1 .. L : path[i] = f[i - 1][Sibling(index \div 2 ^ (i - 1))].root

\* A climb meets the tree's root at its end exactly if it started from the
\* tree's leaf and took the tree's siblings: hashing in order is injective.
LEMMA ClimbMeets ==
    ASSUME NEW leaves, NEW height \in Nat, NEW index \in 0 .. 2 ^ height - 1,
           NEW f, Grown(f, leaves, height), NEW L \in 0 .. height,
           NEW g, NEW data, NEW path, Climbs(g, data, index, path, L)
    PROVE  Meets(g, f, leaves, data, index, path, L)
<1> DEFINE ix(i) == index \div 2 ^ i
           Right(i) == path[i] = f[i - 1][Sibling(ix(i - 1))].root
           T == {i \in 0 .. L : g[i] = f[i][ix(i)].root
                                  <=> data = leaves[index + 1] /\ \A j \in 1 .. i : Right(j)}
<1>1. 2 ^ height \in Nat /\ index \in Nat
  BY Doubling
<1>2. 0 \in T
  <2>1. ix(0) = index
    BY <1>1, PowerZero
  <2>2. f[0][index].root = LeafHash(leaves[index + 1])
    <3>1. \A x : [digests |-> <<>>, root |-> x].root = x
      OBVIOUS
    <3>2. f[0][index] = [digests |-> <<>>, root |-> LeafHash(leaves[index + 1])]
      BY DEF Grown
    <3>. QED  BY <3>1, <3>2
  <2>3. g[0] = LeafHash(data)
    BY DEF Climbs
  <2>4. LeafHash(data) = LeafHash(leaves[index + 1]) <=> data = leaves[index + 1]
    BY DEF LeafHash
  <2> HIDE DEF ix, Right
  <2>. QED  BY <2>1, <2>2, <2>3, <2>4
<1>3. ASSUME NEW i \in 1 .. L, i - 1 \in T PROVE i \in T
  <2> DEFINE m == i - 1
             x == ix(m)
             y == ix(i)
             b == x % 2
             w == 2 ^ m
  <2>1. m \in Nat /\ i = m + 1 /\ i \in 1 .. height /\ i \in 0 .. L
    OBVIOUS
  <2>2. w \in Nat /\ w >= 1 /\ 2 ^ (m + 1) = 2 * w
    <3> HIDE DEF m
    <3>. QED  BY <2>1, Doubling
  <2>3. x \in Nat /\ y = x \div 2 /\ x = 2 * y + b /\ b \in 0 .. 1 /\ y \in Nat
        /\ Sibling(x) = 2 * y + (1 - b)
    <3>1. y = index \div (2 * w) /\ x = index \div w
      BY <2>1, <2>2
    <3> HIDE DEF w, x, y, b
    <3>2. (index \div w) \div 2 = index \div (w * 2)
      <4>1. w > 0 /\ 2 \in Nat /\ 2 > 0
        BY <2>2
      <4>. QED  BY <1>1, <2>2, <4>1, DivTwice
    <3>3. w * 2 = 2 * w
      BY <2>2
    <3>4. x \in Nat
      <4>1. w > 0
        BY <2>2
      <4>2. index \div w \in Nat
        BY <1>1, <2>2, <4>1, Divided
      <4>. QED  BY <3>1, <4>2
    <3>5. y = x \div 2
      BY <3>1, <3>2, <3>3
    <3>6. Sibling(x) = 2 * (x \div 2) + (1 - (x % 2)) /\ x = 2 * (x \div 2) + (x % 2)
           /\ x \div 2 \in Nat /\ x % 2 \in 0 .. 1
      BY <3>4, SiblingOf
    <3>. QED  BY <3>4, <3>5, <3>6 DEF b
  <2>4. y \in 0 .. 2 ^ (height - i) - 1
    <3> DEFINE N == 2 ^ (height - i)
               D == 2 ^ i
    <3>1. 2 ^ height = N * D /\ N \in Nat /\ D \in Nat /\ D >= 1
      <4>1. height - i \in Nat /\ i \in Nat /\ height = (height - i) + i
        OBVIOUS
      <4>. QED  BY <4>1, PowerSum
    <3> HIDE DEF N, D
    <3>2. index < N * D /\ D > 0
      BY <3>1
    <3>3. index \div D \in 0 .. N - 1
      BY <1>1, <3>1, <3>2, Divided
    <3>. QED  BY <3>3 DEF N, D
  <2> DEFINE l == f[m][2 * y].root
             r == f[m][2 * y + 1].root
  <2>5. f[i][y].root = TwoToOne(l, r)
    <3> HIDE DEF y
    <3>1. f[i][y] = Parent(f[i - 1][2 * y], f[i - 1][2 * y + 1])
      BY <2>1, <2>4 DEF Grown
    <3>2. \A c, d : Parent(c, d).root = TwoToOne(c.root, d.root)
      BY DEF Parent
    <3>. QED  BY <3>1, <3>2
  <2>6. g[i] = Joint(g[m], path[i], b)
    BY DEF Climbs
  <2>7. \A p, q, c, d : TwoToOne(p, q) = TwoToOne(c, d) <=> p = c /\ q = d
    BY DEF TwoToOne
  <2>8. g[m] = f[m][x].root <=> data = leaves[index + 1] /\ \A j \in 1 .. m : Right(j)
    BY <1>3
  <2>9. Right(i) <=> path[i] = f[m][Sibling(x)].root
    OBVIOUS
  <2>10. g[i] = f[i][y].root <=> g[m] = f[m][x].root /\ Right(i)
    <3> HIDE DEF x, y, b, m, Right
    <3>1. CASE b = 1
      <4>1. x = 2 * y + 1 /\ Sibling(x) = 2 * y
        BY <2>3, <3>1
      <4>. QED  BY <2>5, <2>6, <2>7, <2>9, <3>1, <4>1 DEF Joint
    <3>2. CASE b = 0
      <4>1. x = 2 * y /\ Sibling(x) = 2 * y + 1
        BY <2>3, <3>2
      <4>. QED  BY <2>5, <2>6, <2>7, <2>9, <3>2, <4>1 DEF Joint
    <3>. QED  BY <2>3, <3>1, <3>2
  <2>11. (\A j \in 1 .. i : Right(j)) <=> (\A j \in 1 .. m : Right(j)) /\ Right(i)
    <3>1. 1 .. i = (1 .. m) \cup {i}
      OBVIOUS
    <3> HIDE DEF Right, m
    <3>. QED  BY <3>1
  <2>12. g[i] = f[i][y].root <=> data = leaves[index + 1] /\ \A j \in 1 .. i : Right(j)
    <3> HIDE DEF x, y, m, Right
    <3>. QED  BY <2>8, <2>10, <2>11
  <2> HIDE DEF Right
  <2>. QED  BY <2>1, <2>12
<1> HIDE DEF T
<1>4. \A i \in 0 .. L : i \in T
  BY <1>2, <1>3, Counting
<1>5. L \in T
  BY <1>4
<1>. QED  BY <1>5 DEF T, Meets

\* A path of a length.
IsPath(path, L) == path = [i \in 1 .. L |-> path[i]]

LEMMA PathLength ==
    ASSUME NEW path, NEW L \in Nat, IsPath(path, L)
    PROVE  Len(path) = L /\ DOMAIN path = 1 .. L
<1> DEFINE p == [i \in 1 .. L |-> path[i]]
<1>1. Len(p) = L /\ DOMAIN p = 1 .. L
  OBVIOUS
<1>2. p = path
  BY DEF IsPath
<1> HIDE DEF p
<1>. QED  BY <1>1, <1>2

\* What the prover opens of a tree.
IsOpening(t, index, data, path) == data = t.leaves[index + 1] /\ path = Path(t, index)

Reaches(g, t, index, data, path, L) ==
    g[L] = t.cap[index \div 2 ^ L + 1] <=> IsOpening(t, index, data, path)

\* Climbing from a leaf meets the cap with the leaf's data and path, and only with them.
LEMMA ClimbIs ==
    ASSUME NEW leaves, NEW height \in Nat, NEW capHeight \in 0 .. height,
           NEW index \in 0 .. 2 ^ height - 1, NEW L, L = height - capHeight,
           NEW g, NEW data, NEW path, Climbs(g, data, index, path, L), IsPath(path, L)
    PROVE  Reaches(g, Tree(leaves, height, capHeight), index, data, path, L)
<1> DEFINE f == Subtrees(leaves, height)
           t == Tree(leaves, height, capHeight)
<1>1. Grown(f, leaves, height)
  BY SubtreesGrown
<1>2. L \in 0 .. height
  OBVIOUS
<1>3. Path(t, index) = Siblings(f, index, L)
      /\ t.cap[index \div 2 ^ L + 1] = f[L][index \div 2 ^ L].root
  BY PathIs
<1>6. t.leaves = leaves
  BY TreeFields
<1> HIDE DEF f, t
<1>4. Meets(g, f, leaves, data, index, path, L)
  BY <1>1, <1>2, ClimbMeets
<1>5. path = Siblings(f, index, L)
        <=> \A i \in 1 .. L : path[i] = f[i - 1][Sibling(index \div 2 ^ (i - 1))].root
  BY DEF Siblings, IsPath
<1>. QED  BY <1>3, <1>4, <1>5, <1>6 DEF t, Meets, Reaches, IsOpening

\* verify_merkle_proof_to_cap accepts the opening of the index and no other.
LEMMA OpeningVerifies ==
    ASSUME NEW leaves, NEW height \in Nat, NEW capHeight \in 0 .. height,
           NEW index \in 0 .. 2 ^ height - 1,
           NEW data, NEW path, IsPath(path, height - capHeight)
    PROVE  VerifiesToCap(data, index, Tree(leaves, height, capHeight).cap, path)
             <=> IsOpening(Tree(leaves, height, capHeight), index, data, path)
<1> DEFINE L == height - capHeight
           t == Tree(leaves, height, capHeight)
<1>1. L \in Nat /\ 2 ^ height \in Nat /\ index \in Nat
  BY Doubling
<1> HIDE DEF t
<1>2. Len(path) = L
  BY <1>1, PathLength
<1> HIDE DEF L
<1> DEFINE c == t.cap
<1> HIDE DEF c
<1>3. PICK g : Climbs(g, data, index, path, L) /\ Decides(g, data, index, c, path, L)
  BY <1>1, <1>2, VerifiesClimbing
<1>4. L = height - capHeight /\ IsPath(path, L)
  BY DEF L
<1>5. Reaches(g, t, index, data, path, L)
  BY <1>3, <1>4, ClimbIs DEF t
<1>. QED  BY <1>3, <1>5 DEF t, c, Reaches, Decides

\* The same climb, along bits.
BitStep(s, data, bits, path, i) ==
    IF i = 0 THEN LeafHash(data)
    ELSE IF bits[i] = 1 THEN TwoToOne(path[i], s) ELSE TwoToOne(s, path[i])

IsUpBits(g, data, bits, path, n) == g = [i \in 0 .. n |-> BitStep(g[i - 1], data, bits, path, i)]

LEMMA UpBitsExists ==
    ASSUME NEW data, NEW bits, NEW path, NEW n \in Nat
    PROVE  \E f : IsUpBits(f, data, bits, path, n)
<1> DEFINE With == {m \in Nat : \E f : IsUpBits(f, data, bits, path, m)}
           step(e, k) == BitStep(e[k - 1], data, bits, path, k)
<1>0. \A e, g : step(e, 0) = step(g, 0)
  BY DEF BitStep
<1>1. 0 \in With
  <2> DEFINE g == [k \in 0 .. 0 |-> step(<<>>, 0)]
  <2>1. g = [k \in 0 .. 0 |-> step(g, k)]
    BY <1>0
  <2> HIDE DEF g
  <2>. QED  BY <2>1 DEF IsUpBits
<1>2. ASSUME NEW m \in 1 .. n, m - 1 \in With PROVE m \in With
  <2>1. PICK f : IsUpBits(f, data, bits, path, m - 1)
    BY <1>2
  <2> DEFINE g == [k \in 0 .. m |-> IF k < m THEN f[k] ELSE step(f, m)]
  <2>2. \A k \in 0 .. m - 1 : f[k] = step(f, k)
    BY <2>1 DEF IsUpBits
  <2>3. \A k \in 0 .. m : g[k] = step(g, k)
    <3> TAKE k \in 0 .. m
    <3>1. CASE k = 0
      <4>1. g[k] = step(f, 0)
        BY <2>2, <3>1
      <4>. QED  BY <1>0, <3>1, <4>1
    <3>2. CASE k # 0
      <4>1. g[k - 1] = f[k - 1] /\ g[k] = step(f, k)
        BY <2>2, <3>2
      <4>. QED  BY <4>1
    <3>. QED  BY <3>1, <3>2
  <2>4. g = [k \in 0 .. m |-> step(g, k)]
    BY <2>3
  <2> HIDE DEF g
  <2>. QED  BY <2>4 DEF IsUpBits
<1> HIDE DEF With
<1>3. \A m \in 0 .. n : m \in With
  BY <1>1, <1>2, Counting
<1>. QED  BY <1>3 DEF With

\* So does the circuit's, which climbs by bits and is given the cap's index.
LEMMA OpeningVerifiesInCircuit ==
    ASSUME NEW leaves, NEW height \in Nat, NEW capHeight \in 0 .. height,
           NEW index \in 0 .. 2 ^ height - 1,
           NEW data, NEW path, IsPath(path, height - capHeight),
           NEW bits, bits = Bits(index, height),
           NEW capIndex, capIndex = index \div 2 ^ (height - capHeight)
    PROVE  VerifiesWithCapIndex(data, bits, capIndex, Tree(leaves, height, capHeight).cap, path)
             <=> IsOpening(Tree(leaves, height, capHeight), index, data, path)
<1> DEFINE L == height - capHeight
           t == Tree(leaves, height, capHeight)
           g == CHOOSE u : IsUpBits(u, data, bits, path, L)
<1>1. L \in Nat /\ L <= height
  OBVIOUS
<1> HIDE DEF t
<1>2. Len(path) = L
  BY <1>1, PathLength
<1>3. Len(bits) = height /\ \A i \in 1 .. height : bits[i] = (index \div 2 ^ (i - 1)) % 2
  BY DEF Bits
<1>4. (IF Len(path) < Len(bits) THEN Len(path) ELSE Len(bits)) = L
  BY <1>1, <1>2, <1>3
<1>5. L = height - capHeight /\ IsPath(path, L) /\ capIndex = index \div 2 ^ L
  OBVIOUS
<1> HIDE DEF L
<1>6. VerifiesWithCapIndex(data, bits, capIndex, t.cap, path) <=> g[L] = t.cap[capIndex + 1]
  BY <1>4 DEF VerifiesWithCapIndex, IsUpBits, BitStep
<1>7. IsUpBits(g, data, bits, path, L)
  BY <1>1, UpBitsExists
<1> HIDE DEF g
<1>8. \A i \in 0 .. L : g[i] = BitStep(g[i - 1], data, bits, path, i)
  BY <1>7 DEF IsUpBits
<1>9. g[0] = LeafHash(data)
  BY <1>1, <1>8 DEF BitStep
<1>10. ASSUME NEW i \in 1 .. L
       PROVE  g[i] = Joint(g[i - 1], path[i], (index \div 2 ^ (i - 1)) % 2)
  <2>1. i \in 0 .. L /\ i # 0 /\ i \in 1 .. height
    BY <1>1
  <2>2. bits[i] = (index \div 2 ^ (i - 1)) % 2
    BY <1>3, <2>1
  <2>. QED  BY <1>8, <2>1, <2>2 DEF BitStep, Joint
<1>11. Climbs(g, data, index, path, L)
  BY <1>9, <1>10 DEF Climbs
<1>12. Reaches(g, t, index, data, path, L)
  BY <1>5, <1>11, ClimbIs DEF t
<1>. QED  BY <1>5, <1>6, <1>12 DEF t, Reaches

-----------------------------------------------------------------------------
(* Bits.                                                                   *)

SumStep(s, bits, i) == IF i = 0 THEN 0 ELSE s + bits[i] * 2 ^ (i - 1)

IsSum(g, bits, n) == g = [i \in 0 .. n |-> SumStep(g[i - 1], bits, i)]

LEMMA SumExists ==
    ASSUME NEW bits, NEW n \in Nat
    PROVE  \E f : IsSum(f, bits, n)
<1> DEFINE With == {m \in Nat : \E f : IsSum(f, bits, m)}
           step(e, k) == SumStep(e[k - 1], bits, k)
<1>0. \A e, g : step(e, 0) = step(g, 0)
  BY DEF SumStep
<1>1. 0 \in With
  <2> DEFINE g == [k \in 0 .. 0 |-> step(<<>>, 0)]
  <2>1. g = [k \in 0 .. 0 |-> step(g, k)]
    BY <1>0
  <2> HIDE DEF g
  <2>. QED  BY <2>1 DEF IsSum
<1>2. ASSUME NEW m \in 1 .. n, m - 1 \in With PROVE m \in With
  <2>1. PICK f : IsSum(f, bits, m - 1)
    BY <1>2
  <2> DEFINE g == [k \in 0 .. m |-> IF k < m THEN f[k] ELSE step(f, m)]
  <2>2. \A k \in 0 .. m - 1 : f[k] = step(f, k)
    BY <2>1 DEF IsSum
  <2>3. \A k \in 0 .. m : g[k] = step(g, k)
    <3> TAKE k \in 0 .. m
    <3>1. CASE k = 0
      <4>1. g[k] = step(f, 0)
        BY <2>2, <3>1
      <4>. QED  BY <1>0, <3>1, <4>1
    <3>2. CASE k # 0
      <4>1. g[k - 1] = f[k - 1] /\ g[k] = step(f, k)
        BY <2>2, <3>2
      <4>. QED  BY <4>1
    <3>. QED  BY <3>1, <3>2
  <2>4. g = [k \in 0 .. m |-> step(g, k)]
    BY <2>3
  <2> HIDE DEF g
  <2>. QED  BY <2>4 DEF IsSum
<1> HIDE DEF With
<1>3. \A m \in 0 .. n : m \in With
  BY <1>1, <1>2, Counting
<1>. QED  BY <1>3 DEF With

\* One more bit.
LEMMA NextBit ==
    ASSUME NEW n \in Nat, NEW D \in Nat, D > 0
    PROVE  n % (2 * D) = (n % D) + ((n \div D) % 2) * D
<1> DEFINE x == n \div D
           y == n % D
           p == x \div 2
           b == x % 2
           r == b * D + y
<1>1. n = x * D + y /\ x \in Nat /\ y \in 0 .. D - 1
  BY Divided
<1> HIDE DEF x, y
<1>2. x = 2 * p + b /\ p \in Nat /\ b \in 0 .. 1
  BY <1>1, SiblingOf
<1> HIDE DEF p, b
<1>3. r \in Nat /\ r < 2 * D
  <2>1. CASE b = 0
    BY <1>1, <2>1
  <2>2. CASE b = 1
    BY <1>1, <2>2
  <2>. QED  BY <1>2, <2>1, <2>2
<1> DEFINE E == 2 * D
<1>4. E \in Nat /\ E > 0
  OBVIOUS
<1>5. n = p * E + r
  <2>1. x * D = p * (2 * D) + b * D
    BY <1>2
  <2>2. p * (2 * D) \in Nat /\ b * D \in Nat
    BY <1>2
  <2>. QED  BY <1>1, <2>1, <2>2
<1> HIDE DEF E, r
<1>6. r < E
  BY <1>3 DEF E
<1>7. n % E = r
  BY <1>2, <1>3, <1>4, <1>5, <1>6, DivUnique
<1>8. b * D \in Int
  BY <1>2
<1>. QED  BY <1>1, <1>7, <1>8 DEF E, r, x, y, b

\* le_sum of the low bits is the remainder.
LEMMA LeSumOf ==
    ASSUME NEW n \in Nat, NEW w \in Nat
    PROVE  LeSum(Bits(n, w)) = n % 2 ^ w
<1> DEFINE bits == Bits(n, w)
           g == CHOOSE u : IsSum(u, bits, w)
<1>1. Len(bits) = w /\ \A i \in 1 .. w : bits[i] = (n \div 2 ^ (i - 1)) % 2
  BY DEF Bits
<1> HIDE DEF bits
<1>2. IsSum(g, bits, w)
  BY SumExists
<1>3. LeSum(bits) = g[w]
  BY <1>1 DEF LeSum, IsSum, SumStep
<1> HIDE DEF g
<1>4. \A i \in 0 .. w : g[i] = SumStep(g[i - 1], bits, i)
  BY <1>2 DEF IsSum
<1> DEFINE T == {i \in 0 .. w : g[i] = n % 2 ^ i}
<1>5. 0 \in T
  <2>1. g[0] = 0
    BY <1>4 DEF SumStep
  <2>2. n % 1 = 0
    OBVIOUS
  <2>. QED  BY <2>1, <2>2, PowerZero
<1>6. ASSUME NEW i \in 1 .. w, i - 1 \in T PROVE i \in T
  <2> DEFINE m == i - 1
             D == 2 ^ m
             b == (n \div D) % 2
  <2>1. m \in Nat /\ i = m + 1 /\ g[m] = n % D /\ i \in 0 .. w /\ i # 0
    BY <1>6
  <2>2. g[i] = g[m] + bits[i] * D
    BY <1>4, <2>1 DEF SumStep
  <2>3. bits[i] = b
    BY <1>1
  <2> HIDE DEF m
  <2>4. D \in Nat /\ D > 0 /\ 2 ^ (m + 1) = 2 * D
    BY <2>1, Doubling
  <2>5. 2 ^ i = 2 * D
    BY <2>1, <2>4
  <2> HIDE DEF D
  <2>6. n % (2 * D) = (n % D) + ((n \div D) % 2) * D
    BY <2>4, NextBit
  <2>7. g[i] = n % (2 * D)
    BY <2>1, <2>2, <2>3, <2>6
  <2>. QED  BY <2>1, <2>5, <2>7
<1> HIDE DEF T
<1>7. \A i \in 0 .. w : i \in T
  BY <1>5, <1>6, Counting
<1>8. w \in T
  BY <1>7
<1>. QED  BY <1>3, <1>8 DEF T, bits

\* What is taken off above the low bits does not change them.
LEMMA Parity ==
    ASSUME NEW m \in Nat, NEW V \in Nat, V > 0
    PROVE  (m % (2 * V)) % 2 = m % 2
<1> DEFINE E == 2 * V
           q == m \div E
           r == m % E
           s == r \div 2
           b == r % 2
<1>1. E \in Nat /\ E > 0
  OBVIOUS
<1> HIDE DEF E
<1>2. m = q * E + r /\ q \in Nat /\ r \in Nat
  BY <1>1, Divided
<1> HIDE DEF q, r
<1>3. r = 2 * s + b /\ s \in Nat /\ b \in 0 .. 1
  BY <1>2, SiblingOf
<1> HIDE DEF s, b
<1> DEFINE k == q * V + s
<1>4. k \in Nat /\ m = k * 2 + b
  <2>1. q * E = (q * V) * 2 /\ q * V \in Nat
    BY <1>2 DEF E
  <2>. QED  BY <1>2, <1>3, <2>1
<1> HIDE DEF k
<1>5. b \in Nat /\ b < 2 /\ 2 \in Nat /\ 2 > 0
  BY <1>3
<1>6. m % 2 = b
  BY <1>4, <1>5, DivUnique
<1>. QED  BY <1>6 DEF b, r, E

\* Low bits are those of the remainder.
LEMMA LowBits ==
    ASSUME NEW n \in Nat, NEW w \in Nat
    PROVE  Bits(n, w) = Bits(n % 2 ^ w, w)
<1>1. ASSUME NEW i \in 1 .. w
      PROVE  (n \div 2 ^ (i - 1)) % 2 = ((n % 2 ^ w) \div 2 ^ (i - 1)) % 2
  <2> DEFINE D == 2 ^ (i - 1)
             V == 2 ^ (w - i)
             U == 2 * V
             W == 2 ^ w
  <2>1. D \in Nat /\ D > 0 /\ V \in Nat /\ V > 0 /\ W = D * U
    <3> DEFINE a == i - 1
               c == w - i
    <3>1. a \in Nat /\ c \in Nat /\ c + 1 \in Nat /\ w = a + (c + 1)
      OBVIOUS
    <3> HIDE DEF a, c
    <3>2. W = 2 ^ a * 2 ^ (c + 1) /\ 2 ^ a \in Nat /\ 2 ^ a >= 1
      BY <3>1, PowerSum
    <3>3. 2 ^ (c + 1) = 2 * 2 ^ c /\ 2 ^ c \in Nat /\ 2 ^ c >= 1
      BY <3>1, Doubling
    <3>. QED  BY <3>2, <3>3 DEF a, c
  <2> HIDE DEF D, V, W
  <2>2. U \in Nat /\ U > 0
    BY <2>1
  <2> HIDE DEF U
  <2>3. (n \div D) % U = (n % (D * U)) \div D
    BY <2>1, <2>2, DivTwice, ZenonT(30)
  <2> DEFINE m == n \div D
  <2>4. m \in Nat
    BY <2>1, Divided
  <2> HIDE DEF m
  <2>5. (m % (2 * V)) % 2 = m % 2
    BY <2>1, <2>4, Parity
  <2>6. (n % W) \div D = m % (2 * V)
    BY <2>1, <2>3 DEF m, U
  <2>7. (n \div D) % 2 = ((n % W) \div D) % 2
    BY <2>5, <2>6 DEF m
  <2>. QED  BY <2>7 DEF D, W
<1>. QED  BY <1>1 DEF Bits

\* Bits in the middle are those of a quotient.
IsMiddle(n, w, a, c) == SubSeq(Bits(n, w), a + 1, a + c) = Bits(n \div 2 ^ a, c)

\* Bits taken from the middle are the bits of a quotient.
LEMMA MiddleBits ==
    ASSUME NEW n \in Nat, NEW w \in Nat, NEW a \in Nat, NEW c \in Nat, a + c <= w
    PROVE  IsMiddle(n, w, a, c)
<1> DEFINE bits == Bits(n, w)
           sub == SubSeq(bits, a + 1, a + c)
           high == Bits(n \div 2 ^ a, c)
<1>1. bits = [i \in 1 .. w |-> (n \div 2 ^ (i - 1)) % 2] /\ bits \in Seq(Int) /\ Len(bits) = w
  <2>1. \A i \in 1 .. w : (n \div 2 ^ (i - 1)) % 2 \in Int
    <3> TAKE i \in 1 .. w
    <3> DEFINE k == i - 1
               D == 2 ^ k
    <3>1. k \in Nat
      OBVIOUS
    <3> HIDE DEF k
    <3>2. D \in Nat /\ D > 0
      BY <3>1, Doubling
    <3> HIDE DEF D
    <3>3. n \div D \in Nat
      BY <3>2, Divided
    <3>4. (n \div D) % 2 \in Int
      BY <3>3
    <3>. QED  BY <3>4 DEF D, k
  <2>. QED  BY <2>1 DEF Bits
<1>2. ASSUME NEW i \in 1 .. c
      PROVE  bits[a + i] = high[i]
  <2> DEFINE k == i - 1
             A == 2 ^ a
             D == 2 ^ k
  <2>1. k \in Nat /\ (a + i) - 1 = a + k /\ a + i \in 1 .. w
    OBVIOUS
  <2> HIDE DEF k
  <2>2. 2 ^ (a + k) = A * D /\ A \in Nat /\ D \in Nat /\ A > 0 /\ D > 0
    <3>1. a + k = a + k
      OBVIOUS
    <3> DEFINE e == a + k
    <3>2. e = a + k
      OBVIOUS
    <3> HIDE DEF e
    <3>3. 2 ^ e = A * D /\ A \in Nat /\ D \in Nat /\ A >= 1 /\ D >= 1
      BY <2>1, <3>2, PowerSum
    <3>. QED  BY <3>3 DEF e
  <2> HIDE DEF A, D
  <2>3. (n \div A) \div D = n \div (A * D)
    BY <2>2, DivTwice
  <2>4. bits[a + i] = (n \div (A * D)) % 2
    <3> HIDE DEF bits
    <3>1. bits[a + i] = (n \div 2 ^ ((a + i) - 1)) % 2
      BY <1>1, <2>1
    <3>. QED  BY <2>1, <2>2, <3>1
  <2>5. high[i] = ((n \div A) \div D) % 2
    BY DEF Bits, A, D, k
  <2>. QED  BY <2>3, <2>4, <2>5
<1> HIDE DEF bits
<1>3. high = [i \in 1 .. c |-> high[i]]
  BY DEF Bits
<1> HIDE DEF high
<1>4. sub = [i \in 1 .. c |-> bits[a + i]]
  <2>1. a + 1 \in Nat /\ a + c \in Nat /\ (a + c) - (a + 1) + 1 = c
    OBVIOUS
  <2>2. \A i \in 1 .. c : i + (a + 1) - 1 = a + i
    OBVIOUS
  <2>3. sub = [i \in 1 .. ((a + c) - (a + 1) + 1) |-> bits[i + (a + 1) - 1]]
    BY <1>1
  <2>. QED  BY <2>1, <2>2, <2>3
<1>5. sub = [i \in 1 .. c |-> high[i]]
  BY <1>2, <1>4
<1>. QED  BY <1>3, <1>5 DEF IsMiddle, bits, high

-----------------------------------------------------------------------------
(* Reductions.                                                             *)

SizeStep(v, s, i) == IF i = 0 THEN s.logN ELSE v - s.arities[i]

IsSize(g, s, n) == g = [i \in 0 .. n |-> SizeStep(g[i - 1], s, i)]

LEMMA SizeExists ==
    ASSUME NEW s, NEW n \in Nat
    PROVE  \E f : IsSize(f, s, n)
<1> DEFINE With == {m \in Nat : \E f : IsSize(f, s, m)}
           step(e, k) == SizeStep(e[k - 1], s, k)
<1>0. \A e, g : step(e, 0) = step(g, 0)
  BY DEF SizeStep
<1>1. 0 \in With
  <2> DEFINE g == [k \in 0 .. 0 |-> step(<<>>, 0)]
  <2>1. g = [k \in 0 .. 0 |-> step(g, k)]
    BY <1>0
  <2> HIDE DEF g
  <2>. QED  BY <2>1 DEF IsSize
<1>2. ASSUME NEW m \in 1 .. n, m - 1 \in With PROVE m \in With
  <2>1. PICK f : IsSize(f, s, m - 1)
    BY <1>2
  <2> DEFINE g == [k \in 0 .. m |-> IF k < m THEN f[k] ELSE step(f, m)]
  <2>2. \A k \in 0 .. m - 1 : f[k] = step(f, k)
    BY <2>1 DEF IsSize
  <2>3. \A k \in 0 .. m : g[k] = step(g, k)
    <3> TAKE k \in 0 .. m
    <3>1. CASE k = 0
      <4>1. g[k] = step(f, 0)
        BY <2>2, <3>1
      <4>. QED  BY <1>0, <3>1, <4>1
    <3>2. CASE k # 0
      <4>1. g[k - 1] = f[k - 1] /\ g[k] = step(f, k)
        BY <2>2, <3>2
      <4>. QED  BY <4>1
    <3>. QED  BY <3>1, <3>2
  <2>4. g = [k \in 0 .. m |-> step(g, k)]
    BY <2>3
  <2> HIDE DEF g
  <2>. QED  BY <2>4 DEF IsSize
<1> HIDE DEF With
<1>3. \A m \in 0 .. n : m \in With
  BY <1>1, <1>2, Counting
<1>. QED  BY <1>3 DEF With

\* The size of a reduction's codeword, arity by arity.
LEMMA Sizes ==
    ASSUME NEW s, Depths(s) \in Nat
    PROVE  /\ LogSize(s, 0) = s.logN
           /\ \A i \in 1 .. Depths(s) : LogSize(s, i) = LogSize(s, i - 1) - s.arities[i]
<1> DEFINE n == Depths(s)
           g == CHOOSE u : IsSize(u, s, n)
<1>1. IsSize(g, s, n)
  BY SizeExists
<1>2. \A d : LogSize(s, d) = g[d]
  BY DEF LogSize, IsSize, SizeStep
<1> HIDE DEF g
<1>3. \A i \in 0 .. n : g[i] = SizeStep(g[i - 1], s, i)
  BY <1>1 DEF IsSize
<1>4. g[0] = s.logN
  <2>1. 0 \in 0 .. n
    OBVIOUS
  <2>. QED  BY <1>3, <2>1 DEF SizeStep
<1>5. \A i \in 1 .. n : g[i] = g[i - 1] - s.arities[i]
  <2> TAKE i \in 1 .. n
  <2>1. i \in 0 .. n /\ i # 0
    OBVIOUS
  <2>. QED  BY <1>3, <2>1 DEF SizeStep
<1>. QED  BY <1>2, <1>4, <1>5

\* Sizes go down from the first to the last, which has room for the cap.
Reducing(s) ==
    /\ Depths(s) \in Nat /\ s.logN \in Nat /\ s.capHeight \in Nat
    /\ LogSize(s, 0) = s.logN
    /\ \A i \in 0 .. Depths(s) :
         LogSize(s, i) \in Nat /\ s.capHeight <= LogSize(s, i) /\ LogSize(s, i) <= s.logN
    /\ \A i \in 1 .. Depths(s) :
         s.arities[i] \in Nat /\ LogSize(s, i - 1) = LogSize(s, i) + s.arities[i]

\* A shape's reductions leave codewords that are no smaller than a cap.
LEMMA ShapeReduces ==
    ASSUME NEW s \in Shape
    PROVE  Reducing(s)
<1> DEFINE n == Depths(s)
           size(i) == LogSize(s, i)
           T == {i \in 0 .. n : size(i) \in Int /\ size(i) <= s.logN}
           U == {i \in 0 .. n : size(n) <= size(n - i)}
<1>1. /\ s.logN \in Nat /\ s.capHeight \in Nat
      /\ s.arities \in Seq(Nat) /\ LogSize(s, n) >= s.capHeight
  BY ShapeAssumption
<1>2. n \in Nat /\ \A i \in 1 .. n : s.arities[i] \in Nat
  BY <1>1 DEF Depths
<1>3. size(0) = s.logN /\ \A i \in 1 .. n : size(i) = size(i - 1) - s.arities[i]
  BY <1>2, Sizes
<1> HIDE DEF n, size
<1>4. 0 \in T
  BY <1>1, <1>2, <1>3
<1>5. ASSUME NEW i \in 1 .. n, i - 1 \in T PROVE i \in T
  <2>1. size(i) = size(i - 1) - s.arities[i] /\ s.arities[i] \in Nat
    BY <1>2, <1>3
  <2>2. size(i - 1) \in Int /\ size(i - 1) <= s.logN
    BY <1>5
  <2>. QED  BY <1>1, <2>1, <2>2
<1> HIDE DEF T
<1>6. \A i \in 0 .. n : i \in T
  BY <1>2, <1>4, <1>5, Counting
<1>7. \A i \in 0 .. n : size(i) \in Int /\ size(i) <= s.logN
  BY <1>6 DEF T
<1>8. 0 \in U
  <2>1. n - 0 = n /\ size(n) \in Int
    BY <1>2, <1>7
  <2>. QED  BY <1>2, <2>1
<1>9. ASSUME NEW i \in 1 .. n, i - 1 \in U PROVE i \in U
  <2> DEFINE k == n - i
  <2>1. k \in 0 .. n /\ k + 1 \in 1 .. n /\ k + 1 \in 0 .. n /\ n - (i - 1) = k + 1
        /\ (k + 1) - 1 = k /\ n \in 0 .. n
    BY <1>2
  <2>2. size(n) <= size(k + 1)
    BY <1>9, <2>1
  <2> HIDE DEF k
  <2>3. size(k + 1) = size(k) - s.arities[k + 1] /\ s.arities[k + 1] \in Nat
    BY <1>2, <1>3, <2>1
  <2>4. size(n) <= size(k)
    BY <1>7, <2>1, <2>2, <2>3
  <2>. QED  BY <2>4 DEF k
<1> HIDE DEF U
<1>10. \A i \in 0 .. n : i \in U
  BY <1>2, <1>8, <1>9, Counting
<1>11. ASSUME NEW i \in 0 .. n
       PROVE  size(i) \in Nat /\ s.capHeight <= size(i) /\ size(i) <= s.logN
  <2>1. n - i \in 0 .. n /\ n - (n - i) = i /\ n \in 0 .. n
    BY <1>2
  <2>2. n - i \in U
    BY <1>10, <2>1
  <2>3. size(n) <= size(i)
    BY <2>1, <2>2 DEF U
  <2>4. size(n) >= s.capHeight
    BY <1>1 DEF size, n
  <2>. QED  BY <1>1, <1>7, <2>1, <2>3, <2>4
<1>12. ASSUME NEW i \in 1 .. n
       PROVE  s.arities[i] \in Nat /\ size(i - 1) = size(i) + s.arities[i]
  <2>1. i \in 0 .. n /\ i - 1 \in 0 .. n
    BY <1>2
  <2>. QED  BY <1>2, <1>3, <1>7, <2>1
<1>. QED  BY <1>1, <1>2, <1>3, <1>11, <1>12 DEF Reducing, size, n

IndexStep(v, s, x, i) == IF i = 0 THEN x ELSE v \div 2 ^ s.arities[i]

IsIndex(g, s, x, n) == g = [i \in 0 .. n |-> IndexStep(g[i - 1], s, x, i)]

LEMMA IndexExists ==
    ASSUME NEW s, NEW x, NEW n \in Nat
    PROVE  \E f : IsIndex(f, s, x, n)
<1> DEFINE With == {m \in Nat : \E f : IsIndex(f, s, x, m)}
           step(e, k) == IndexStep(e[k - 1], s, x, k)
<1>0. \A e, g : step(e, 0) = step(g, 0)
  BY DEF IndexStep
<1>1. 0 \in With
  <2> DEFINE g == [k \in 0 .. 0 |-> step(<<>>, 0)]
  <2>1. g = [k \in 0 .. 0 |-> step(g, k)]
    BY <1>0
  <2> HIDE DEF g
  <2>. QED  BY <2>1 DEF IsIndex
<1>2. ASSUME NEW m \in 1 .. n, m - 1 \in With PROVE m \in With
  <2>1. PICK f : IsIndex(f, s, x, m - 1)
    BY <1>2
  <2> DEFINE g == [k \in 0 .. m |-> IF k < m THEN f[k] ELSE step(f, m)]
  <2>2. \A k \in 0 .. m - 1 : f[k] = step(f, k)
    BY <2>1 DEF IsIndex
  <2>3. \A k \in 0 .. m : g[k] = step(g, k)
    <3> TAKE k \in 0 .. m
    <3>1. CASE k = 0
      <4>1. g[k] = step(f, 0)
        BY <2>2, <3>1
      <4>. QED  BY <1>0, <3>1, <4>1
    <3>2. CASE k # 0
      <4>1. g[k - 1] = f[k - 1] /\ g[k] = step(f, k)
        BY <2>2, <3>2
      <4>. QED  BY <4>1
    <3>. QED  BY <3>1, <3>2
  <2>4. g = [k \in 0 .. m |-> step(g, k)]
    BY <2>3
  <2> HIDE DEF g
  <2>. QED  BY <2>4 DEF IsIndex
<1> HIDE DEF With
<1>3. \A m \in 0 .. n : m \in With
  BY <1>1, <1>2, Counting
<1>. QED  BY <1>3 DEF With

\* The index of a reduction's coset, arity by arity.
LEMMA IndexSteps ==
    ASSUME NEW s, Depths(s) \in Nat, NEW x
    PROVE  /\ IndexAt(s, x, 0) = x
           /\ \A i \in 1 .. Depths(s) : IndexAt(s, x, i) = IndexAt(s, x, i - 1) \div 2 ^ s.arities[i]
<1> DEFINE n == Depths(s)
           g == CHOOSE u : IsIndex(u, s, x, n)
<1>1. IsIndex(g, s, x, n)
  BY IndexExists
<1>2. \A d : IndexAt(s, x, d) = g[d]
  BY DEF IndexAt, IsIndex, IndexStep
<1> HIDE DEF g
<1>3. \A i \in 0 .. n : g[i] = IndexStep(g[i - 1], s, x, i)
  BY <1>1 DEF IsIndex
<1>4. g[0] = x
  <2>1. 0 \in 0 .. n
    OBVIOUS
  <2>. QED  BY <1>3, <2>1 DEF IndexStep
<1>5. \A i \in 1 .. n : g[i] = g[i - 1] \div 2 ^ s.arities[i]
  <2> TAKE i \in 1 .. n
  <2>1. i \in 0 .. n /\ i # 0
    OBVIOUS
  <2>. QED  BY <1>3, <2>1 DEF IndexStep
<1>. QED  BY <1>2, <1>4, <1>5

\* Shifting by one reduction after the other is shifting by all of them.
LEMMA IndexIs ==
    ASSUME NEW s, Reducing(s), NEW x \in 0 .. 2 ^ s.logN - 1
    PROVE  \A i \in 0 .. Depths(s) :
             /\ IndexAt(s, x, i) = x \div 2 ^ (s.logN - LogSize(s, i))
             /\ IndexAt(s, x, i) \in 0 .. 2 ^ LogSize(s, i) - 1
<1> DEFINE n == Depths(s)
           off(i) == s.logN - LogSize(s, i)
           T == {i \in 0 .. n : IndexAt(s, x, i) = x \div 2 ^ off(i)}
<1>1. n \in Nat /\ s.logN \in Nat
  BY DEF Reducing
<1>2. 2 ^ s.logN \in Nat /\ x \in Nat
  BY <1>1, Doubling
<1>3. /\ IndexAt(s, x, 0) = x
      /\ \A i \in 1 .. n : IndexAt(s, x, i) = IndexAt(s, x, i - 1) \div 2 ^ s.arities[i]
  BY <1>1, IndexSteps
<1>4. /\ off(0) = 0 /\ \A i \in 0 .. n : off(i) \in Nat
      /\ \A i \in 1 .. n : s.arities[i] \in Nat /\ off(i) = off(i - 1) + s.arities[i]
  <2>1. off(0) = 0
    BY <1>1 DEF Reducing
  <2>2. \A i \in 0 .. n : off(i) \in Nat
    BY <1>1 DEF Reducing
  <2>3. ASSUME NEW i \in 1 .. n
        PROVE  s.arities[i] \in Nat /\ off(i) = off(i - 1) + s.arities[i]
    <3>1. i \in 0 .. n /\ i - 1 \in 0 .. n
      BY <1>1
    <3>2. s.arities[i] \in Nat /\ LogSize(s, i - 1) = LogSize(s, i) + s.arities[i]
      BY DEF Reducing
    <3>3. LogSize(s, i) \in Nat /\ LogSize(s, i - 1) \in Nat
      BY <3>1 DEF Reducing
    <3>. QED  BY <1>1, <3>2, <3>3
  <2>. QED  BY <2>1, <2>2, <2>3
<1> HIDE DEF n, off
<1>5. 0 \in T
  <2>1. x \div 1 = x
    BY <1>2
  <2>2. 2 ^ off(0) = 1
    BY <1>4, PowerZero, Zenon
  <2>3. 0 \in 0 .. n
    BY <1>1
  <2>. QED  BY <1>3, <2>1, <2>2, <2>3, Zenon
<1>6. ASSUME NEW i \in 1 .. n, i - 1 \in T PROVE i \in T
  <2> DEFINE A == 2 ^ off(i - 1)
             B == 2 ^ s.arities[i]
  <2>1. IndexAt(s, x, i - 1) = x \div A /\ IndexAt(s, x, i) = IndexAt(s, x, i - 1) \div B
    BY <1>3, <1>6
  <2>2. 2 ^ off(i) = A * B /\ A \in Nat /\ A > 0 /\ B \in Nat /\ B > 0
    <3>1. off(i - 1) \in Nat /\ s.arities[i] \in Nat /\ off(i) = off(i - 1) + s.arities[i]
      <4>1. i - 1 \in 0 .. n
        BY <1>1
      <4>. QED  BY <1>4, <4>1
    <3>2. 2 ^ off(i) = A * B /\ A \in Nat /\ A >= 1 /\ B \in Nat /\ B >= 1
      BY <3>1, PowerSum
    <3> HIDE DEF A, B
    <3>. QED  BY <3>2
  <2> HIDE DEF A, B
  <2>3. (x \div A) \div B = x \div (A * B)
    BY <1>2, <2>2, DivTwice
  <2>. QED  BY <1>1, <2>1, <2>2, <2>3
<1> HIDE DEF T
<1>7. \A i \in 0 .. n : i \in T
  BY <1>1, <1>5, <1>6, Counting
<1>8. ASSUME NEW i \in 0 .. n
      PROVE  /\ IndexAt(s, x, i) = x \div 2 ^ off(i)
             /\ IndexAt(s, x, i) \in 0 .. 2 ^ LogSize(s, i) - 1
  <2> DEFINE A == 2 ^ off(i)
             B == 2 ^ LogSize(s, i)
  <2>1. IndexAt(s, x, i) = x \div A
    BY <1>7 DEF T
  <2>2. LogSize(s, i) \in Nat /\ off(i) \in Nat /\ s.logN = LogSize(s, i) + off(i)
    <3>1. LogSize(s, i) \in Nat /\ LogSize(s, i) <= s.logN
      BY DEF Reducing, n
    <3>. QED  BY <1>1, <3>1 DEF off
  <2>3. 2 ^ s.logN = B * A /\ A \in Nat /\ A >= 1 /\ B \in Nat
    BY <2>2, PowerSum
  <2> HIDE DEF A, B
  <2>4. A > 0 /\ x < B * A
    BY <1>2, <2>3
  <2>5. x \div A \in 0 .. B - 1
    BY <1>2, <2>3, <2>4, Divided
  <2>. QED  BY <2>1, <2>5 DEF A, B
<1>. QED  BY <1>8 DEF off, n

-----------------------------------------------------------------------------
(* Codewords and their trees.                                              *)

WordStep(v, s, d) ==
    [x \in 0 .. 2 ^ LogSize(s, d) - 1 |->
        IF d = 0
        THEN Combined([o \in 1 .. NumOracles |-> Leaf(o, x)], x)
        ELSE LET arity == 2 ^ s.arities[d]
             IN  Folded([j \in 1 .. arity |-> v[arity * x + j - 1]], x)]

IsWords(g, s, n) == g = [d \in 0 .. n |-> WordStep(g[d - 1], s, d)]

LEMMA WordsExist ==
    ASSUME NEW s, NEW n \in Nat
    PROVE  \E f : IsWords(f, s, n)
<1> DEFINE With == {m \in Nat : \E f : IsWords(f, s, m)}
           step(e, k) == WordStep(e[k - 1], s, k)
<1>0. \A e, g : step(e, 0) = step(g, 0)
  BY DEF WordStep
<1>1. 0 \in With
  <2> DEFINE g == [k \in 0 .. 0 |-> step(<<>>, 0)]
  <2>1. g = [k \in 0 .. 0 |-> step(g, k)]
    BY <1>0
  <2> HIDE DEF g
  <2>. QED  BY <2>1 DEF IsWords
<1>2. ASSUME NEW m \in 1 .. n, m - 1 \in With PROVE m \in With
  <2>1. PICK f : IsWords(f, s, m - 1)
    BY <1>2
  <2> DEFINE g == [k \in 0 .. m |-> IF k < m THEN f[k] ELSE step(f, m)]
  <2>2. \A k \in 0 .. m - 1 : f[k] = step(f, k)
    BY <2>1 DEF IsWords
  <2>3. \A k \in 0 .. m : g[k] = step(g, k)
    <3> TAKE k \in 0 .. m
    <3>1. CASE k = 0
      <4>1. g[k] = step(f, 0)
        BY <2>2, <3>1
      <4>. QED  BY <1>0, <3>1, <4>1
    <3>2. CASE k # 0
      <4>1. g[k - 1] = f[k - 1] /\ g[k] = step(f, k)
        BY <2>2, <3>2
      <4>. QED  BY <4>1
    <3>. QED  BY <3>1, <3>2
  <2>4. g = [k \in 0 .. m |-> step(g, k)]
    BY <2>3
  <2> HIDE DEF g
  <2>. QED  BY <2>4 DEF IsWords
<1> HIDE DEF With
<1>3. \A m \in 0 .. n : m \in With
  BY <1>1, <1>2, Counting
<1>. QED  BY <1>3 DEF With

\* The values that a reduction folds into one.
CosetOf(s, i, y) ==
    [j \in 1 .. 2 ^ s.arities[i] |-> Codewords(s)[i - 1][2 ^ s.arities[i] * y + j - 1]]

\* The codewords of the prover: combined from the leaves, then folded.
LEMMA Words ==
    ASSUME NEW s, Reducing(s)
    PROVE  /\ \A x \in 0 .. 2 ^ s.logN - 1 :
                Codewords(s)[0][x] = Combined([o \in 1 .. NumOracles |-> Leaf(o, x)], x)
           /\ \A i \in 1 .. Depths(s) : \A x \in 0 .. 2 ^ LogSize(s, i) - 1 :
                Codewords(s)[i][x] = Folded(CosetOf(s, i, x), x)
<1> DEFINE n == Depths(s)
           g == CHOOSE u : IsWords(u, s, n)
<1>1. n \in Nat /\ LogSize(s, 0) = s.logN
  BY DEF Reducing
<1>2. IsWords(g, s, n)
  BY <1>1, WordsExist
<1>3. Codewords(s) = g
  BY DEF Codewords, IsWords, WordStep
<1> HIDE DEF g
<1>4. \A i \in 0 .. n : g[i] = WordStep(g[i - 1], s, i)
  BY <1>2 DEF IsWords
<1>5. g[0] = WordStep(g[0 - 1], s, 0)
  <2>1. 0 \in 0 .. n
    BY <1>1
  <2>. QED  BY <1>4, <2>1
<1>6. \A x \in 0 .. 2 ^ s.logN - 1 : g[0][x] = Combined([o \in 1 .. NumOracles |-> Leaf(o, x)], x)
  BY <1>1, <1>5 DEF WordStep
<1>7. ASSUME NEW i \in 1 .. n, NEW x \in 0 .. 2 ^ LogSize(s, i) - 1
      PROVE  g[i][x] = Folded([j \in 1 .. 2 ^ s.arities[i] |-> g[i - 1][2 ^ s.arities[i] * x + j - 1]], x)
  <2>1. g[i] = WordStep(g[i - 1], s, i) /\ i # 0
    BY <1>1, <1>4
  <2>. QED  BY <2>1 DEF WordStep
<1>. QED  BY <1>3, <1>6, <1>7 DEF CosetOf

InitialLeaves(s, o) == [k \in 1 .. 2 ^ s.logN |-> Leaf(o, k - 1)]
StepLeaves(s, i)    == [k \in 1 .. 2 ^ LogSize(s, i) |-> CosetOf(s, i, k - 1)]

\* The trees of fri_committed_trees.
LEMMA CommittedTrees ==
    ASSUME NEW s
    PROVE  /\ \A o \in 1 .. NumOracles :
                Committed(s).initial[o] = Tree(InitialLeaves(s, o), s.logN, s.capHeight)
           /\ \A i \in 1 .. Depths(s) :
                Committed(s).steps[i] = Tree(StepLeaves(s, i), LogSize(s, i), s.capHeight)
           /\ Committed(s).final = Codewords(s)[Depths(s)]
<1> DEFINE a == [o \in 1 .. NumOracles |-> Tree(InitialLeaves(s, o), s.logN, s.capHeight)]
           b == [i \in 1 .. Depths(s) |-> Tree(StepLeaves(s, i), LogSize(s, i), s.capHeight)]
           c == Codewords(s)[Depths(s)]
<1>1. Committed(s) = [initial |-> a, steps |-> b, final |-> c]
  BY DEF Committed, InitialLeaves, StepLeaves, CosetOf
<1>2. /\ \A o \in 1 .. NumOracles : a[o] = Tree(InitialLeaves(s, o), s.logN, s.capHeight)
      /\ \A i \in 1 .. Depths(s) : b[i] = Tree(StepLeaves(s, i), LogSize(s, i), s.capHeight)
  OBVIOUS
<1> HIDE DEF a, b, c
<1>3. Committed(s).initial = a /\ Committed(s).steps = b /\ Committed(s).final = c
  BY <1>1
<1>. QED  BY <1>2, <1>3 DEF c

-----------------------------------------------------------------------------
(* Rounds.                                                                 *)

\* The form of an opening and of a round, whatever they hold.
HasForm(o, L) == o = [data |-> o.data, path |-> o.path] /\ IsPath(o.path, L)

IsRound(s, r) ==
    /\ r = [initial |-> r.initial, steps |-> r.steps]
    /\ r.initial = [o \in 1 .. NumOracles |-> r.initial[o]]
    /\ r.steps = [i \in 1 .. Depths(s) |-> r.steps[i]]
    /\ \A o \in 1 .. NumOracles : HasForm(r.initial[o], s.logN - s.capHeight)
    /\ \A i \in 1 .. Depths(s) : HasForm(r.steps[i], LogSize(s, i) - s.capHeight)

OpensInitial(s, r, x) == \A o \in 1 .. NumOracles :
    IsOpening(Committed(s).initial[o], x, r.initial[o].data, r.initial[o].path)

OpensSteps(s, r, x) == \A i \in 1 .. Depths(s) :
    IsOpening(Committed(s).steps[i], IndexAt(s, x, i), r.steps[i].data, r.steps[i].path)

\* What a round holds of its trees is the round that is opened.
LEMMA RoundIs ==
    ASSUME NEW s, NEW x, NEW r, IsRound(s, r)
    PROVE  r = Opened(s, Committed(s), x) <=> OpensInitial(s, r, x) /\ OpensSteps(s, r, x)
<1> DEFINE trees == Committed(s)
           n == Depths(s)
           a(o) == [data |-> trees.initial[o].leaves[x + 1], path |-> Path(trees.initial[o], x)]
           b(i) == [data |-> trees.steps[i].leaves[IndexAt(s, x, i) + 1],
                    path |-> Path(trees.steps[i], IndexAt(s, x, i))]
           c(o) == [data |-> r.initial[o].data, path |-> r.initial[o].path]
           d(i) == [data |-> r.steps[i].data, path |-> r.steps[i].path]
           fa == [o \in 1 .. NumOracles |-> a(o)]
           fb == [i \in 1 .. n |-> b(i)]
           fc == [o \in 1 .. NumOracles |-> c(o)]
           fd == [i \in 1 .. n |-> d(i)]
<1>1. Opened(s, trees, x) = [initial |-> fa, steps |-> fb]
  BY DEF Opened
<1>2. r = [initial |-> fc, steps |-> fd]
  <2>1. \A o \in 1 .. NumOracles : r.initial[o] = c(o)
    BY DEF IsRound, HasForm
  <2>2. \A i \in 1 .. n : r.steps[i] = d(i)
    BY DEF IsRound, HasForm
  <2>3. r.initial = [o \in 1 .. NumOracles |-> r.initial[o]] /\ r.steps = [i \in 1 .. n |-> r.steps[i]]
    BY DEF IsRound
  <2> HIDE DEF c, d
  <2>4. r.initial = fc /\ r.steps = fd
    BY <2>1, <2>2, <2>3
  <2> HIDE DEF fc, fd
  <2>5. r = [initial |-> r.initial, steps |-> r.steps]
    BY DEF IsRound
  <2>. QED  BY <2>4, <2>5
<1>3. ASSUME NEW o \in 1 .. NumOracles
      PROVE  c(o) = a(o) <=> IsOpening(trees.initial[o], x, r.initial[o].data, r.initial[o].path)
  BY DEF IsOpening
<1>4. ASSUME NEW i \in 1 .. n
      PROVE  d(i) = b(i) <=> IsOpening(trees.steps[i], IndexAt(s, x, i), r.steps[i].data, r.steps[i].path)
  BY DEF IsOpening
<1>5. fc = fa <=> \A o \in 1 .. NumOracles : c(o) = a(o)
  <2> HIDE DEF a, c
  <2>1. ASSUME \A o \in 1 .. NumOracles : c(o) = a(o) PROVE fc = fa
    BY <2>1
  <2>2. ASSUME fc = fa, NEW o \in 1 .. NumOracles PROVE c(o) = a(o)
    <3>1. fc[o] = c(o) /\ fa[o] = a(o)
      OBVIOUS
    <3> HIDE DEF fa, fc
    <3>. QED  BY <2>2, <3>1
  <2>. QED  BY <2>1, <2>2
<1>6. fd = fb <=> \A i \in 1 .. n : d(i) = b(i)
  <2> HIDE DEF b, d
  <2>1. ASSUME \A i \in 1 .. n : d(i) = b(i) PROVE fd = fb
    BY <2>1
  <2>2. ASSUME fd = fb, NEW i \in 1 .. n PROVE d(i) = b(i)
    <3>1. fd[i] = d(i) /\ fb[i] = b(i)
      OBVIOUS
    <3> HIDE DEF fb, fd
    <3>. QED  BY <2>2, <3>1
  <2>. QED  BY <2>1, <2>2
<1> HIDE DEF a, b, c, d, fa, fb, fc, fd
<1>7. r = Opened(s, trees, x) <=> fc = fa /\ fd = fb
  BY <1>1, <1>2
<1>. QED  BY <1>3, <1>4, <1>5, <1>6, <1>7 DEF OpensInitial, OpensSteps

\* Values agree from one reduction to the next.
Consistent(s, r, x) ==
    /\ \A i \in 1 .. Depths(s) :
         r.steps[i].data[WithinCoset(s, x, i) + 1] = Expected(s, r, x)[i - 1]
    /\ Committed(s).final[IndexAt(s, x, Depths(s))] = Expected(s, r, x)[Depths(s)]

\* Those of committed codewords do.
LEMMA OpenedIsConsistent ==
    ASSUME NEW s, Reducing(s), NEW x \in 0 .. 2 ^ s.logN - 1, NEW r,
           OpensInitial(s, r, x), OpensSteps(s, r, x)
    PROVE  Consistent(s, r, x)
<1> DEFINE n == Depths(s)
           y(i) == IndexAt(s, x, i)
           E == Expected(s, r, x)
           value == Codewords(s)
<1>1. n \in Nat /\ s.logN \in Nat /\ 2 ^ s.logN \in Nat /\ x \in Nat
  BY Doubling DEF Reducing
<1>2. \A i \in 0 .. n : y(i) \in 0 .. 2 ^ LogSize(s, i) - 1
  BY IndexIs
<1>3. y(0) = x /\ \A i \in 1 .. n : y(i) = y(i - 1) \div 2 ^ s.arities[i]
  BY <1>1, IndexSteps
<1>4. \A i \in 1 .. n : r.steps[i].data = CosetOf(s, i, y(i))
  <2> TAKE i \in 1 .. n
  <2>1. Committed(s).steps[i] = Tree(StepLeaves(s, i), LogSize(s, i), s.capHeight)
    BY CommittedTrees
  <2>2. Committed(s).steps[i].leaves = StepLeaves(s, i)
    BY <2>1, TreeFields
  <2>3. r.steps[i].data = StepLeaves(s, i)[y(i) + 1]
    BY <2>2 DEF OpensSteps, IsOpening
  <2>4. y(i) \in 0 .. 2 ^ LogSize(s, i) - 1 /\ LogSize(s, i) \in Nat
    BY <1>1, <1>2 DEF Reducing
  <2> HIDE DEF y
  <2>5. 2 ^ LogSize(s, i) \in Nat
    BY <2>4, Doubling
  <2>6. y(i) + 1 \in 1 .. 2 ^ LogSize(s, i) /\ (y(i) + 1) - 1 = y(i)
    BY <2>4, <2>5
  <2>. QED  BY <2>3, <2>6 DEF StepLeaves
<1>5. InitialData(r) = [o \in 1 .. NumOracles |-> Leaf(o, x)]
  <2>1. ASSUME NEW o \in 1 .. NumOracles PROVE r.initial[o].data = Leaf(o, x)
    <3>1. Committed(s).initial[o] = Tree(InitialLeaves(s, o), s.logN, s.capHeight)
      BY CommittedTrees
    <3>2. Committed(s).initial[o].leaves = InitialLeaves(s, o)
      BY <3>1, TreeFields
    <3>3. r.initial[o].data = InitialLeaves(s, o)[x + 1]
      BY <3>2 DEF OpensInitial, IsOpening
    <3>4. x + 1 \in 1 .. 2 ^ s.logN /\ (x + 1) - 1 = x
      BY <1>1
    <3>. QED  BY <3>3, <3>4 DEF InitialLeaves
  <2>. QED  BY <2>1 DEF InitialData
<1> HIDE DEF n, y
<1>6. \A i \in 0 .. n : E[i] = value[i][y(i)]
  <2> TAKE i \in 0 .. n
  <2>1. CASE i = 0
    <3>1. E[0] = Combined(InitialData(r), x)
      BY <1>1 DEF Expected, n
    <3>2. value[0][x] = Combined([o \in 1 .. NumOracles |-> Leaf(o, x)], x)
      BY Words
    <3>. QED  BY <1>3, <1>5, <2>1, <3>1, <3>2
  <2>2. CASE i # 0
    <3>1. i \in 1 .. n
      BY <1>1, <2>2
    <3>2. E[i] = Folded(r.steps[i].data, y(i))
      BY <2>2 DEF Expected, n, y
    <3>3. value[i][y(i)] = Folded(CosetOf(s, i, y(i)), y(i))
      BY <1>2, <3>1, Words DEF n
    <3>. QED  BY <1>4, <3>1, <3>2, <3>3
  <2>. QED  BY <2>1, <2>2
<1> HIDE DEF E, value
<1>7. ASSUME NEW i \in 1 .. n
      PROVE  r.steps[i].data[WithinCoset(s, x, i) + 1] = E[i - 1]
  <2> DEFINE A == 2 ^ s.arities[i]
             z == y(i - 1)
             w == z % A
  <2>1. i - 1 \in 0 .. n /\ s.arities[i] \in Nat
    BY <1>1 DEF Reducing, n
  <2>2. A \in Nat /\ A > 0
    <3>1. A \in Nat /\ A >= 1
      BY <2>1, Doubling
    <3> HIDE DEF A
    <3>. QED  BY <3>1
  <2>3. z \in Nat
    <3>1. z \in 0 .. 2 ^ LogSize(s, i - 1) - 1
      BY <1>2, <2>1
    <3>. QED  BY <3>1
  <2>4. WithinCoset(s, x, i) = w
    BY DEF WithinCoset, y
  <2>5. y(i) = z \div A
    BY <1>3
  <2>6. r.steps[i].data = CosetOf(s, i, y(i))
    BY <1>4
  <2>7. CosetOf(s, i, y(i)) = [j \in 1 .. A |-> value[i - 1][A * y(i) + j - 1]]
    BY DEF CosetOf, value
  <2> HIDE DEF A, z
  <2>8. z = (z \div A) * A + w /\ z \div A \in Nat /\ w \in 0 .. A - 1
    BY <2>2, <2>3, Divided
  <2> HIDE DEF w
  <2>9. A * y(i) + (w + 1) - 1 = z /\ w + 1 \in 1 .. A
    <3>1. A * y(i) = (z \div A) * A /\ A * y(i) \in Int
      BY <2>2, <2>5, <2>8
    <3>. QED  BY <2>2, <2>5, <2>8, <3>1
  <2>10. CosetOf(s, i, y(i))[w + 1] = value[i - 1][z]
    BY <2>7, <2>9
  <2>11. E[i - 1] = value[i - 1][z]
    BY <1>6, <2>1 DEF z
  <2>. QED  BY <2>4, <2>6, <2>10, <2>11
<1>8. Committed(s).final[y(n)] = E[n]
  <2>1. Committed(s).final = value[n]
    BY CommittedTrees DEF value, n
  <2>2. E[n] = value[n][y(n)]
    BY <1>1, <1>6
  <2>. QED  BY <2>1, <2>2
<1>. QED  BY <1>7, <1>8 DEF Consistent, E, n, y

-----------------------------------------------------------------------------
(* Verifying a round.                                                      *)

\* Every tree of a shape has room for its cap and for the indices in it.
LEMMA TreesHaveRoom ==
    ASSUME NEW s, Reducing(s)
    PROVE  /\ s.logN \in Nat /\ s.capHeight \in 0 .. s.logN
           /\ \A i \in 0 .. Depths(s) : LogSize(s, i) \in Nat /\ s.capHeight \in 0 .. LogSize(s, i)
<1>1. /\ Depths(s) \in Nat /\ s.logN \in Nat /\ s.capHeight \in Nat
      /\ \A i \in 0 .. Depths(s) :
           LogSize(s, i) \in Nat /\ s.capHeight <= LogSize(s, i) /\ LogSize(s, i) <= s.logN
  BY DEF Reducing
<1>2. s.capHeight <= s.logN
  <2>1. 0 \in 0 .. Depths(s)
    BY <1>1
  <2>2. LogSize(s, 0) \in Nat /\ s.capHeight <= LogSize(s, 0) /\ LogSize(s, 0) <= s.logN
    BY <1>1, <2>1
  <2>. QED  BY <1>1, <2>2
<1>. QED  BY <1>1, <1>2

\* A round of the form of rounds verifies exactly if it is the one opened.
LEMMA RoundAccepts ==
    ASSUME NEW s, Reducing(s), NEW x \in 0 .. 2 ^ s.logN - 1, NEW r, IsRound(s, r)
    PROVE  RoundVerifies(s, Committed(s), r, x) <=> r = Opened(s, Committed(s), x)
<1> DEFINE trees == Committed(s)
           n == Depths(s)
           y(i) == IndexAt(s, x, i)
<1>1. n \in Nat
  BY DEF Reducing
<1>2. ASSUME NEW o \in 1 .. NumOracles
      PROVE  VerifiesToCap(r.initial[o].data, x, trees.initial[o].cap, r.initial[o].path)
               <=> IsOpening(trees.initial[o], x, r.initial[o].data, r.initial[o].path)
  <2> DEFINE leaves == InitialLeaves(s, o)
             data == r.initial[o].data
             path == r.initial[o].path
             k == s.logN
             c == s.capHeight
  <2>1. trees.initial[o] = Tree(leaves, k, c)
    BY CommittedTrees
  <2>2. IsPath(path, k - c)
    BY DEF IsRound, HasForm
  <2>3. k \in Nat /\ c \in 0 .. k /\ x \in 0 .. 2 ^ k - 1
    BY TreesHaveRoom
  <2> HIDE DEF leaves, data, path, k, c
  <2>4. VerifiesToCap(data, x, Tree(leaves, k, c).cap, path) <=> IsOpening(Tree(leaves, k, c), x, data, path)
    BY <2>2, <2>3, OpeningVerifies
  <2>. QED  BY <2>1, <2>4 DEF data, path
<1>3. ASSUME NEW i \in 1 .. n
      PROVE  VerifiesToCap(r.steps[i].data, y(i), trees.steps[i].cap, r.steps[i].path)
               <=> IsOpening(trees.steps[i], y(i), r.steps[i].data, r.steps[i].path)
  <2> DEFINE leaves == StepLeaves(s, i)
             data == r.steps[i].data
             path == r.steps[i].path
             k == LogSize(s, i)
             c == s.capHeight
             z == y(i)
  <2>1. trees.steps[i] = Tree(leaves, k, c)
    BY CommittedTrees
  <2>2. IsPath(path, k - c)
    BY DEF IsRound, HasForm
  <2>3. k \in Nat /\ c \in 0 .. k /\ z \in 0 .. 2 ^ k - 1
    <3>1. i \in 0 .. n
      BY <1>1
    <3>. QED  BY <3>1, TreesHaveRoom, IndexIs
  <2> HIDE DEF leaves, data, path, k, c, z
  <2>4. VerifiesToCap(data, z, Tree(leaves, k, c).cap, path) <=> IsOpening(Tree(leaves, k, c), z, data, path)
    BY <2>2, <2>3, OpeningVerifies
  <2>. QED  BY <2>1, <2>4 DEF data, path, z
<1>4. RoundVerifies(s, trees, r, x) <=> OpensInitial(s, r, x) /\ OpensSteps(s, r, x) /\ Consistent(s, r, x)
  BY <1>2, <1>3 DEF RoundVerifies, OpensInitial, OpensSteps, Consistent
<1>5. OpensInitial(s, r, x) /\ OpensSteps(s, r, x) => Consistent(s, r, x)
  BY OpenedIsConsistent
<1>6. r = Opened(s, trees, x) <=> OpensInitial(s, r, x) /\ OpensSteps(s, r, x)
  BY RoundIs
<1>. QED  BY <1>4, <1>5, <1>6

\* The bits that the circuit takes are those of the indices.
LEMMA BitsOfIndices ==
    ASSUME NEW s, Reducing(s), NEW e \in Nat, NEW x, x = e % 2 ^ s.logN
    PROVE  /\ x \in 0 .. 2 ^ s.logN - 1
           /\ Bits(e, s.logN) = Bits(x, s.logN) /\ LeSum(Bits(e, s.logN)) = x
           /\ CapIndex(Bits(e, s.logN), s.capHeight) = x \div 2 ^ (s.logN - s.capHeight)
           /\ \A i \in 0 .. Depths(s) :
                /\ SubSeq(Bits(e, s.logN), s.logN - LogSize(s, i) + 1, s.logN)
                     = Bits(IndexAt(s, x, i), LogSize(s, i))
                /\ LeSum(Bits(IndexAt(s, x, i), LogSize(s, i))) = IndexAt(s, x, i)
                /\ x \div 2 ^ (s.logN - s.capHeight)
                     = IndexAt(s, x, i) \div 2 ^ (LogSize(s, i) - s.capHeight)
<1> DEFINE n == Depths(s)
           k == s.logN
           c == s.capHeight
           N == 2 ^ k
           bits == Bits(e, k)
<1>1. k \in Nat /\ c \in 0 .. k /\ \A i \in 0 .. n : LogSize(s, i) \in Nat /\ c \in 0 .. LogSize(s, i)
  BY TreesHaveRoom
<1>2. \A i \in 0 .. n : LogSize(s, i) <= k
  BY DEF Reducing
<1>3. N \in Nat /\ N > 0
  <2>1. N \in Nat /\ N >= 1
    BY <1>1, Doubling
  <2> HIDE DEF N
  <2>. QED  BY <2>1
<1>4. x \in 0 .. N - 1 /\ x \in Nat
  <2> HIDE DEF N
  <2>1. e % N \in 0 .. N - 1
    BY <1>3, Divided
  <2>2. x = e % N
    BY DEF N
  <2>. QED  BY <1>3, <2>1, <2>2
<1>5. bits = Bits(x, k) /\ LeSum(bits) = x
  BY <1>1, LowBits, LeSumOf
<1>6. Len(bits) = k
  BY <1>1 DEF Bits
<1> HIDE DEF bits
<1>7. CapIndex(bits, c) = x \div 2 ^ (k - c)
  <2> DEFINE a == k - c
             A == 2 ^ a
             C == 2 ^ c
             z == x \div A
  <2>1. a \in Nat /\ c \in Nat /\ a + c = k /\ Len(bits) - c + 1 = a + 1 /\ a + c <= k /\ k = c + a
    BY <1>1, <1>6
  <2>2. CapIndex(bits, c) = LeSum(SubSeq(bits, a + 1, a + c))
    BY <1>6, <2>1 DEF CapIndex
  <2> HIDE DEF a, c, k, N
  <2>3. SubSeq(Bits(x, k), a + 1, a + c) = Bits(x \div 2 ^ a, c)
    <3>1. IsMiddle(x, k, a, c)
      BY <1>1, <1>4, <2>1, MiddleBits
    <3>. QED  BY <3>1 DEF IsMiddle
  <2>4. N = C * A /\ A \in Nat /\ A >= 1 /\ C \in Nat
    <3>1. 2 ^ k = 2 ^ c * 2 ^ a /\ 2 ^ c \in Nat /\ 2 ^ a \in Nat /\ 2 ^ a >= 1
      BY <2>1, PowerSum
    <3>. QED  BY <3>1 DEF N
  <2> HIDE DEF A, C
  <2>5. A > 0 /\ x < C * A
    BY <1>4, <2>4
  <2>6. z \in 0 .. C - 1
    BY <1>4, <2>4, <2>5, Divided
  <2> HIDE DEF z
  <2>7. z \in Nat /\ LeSum(Bits(z, c)) = z % C
    <3>1. z \in Nat
      BY <2>6
    <3>. QED  BY <2>1, <3>1, LeSumOf DEF C
  <2>8. z % C = z
    <3>1. z \in Nat /\ C > 0 /\ z < C /\ z = 0 * C + z
      BY <2>4, <2>6
    <3>. QED  BY <2>4, <3>1, DivUnique
  <2>. QED  BY <1>5, <2>2, <2>3, <2>7, <2>8 DEF z, A, a
<1>8. ASSUME NEW i \in 0 .. n
      PROVE  /\ SubSeq(bits, k - LogSize(s, i) + 1, k) = Bits(IndexAt(s, x, i), LogSize(s, i))
             /\ LeSum(Bits(IndexAt(s, x, i), LogSize(s, i))) = IndexAt(s, x, i)
             /\ x \div 2 ^ (k - c) = IndexAt(s, x, i) \div 2 ^ (LogSize(s, i) - c)
  <2> DEFINE m == LogSize(s, i)
             a == k - m
             b == m - c
             A == 2 ^ a
             B == 2 ^ b
             M == 2 ^ m
             z == IndexAt(s, x, i)
  <2>1. m \in Nat /\ c \in 0 .. m /\ m <= k
    BY <1>1, <1>2
  <2>2. z = x \div A /\ z \in 0 .. M - 1
    BY <1>4, IndexIs
  <2> HIDE DEF m, z, c, k, N
  <2>3. a \in Nat /\ b \in Nat /\ a + m = k /\ a + m <= k /\ k - m + 1 = a + 1 /\ k - c = a + b
    BY <1>1, <2>1
  <2> DEFINE kc == k - c
  <2>4. kc = a + b
    BY <2>3
  <2> HIDE DEF a, b, kc
  <2>5. 2 ^ kc = A * B /\ A \in Nat /\ A >= 1 /\ B \in Nat /\ B >= 1
    BY <2>3, <2>4, PowerSum
  <2>6. M \in Nat /\ M >= 1
    BY <2>1, Doubling
  <2>7. SubSeq(Bits(x, k), a + 1, a + m) = Bits(x \div 2 ^ a, m)
    <3>1. IsMiddle(x, k, a, m)
      BY <1>1, <1>4, <2>1, <2>3, MiddleBits
    <3>. QED  BY <3>1 DEF IsMiddle
  <2> HIDE DEF A, B, M
  <2>8. z \in Nat /\ LeSum(Bits(z, m)) = z % M
    <3>1. z \in Nat
      BY <2>2, <2>6
    <3>. QED  BY <2>1, <3>1, LeSumOf DEF M
  <2>9. z % M = z
    <3>1. z \in Nat /\ M > 0 /\ z < M /\ z = 0 * M + z
      BY <2>2, <2>6
    <3>. QED  BY <2>6, <3>1, DivUnique
  <2>10. z \div B = x \div (A * B)
    <3>1. A > 0 /\ B > 0
      BY <2>5
    <3>2. (x \div A) \div B = x \div (A * B)
      BY <1>4, <2>5, <3>1, DivTwice
    <3>. QED  BY <2>2, <3>2
  <2>11. SubSeq(bits, k - m + 1, k) = Bits(z, m)
    BY <1>5, <2>2, <2>3, <2>7 DEF A
  <2>12. x \div 2 ^ kc = z \div B
    BY <2>5, <2>10
  <2>. QED  BY <2>8, <2>9, <2>11, <2>12 DEF m, z, B, b, kc
<1>. QED  BY <1>4, <1>5, <1>7, <1>8 DEF bits

\* In the circuit too, at the index that the low bits encode.
LEMMA RoundAcceptsInCircuit ==
    ASSUME NEW s, Reducing(s), NEW e \in Nat, NEW x, x = e % 2 ^ s.logN, NEW r, IsRound(s, r)
    PROVE  RoundVerifiesInCircuit(s, Committed(s), r, e) <=> r = Opened(s, Committed(s), x)
<1> DEFINE trees == Committed(s)
           n == Depths(s)
           y(i) == IndexAt(s, x, i)
           bits == Bits(e, s.logN)
           capIndex == CapIndex(bits, s.capHeight)
           rest(i) == SubSeq(bits, s.logN - LogSize(s, i) + 1, s.logN)
           within(i) == LeSum(SubSeq(rest(i - 1), 1, s.arities[i]))
<1>1. n \in Nat
  BY DEF Reducing
<1>2. /\ x \in 0 .. 2 ^ s.logN - 1
      /\ bits = Bits(x, s.logN) /\ LeSum(bits) = x
      /\ capIndex = x \div 2 ^ (s.logN - s.capHeight)
      /\ \A i \in 0 .. n :
           /\ rest(i) = Bits(y(i), LogSize(s, i))
           /\ LeSum(Bits(y(i), LogSize(s, i))) = y(i)
           /\ capIndex = y(i) \div 2 ^ (LogSize(s, i) - s.capHeight)
  BY BitsOfIndices
<1> HIDE DEF bits, capIndex
<1>3. ASSUME NEW o \in 1 .. NumOracles
      PROVE  VerifiesWithCapIndex(r.initial[o].data, bits, capIndex, trees.initial[o].cap, r.initial[o].path)
               <=> IsOpening(trees.initial[o], x, r.initial[o].data, r.initial[o].path)
  <2> DEFINE leaves == InitialLeaves(s, o)
             data == r.initial[o].data
             path == r.initial[o].path
             k == s.logN
             c == s.capHeight
  <2>1. trees.initial[o] = Tree(leaves, k, c)
    BY CommittedTrees
  <2>2. IsPath(path, k - c)
    BY DEF IsRound, HasForm
  <2>3. k \in Nat /\ c \in 0 .. k /\ x \in 0 .. 2 ^ k - 1
    BY <1>2, TreesHaveRoom
  <2>4. bits = Bits(x, k) /\ capIndex = x \div 2 ^ (k - c)
    BY <1>2
  <2> HIDE DEF leaves, data, path, k, c
  <2>5. VerifiesWithCapIndex(data, bits, capIndex, Tree(leaves, k, c).cap, path)
          <=> IsOpening(Tree(leaves, k, c), x, data, path)
    BY <2>2, <2>3, <2>4, OpeningVerifiesInCircuit
  <2>. QED  BY <2>1, <2>5 DEF data, path
<1>4. ASSUME NEW i \in 1 .. n
      PROVE  VerifiesWithCapIndex(r.steps[i].data, rest(i), capIndex, trees.steps[i].cap, r.steps[i].path)
               <=> IsOpening(trees.steps[i], y(i), r.steps[i].data, r.steps[i].path)
  <2> DEFINE leaves == StepLeaves(s, i)
             data == r.steps[i].data
             path == r.steps[i].path
             k == LogSize(s, i)
             c == s.capHeight
             z == y(i)
             b == rest(i)
  <2>1. trees.steps[i] = Tree(leaves, k, c)
    BY CommittedTrees
  <2>2. IsPath(path, k - c)
    BY DEF IsRound, HasForm
  <2>3. i \in 0 .. n
    BY <1>1
  <2>4. k \in Nat /\ c \in 0 .. k /\ z \in 0 .. 2 ^ k - 1
    BY <1>2, <2>3, TreesHaveRoom, IndexIs
  <2>5. b = Bits(z, k) /\ capIndex = z \div 2 ^ (k - c)
    BY <1>2, <2>3
  <2> HIDE DEF leaves, data, path, k, c, z, b
  <2>6. VerifiesWithCapIndex(data, b, capIndex, Tree(leaves, k, c).cap, path)
          <=> IsOpening(Tree(leaves, k, c), z, data, path)
    BY <2>2, <2>4, <2>5, OpeningVerifiesInCircuit
  <2>. QED  BY <2>1, <2>6 DEF data, path, z, b
<1>5. ASSUME NEW i \in 1 .. n PROVE within(i) = WithinCoset(s, x, i)
  <2> DEFINE k == LogSize(s, i - 1)
             a == s.arities[i]
             z == y(i - 1)
             zero == 0
  <2>1. i - 1 \in 0 .. n /\ i \in 0 .. n
    BY <1>1
  <2>2. /\ a \in Nat /\ k = LogSize(s, i) + a /\ LogSize(s, i) \in Nat /\ k \in Nat
    BY <2>1 DEF Reducing
  <2>3. z \in 0 .. 2 ^ k - 1
    BY <1>2, <2>1, IndexIs
  <2>4. rest(i - 1) = Bits(z, k)
    BY <1>2, <2>1
  <2>5. WithinCoset(s, x, i) = z % 2 ^ a
    BY DEF WithinCoset
  <2>6. within(i) = LeSum(SubSeq(Bits(z, k), 1, a))
    BY <2>4, Zenon
  <2> HIDE DEF k, a, z
  <2>7. z \in Nat /\ zero + a <= k /\ zero \in Nat /\ zero + 1 = 1 /\ zero + a = a
    <3>1. 2 ^ k \in Nat
      BY <2>2, Doubling
    <3>. QED  BY <2>2, <2>3, <3>1
  <2> HIDE DEF zero
  <2>8. SubSeq(Bits(z, k), zero + 1, zero + a) = Bits(z \div 2 ^ zero, a)
    <3>1. IsMiddle(z, k, zero, a)
      BY <2>2, <2>7, MiddleBits
    <3>. QED  BY <3>1 DEF IsMiddle
  <2>9. z \div 2 ^ zero = z
    <3>1. z \div 1 = z
      BY <2>7
    <3>. QED  BY <3>1, PowerZero DEF zero
  <2>10. LeSum(Bits(z, a)) = z % 2 ^ a
    BY <2>2, <2>7, LeSumOf
  <2>11. SubSeq(Bits(z, k), 1, a) = Bits(z, a)
    BY <2>7, <2>8, <2>9, Zenon
  <2>. QED  BY <2>5, <2>6, <2>10, <2>11, Zenon
<1>6. LeSum(rest(n)) = y(n)
  <2>1. n \in 0 .. n
    BY <1>1
  <2>. QED  BY <1>2, <2>1, Zenon
<1>7. RoundVerifiesInCircuit(s, trees, r, e)
        <=> /\ \A o \in 1 .. NumOracles :
                 VerifiesWithCapIndex(r.initial[o].data, bits, capIndex, trees.initial[o].cap, r.initial[o].path)
            /\ \A i \in 1 .. n :
                 /\ r.steps[i].data[within(i) + 1] = Expected(s, r, LeSum(bits))[i - 1]
                 /\ VerifiesWithCapIndex(r.steps[i].data, rest(i), capIndex, trees.steps[i].cap, r.steps[i].path)
            /\ trees.final[LeSum(rest(n))] = Expected(s, r, LeSum(bits))[n]
  BY Zenon DEF RoundVerifiesInCircuit, bits, capIndex
<1> HIDE DEF rest, within, trees
<1>8. RoundVerifiesInCircuit(s, trees, r, e)
        <=> OpensInitial(s, r, x) /\ OpensSteps(s, r, x) /\ Consistent(s, r, x)
  <2>1. LeSum(bits) = x
    BY <1>2
  <2> DEFINE E == Expected(s, r, x)
  <2>2. RoundVerifiesInCircuit(s, trees, r, e)
          <=> /\ \A o \in 1 .. NumOracles : IsOpening(trees.initial[o], x, r.initial[o].data, r.initial[o].path)
              /\ \A i \in 1 .. n :
                   /\ r.steps[i].data[WithinCoset(s, x, i) + 1] = E[i - 1]
                   /\ IsOpening(trees.steps[i], y(i), r.steps[i].data, r.steps[i].path)
              /\ trees.final[y(n)] = E[n]
    <3> HIDE DEF y, n
    <3>. QED  BY <1>3, <1>4, <1>5, <1>6, <1>7, <2>1
  <2>. QED  BY <2>2 DEF OpensInitial, OpensSteps, Consistent, trees
<1>9. OpensInitial(s, r, x) /\ OpensSteps(s, r, x) => Consistent(s, r, x)
  BY <1>2, OpenedIsConsistent
<1>10. r = Opened(s, trees, x) <=> OpensInitial(s, r, x) /\ OpensSteps(s, r, x)
  BY RoundIs DEF trees
<1>. QED  BY <1>8, <1>9, <1>10 DEF trees

-----------------------------------------------------------------------------
(* The rounds of a proof.                                                  *)

\* What a prover opens has the form of a round.
LEMMA OpenedIsRound ==
    ASSUME NEW s, Reducing(s), NEW x
    PROVE  IsRound(s, Opened(s, Committed(s), x))
<1> DEFINE trees == Committed(s)
           a(o) == [data |-> trees.initial[o].leaves[x + 1], path |-> Path(trees.initial[o], x)]
           b(i) == [data |-> trees.steps[i].leaves[IndexAt(s, x, i) + 1],
                    path |-> Path(trees.steps[i], IndexAt(s, x, i))]
           fa == [o \in 1 .. NumOracles |-> a(o)]
           fb == [i \in 1 .. Depths(s) |-> b(i)]
           r == Opened(s, trees, x)
<1>1. r = [initial |-> fa, steps |-> fb]
  BY DEF Opened
<1>2. ASSUME NEW o \in 1 .. NumOracles PROVE HasForm(a(o), s.logN - s.capHeight)
  <2>1. trees.initial[o] = Tree(InitialLeaves(s, o), s.logN, s.capHeight)
    BY CommittedTrees
  <2>2. trees.initial[o].layers = s.logN - s.capHeight
    BY <2>1, TreeFields
  <2>. QED  BY <2>2 DEF HasForm, IsPath, Path
<1>3. ASSUME NEW i \in 1 .. Depths(s) PROVE HasForm(b(i), LogSize(s, i) - s.capHeight)
  <2>1. trees.steps[i] = Tree(StepLeaves(s, i), LogSize(s, i), s.capHeight)
    BY CommittedTrees
  <2>2. trees.steps[i].layers = LogSize(s, i) - s.capHeight
    BY <2>1, TreeFields
  <2>. QED  BY <2>2 DEF HasForm, IsPath, Path
<1> HIDE DEF a, b
<1>4. /\ fa = [o \in 1 .. NumOracles |-> fa[o]] /\ \A o \in 1 .. NumOracles : fa[o] = a(o)
      /\ fb = [i \in 1 .. Depths(s) |-> fb[i]] /\ \A i \in 1 .. Depths(s) : fb[i] = b(i)
  OBVIOUS
<1> HIDE DEF fa, fb, r
<1>5. r.initial = fa /\ r.steps = fb
  BY <1>1
<1>6. IsRound(s, r)
  BY <1>1, <1>2, <1>3, <1>4, <1>5 DEF IsRound
<1>. QED  BY <1>6 DEF r

\* Changing a value of an opening leaves its form.
LEMMA ChangedForm ==
    ASSUME NEW o, NEW L, HasForm(o, L), NEW v, NEW j
    PROVE  /\ HasForm([o EXCEPT !.data = v], L)
           /\ HasForm([o EXCEPT !.data[j] = v], L)
           /\ HasForm([o EXCEPT !.path[j] = v], L)
<1>1. o = [data |-> o.data, path |-> o.path] /\ o.path = [i \in 1 .. L |-> o.path[i]]
  BY DEF HasForm, IsPath
<1>2. \A d : [o EXCEPT !.data = d] = [data |-> d, path |-> o.path]
  <2> TAKE d
  <2>1. \A a, b : [[data |-> a, path |-> b] EXCEPT !.data = d] = [data |-> d, path |-> b]
    OBVIOUS
  <2>. QED  BY <1>1, <2>1, Zenon
<1>3. \A p : [o EXCEPT !.path = p] = [data |-> o.data, path |-> p]
  <2> TAKE p
  <2>1. \A a, b : [[data |-> a, path |-> b] EXCEPT !.path = p] = [data |-> a, path |-> p]
    OBVIOUS
  <2>. QED  BY <1>1, <2>1, Zenon
<1>4. \A d, p : IsPath(p, L) => HasForm([data |-> d, path |-> p], L)
  BY DEF HasForm
<1>5. IsPath(o.path, L)
  BY DEF HasForm
<1>6. IsPath([o.path EXCEPT ![j] = v], L)
  <2> DEFINE p == o.path
             q == [p EXCEPT ![j] = v]
  <2>1. p = [i \in 1 .. L |-> p[i]]
    BY <1>1
  <2> HIDE DEF p
  <2>2. q = [i \in 1 .. L |-> q[i]]
    BY <2>1
  <2>. QED  BY <2>2 DEF IsPath, q, p
<1>7. \A d : HasForm([o EXCEPT !.data = d], L)
  <2> TAKE d
  <2>1. HasForm([data |-> d, path |-> o.path], L)
    BY <1>4, <1>5
  <2>2. [o EXCEPT !.data = d] = [data |-> d, path |-> o.path]
    BY <1>2
  <2>. QED  BY <2>1, <2>2, Zenon
<1>8. HasForm([o EXCEPT !.path = [o.path EXCEPT ![j] = v]], L)
  <2> DEFINE p == [o.path EXCEPT ![j] = v]
  <2> HIDE DEF p
  <2>1. HasForm([data |-> o.data, path |-> p], L)
    BY <1>4, <1>6 DEF p
  <2>2. [o EXCEPT !.path = p] = [data |-> o.data, path |-> p]
    BY <1>3
  <2>3. HasForm([o EXCEPT !.path = p], L)
    BY <2>1, <2>2, Zenon
  <2>. QED  BY <2>3 DEF p
<1>9. HasForm([o EXCEPT !.data = v], L) /\ HasForm([o EXCEPT !.data = [o.data EXCEPT ![j] = v]], L)
  BY <1>7
<1>. QED  BY <1>8, <1>9

\* Changing an opening of a round to another leaves the form of the round.
LEMMA ChangedRound ==
    ASSUME NEW s, NEW r, IsRound(s, r), NEW v
    PROVE  /\ \A o \in 1 .. NumOracles :
                HasForm(v, s.logN - s.capHeight) => IsRound(s, [r EXCEPT !.initial[o] = v])
           /\ \A i \in 1 .. Depths(s) :
                HasForm(v, LogSize(s, i) - s.capHeight) => IsRound(s, [r EXCEPT !.steps[i] = v])
<1>1. /\ r = [initial |-> r.initial, steps |-> r.steps]
      /\ r.initial = [o \in 1 .. NumOracles |-> r.initial[o]]
      /\ r.steps = [i \in 1 .. Depths(s) |-> r.steps[i]]
      /\ \A o \in 1 .. NumOracles : HasForm(r.initial[o], s.logN - s.capHeight)
      /\ \A i \in 1 .. Depths(s) : HasForm(r.steps[i], LogSize(s, i) - s.capHeight)
  BY DEF IsRound
<1>2. ASSUME NEW o \in 1 .. NumOracles, HasForm(v, s.logN - s.capHeight)
      PROVE  IsRound(s, [r EXCEPT !.initial[o] = v])
  <2> DEFINE a == [r.initial EXCEPT ![o] = v]
             u == [r EXCEPT !.initial = a]
  <2>1. a = [p \in 1 .. NumOracles |-> a[p]] /\ \A p \in 1 .. NumOracles : a[p] = IF p = o THEN v ELSE r.initial[p]
    BY <1>1
  <2> HIDE DEF a
  <2>2. u = [initial |-> a, steps |-> r.steps]
    <3>1. \A c, d : [[initial |-> c, steps |-> d] EXCEPT !.initial = a] = [initial |-> a, steps |-> d]
      OBVIOUS
    <3>. QED  BY <1>1, <3>1, Zenon
  <2> HIDE DEF u
  <2>3. u.initial = a /\ u.steps = r.steps
    BY <2>2
  <2>4. \A p \in 1 .. NumOracles : HasForm(a[p], s.logN - s.capHeight)
    BY <1>1, <1>2, <2>1
  <2>5. IsRound(s, u)
    BY <1>1, <2>1, <2>2, <2>3, <2>4 DEF IsRound
  <2>. QED  BY <2>5 DEF u, a
<1>3. ASSUME NEW i \in 1 .. Depths(s), HasForm(v, LogSize(s, i) - s.capHeight)
      PROVE  IsRound(s, [r EXCEPT !.steps[i] = v])
  <2> DEFINE a == [r.steps EXCEPT ![i] = v]
             u == [r EXCEPT !.steps = a]
  <2>1. a = [p \in 1 .. Depths(s) |-> a[p]] /\ \A p \in 1 .. Depths(s) : a[p] = IF p = i THEN v ELSE r.steps[p]
    BY <1>1
  <2> HIDE DEF a
  <2>2. u = [initial |-> r.initial, steps |-> a]
    <3>1. \A c, d : [[initial |-> c, steps |-> d] EXCEPT !.steps = a] = [initial |-> c, steps |-> a]
      OBVIOUS
    <3>. QED  BY <1>1, <3>1, Zenon
  <2> HIDE DEF u
  <2>3. u.initial = r.initial /\ u.steps = a
    BY <2>2
  <2>4. \A p \in 1 .. Depths(s) : HasForm(a[p], LogSize(s, p) - s.capHeight)
    BY <1>1, <1>3, <2>1
  <2>5. IsRound(s, u)
    BY <1>1, <2>1, <2>2, <2>3, <2>4 DEF IsRound
  <2>. QED  BY <2>5 DEF u, a
<1>. QED  BY <1>2, <1>3

\* Every alteration of a round is a round.
LEMMA OtherRoundsAreRounds ==
    ASSUME shape \in Shape, committed = Committed(shape), NEW r, IsRound(shape, r), NEW t \in OtherRounds(r)
    PROVE  IsRound(shape, t)
<1> DEFINE Other == <<"other">>
<1>0. Reducing(shape)
  BY ShapeReduces
<1>1. ASSUME NEW o \in 1 .. NumOracles, NEW v, NEW j
      PROVE  IsRound(shape, [r EXCEPT !.initial[o].data = v]) /\ IsRound(shape, [r EXCEPT !.initial[o].path[j] = v])
  <2> DEFINE p == r.initial[o]
             d == [p EXCEPT !.data = v]
             q == [p EXCEPT !.path[j] = v]
             L == shape.logN - shape.capHeight
  <2>1. HasForm(p, L)
    BY DEF IsRound
  <2> HIDE DEF p, L
  <2>2. HasForm(d, L) /\ HasForm(q, L)
    BY <2>1, ChangedForm
  <2> HIDE DEF d, q
  <2>3. IsRound(shape, [r EXCEPT !.initial[o] = d]) /\ IsRound(shape, [r EXCEPT !.initial[o] = q])
    BY <2>2, ChangedRound DEF L
  <2>. QED  BY <2>3 DEF d, q, p
<1>2. ASSUME NEW i \in 1 .. Depths(shape), NEW v, NEW j
      PROVE  IsRound(shape, [r EXCEPT !.steps[i].data[j] = v]) /\ IsRound(shape, [r EXCEPT !.steps[i].path[j] = v])
  <2> DEFINE p == r.steps[i]
             d == [p EXCEPT !.data[j] = v]
             q == [p EXCEPT !.path[j] = v]
             L == LogSize(shape, i) - shape.capHeight
  <2>1. HasForm(p, L)
    BY DEF IsRound
  <2> HIDE DEF p, L
  <2>2. HasForm(d, L) /\ HasForm(q, L)
    BY <2>1, ChangedForm
  <2> HIDE DEF d, q
  <2>3. IsRound(shape, [r EXCEPT !.steps[i] = d]) /\ IsRound(shape, [r EXCEPT !.steps[i] = q])
    BY <2>2, ChangedRound DEF L
  <2>. QED  BY <2>3 DEF d, q, p
<1>3. \A x : IsRound(shape, Opened(shape, committed, x))
  BY <1>0, OpenedIsRound
<1> DEFINE D0(o) == {[r EXCEPT !.initial[o].data = Other]}
           P0(o) == {[r EXCEPT !.initial[o].path[j] = Other] : j \in DOMAIN r.initial[o].path}
           D1(i) == {[r EXCEPT !.steps[i].data[j] = Other] : j \in DOMAIN r.steps[i].data}
           P1(i) == {[r EXCEPT !.steps[i].path[j] = Other] : j \in DOMAIN r.steps[i].path}
           R     == {Opened(shape, committed, x) : x \in 0 .. 2 ^ shape.logN - 1}
<1>4. t \in (UNION {D0(o) \cup P0(o) : o \in 1 .. NumOracles})
            \cup (UNION {D1(i) \cup P1(i) : i \in 1 .. Depths(shape)}) \cup R
  BY DEF OtherRounds
<1>5. ASSUME NEW o \in 1 .. NumOracles, NEW u, u \in D0(o) \/ u \in P0(o) PROVE IsRound(shape, u)
  <2>1. CASE u \in D0(o)
    <3>1. u = [r EXCEPT !.initial[o].data = Other]
      BY <2>1
    <3> HIDE DEF Other
    <3>2. IsRound(shape, [r EXCEPT !.initial[o].data = Other])
      BY <1>1
    <3>. QED  BY <3>1, <3>2
  <2>2. CASE u \in P0(o)
    <3>1. PICK j \in DOMAIN r.initial[o].path : u = [r EXCEPT !.initial[o].path[j] = Other]
      BY <2>2
    <3> HIDE DEF Other
    <3>2. IsRound(shape, [r EXCEPT !.initial[o].path[j] = Other])
      BY <1>1
    <3>. QED  BY <3>1, <3>2
  <2>. QED  BY <1>5, <2>1, <2>2
<1>6. ASSUME NEW i \in 1 .. Depths(shape), NEW u, u \in D1(i) \/ u \in P1(i) PROVE IsRound(shape, u)
  <2>1. CASE u \in D1(i)
    <3>1. PICK j \in DOMAIN r.steps[i].data : u = [r EXCEPT !.steps[i].data[j] = Other]
      BY <2>1
    <3> HIDE DEF Other
    <3>2. IsRound(shape, [r EXCEPT !.steps[i].data[j] = Other])
      BY <1>2
    <3>. QED  BY <3>1, <3>2
  <2>2. CASE u \in P1(i)
    <3>1. PICK j \in DOMAIN r.steps[i].path : u = [r EXCEPT !.steps[i].path[j] = Other]
      BY <2>2
    <3> HIDE DEF Other
    <3>2. IsRound(shape, [r EXCEPT !.steps[i].path[j] = Other])
      BY <1>2
    <3>. QED  BY <3>1, <3>2
  <2>. QED  BY <1>6, <2>1, <2>2
<1>7. ASSUME NEW u \in R PROVE IsRound(shape, u)
  BY <1>3
<1> HIDE DEF D0, P0, D1, P1, R
<1>8. \/ \E o \in 1 .. NumOracles : t \in D0(o) \/ t \in P0(o)
      \/ \E i \in 1 .. Depths(shape) : t \in D1(i) \/ t \in P1(i)
      \/ t \in R
  BY <1>4
<1>. QED  BY <1>5, <1>6, <1>7, <1>8

-----------------------------------------------------------------------------
(* The state machine.                                                      *)

Index(q) == challenges[q] % 2 ^ shape.logN

\* A proof that is there has the form of one, and verdicts are of this proof.
IInv ==
    /\ shape \in Shape /\ committed = Committed(shape)
    /\ challenges # None => challenges \in [1 .. NumQueries -> 0 .. FieldOrder - 1]
    /\ rounds # None => /\ challenges # None
                        /\ rounds = [q \in 1 .. NumQueries |-> rounds[q]]
                        /\ \A q \in 1 .. NumQueries : IsRound(shape, rounds[q])
    /\ native # None => /\ rounds # None /\ native \in BOOLEAN
                        /\ native <=> \A q \in 1 .. NumQueries :
                                RoundVerifies(shape, committed, rounds[q], Index(q))
    /\ circuit # None => /\ native # None /\ circuit.accepts \in BOOLEAN
                         /\ circuit.encodings = [q \in 1 .. NumQueries |-> circuit.encodings[q]]
                         /\ \A q \in 1 .. NumQueries : circuit.encodings[q] \in Encodings(challenges[q])
                         /\ circuit.accepts <=> \A q \in 1 .. NumQueries :
                                RoundVerifiesInCircuit(shape, committed, rounds[q], circuit.encodings[q])

LEMMA IndicesAt ==
    ASSUME NEW s, NEW d, d = [q \in 1 .. NumQueries |-> d[q]], NEW q \in 1 .. NumQueries
    PROVE  Indices(s, d)[q] = d[q] % 2 ^ s.logN
BY DEF Indices

LEMMA Initially == Init => IInv
BY DEF Init, IInv

LEMMA QueryKeeps == IInv /\ Query => IInv'
<1>1. SUFFICES ASSUME IInv, Query PROVE IInv'
  OBVIOUS
<1> DEFINE r(q) == Opened(shape, committed, Indices(shape, challenges')[q])
<1>2. /\ challenges = None /\ challenges' \in [1 .. NumQueries -> 0 .. FieldOrder - 1]
      /\ rounds' = [q \in 1 .. NumQueries |-> r(q)]
      /\ UNCHANGED <<shape, committed, altered, native, circuit, compressed, restored>>
  BY <1>1 DEF Query
<1>3. challenges' # None
  BY <1>2, NoneAssumption
<1>4. rounds = None /\ native = None /\ circuit = None
  BY <1>1, <1>2 DEF IInv
<1>5. shape \in Shape /\ committed = Committed(shape)
  BY <1>1 DEF IInv
<1>6. Reducing(shape)
  BY <1>5, ShapeReduces
<1>7. \A q : IsRound(shape, r(q))
  BY <1>5, <1>6, OpenedIsRound
<1> HIDE DEF r
<1>8. rounds' = [q \in 1 .. NumQueries |-> rounds'[q]] /\ \A q \in 1 .. NumQueries : IsRound(shape', rounds'[q])
  BY <1>2, <1>7
<1>. QED  BY <1>2, <1>3, <1>4, <1>5, <1>8 DEF IInv

LEMMA AlterKeeps == IInv /\ Alter => IInv'
<1>1. SUFFICES ASSUME IInv, Alter PROVE IInv'
  OBVIOUS
<1>2. PICK r \in OtherRounds(rounds[1]) : rounds' = [rounds EXCEPT ![1] = r]
  BY <1>1 DEF Alter
<1>3. /\ rounds # None /\ native = None /\ circuit = None
      /\ UNCHANGED <<shape, committed, challenges, native, circuit, compressed, restored>>
  BY <1>1 DEF Alter
<1>4. /\ shape \in Shape /\ committed = Committed(shape) /\ challenges # None
      /\ rounds = [q \in 1 .. NumQueries |-> rounds[q]]
      /\ \A q \in 1 .. NumQueries : IsRound(shape, rounds[q])
  BY <1>1, <1>3 DEF IInv
<1>5. rounds' = [q \in 1 .. NumQueries |-> rounds'[q]]
      /\ \A q \in 1 .. NumQueries : rounds'[q] = IF q = 1 THEN r ELSE rounds[q]
  BY <1>2, <1>4
<1>6. ASSUME NEW q \in 1 .. NumQueries PROVE IsRound(shape', rounds'[q])
  <2>1. CASE q = 1
    <3>1. IsRound(shape, rounds[1])
      BY <1>4, <2>1
    <3>2. IsRound(shape, r)
      BY <1>4, <3>1, OtherRoundsAreRounds
    <3>. QED  BY <1>3, <1>5, <2>1, <3>2
  <2>2. CASE q # 1
    BY <1>3, <1>4, <1>5, <2>2
  <2>. QED  BY <2>1, <2>2
<1>7. challenges \in [1 .. NumQueries -> 0 .. FieldOrder - 1]
  BY <1>1, <1>4 DEF IInv
<1>. QED  BY <1>3, <1>4, <1>5, <1>6, <1>7 DEF IInv

LEMMA VerifyKeeps == IInv /\ Verify => IInv'
<1>1. SUFFICES ASSUME IInv, Verify PROVE IInv'
  OBVIOUS
<1> DEFINE accepts == \A q \in 1 .. NumQueries : RoundVerifies(shape, committed, rounds[q], Index(q))
<1>2. /\ rounds # None /\ native = None
      /\ UNCHANGED <<shape, committed, challenges, rounds, altered, circuit, compressed, restored>>
  BY <1>1 DEF Verify
<1>3. circuit = None /\ challenges # None
  BY <1>1, <1>2 DEF IInv
<1>4. challenges = [q \in 1 .. NumQueries |-> challenges[q]]
  BY <1>1, <1>3 DEF IInv
<1>5. \A q \in 1 .. NumQueries : Indices(shape, challenges)[q] = Index(q)
  BY <1>4, IndicesAt DEF Index
<1>6. native' \in BOOLEAN /\ (native' <=> accepts)
  <2>1. native' = \A q \in 1 .. NumQueries :
                    RoundVerifies(shape, committed, rounds[q], Indices(shape, challenges)[q])
    BY <1>1, Zenon DEF Verify
  <2>2. (\A q \in 1 .. NumQueries :
                    RoundVerifies(shape, committed, rounds[q], Indices(shape, challenges)[q])) <=> accepts
    BY <1>5
  <2> DEFINE drawn == \A q \in 1 .. NumQueries :
                    RoundVerifies(shape, committed, rounds[q], Indices(shape, challenges)[q])
  <2>3. native' = drawn /\ (drawn <=> accepts) /\ drawn \in BOOLEAN
    BY <2>1, <2>2
  <2> HIDE DEF accepts, drawn
  <2>. QED  BY <2>3
<1>7. (\A q \in 1 .. NumQueries : RoundVerifies(shape', committed', rounds'[q], Index(q)')) <=> accepts
  BY <1>2 DEF Index
<1>8. native' <=> \A q \in 1 .. NumQueries : RoundVerifies(shape', committed', rounds'[q], Index(q)')
  <2> HIDE DEF accepts
  <2>. QED  BY <1>6, <1>7, Zenon
<1>9. /\ shape' \in Shape /\ committed' = Committed(shape')
      /\ challenges' # None => challenges' \in [1 .. NumQueries -> 0 .. FieldOrder - 1]
      /\ rounds' # None => /\ challenges' # None
                           /\ rounds' = [q \in 1 .. NumQueries |-> rounds'[q]]
                           /\ \A q \in 1 .. NumQueries : IsRound(shape', rounds'[q])
      /\ rounds' # None /\ circuit' = None
  BY <1>1, <1>2, <1>3 DEF IInv
<1>. QED  BY <1>6, <1>8, <1>9, Zenon DEF IInv

LEMMA VerifyInCircuitKeeps == IInv /\ VerifyInCircuit => IInv'
<1>1. SUFFICES ASSUME IInv, VerifyInCircuit PROVE IInv'
  OBVIOUS
<1> DEFINE accepts(es) == \A q \in 1 .. NumQueries :
             RoundVerifiesInCircuit(shape, committed, rounds[q], es[q])
<1>2. /\ native # None /\ circuit = None
      /\ UNCHANGED <<shape, committed, challenges, rounds, altered, native, compressed, restored>>
  BY <1>1 DEF VerifyInCircuit
<1>3. PICK es \in [1 .. NumQueries -> UNION {Encodings(challenges[q]) : q \in 1 .. NumQueries}] :
         /\ \A q \in 1 .. NumQueries : es[q] \in Encodings(challenges[q])
         /\ circuit' = [encodings |-> es, accepts |-> accepts(es)]
  BY <1>1 DEF VerifyInCircuit
<1>4. circuit'.encodings = es /\ circuit'.accepts = accepts(es)
  <2> DEFINE b == accepts(es)
  <2>1. circuit' = [encodings |-> es, accepts |-> b]
    BY <1>3
  <2> HIDE DEF b
  <2>2. circuit'.encodings = es /\ circuit'.accepts = b
    BY <2>1
  <2>. QED  BY <2>2 DEF b
<1>5. es = [q \in 1 .. NumQueries |-> es[q]]
  OBVIOUS
<1>6. /\ circuit'.encodings = [q \in 1 .. NumQueries |-> circuit'.encodings[q]]
      /\ \A q \in 1 .. NumQueries : circuit'.encodings[q] \in Encodings(challenges'[q])
  BY <1>2, <1>3, <1>4, <1>5
<1>7. circuit'.accepts <=> \A q \in 1 .. NumQueries :
         RoundVerifiesInCircuit(shape', committed', rounds'[q], circuit'.encodings[q])
  <2>1. (\A q \in 1 .. NumQueries :
         RoundVerifiesInCircuit(shape', committed', rounds'[q], circuit'.encodings[q])) <=> accepts(es)
    BY <1>2, <1>4
  <2> HIDE DEF accepts
  <2>. QED  BY <1>4, <2>1, Zenon
<1>10. circuit'.accepts \in BOOLEAN
  <2>1. accepts(es) \in BOOLEAN
    OBVIOUS
  <2> HIDE DEF accepts
  <2>. QED  BY <1>4, <2>1
<1>8. /\ shape' \in Shape /\ committed' = Committed(shape')
      /\ challenges' # None => challenges' \in [1 .. NumQueries -> 0 .. FieldOrder - 1]
      /\ rounds' # None => /\ challenges' # None
                           /\ rounds' = [q \in 1 .. NumQueries |-> rounds'[q]]
                           /\ \A q \in 1 .. NumQueries : IsRound(shape', rounds'[q])
      /\ native' # None /\ rounds' # None /\ native' \in BOOLEAN
  BY <1>1, <1>2 DEF IInv
<1>9. native' <=> \A q \in 1 .. NumQueries : RoundVerifies(shape', committed', rounds'[q], Index(q)')
  <2>1. native <=> \A q \in 1 .. NumQueries : RoundVerifies(shape, committed, rounds[q], Index(q))
    BY <1>1, <1>2 DEF IInv
  <2>. QED  BY <1>2, <2>1 DEF Index
<1>. QED  BY <1>6, <1>7, <1>8, <1>9, <1>10, Zenon DEF IInv

\* Compression and restoring, and what stutters, leave what the invariant reads.
LEMMA OthersKeep ==
    IInv /\ UNCHANGED <<shape, committed, challenges, rounds, native, circuit>> => IInv'
BY DEF IInv, Index

\* No step leaves the invariant.
LEMMA StepKeeps == IInv /\ [Next]_vars => IInv'
<1>1. SUFFICES ASSUME IInv, [Next]_vars PROVE IInv'
  OBVIOUS
<1>2. CASE Query
  BY <1>1, <1>2, QueryKeeps
<1>3. CASE Alter
  BY <1>1, <1>3, AlterKeeps
<1>4. CASE Verify
  BY <1>1, <1>4, VerifyKeeps
<1>5. CASE VerifyInCircuit
  BY <1>1, <1>5, VerifyInCircuitKeeps
<1>6. CASE CompressProof
  BY <1>1, <1>6, OthersKeep DEF CompressProof
<1>7. CASE DecompressProof
  BY <1>1, <1>7, OthersKeep DEF DecompressProof
<1>8. CASE UNCHANGED vars
  BY <1>1, <1>8, OthersKeep DEF vars
<1>. QED  BY <1>1, <1>2, <1>3, <1>4, <1>5, <1>6, <1>7, <1>8 DEF Next

\* In every reachable state the rounds of a proof have the form of rounds,
\* altered or not, and the verdicts are those of the proof that is there.
THEOREM FriInvariant == Spec => []IInv
<1>1. Init => IInv
  BY Initially
<1>2. IInv /\ [Next]_vars => IInv'
  BY StepKeeps
<1>. QED  BY <1>1, <1>2, PTL DEF Spec

\* Rounds that are opened at given indices, each by each.
LEMMA OpenedAtEach ==
    ASSUME NEW r, r = [q \in 1 .. NumQueries |-> r[q]], NEW xs
    PROVE  r = OpenedAt(xs) <=> \A q \in 1 .. NumQueries : r[q] = Opened(shape, committed, xs[q])
<1> DEFINE u(q) == Opened(shape, committed, xs[q])
           f == [q \in 1 .. NumQueries |-> u(q)]
<1>1. OpenedAt(xs) = f
  BY DEF OpenedAt
<1> HIDE DEF u
<1>2. ASSUME \A q \in 1 .. NumQueries : r[q] = u(q) PROVE r = f
  BY <1>2
<1>3. ASSUME r = f, NEW q \in 1 .. NumQueries PROVE r[q] = u(q)
  <2>1. f[q] = u(q)
    OBVIOUS
  <2> HIDE DEF f
  <2>. QED  BY <1>3, <2>1
<1>. QED  BY <1>1, <1>2, <1>3 DEF u

\* What a native verdict says of the rounds it was reached on.
LEMMA NativeVerdict ==
    ASSUME IInv, native # None
    PROVE  native <=> rounds = OpenedAt(Indices(shape, challenges))
<1>1. /\ shape \in Shape /\ committed = Committed(shape)
      /\ challenges \in [1 .. NumQueries -> 0 .. FieldOrder - 1]
      /\ rounds = [q \in 1 .. NumQueries |-> rounds[q]]
      /\ \A q \in 1 .. NumQueries : IsRound(shape, rounds[q])
  BY DEF IInv
<1>2. native <=> \A q \in 1 .. NumQueries : RoundVerifies(shape, committed, rounds[q], Index(q))
  BY DEF IInv
<1>3. Reducing(shape)
  BY <1>1, ShapeReduces
<1> DEFINE xs == Indices(shape, challenges)
<1>4. \A q \in 1 .. NumQueries : xs[q] = Index(q)
  <2>1. challenges = [q \in 1 .. NumQueries |-> challenges[q]]
    BY <1>1
  <2>. QED  BY <2>1, IndicesAt DEF Index
<1>5. ASSUME NEW q \in 1 .. NumQueries
      PROVE  RoundVerifies(shape, committed, rounds[q], Index(q)) <=> rounds[q] = Opened(shape, committed, xs[q])
  <2> DEFINE N == 2 ^ shape.logN
             k == shape.logN
  <2>1. N \in Nat /\ N > 0
    <3>1. k \in Nat
      BY <1>3 DEF Reducing
    <3> HIDE DEF k
    <3>2. 2 ^ k \in Nat /\ 2 ^ k >= 1
      BY <3>1, Doubling
    <3> DEFINE p == 2 ^ k
    <3> HIDE DEF p
    <3>3. p \in Nat /\ p > 0
      BY <3>2 DEF p
    <3>. QED  BY <3>3 DEF p, k
  <2>2. challenges[q] \in Nat
    BY <1>1
  <2> HIDE DEF N
  <2>3. challenges[q] % N \in 0 .. N - 1
    BY <2>1, <2>2, Divided
  <2>4. Index(q) \in 0 .. 2 ^ shape.logN - 1
    BY <2>3 DEF Index, N
  <2> DEFINE i == Index(q)
             r == rounds[q]
  <2>5. IsRound(shape, r)
    BY <1>1
  <2> HIDE DEF i, r
  <2>6. RoundVerifies(shape, Committed(shape), r, i) <=> r = Opened(shape, Committed(shape), i)
    BY <1>3, <2>4, <2>5, RoundAccepts DEF i
  <2>. QED  BY <1>1, <1>4, <2>6 DEF i, r
<1> HIDE DEF xs
<1>6. rounds = OpenedAt(xs) <=> \A q \in 1 .. NumQueries : rounds[q] = Opened(shape, committed, xs[q])
  BY <1>1, OpenedAtEach
<1>. QED  BY <1>2, <1>5, <1>6 DEF xs

\* What a circuit's verdict says, in terms of the encodings its witness took.
LEMMA CircuitVerdict ==
    ASSUME IInv, circuit # None
    PROVE  circuit.accepts <=> rounds = OpenedAt(Indices(shape, circuit.encodings))
<1> DEFINE es == circuit.encodings
           xs == Indices(shape, es)
<1>1. /\ shape \in Shape /\ committed = Committed(shape)
      /\ rounds = [q \in 1 .. NumQueries |-> rounds[q]]
      /\ \A q \in 1 .. NumQueries : IsRound(shape, rounds[q])
      /\ es = [q \in 1 .. NumQueries |-> es[q]]
      /\ \A q \in 1 .. NumQueries : es[q] \in Encodings(challenges[q])
  BY DEF IInv
<1>2. circuit.accepts <=> \A q \in 1 .. NumQueries :
         RoundVerifiesInCircuit(shape, committed, rounds[q], es[q])
  BY DEF IInv
<1>3. Reducing(shape)
  BY <1>1, ShapeReduces
<1> HIDE DEF es
<1>4. \A q \in 1 .. NumQueries : xs[q] = es[q] % 2 ^ shape.logN
  BY <1>1, IndicesAt
<1>5. ASSUME NEW q \in 1 .. NumQueries
      PROVE  RoundVerifiesInCircuit(shape, committed, rounds[q], es[q]) <=> rounds[q] = Opened(shape, committed, xs[q])
  <2> DEFINE e == es[q]
             x == xs[q]
             r == rounds[q]
  <2>1. e \in Nat
    <3>1. e \in Encodings(challenges[q])
      BY <1>1
    <3>. QED  BY <3>1 DEF Encodings
  <2>2. IsRound(shape, r) /\ x = e % 2 ^ shape.logN
    BY <1>1, <1>4
  <2> HIDE DEF e, x, r
  <2>3. RoundVerifiesInCircuit(shape, Committed(shape), r, e) <=> r = Opened(shape, Committed(shape), x)
    BY <1>3, <2>1, <2>2, RoundAcceptsInCircuit
  <2>. QED  BY <1>1, <2>3 DEF e, x, r
<1> HIDE DEF xs
<1>6. rounds = OpenedAt(xs) <=> \A q \in 1 .. NumQueries : rounds[q] = Opened(shape, committed, xs[q])
  BY <1>1, OpenedAtEach
<1>. QED  BY <1>2, <1>5, <1>6 DEF xs, es

\* An element from 2^64 - p on has one encoding: itself.
LEMMA OneEncoding ==
    ASSUME NEW c \in 0 .. FieldOrder - 1, c >= 2 ^ FieldBits - FieldOrder, NEW e \in Encodings(c)
    PROVE  e = c
<1> DEFINE N == 2 ^ FieldBits
           k == e \div FieldOrder
           r == e % FieldOrder
<1>1. N \in Nat
  BY FieldAssumption, Doubling
<1>2. FieldOrder \in Nat /\ FieldOrder > 0
  BY FieldAssumption
<1>3. e \in 0 .. N - 1 /\ r = c
  BY DEF Encodings
<1> HIDE DEF N
<1>4. e \in Nat
  BY <1>3
<1>5. e = k * FieldOrder + r /\ k \in Nat
  BY <1>2, <1>4, Divided
<1> HIDE DEF k, r
<1>6. SUFFICES ASSUME k # 0 PROVE FALSE
  <2>1. k = 0 => k * FieldOrder = 0
    BY <1>2
  <2>. QED  BY <1>3, <1>5, <1>6, <2>1
<1>7. k * FieldOrder >= FieldOrder
  <2>1. k - 1 >= 0 /\ k - 1 \in Nat
    BY <1>5, <1>6
  <2>2. k * FieldOrder = (k - 1) * FieldOrder + FieldOrder /\ (k - 1) * FieldOrder \in Nat
    BY <1>2, <1>5, <2>1
  <2>. QED  BY <1>2, <2>2
<1>8. k * FieldOrder \in Int
  BY <1>2, <1>5
<1>9. c >= N - FieldOrder
  BY DEF N
<1>. QED  BY <1>1, <1>2, <1>3, <1>5, <1>7, <1>8, <1>9

\* The query rounds of verify_fri_proof accept exactly the openings of the
\* committed trees at the indices that were drawn: no round with a leaf, a
\* sibling or a coset value of its own passes, for any tree height, cap and
\* reductions, and every honest one does.
THEOREM AcceptsCommitted == Spec => []AcceptsOpenings
<1>1. IInv => AcceptsOpenings
  BY NativeVerdict DEF AcceptsOpenings
<1>. QED  BY <1>1, FriInvariant, PTL

\* The rounds in a circuit accept exactly the openings at the indices that the
\* witness' bits encode; these are the native verifier's unless the drawn
\* element has a second encoding in the field's width.
THEOREM CircuitAcceptsCommitted == Spec => []CircuitAccepts
<1>1. IInv => CircuitAccepts
  <2>1. SUFFICES ASSUME IInv, circuit # None
        PROVE  /\ circuit.accepts <=> rounds = OpenedAt(Indices(shape, circuit.encodings))
               /\ (\A q \in 1 .. NumQueries : challenges[q] >= 2 ^ FieldBits - FieldOrder)
                    => circuit.accepts = native
    BY DEF CircuitAccepts
  <2>2. circuit.accepts <=> rounds = OpenedAt(Indices(shape, circuit.encodings))
    BY <2>1, CircuitVerdict
  <2>3. ASSUME \A q \in 1 .. NumQueries : challenges[q] >= 2 ^ FieldBits - FieldOrder
        PROVE  circuit.accepts = native
    <3>1. /\ native # None /\ challenges \in [1 .. NumQueries -> 0 .. FieldOrder - 1]
          /\ circuit.encodings = [q \in 1 .. NumQueries |-> circuit.encodings[q]]
          /\ \A q \in 1 .. NumQueries : circuit.encodings[q] \in Encodings(challenges[q])
      BY <2>1 DEF IInv
    <3>2. \A q \in 1 .. NumQueries : circuit.encodings[q] = challenges[q]
      <4> TAKE q \in 1 .. NumQueries
      <4> DEFINE c == challenges[q]
                 e == circuit.encodings[q]
      <4>1. c \in 0 .. FieldOrder - 1 /\ c >= 2 ^ FieldBits - FieldOrder /\ e \in Encodings(c)
        BY <2>3, <3>1
      <4> HIDE DEF c, e
      <4>2. e = c
        BY <4>1, OneEncoding
      <4>. QED  BY <4>2 DEF c, e
    <3>3. circuit.encodings = challenges
      BY <3>1, <3>2
    <3>4. native <=> rounds = OpenedAt(Indices(shape, challenges))
      BY <2>1, <3>1, NativeVerdict
    <3>5. circuit.accepts \in BOOLEAN /\ native \in BOOLEAN
      BY <2>1, <3>1 DEF IInv
    <3> DEFINE a == circuit.accepts
    <3>6. a \in BOOLEAN /\ (a <=> native)
      BY <2>2, <3>3, <3>4, <3>5
    <3> HIDE DEF a
    <3>7. a = native
      BY <3>5, <3>6
    <3>. QED  BY <3>7 DEF a
  <2>. QED  BY <2>2, <2>3
<1>. QED  BY <1>1, FriInvariant, PTL

-----------------------------------------------------------------------------
(* What is appended in one run over the queries is read in another.        *)

Extends(a, b) == Len(a) <= Len(b) /\ \A i \in 1 .. Len(a) : b[i] = a[i]

\* What is left of a sequence once a shorter one is read.
Rest(b, a) == SubSeq(b, Len(a) + 1, Len(b))

LEMMA ExtendsItself ==
    ASSUME NEW S, NEW a \in Seq(S)
    PROVE  Extends(a, a)
BY DEF Extends

LEMMA ExtendsOn ==
    ASSUME NEW S, NEW a \in Seq(S), NEW b \in Seq(S), NEW c \in Seq(S),
           Extends(a, b), Extends(b, c)
    PROVE  Extends(a, c)
<1>1. Len(a) \in Nat /\ Len(b) \in Nat /\ Len(c) \in Nat
  OBVIOUS
<1>2. Len(a) <= Len(c)
  BY <1>1 DEF Extends
<1>3. ASSUME NEW i \in 1 .. Len(a) PROVE c[i] = a[i]
  <2>1. i \in 1 .. Len(b)
    BY <1>1 DEF Extends
  <2>. QED  BY <2>1 DEF Extends
<1>. QED  BY <1>2, <1>3 DEF Extends

\* What may or may not have been appended.
Grows(a, b, S) == b = a \/ \E e \in S : b = Append(a, e)

LEMMA GrowsExtends ==
    ASSUME NEW S, NEW a \in Seq(S), NEW b, Grows(a, b, S)
    PROVE  b \in Seq(S) /\ Extends(a, b)
<1>1. CASE b = a
  BY <1>1, ExtendsItself
<1>2. CASE \E e \in S : b = Append(a, e)
  <2>1. PICK e \in S : b = Append(a, e)
    BY <1>2
  <2>2. /\ Append(a, e) \in Seq(S) /\ Len(Append(a, e)) = Len(a) + 1
        /\ \A i \in 1 .. Len(a) : Append(a, e)[i] = a[i]
    BY AppendProperties
  <2>. QED  BY <2>1, <2>2 DEF Extends
<1>. QED  BY <1>1, <1>2 DEF Grows

\* A run of appending: its end extends every part of it.
IsGrowth(K, n, S) == K[0] \in Seq(S) /\ \A i \in 1 .. n : Grows(K[i - 1], K[i], S)

LEMMA GrowthTyped ==
    ASSUME NEW S, NEW n \in Nat, NEW K, IsGrowth(K, n, S)
    PROVE  \A i \in 0 .. n : K[i] \in Seq(S)
<1> DEFINE T == {i \in 0 .. n : K[i] \in Seq(S)}
<1>1. 0 \in T
  BY DEF IsGrowth
<1>2. ASSUME NEW i \in 1 .. n, i - 1 \in T PROVE i \in T
  <2>1. K[i - 1] \in Seq(S) /\ Grows(K[i - 1], K[i], S)
    BY <1>2 DEF IsGrowth
  <2>. QED  BY <2>1, GrowsExtends
<1> HIDE DEF T
<1>3. \A i \in 0 .. n : i \in T
  BY <1>1, <1>2, Counting
<1>. QED  BY <1>3 DEF T

LEMMA GrowthExtends ==
    ASSUME NEW S, NEW n \in Nat, NEW K, IsGrowth(K, n, S)
    PROVE  \A i \in 0 .. n : K[i] \in Seq(S) /\ Extends(K[i], K[n])
<1>1. \A i \in 0 .. n : K[i] \in Seq(S)
  BY GrowthTyped
<1> DEFINE T == {i \in 0 .. n : Extends(K[n - i], K[n])}
<1>2. 0 \in T
  <2>1. n \in 0 .. n /\ n - 0 = n /\ 0 \in 0 .. n
    OBVIOUS
  <2>2. Extends(K[n], K[n])
    BY <1>1, <2>1, ExtendsItself
  <2>. QED  BY <2>1, <2>2
<1>3. ASSUME NEW i \in 1 .. n, i - 1 \in T PROVE i \in T
  <2> DEFINE m == n - (i - 1)
  <2>1. m \in 1 .. n /\ n - i = m - 1 /\ n \in 0 .. n /\ m \in 0 .. n /\ m - 1 \in 0 .. n
    OBVIOUS
  <2>2. Extends(K[m], K[n])
    BY <1>3
  <2> HIDE DEF m
  <2>3. K[m - 1] \in Seq(S) /\ K[m] \in Seq(S) /\ K[n] \in Seq(S)
    BY <1>1, <2>1
  <2>4. Extends(K[m - 1], K[m])
    <3>1. Grows(K[m - 1], K[m], S)
      BY <2>1 DEF IsGrowth
    <3>. QED  BY <2>3, <3>1, GrowsExtends
  <2>5. Extends(K[m - 1], K[n])
    BY <2>2, <2>3, <2>4, ExtendsOn
  <2>. QED  BY <2>1, <2>5
<1> HIDE DEF T
<1>4. \A i \in 0 .. n : i \in T
  BY <1>2, <1>3, Counting
<1>5. ASSUME NEW i \in 0 .. n PROVE Extends(K[i], K[n])
  <2>1. n - i \in 0 .. n /\ n - (n - i) = i
    OBVIOUS
  <2>. QED  BY <1>4, <2>1 DEF T
<1>. QED  BY <1>1, <1>5

\* What was appended last is read next.
LEMMA ReadsNext ==
    ASSUME NEW S, NEW a \in Seq(S), NEW e \in S, NEW b \in Seq(S), Extends(Append(a, e), b)
    PROVE  Head(Rest(b, a)) = e /\ Tail(Rest(b, a)) = Rest(b, Append(a, e))
<1> DEFINE c == Append(a, e)
           m == Len(a) + 1
<1>1. c \in Seq(S) /\ Len(c) = m /\ c[m] = e
  BY AppendProperties
<1> HIDE DEF c
<1>2. Len(a) \in Nat /\ Len(b) \in Nat /\ Len(c) <= Len(b) /\ m \in 1 .. Len(c)
  BY <1>1 DEF Extends, c
<1>3. b[m] = c[m]
  BY <1>2 DEF Extends, c
<1>4. m \in 1 .. Len(b) /\ Len(b) \in m .. Len(b)
  BY <1>1, <1>2
<1> HIDE DEF m
<1>5. Head(SubSeq(b, m, Len(b))) = b[m] /\ Tail(SubSeq(b, m, Len(b))) = SubSeq(b, m + 1, Len(b))
  BY <1>4, HeadTailOfSubSeq
<1>. QED  BY <1>1, <1>3, <1>5 DEF Rest, c, m

LEMMA RestOfNothing ==
    ASSUME NEW S, NEW b \in Seq(S)
    PROVE  Rest(b, <<>>) = b
<1>1. Len(<<>>) + 1 = 1
  OBVIOUS
<1>. QED  BY <1>1, SubSeqFull DEF Rest

\* Putting a value back where it was taken out.
LEMMA PutBack ==
    ASSUME NEW S, NEW d \in Seq(S), NEW k \in 1 .. Len(d)
    PROVE  InsertAt(RemoveAt(d, k), k, d[k]) = d
<1> DEFINE n == Len(d)
           a == SubSeq(d, 1, k - 1)
           b == SubSeq(d, k + 1, n)
           r == a \o b
<1>1. n \in Nat /\ k \in 1 .. n /\ \A i \in 1 .. n : d[i] \in S
  OBVIOUS
<1>2. a \in Seq(S) /\ Len(a) = k - 1 /\ \A i \in 1 .. k - 1 : a[i] = d[i]
  <2>1. 1 \in Int /\ k - 1 \in Int /\ \A i \in 1 .. k - 1 : d[i] \in S
    BY <1>1
  <2>. QED  BY <1>1, <2>1, SubSeqProperties
<1>3. b \in Seq(S) /\ Len(b) = n - k /\ \A i \in 1 .. n - k : b[i] = d[k + i]
  <2>1. k + 1 \in Int /\ n \in Int /\ \A i \in k + 1 .. n : d[i] \in S
    BY <1>1
  <2>2. /\ b \in Seq(S) /\ Len(b) = IF k + 1 <= n THEN n - (k + 1) + 1 ELSE 0
        /\ \A i \in 1 .. n - (k + 1) + 1 : b[i] = d[(k + 1) + i - 1]
    BY <2>1, SubSeqProperties
  <2> HIDE DEF b, n
  <2>3. \A i \in Int : (k + 1) + i - 1 = k + i
    BY <1>1
  <2>. QED  BY <1>1, <2>2, <2>3
<1> HIDE DEF a, b
<1>4. RemoveAt(d, k) = r
  BY DEF RemoveAt, a, b
<1>5. /\ r \in Seq(S) /\ Len(r) = n - 1
      /\ \A i \in 1 .. n - 1 : r[i] = IF i <= k - 1 THEN a[i] ELSE b[i - (k - 1)]
  <2>1. Len(a) + Len(b) = n - 1
    BY <1>1, <1>2, <1>3
  <2>2. /\ r \in Seq(S) /\ Len(r) = Len(a) + Len(b)
        /\ \A i \in 1 .. Len(a) + Len(b) : r[i] = IF i <= Len(a) THEN a[i] ELSE b[i - Len(a)]
    BY <1>2, <1>3, ConcatProperties
  <2> HIDE DEF r, n
  <2>. QED  BY <1>2, <2>1, <2>2, Zenon
<1> HIDE DEF r, n
<1> DEFINE p == SubSeq(r, 1, k - 1)
           q == SubSeq(r, k, n - 1)
<1>6. p = a
  <2>1. 1 \in Int /\ k - 1 \in Int /\ \A i \in 1 .. k - 1 : r[i] \in S
    BY <1>1, <1>5
  <2>2. p \in Seq(S) /\ Len(p) = k - 1 /\ \A i \in 1 .. k - 1 : p[i] = r[i]
    BY <1>1, <2>1, SubSeqProperties
  <2> HIDE DEF p
  <2>3. \A i \in 1 .. Len(p) : p[i] = a[i]
    BY <1>1, <1>5, <2>2
  <2>. QED  BY <1>2, <2>2, <2>3, SeqEqual
<1>7. q = b
  <2>1. k \in Int /\ n - 1 \in Int /\ \A i \in k .. n - 1 : r[i] \in S
    BY <1>1, <1>5
  <2>2. /\ q \in Seq(S) /\ Len(q) = IF k <= n - 1 THEN (n - 1) - k + 1 ELSE 0
        /\ \A i \in 1 .. (n - 1) - k + 1 : q[i] = r[k + i - 1]
    BY <2>1, SubSeqProperties
  <2> HIDE DEF q
  <2>3. Len(q) = n - k
    BY <1>1, <2>2
  <2>4. ASSUME NEW i \in 1 .. Len(q) PROVE q[i] = b[i]
    <3>1. i \in 1 .. (n - 1) - k + 1 /\ k + i - 1 \in 1 .. n - 1 /\ ~(k + i - 1 <= k - 1)
          /\ (k + i - 1) - (k - 1) = i
      BY <1>1, <2>3
    <3>2. q[i] = r[k + i - 1]
      BY <2>2, <3>1
    <3>. QED  BY <1>5, <3>1, <3>2
  <2>. QED  BY <1>3, <2>2, <2>3, <2>4, SeqEqual
<1> HIDE DEF p, q
<1> DEFINE v == <<d[k]>>
<1>8. v \in Seq(S) /\ Len(v) = 1 /\ v[1] = d[k]
  BY <1>1
<1> HIDE DEF v
<1>9. InsertAt(r, k, d[k]) = (a \o v) \o b
  <2>1. InsertAt(r, k, d[k]) = (p \o v) \o q
    <3>1. Len(r) = n - 1
      BY <1>5
    <3>. QED  BY <3>1 DEF InsertAt, p, q, v
  <2>. QED  BY <1>6, <1>7, <2>1
<1> DEFINE av == a \o v
           all == av \o b
<1>10. /\ av \in Seq(S) /\ Len(av) = k
       /\ \A i \in 1 .. k : av[i] = IF i <= k - 1 THEN a[i] ELSE v[i - (k - 1)]
  <2>1. Len(a) + Len(v) = k
    BY <1>1, <1>2, <1>8
  <2>2. /\ av \in Seq(S) /\ Len(av) = Len(a) + Len(v)
        /\ \A i \in 1 .. Len(a) + Len(v) : av[i] = IF i <= Len(a) THEN a[i] ELSE v[i - Len(a)]
    BY <1>2, <1>8, ConcatProperties
  <2> HIDE DEF av
  <2>. QED  BY <1>2, <2>1, <2>2, Zenon
<1> HIDE DEF av
<1>11. /\ all \in Seq(S) /\ Len(all) = n
       /\ \A i \in 1 .. n : all[i] = IF i <= k THEN av[i] ELSE b[i - k]
  <2>1. Len(av) + Len(b) = n
    BY <1>1, <1>3, <1>10
  <2>. QED  BY <1>3, <1>10, <2>1, ConcatProperties
<1> HIDE DEF all
<1>12. ASSUME NEW i \in 1 .. n PROVE all[i] = d[i]
  <2>1. CASE i <= k - 1
    BY <1>1, <1>2, <1>10, <1>11, <2>1
  <2>2. CASE i = k
    <3>1. k - (k - 1) = 1 /\ ~(k <= k - 1) /\ k \in 1 .. k
      BY <1>1
    <3>. QED  BY <1>1, <1>8, <1>10, <1>11, <2>2, <3>1
  <2>3. CASE i > k
    <3>1. i - k \in 1 .. n - k /\ k + (i - k) = i /\ ~(i <= k)
      BY <1>1, <2>3
    <3>. QED  BY <1>3, <1>11, <3>1
  <2>. QED  BY <1>1, <2>1, <2>2, <2>3
<1>13. all = d
  BY <1>11, <1>12, SeqEqual DEF n
<1>. QED  BY <1>4, <1>9, <1>13 DEF all, av

-----------------------------------------------------------------------------
(* Compressing the paths of a tree.                                        *)

\* The node some layers up from that of a query.
Up(nodes, q, j) == nodes[q] \div 2 ^ j

\* Nodes of two layers differ, and so do their siblings.
Separated(nodes, n, L) == \A q \in 1 .. n, r \in 1 .. n : \A j \in 0 .. L - 1 :
    /\ \A i \in 0 .. L : Sibling(Up(nodes, q, j)) = Up(nodes, r, i) => i = j
    /\ \A i \in 0 .. L - 1 :
         Sibling(Up(nodes, q, j)) = Sibling(Up(nodes, r, i)) => i = j /\ Up(nodes, q, j) = Up(nodes, r, i)

\* The sibling is on another query's way up, or an earlier one has it too.
Shared(nodes, n, q, j) == \E r \in 1 .. n :
    \/ Sibling(Up(nodes, q, j)) = Up(nodes, r, j)
    \/ r < q /\ Up(nodes, r, j) = Up(nodes, q, j)

\* What is known when a query's way is climbed to a layer.
Met(m, nodes, n, L, q, j) ==
    \/ \E r \in 1 .. n : \E i \in 0 .. L - 1 : m = Up(nodes, r, i)
    \/ \E r \in 1 .. n : \E i \in 0 .. L - 1 :
         /\ r < q \/ (r = q /\ i < j)
         /\ m = Sibling(Up(nodes, r, i)) \/ m = Up(nodes, r, i + 1)

LEMMA MetIsShared ==
    ASSUME NEW nodes, NEW n \in Nat, NEW L \in Nat, Separated(nodes, n, L),
           NEW q \in 1 .. n, NEW j \in 0 .. L - 1
    PROVE  Met(Sibling(Up(nodes, q, j)), nodes, n, L, q, j) <=> Shared(nodes, n, q, j)
<1> DEFINE N(r, i) == Up(nodes, r, i)
           m == Sibling(N(q, j))
<1>1. \A r \in 1 .. n :
        /\ \A i \in 0 .. L : m = N(r, i) => i = j
        /\ \A i \in 0 .. L - 1 : m = Sibling(N(r, i)) => i = j /\ N(q, j) = N(r, i)
  BY DEF Separated
<1>2. Shared(nodes, n, q, j) <=> \E r \in 1 .. n : m = N(r, j) \/ (r < q /\ N(r, j) = N(q, j))
  BY DEF Shared
<1>3. Met(m, nodes, n, L, q, j) <=>
         \/ \E r \in 1 .. n : \E i \in 0 .. L - 1 : m = N(r, i)
         \/ \E r \in 1 .. n : \E i \in 0 .. L - 1 :
              /\ r < q \/ (r = q /\ i < j)
              /\ m = Sibling(N(r, i)) \/ m = N(r, i + 1)
  BY DEF Met
<1>4. ASSUME NEW r \in 1 .. n, r < q, N(r, j) = N(q, j) PROVE m = Sibling(N(r, j))
  BY <1>4
<1> HIDE DEF N, m
<1>5. ASSUME Shared(nodes, n, q, j) PROVE Met(m, nodes, n, L, q, j)
  <2>1. PICK r \in 1 .. n : m = N(r, j) \/ (r < q /\ N(r, j) = N(q, j))
    BY <1>2, <1>5
  <2>. QED  BY <1>3, <1>4, <2>1
<1>6. ASSUME Met(m, nodes, n, L, q, j) PROVE Shared(nodes, n, q, j)
  <2>1. CASE \E r \in 1 .. n : \E i \in 0 .. L - 1 : m = N(r, i)
    BY <1>1, <1>2, <2>1
  <2>2. ASSUME NEW r \in 1 .. n, NEW i \in 0 .. L - 1, r < q \/ (r = q /\ i < j), m = Sibling(N(r, i))
        PROVE  Shared(nodes, n, q, j)
    <3>1. i = j /\ N(q, j) = N(r, i)
      BY <1>1, <2>2
    <3>2. r < q
      BY <2>2, <3>1
    <3>. QED  BY <1>2, <3>1, <3>2
  <2>3. ASSUME NEW r \in 1 .. n, NEW i \in 0 .. L - 1, m = N(r, i + 1)
        PROVE  Shared(nodes, n, q, j)
    <3>1. i + 1 \in 0 .. L
      OBVIOUS
    <3>2. i + 1 = j
      BY <1>1, <2>3, <3>1
    <3>. QED  BY <1>2, <2>3, <3>2
  <2>. QED  BY <1>3, <1>6, <2>1, <2>2, <2>3
<1>. QED  BY <1>5, <1>6 DEF m, N

LEMMA MetNext ==
    ASSUME NEW nodes, NEW n \in Nat, NEW L \in Nat, NEW q \in 1 .. n, NEW j \in 0 .. L - 1, NEW m
    PROVE  Met(m, nodes, n, L, q, j + 1) <=>
             Met(m, nodes, n, L, q, j) \/ m = Sibling(Up(nodes, q, j)) \/ m = Up(nodes, q, j + 1)
<1>1. \A r \in 1 .. n, i \in 0 .. L - 1 :
        r < q \/ (r = q /\ i < j + 1) <=> (r < q \/ (r = q /\ i < j)) \/ (r = q /\ i = j)
  OBVIOUS
<1>. QED  BY <1>1, Zenon DEF Met

LEMMA MetFirst ==
    ASSUME NEW nodes, NEW n \in Nat, NEW L \in Nat, NEW m
    PROVE  Met(m, nodes, n, L, 1, 0) <=> \E r \in 1 .. n : \E i \in 0 .. L - 1 : m = Up(nodes, r, i)
<1>1. \A r \in 1 .. n, i \in 0 .. L - 1 : ~(r < 1 \/ (r = 1 /\ i < 0))
  OBVIOUS
<1>. QED  BY <1>1, Zenon DEF Met

LEMMA MetByAll ==
    ASSUME NEW nodes, NEW n \in Nat, NEW L \in Nat, NEW q \in 1 .. n, NEW m
    PROVE  Met(m, nodes, n, L, q + 1, 0) <=> Met(m, nodes, n, L, q, L)
<1>1. \A r \in 1 .. n, i \in 0 .. L - 1 : r < q + 1 \/ (r = q + 1 /\ i < 0) <=> r < q \/ (r = q /\ i < L)
  OBVIOUS
<1>. QED  BY <1>1, Zenon DEF Met

LEMMA UpTwice ==
    ASSUME NEW m \in Nat, NEW j \in Nat
    PROVE  (m \div 2 ^ j) \div 2 = m \div 2 ^ (j + 1)
<1> DEFINE w == 2 ^ j
<1>1. w \in Nat /\ w >= 1 /\ 2 ^ (j + 1) = 2 * w
  BY Doubling
<1> HIDE DEF w
<1>2. w * 2 = 2 ^ (j + 1) /\ w > 0 /\ 2 \in Nat /\ 2 > 0
  BY <1>1
<1>3. (m \div w) \div 2 = m \div (w * 2)
  BY <1>1, <1>2, DivTwice
<1>. QED  BY <1>2, <1>3 DEF w

\* One path, sibling after sibling.
KeepStep(v, known, node, path, j) ==
    IF j = 0 THEN [known |-> known, kept |-> <<>>]
             ELSE Keep(v, node \div 2 ^ (j - 1), path[j])

IsKeeping(u, known, node, path, n) ==
    u = [j \in 0 .. n |-> KeepStep(u[j - 1], known, node, path, j)]

\* CompressPath is the end of such a run.
LEMMA KeepingExists ==
    ASSUME NEW known, NEW node, NEW path, NEW n \in Nat
    PROVE  \E f : IsKeeping(f, known, node, path, n)
<1> DEFINE With == {m \in Nat : \E f : IsKeeping(f, known, node, path, m)}
           step(e, k) == KeepStep(e[k - 1], known, node, path, k)
<1>0. \A e, g : step(e, 0) = step(g, 0)
  BY DEF KeepStep
<1>1. 0 \in With
  <2> DEFINE g == [k \in 0 .. 0 |-> step(<<>>, 0)]
  <2>1. g = [k \in 0 .. 0 |-> step(g, k)]
    BY <1>0
  <2> HIDE DEF g
  <2>. QED  BY <2>1 DEF IsKeeping
<1>2. ASSUME NEW m \in 1 .. n, m - 1 \in With PROVE m \in With
  <2>1. PICK f : IsKeeping(f, known, node, path, m - 1)
    BY <1>2
  <2> DEFINE g == [k \in 0 .. m |-> IF k < m THEN f[k] ELSE step(f, m)]
  <2>2. \A k \in 0 .. m - 1 : f[k] = step(f, k)
    BY <2>1 DEF IsKeeping
  <2> HIDE DEF step
  <2>3. \A k \in 0 .. m : g[k] = step(g, k)
    <3> TAKE k \in 0 .. m
    <3>1. CASE k = 0
      <4>1. g[k] = step(f, 0)
        BY <2>2, <3>1
      <4>. QED  BY <1>0, <3>1, <4>1
    <3>2. CASE k # 0
      <4>1. g[k - 1] = f[k - 1] /\ g[k] = step(f, k)
        BY <2>2, <3>2
      <4>. QED  BY <4>1 DEF step
    <3>. QED  BY <3>1, <3>2
  <2>4. g = [k \in 0 .. m |-> step(g, k)]
    BY <2>3
  <2> HIDE DEF g
  <2>. QED  BY <2>4 DEF IsKeeping, step
<1> HIDE DEF With
<1>3. \A m \in 0 .. n : m \in With
  BY <1>1, <1>2, Counting
<1>. QED  BY <1>3 DEF With

Keeping(u, known, node, path, L) ==
    /\ u[0] = [known |-> known, kept |-> <<>>]
    /\ \A j \in 1 .. L : u[j] = Keep(u[j - 1], node \div 2 ^ (j - 1), path[j])

LEMMA PathCompressed ==
    ASSUME NEW known, NEW node, NEW path, NEW L \in Nat, Len(path) = L
    PROVE  \E u : Keeping(u, known, node, path, L) /\ CompressPath(known, node, path) = u[L]
<1> DEFINE u == CHOOSE g : IsKeeping(g, known, node, path, L)
<1>1. IsKeeping(u, known, node, path, L)
  BY KeepingExists
<1>2. CompressPath(known, node, path) = u[L]
  BY DEF CompressPath, IsKeeping, KeepStep
<1> HIDE DEF u
<1>3. \A j \in 0 .. L : u[j] = KeepStep(u[j - 1], known, node, path, j)
  BY <1>1 DEF IsKeeping
<1>4. 0 \in 0 .. L /\ \A j \in 1 .. L : j \in 0 .. L /\ j # 0
  OBVIOUS
<1>5. Keeping(u, known, node, path, L)
  BY <1>3, <1>4 DEF Keeping, KeepStep
<1>. QED  BY <1>2, <1>5

\* Path after path.
KeepAllStep(v, nodes, paths, q) ==
    IF q = 0 THEN [known |-> OnPaths(nodes, Len(paths[1])), kept |-> <<>>]
             ELSE CompressPath(v.known, nodes[q], paths[q])

IsKeepingAll(u, nodes, paths, n) ==
    u = [q \in 0 .. n |-> KeepAllStep(u[q - 1], nodes, paths, q)]

\* CompressPaths reads off such a run.
LEMMA KeepingAllExists ==
    ASSUME NEW nodes, NEW paths, NEW n \in Nat
    PROVE  \E f : IsKeepingAll(f, nodes, paths, n)
<1> DEFINE With == {m \in Nat : \E f : IsKeepingAll(f, nodes, paths, m)}
           step(e, k) == KeepAllStep(e[k - 1], nodes, paths, k)
<1>0. \A e, g : step(e, 0) = step(g, 0)
  BY DEF KeepAllStep
<1>1. 0 \in With
  <2> DEFINE g == [k \in 0 .. 0 |-> step(<<>>, 0)]
  <2>1. g = [k \in 0 .. 0 |-> step(g, k)]
    BY <1>0
  <2> HIDE DEF g
  <2>. QED  BY <2>1 DEF IsKeepingAll
<1>2. ASSUME NEW m \in 1 .. n, m - 1 \in With PROVE m \in With
  <2>1. PICK f : IsKeepingAll(f, nodes, paths, m - 1)
    BY <1>2
  <2> DEFINE g == [k \in 0 .. m |-> IF k < m THEN f[k] ELSE step(f, m)]
  <2>2. \A k \in 0 .. m - 1 : f[k] = step(f, k)
    BY <2>1 DEF IsKeepingAll
  <2> HIDE DEF step
  <2>3. \A k \in 0 .. m : g[k] = step(g, k)
    <3> TAKE k \in 0 .. m
    <3>1. CASE k = 0
      <4>1. g[k] = step(f, 0)
        BY <2>2, <3>1
      <4>. QED  BY <1>0, <3>1, <4>1
    <3>2. CASE k # 0
      <4>1. g[k - 1] = f[k - 1] /\ g[k] = step(f, k)
        BY <2>2, <3>2
      <4>. QED  BY <4>1 DEF step
    <3>. QED  BY <3>1, <3>2
  <2>4. g = [k \in 0 .. m |-> step(g, k)]
    BY <2>3
  <2> HIDE DEF g
  <2>. QED  BY <2>4 DEF IsKeepingAll, step
<1> HIDE DEF With
<1>3. \A m \in 0 .. n : m \in With
  BY <1>1, <1>2, Counting
<1>. QED  BY <1>3 DEF With

\* Siblings that are not shared are kept, in the order of the way up.
KeepsUnshared(K, nodes, paths, n, L) == \A q \in 1 .. n :
    /\ K[q][0] = <<>>
    /\ \A j \in 1 .. L : K[q][j] =
         IF Shared(nodes, n, q, j - 1) THEN K[q][j - 1] ELSE Append(K[q][j - 1], paths[q][j])

IsNodes(nodes, n) == Len(nodes) = n /\ DOMAIN nodes = 1 .. n /\ \A q \in 1 .. n : nodes[q] \in Nat

AreLong(paths, n, L) == \A q \in 1 .. n : Len(paths[q]) = L

Compressing(K, nodes, paths, n, L) ==
    /\ KeepsUnshared(K, nodes, paths, n, L)
    /\ CompressPaths(nodes, paths) = [q \in 1 .. n |-> K[q][L]]

\* compress_merkle_proofs keeps exactly the siblings that are not shared.
LEMMA PathsCompressed ==
    ASSUME NEW nodes, NEW paths, NEW n \in Nat \ {0}, NEW L \in Nat,
           IsNodes(nodes, n), AreLong(paths, n, L), Separated(nodes, n, L)
    PROVE  \E K : Compressing(K, nodes, paths, n, L)
<1> DEFINE u == CHOOSE g : IsKeepingAll(g, nodes, paths, n)
<1>0. /\ Len(nodes) = n /\ DOMAIN nodes = 1 .. n
      /\ \A q \in 1 .. n : nodes[q] \in Nat /\ Len(paths[q]) = L
  BY DEF IsNodes, AreLong
<1>1. IsKeepingAll(u, nodes, paths, n)
  BY KeepingAllExists
<1>2. CompressPaths(nodes, paths) = [q \in 1 .. n |-> u[q].kept]
  BY <1>0 DEF CompressPaths, IsKeepingAll, KeepAllStep
<1> HIDE DEF u
<1>3. \A q \in 0 .. n : u[q] = KeepAllStep(u[q - 1], nodes, paths, q)
  BY <1>1 DEF IsKeepingAll
<1>4. u[0].known = OnPaths(nodes, L)
  <2>1. 0 \in 0 .. n /\ 1 \in 1 .. n
    OBVIOUS
  <2>2. u[0] = [known |-> OnPaths(nodes, L), kept |-> <<>>]
    BY <1>0, <1>3, <2>1 DEF KeepAllStep
  <2>. QED  BY <2>2
<1>5. \A q \in 1 .. n : u[q] = CompressPath(u[q - 1].known, nodes[q], paths[q])
  <2> TAKE q \in 1 .. n
  <2>1. q \in 0 .. n /\ q # 0
    OBVIOUS
  <2>. QED  BY <1>3, <2>1 DEF KeepAllStep
<1> DEFINE Runs(v, q) == /\ Keeping(v, u[q - 1].known, nodes[q], paths[q], L)
                         /\ u[q] = v[L]
           w(q) == CHOOSE v : Runs(v, q)
<1>6. \A q \in 1 .. n : Runs(w(q), q)
  <2> TAKE q \in 1 .. n
  <2>1. Len(paths[q]) = L
    BY <1>0
  <2> DEFINE a == u[q - 1].known
             b == nodes[q]
             c == paths[q]
  <2>2. \E v : Runs(v, q)
    <3>1. u[q] = CompressPath(a, b, c) /\ Len(c) = L
      BY <1>0, <1>5
    <3> HIDE DEF a, b, c
    <3>2. \E v : Keeping(v, a, b, c, L) /\ CompressPath(a, b, c) = v[L]
      BY <3>1, PathCompressed
    <3>3. \E v : Keeping(v, a, b, c, L) /\ u[q] = v[L]
      BY <3>1, <3>2
    <3>. QED  BY <3>3 DEF a, b, c
  <2> HIDE DEF Runs
  <2>. QED  BY <2>2
<1> HIDE DEF w
<1>7. \A q \in 1 .. n : /\ w(q)[0].known = u[q - 1].known /\ w(q)[0].kept = <<>>
                        /\ u[q] = w(q)[L]
                        /\ \A j \in 1 .. L : w(q)[j] = Keep(w(q)[j - 1], Up(nodes, q, j - 1), paths[q][j])
  <2> TAKE q \in 1 .. n
  <2>1. /\ w(q)[0] = [known |-> u[q - 1].known, kept |-> <<>>] /\ u[q] = w(q)[L]
        /\ \A j \in 1 .. L : w(q)[j] = Keep(w(q)[j - 1], nodes[q] \div 2 ^ (j - 1), paths[q][j])
    BY <1>6 DEF Keeping
  <2>. QED  BY <2>1 DEF Up
<1> HIDE DEF Runs
<1>8. ASSUME NEW q \in 1 .. n, NEW j \in 1 .. L
      PROVE  /\ w(q)[j].known = w(q)[j - 1].known \cup {Sibling(Up(nodes, q, j - 1)), Up(nodes, q, j)}
             /\ w(q)[j].kept = IF Sibling(Up(nodes, q, j - 1)) \in w(q)[j - 1].known
                               THEN w(q)[j - 1].kept ELSE Append(w(q)[j - 1].kept, paths[q][j])
  <2> DEFINE m == Up(nodes, q, j - 1)
             v == w(q)[j - 1]
  <2>1. w(q)[j] = Keep(v, m, paths[q][j])
    BY <1>7
  <2>2. m \div 2 = Up(nodes, q, j)
    <3>1. nodes[q] \in Nat /\ j - 1 \in Nat /\ (j - 1) + 1 = j
      BY <1>0
    <3>. QED  BY <3>1, UpTwice DEF Up
  <2> HIDE DEF m, v
  <2>3. w(q)[j] = [ known |-> v.known \cup {Sibling(m), Up(nodes, q, j)},
                    kept |-> IF Sibling(m) \in v.known THEN v.kept ELSE Append(v.kept, paths[q][j]) ]
    BY <2>1, <2>2 DEF Keep
  <2>. QED  BY <2>3 DEF m, v
<1> DEFINE Knows(q, j) == \A m : m \in w(q)[j].known <=> Met(m, nodes, n, L, q, j)
<1>9. ASSUME NEW q \in 1 .. n, Knows(q, 0) PROVE \A j \in 0 .. L : Knows(q, j)
  <2> DEFINE T == {j \in 0 .. L : Knows(q, j)}
  <2>1. 0 \in T
    BY <1>9
  <2>2. ASSUME NEW j \in 1 .. L, j - 1 \in T PROVE j \in T
    <3> DEFINE i == j - 1
    <3>1. i \in 0 .. L - 1 /\ j = i + 1
      OBVIOUS
    <3>2. \A m : m \in w(q)[i].known <=> Met(m, nodes, n, L, q, i)
      BY <2>2
    <3>3. w(q)[j].known = w(q)[i].known \cup {Sibling(Up(nodes, q, i)), Up(nodes, q, j)}
      BY <1>8
    <3> HIDE DEF i
    <3>4. \A m : Met(m, nodes, n, L, q, j) <=>
                   Met(m, nodes, n, L, q, i) \/ m = Sibling(Up(nodes, q, i)) \/ m = Up(nodes, q, j)
      BY <3>1, MetNext
    <3>5. Knows(q, j)
      BY <3>2, <3>3, <3>4
    <3> HIDE DEF Knows
    <3>. QED  BY <3>5
  <2> HIDE DEF T
  <2>3. \A j \in 0 .. L : j \in T
    BY <2>1, <2>2, Counting
  <2>. QED  BY <2>3 DEF T
<1> DEFINE U == {q \in 0 .. n : \A m : m \in u[q].known <=> Met(m, nodes, n, L, q + 1, 0)}
<1>10. 0 \in U
  <2>1. 0 + 1 = 1 /\ 1 \in 1 .. n /\ 0 \in 0 .. n
    OBVIOUS
  <2>2. \A m : Met(m, nodes, n, L, 1, 0) <=> \E r \in 1 .. n : \E i \in 0 .. L - 1 : m = Up(nodes, r, i)
    BY MetFirst
  <2>3. \A m : m \in OnPaths(nodes, L) <=> \E r \in 1 .. n : \E i \in 0 .. L - 1 : m = Up(nodes, r, i)
    <3>1. OnPaths(nodes, L) = {Up(nodes, r, i) : r \in 1 .. n, i \in 0 .. L - 1}
      BY <1>0 DEF OnPaths, Up
    <3>. QED  BY <3>1
  <2>. QED  BY <1>4, <2>1, <2>2, <2>3
<1>11. ASSUME NEW q \in 1 .. n, q - 1 \in U PROVE q \in U /\ Knows(q, 0)
  <2>1. (q - 1) + 1 = q
    OBVIOUS
  <2>2. \A m : m \in u[q - 1].known <=> Met(m, nodes, n, L, (q - 1) + 1, 0)
    BY <1>11
  <2>3. Knows(q, 0)
    BY <1>7, <2>1, <2>2
  <2>4. \A m : m \in u[q].known <=> Met(m, nodes, n, L, q, L)
    <3>1. L \in 0 .. L
      OBVIOUS
    <3>2. Knows(q, L)
      BY <1>9, <2>3, <3>1
    <3>. QED  BY <1>7, <3>2
  <2>5. \A m : Met(m, nodes, n, L, q + 1, 0) <=> Met(m, nodes, n, L, q, L)
    BY MetByAll
  <2>. QED  BY <2>3, <2>4, <2>5
<1> HIDE DEF U, Knows
<1>12. \A q \in 0 .. n : q \in U
  BY <1>10, <1>11, Counting
<1>13. ASSUME NEW q \in 1 .. n, NEW j \in 1 .. L
       PROVE  Sibling(Up(nodes, q, j - 1)) \in w(q)[j - 1].known <=> Shared(nodes, n, q, j - 1)
  <2>1. q - 1 \in 0 .. n /\ j - 1 \in 0 .. L /\ j - 1 \in 0 .. L - 1
    OBVIOUS
  <2>2. Knows(q, j - 1)
    BY <1>9, <1>11, <1>12, <2>1
  <2> DEFINE i == j - 1
  <2> HIDE DEF i
  <2>3. Met(Sibling(Up(nodes, q, i)), nodes, n, L, q, i) <=> Shared(nodes, n, q, i)
    BY <2>1, MetIsShared DEF i
  <2>. QED  BY <2>2, <2>3 DEF Knows, i
<1> DEFINE k(q) == [j \in 0 .. L |-> w(q)[j].kept]
           K == [q \in 1 .. n |-> k(q)]
<1>14. \A q \in 1 .. n : K[q][0] = <<>> /\ K[q][L] = u[q].kept
  BY <1>7
<1>15. ASSUME NEW q \in 1 .. n, NEW j \in 1 .. L
       PROVE  K[q][j] = IF Shared(nodes, n, q, j - 1) THEN K[q][j - 1] ELSE Append(K[q][j - 1], paths[q][j])
  <2>1. K[q][j] = w(q)[j].kept /\ K[q][j - 1] = w(q)[j - 1].kept
    OBVIOUS
  <2> HIDE DEF K
  <2>. QED  BY <1>8, <1>13, <2>1
<1> HIDE DEF K
<1>16. KeepsUnshared(K, nodes, paths, n, L)
  BY <1>14, <1>15 DEF KeepsUnshared
<1>. QED  BY <1>2, <1>14, <1>16 DEF Compressing

-----------------------------------------------------------------------------
(* Restoring the paths of a tree.                                          *)

\* What is seen when a layer is filled up to a query.
Seen(m, nodes, n, L, j, q) ==
    \/ \E r \in 1 .. n : m = nodes[r]
    \/ \E r \in 1 .. n : \E i \in 0 .. L - 1 :
         /\ i < j \/ (i = j /\ r <= q)
         /\ m = Sibling(Up(nodes, r, i)) \/ m = Up(nodes, r, i + 1)

LEMMA UpNone ==
    ASSUME NEW nodes, NEW q, nodes[q] \in Nat
    PROVE  Up(nodes, q, 0) = nodes[q]
<1>1. nodes[q] \div 1 = nodes[q]
  OBVIOUS
<1>. QED  BY <1>1, PowerZero DEF Up

LEMMA SeenIsShared ==
    ASSUME NEW nodes, NEW n \in Nat, NEW L \in Nat, \A r \in 1 .. n : nodes[r] \in Nat,
           Separated(nodes, n, L), NEW q \in 1 .. n, NEW j \in 0 .. L - 1
    PROVE  /\ Seen(Sibling(Up(nodes, q, j)), nodes, n, L, j, q - 1) <=> Shared(nodes, n, q, j)
           /\ Seen(Up(nodes, q, j), nodes, n, L, j, q - 1)
<1> DEFINE N(r, i) == Up(nodes, r, i)
           m == Sibling(N(q, j))
<1>1. \A r \in 1 .. n :
        /\ \A i \in 0 .. L : m = N(r, i) => i = j
        /\ \A i \in 0 .. L - 1 : m = Sibling(N(r, i)) => i = j /\ N(q, j) = N(r, i)
  BY DEF Separated
<1>2. Shared(nodes, n, q, j) <=> \E r \in 1 .. n : m = N(r, j) \/ (r < q /\ N(r, j) = N(q, j))
  BY DEF Shared
<1>3. \A k : Seen(k, nodes, n, L, j, q - 1) <=>
         \/ \E r \in 1 .. n : k = N(r, 0)
         \/ \E r \in 1 .. n : \E i \in 0 .. L - 1 :
              /\ i < j \/ (i = j /\ r <= q - 1)
              /\ k = Sibling(N(r, i)) \/ k = N(r, i + 1)
  <2>1. \A r \in 1 .. n : N(r, 0) = nodes[r]
    BY UpNone
  <2>. QED  BY <2>1 DEF Seen
<1>4. ASSUME NEW r \in 1 .. n, N(r, j) = N(q, j) PROVE m = Sibling(N(r, j))
  BY <1>4
<1> HIDE DEF N, m
<1>5. ASSUME NEW r \in 1 .. n PROVE Seen(N(r, j), nodes, n, L, j, q - 1)
  <2>1. CASE j = 0
    BY <1>3, <2>1
  <2>2. CASE j # 0
    <3>1. j - 1 \in 0 .. L - 1 /\ j - 1 < j /\ (j - 1) + 1 = j
      BY <2>2
    <3>. QED  BY <1>3, <3>1
  <2>. QED  BY <2>1, <2>2
<1>6. ASSUME Shared(nodes, n, q, j) PROVE Seen(m, nodes, n, L, j, q - 1)
  <2>1. PICK r \in 1 .. n : m = N(r, j) \/ (r < q /\ N(r, j) = N(q, j))
    BY <1>2, <1>6
  <2>2. CASE m = N(r, j)
    BY <1>5, <2>2
  <2>3. CASE r < q /\ N(r, j) = N(q, j)
    <3>1. r <= q - 1 /\ m = Sibling(N(r, j))
      BY <1>4, <2>3
    <3>. QED  BY <1>3, <3>1
  <2>. QED  BY <2>1, <2>2, <2>3
<1>7. ASSUME Seen(m, nodes, n, L, j, q - 1) PROVE Shared(nodes, n, q, j)
  <2>1. ASSUME NEW r \in 1 .. n, m = N(r, 0) PROVE Shared(nodes, n, q, j)
    BY <1>1, <1>2, <2>1
  <2>2. ASSUME NEW r \in 1 .. n, NEW i \in 0 .. L - 1, i < j \/ (i = j /\ r <= q - 1), m = Sibling(N(r, i))
        PROVE  Shared(nodes, n, q, j)
    <3>1. i = j /\ N(q, j) = N(r, i)
      BY <1>1, <2>2
    <3>2. r < q
      BY <2>2, <3>1
    <3>. QED  BY <1>2, <3>1, <3>2
  <2>3. ASSUME NEW r \in 1 .. n, NEW i \in 0 .. L - 1, m = N(r, i + 1)
        PROVE  Shared(nodes, n, q, j)
    <3>1. i + 1 \in 0 .. L
      OBVIOUS
    <3>2. i + 1 = j
      BY <1>1, <2>3, <3>1
    <3>. QED  BY <1>2, <2>3, <3>2
  <2>. QED  BY <1>3, <1>7, <2>1, <2>2, <2>3
<1>8. Seen(N(q, j), nodes, n, L, j, q - 1)
  BY <1>5
<1>. QED  BY <1>6, <1>7, <1>8 DEF m, N

LEMMA SeenNext ==
    ASSUME NEW nodes, NEW n \in Nat, NEW L \in Nat, NEW q \in 1 .. n, NEW j \in 0 .. L - 1, NEW m
    PROVE  Seen(m, nodes, n, L, j, q) <=>
             Seen(m, nodes, n, L, j, q - 1) \/ m = Sibling(Up(nodes, q, j)) \/ m = Up(nodes, q, j + 1)
<1>1. \A r \in 1 .. n, i \in 0 .. L - 1 :
        i < j \/ (i = j /\ r <= q) <=> (i < j \/ (i = j /\ r <= q - 1)) \/ (i = j /\ r = q)
  OBVIOUS
<1>. QED  BY <1>1, Zenon DEF Seen

LEMMA SeenFirst ==
    ASSUME NEW nodes, NEW n \in Nat, NEW L \in Nat, NEW m
    PROVE  Seen(m, nodes, n, L, 0, 0) <=> \E r \in 1 .. n : m = nodes[r]
<1>1. \A r \in 1 .. n, i \in 0 .. L - 1 : ~(i < 0 \/ (i = 0 /\ r <= 0))
  OBVIOUS
<1>. QED  BY <1>1, Zenon DEF Seen

LEMMA SeenByAll ==
    ASSUME NEW nodes, NEW n \in Nat, NEW L \in Nat, NEW j \in 0 .. L - 1, NEW m
    PROVE  Seen(m, nodes, n, L, j + 1, 0) <=> Seen(m, nodes, n, L, j, n)
<1>1. \A r \in 1 .. n, i \in 0 .. L - 1 : i < j + 1 \/ (i = j + 1 /\ r <= 0) <=> i < j \/ (i = j /\ r <= n)
  OBVIOUS
<1>. QED  BY <1>1, Zenon DEF Seen

\* The first query of a leaf.
FirstOf(nodes, q) == \A r \in 1 .. q - 1 : nodes[r] # nodes[q]

\* Digests of the nodes on and beside the ways up.
Digests(V, nodes, leaves, paths, n, L) == \A q \in 1 .. n :
    /\ V[nodes[q]] = LeafHash(leaves[q])
    /\ \A j \in 1 .. L : paths[q][j] = V[Sibling(Up(nodes, q, j - 1))]
    /\ \A j \in 0 .. L - 1 : V[Up(nodes, q, j + 1)] =
         IF Up(nodes, q, j) % 2 = 0
         THEN TwoToOne(V[Up(nodes, q, j)], V[Sibling(Up(nodes, q, j))])
         ELSE TwoToOne(V[Sibling(Up(nodes, q, j))], V[Up(nodes, q, j)])

\* What is seen is right, and what is left for a first query is what it kept
\* from the layer on.
Filling(t, V, K, nodes, n, L, j, q) ==
    /\ \A m : m \in DOMAIN t.seen <=> Seen(m, nodes, n, L, j, q)
    /\ \A m \in DOMAIN t.seen : t.seen[m] = V[m]
    /\ t.rest = [r \in 1 .. n |-> t.rest[r]]
    /\ \A r \in 1 .. n : FirstOf(nodes, r) =>
         t.rest[r] = Rest(K[r][L], K[r][IF r <= q THEN j + 1 ELSE j])

\* One sibling is read exactly if it was kept.
LEMMA FillKeeps ==
    ASSUME NEW nodes, NEW leaves, NEW paths, NEW n \in Nat, NEW L \in Nat,
           \A r \in 1 .. n : nodes[r] \in Nat,
           Separated(nodes, n, L), NEW V, Digests(V, nodes, leaves, paths, n, L),
           NEW K, KeepsUnshared(K, nodes, paths, n, L),
           NEW q \in 1 .. n, NEW j \in 0 .. L - 1, NEW t, Filling(t, V, K, nodes, n, L, j, q - 1)
    PROVE  Filling(Fill(t, Up(nodes, q, j), q), V, K, nodes, n, L, j, q)
<1> DEFINE m == Up(nodes, q, j)
           b == Sibling(m)
           p == Up(nodes, q, j + 1)
           known == b \in DOMAIN t.seen
           sibling == IF known THEN t.seen[b] ELSE Head(t.rest[q])
           parent == IF m % 2 = 0 THEN TwoToOne(t.seen[m], sibling) ELSE TwoToOne(sibling, t.seen[m])
           seen == Inserted(Inserted(t.seen, b, sibling), p, parent)
           rest == IF known THEN t.rest ELSE [t.rest EXCEPT ![q] = Tail(@)]
           u == Fill(t, m, q)
<1>1. p = m \div 2
  <2>1. nodes[q] \in Nat /\ j \in Nat
    OBVIOUS
  <2>. QED  BY <2>1, UpTwice DEF Up
<1>2. u.seen = seen /\ u.rest = rest
  <2>1. u = [seen |-> seen, rest |-> rest]
    BY <1>1 DEF Fill
  <2> HIDE DEF u, seen, rest
  <2>. QED  BY <2>1
<1>3. /\ \A k : k \in DOMAIN t.seen <=> Seen(k, nodes, n, L, j, q - 1)
      /\ \A k \in DOMAIN t.seen : t.seen[k] = V[k]
      /\ t.rest = [r \in 1 .. n |-> t.rest[r]]
      /\ \A r \in 1 .. n : FirstOf(nodes, r) =>
           t.rest[r] = Rest(K[r][L], K[r][IF r <= q - 1 THEN j + 1 ELSE j])
  BY DEF Filling
<1>4. (known <=> Shared(nodes, n, q, j)) /\ m \in DOMAIN t.seen
  BY <1>3, SeenIsShared
<1> DEFINE i == j + 1
           S == {paths[q][k] : k \in 1 .. L}
<1>5. i \in 1 .. L /\ i - 1 = j /\ L \in 0 .. L /\ i \in 0 .. L /\ j \in 0 .. L
  OBVIOUS
<1> HIDE DEF i
<1>6. K[q][i] = IF Shared(nodes, n, q, j) THEN K[q][j] ELSE Append(K[q][j], paths[q][i])
  BY <1>5 DEF KeepsUnshared
<1>7. paths[q][i] = V[b]
  <2>1. paths[q][i] = V[Sibling(Up(nodes, q, i - 1))]
    BY <1>5 DEF Digests
  <2>. QED  BY <1>5, <2>1
<1>8. V[p] = IF m % 2 = 0 THEN TwoToOne(V[m], V[b]) ELSE TwoToOne(V[b], V[m])
  BY DEF Digests
<1>9. \A k \in 0 .. L : K[q][k] \in Seq(S) /\ Extends(K[q][k], K[q][L])
  <2>1. K[q][0] \in Seq(S)
    <3>1. K[q][0] = <<>>
      BY DEF KeepsUnshared
    <3> HIDE DEF S
    <3>. QED  BY <3>1
  <2>2. \A k \in 1 .. L : Grows(K[q][k - 1], K[q][k], S)
    BY DEF KeepsUnshared, Grows
  <2> DEFINE Q == K[q]
  <2>3. IsGrowth(Q, L, S)
    BY <2>1, <2>2 DEF IsGrowth
  <2> HIDE DEF Q, S
  <2>4. \A k \in 0 .. L : Q[k] \in Seq(S) /\ Extends(Q[k], Q[L])
    BY <2>3, GrowthExtends
  <2>. QED  BY <2>4 DEF Q
<1>10. ASSUME ~known
       PROVE  /\ FirstOf(nodes, q) /\ t.rest[q] = Rest(K[q][L], K[q][j])
              /\ Head(t.rest[q]) = V[b] /\ Tail(t.rest[q]) = Rest(K[q][L], K[q][i])
  <2>1. ~Shared(nodes, n, q, j)
    BY <1>4, <1>10
  <2>2. FirstOf(nodes, q)
    <3>1. \A r \in 1 .. n : ~(r < q /\ Up(nodes, r, j) = Up(nodes, q, j))
      BY <2>1 DEF Shared
    <3>2. ASSUME NEW r \in 1 .. q - 1, nodes[r] = nodes[q] PROVE FALSE
      <4>1. r \in 1 .. n /\ r < q
        OBVIOUS
      <4>2. Up(nodes, r, j) = Up(nodes, q, j)
        BY <3>2 DEF Up
      <4>. QED  BY <3>1, <4>1, <4>2
    <3>. QED  BY <3>2 DEF FirstOf
  <2>3. t.rest[q] = Rest(K[q][L], K[q][j])
    <3>1. ~(q <= q - 1)
      OBVIOUS
    <3>. QED  BY <1>3, <2>2, <3>1
  <2> DEFINE a == K[q][j]
             c == K[q][L]
             e == paths[q][i]
  <2>4. K[q][i] = Append(a, e)
    BY <1>6, <2>1
  <2>5. a \in Seq(S) /\ c \in Seq(S) /\ Extends(Append(a, e), c)
    BY <1>5, <1>9, <2>4
  <2>6. e \in S
    BY <1>5
  <2> HIDE DEF a, c, e, S
  <2>7. Head(Rest(c, a)) = e /\ Tail(Rest(c, a)) = Rest(c, Append(a, e))
    BY <2>5, <2>6, ReadsNext
  <2>. QED  BY <1>7, <2>2, <2>3, <2>4, <2>7 DEF a, c, e
<1>11. sibling = V[b] /\ t.seen[m] = V[m]
  BY <1>3, <1>4, <1>10
<1>12. parent = V[p]
  BY <1>8, <1>11
<1> HIDE DEF sibling, parent, m, b, p, u
<1>13. /\ DOMAIN seen = DOMAIN t.seen \cup {b, p}
       /\ \A k \in DOMAIN seen : seen[k] = V[k]
  <2>1. DOMAIN seen = DOMAIN t.seen \cup {b, p}
    BY DEF Inserted
  <2>2. \A k \in DOMAIN seen : seen[k] = IF k = p THEN parent ELSE IF k = b THEN sibling ELSE t.seen[k]
    BY DEF Inserted
  <2>3. ASSUME NEW k \in DOMAIN seen PROVE seen[k] = V[k]
    <3>1. k = p \/ k = b \/ k \in DOMAIN t.seen
      BY <2>1
    <3> HIDE DEF seen
    <3>. QED  BY <1>3, <1>11, <1>12, <2>2, <3>1
  <2>. QED  BY <2>1, <2>3
<1> HIDE DEF seen
<1>14. \A k : k \in DOMAIN seen <=> Seen(k, nodes, n, L, j, q)
  <2>1. \A k : Seen(k, nodes, n, L, j, q) <=> Seen(k, nodes, n, L, j, q - 1) \/ k = b \/ k = p
    BY SeenNext DEF b, m, p
  <2>. QED  BY <1>3, <1>13, <2>1
<1>15. /\ rest = [r \in 1 .. n |-> rest[r]]
       /\ \A r \in 1 .. n : rest[r] = IF ~known /\ r = q THEN Tail(t.rest[q]) ELSE t.rest[r]
  <2>1. CASE known
    BY <1>3, <2>1
  <2>2. CASE ~known
    <3>1. rest = [t.rest EXCEPT ![q] = Tail(@)]
      BY <2>2
    <3>. QED  BY <1>3, <2>2, <3>1
  <2>. QED  BY <2>1, <2>2
<1> HIDE DEF rest
<1>16. ASSUME NEW r \in 1 .. n, FirstOf(nodes, r)
       PROVE  rest[r] = Rest(K[r][L], K[r][IF r <= q THEN j + 1 ELSE j])
  <2>1. CASE r # q
    <3>1. r <= q <=> r <= q - 1
      BY <2>1
    <3>2. rest[r] = t.rest[r]
      BY <1>15, <2>1
    <3>. QED  BY <1>3, <1>16, <3>1, <3>2
  <2>2. CASE r = q /\ known
    <3>1. ~(q <= q - 1) /\ q <= q
      OBVIOUS
    <3>2. K[q][i] = K[q][j]
      BY <1>4, <1>6, <2>2
    <3>3. rest[q] = t.rest[q]
      BY <1>15, <2>2
    <3>4. t.rest[q] = Rest(K[q][L], K[q][j])
      BY <1>3, <1>16, <2>2, <3>1
    <3>. QED  BY <2>2, <3>1, <3>2, <3>3, <3>4 DEF i
  <2>3. CASE r = q /\ ~known
    <3>1. q <= q
      OBVIOUS
    <3>. QED  BY <1>10, <1>15, <2>3, <3>1 DEF i
  <2>. QED  BY <2>1, <2>2, <2>3
<1>17. Filling(u, V, K, nodes, n, L, j, q)
  BY <1>2, <1>13, <1>14, <1>15, <1>16 DEF Filling
<1>. QED  BY <1>17 DEF u, m

FillStep(v, t, nodes, layer, q) ==
    IF q = 0 THEN t ELSE Fill(v, nodes[q] \div 2 ^ layer, q)

IsFilling(u, t, nodes, layer, n) == u = [q \in 0 .. n |-> FillStep(u[q - 1], t, nodes, layer, q)]

\* FillLayer is the end of such a run.
LEMMA FillingExists ==
    ASSUME NEW t, NEW nodes, NEW layer, NEW n \in Nat
    PROVE  \E f : IsFilling(f, t, nodes, layer, n)
<1> DEFINE With == {m \in Nat : \E f : IsFilling(f, t, nodes, layer, m)}
           step(e, k) == FillStep(e[k - 1], t, nodes, layer, k)
<1>0. \A e, g : step(e, 0) = step(g, 0)
  BY DEF FillStep
<1>1. 0 \in With
  <2> DEFINE g == [k \in 0 .. 0 |-> step(<<>>, 0)]
  <2>1. g = [k \in 0 .. 0 |-> step(g, k)]
    BY <1>0
  <2> HIDE DEF g
  <2>. QED  BY <2>1 DEF IsFilling
<1>2. ASSUME NEW m \in 1 .. n, m - 1 \in With PROVE m \in With
  <2>1. PICK f : IsFilling(f, t, nodes, layer, m - 1)
    BY <1>2
  <2> DEFINE g == [k \in 0 .. m |-> IF k < m THEN f[k] ELSE step(f, m)]
  <2>2. \A k \in 0 .. m - 1 : f[k] = step(f, k)
    BY <2>1 DEF IsFilling
  <2> HIDE DEF step
  <2>3. \A k \in 0 .. m : g[k] = step(g, k)
    <3> TAKE k \in 0 .. m
    <3>1. CASE k = 0
      <4>1. g[k] = step(f, 0)
        BY <2>2, <3>1
      <4>. QED  BY <1>0, <3>1, <4>1
    <3>2. CASE k # 0
      <4>1. g[k - 1] = f[k - 1] /\ g[k] = step(f, k)
        BY <2>2, <3>2
      <4>. QED  BY <4>1 DEF step
    <3>. QED  BY <3>1, <3>2
  <2>4. g = [k \in 0 .. m |-> step(g, k)]
    BY <2>3
  <2> HIDE DEF g
  <2>. QED  BY <2>4 DEF IsFilling, step
<1> HIDE DEF With
<1>3. \A m \in 0 .. n : m \in With
  BY <1>1, <1>2, Counting
<1>. QED  BY <1>3 DEF With

\* A layer is filled, query by query.
LEMMA LayerFilled ==
    ASSUME NEW nodes, NEW leaves, NEW paths, NEW n \in Nat, Len(nodes) = n, NEW L \in Nat,
           \A r \in 1 .. n : nodes[r] \in Nat,
           Separated(nodes, n, L), NEW V, Digests(V, nodes, leaves, paths, n, L),
           NEW K, KeepsUnshared(K, nodes, paths, n, L),
           NEW j \in 0 .. L - 1, NEW t, Filling(t, V, K, nodes, n, L, j, 0)
    PROVE  Filling(FillLayer(t, nodes, j), V, K, nodes, n, L, j + 1, 0)
<1> DEFINE u == CHOOSE g : IsFilling(g, t, nodes, j, n)
           T == {q \in 0 .. n : Filling(u[q], V, K, nodes, n, L, j, q)}
<1>1. IsFilling(u, t, nodes, j, n)
  BY FillingExists
<1>2. FillLayer(t, nodes, j) = u[n]
  BY DEF FillLayer, IsFilling, FillStep
<1> HIDE DEF u
<1>3. \A q \in 0 .. n : u[q] = FillStep(u[q - 1], t, nodes, j, q)
  BY <1>1 DEF IsFilling
<1>4. 0 \in T
  <2>1. 0 \in 0 .. n
    OBVIOUS
  <2>2. u[0] = t
    BY <1>3, <2>1 DEF FillStep
  <2>. QED  BY <2>1, <2>2
<1>5. ASSUME NEW q \in 1 .. n, q - 1 \in T PROVE q \in T
  <2>1. Filling(u[q - 1], V, K, nodes, n, L, j, q - 1)
    BY <1>5
  <2>2. u[q] = Fill(u[q - 1], Up(nodes, q, j), q)
    <3>1. q \in 0 .. n /\ q # 0
      OBVIOUS
    <3>. QED  BY <1>3, <3>1 DEF FillStep, Up
  <2> DEFINE v == u[q - 1]
  <2> HIDE DEF v
  <2>3. Filling(Fill(v, Up(nodes, q, j), q), V, K, nodes, n, L, j, q)
    BY <2>1, FillKeeps DEF v
  <2>. QED  BY <2>2, <2>3 DEF v
<1> HIDE DEF T
<1>6. \A q \in 0 .. n : q \in T
  BY <1>4, <1>5, Counting
<1>7. Filling(u[n], V, K, nodes, n, L, j, n)
  <2>1. n \in 0 .. n
    OBVIOUS
  <2>. QED  BY <1>6, <2>1 DEF T
<1> DEFINE w == u[n]
<1> HIDE DEF w
<1>8. /\ \A m : m \in DOMAIN w.seen <=> Seen(m, nodes, n, L, j, n)
      /\ \A m \in DOMAIN w.seen : w.seen[m] = V[m]
      /\ w.rest = [r \in 1 .. n |-> w.rest[r]]
      /\ \A r \in 1 .. n : FirstOf(nodes, r) =>
           w.rest[r] = Rest(K[r][L], K[r][IF r <= n THEN j + 1 ELSE j])
  BY <1>7 DEF Filling, w
<1>9. \A m : m \in DOMAIN w.seen <=> Seen(m, nodes, n, L, j + 1, 0)
  BY <1>8, SeenByAll
<1>10. \A r \in 1 .. n : r <= n /\ ~(r <= 0)
  OBVIOUS
<1>11. Filling(w, V, K, nodes, n, L, j + 1, 0)
  BY <1>8, <1>9, <1>10, Zenon DEF Filling
<1>. QED  BY <1>2, <1>11 DEF w

\* Among the places of a value there is a first and a last one.
IsFirst(keys, n, m, r) == r \in 1 .. n /\ keys[r] = m /\ \A p \in 1 .. r - 1 : keys[p] # m
IsLast(keys, n, m, r)  == r \in 1 .. n /\ keys[r] = m /\ \A p \in r + 1 .. n : keys[p] # m

LEMMA PlaceOf ==
    ASSUME NEW n \in Nat, NEW keys, NEW q \in 1 .. n
    PROVE  /\ \E r : IsFirst(keys, n, keys[q], r)
           /\ \E r : IsLast(keys, n, keys[q], r)
<1> DEFINE A == {r \in 1 .. n : keys[r] = keys[q]}
           B == {k \in 0 .. n : n - k \in A}
<1>1. A \in SUBSET Nat /\ q \in A
  OBVIOUS
<1>2. B \in SUBSET Nat /\ n - q \in B
  <2>1. n - q \in 0 .. n /\ n - (n - q) = q
    OBVIOUS
  <2>. QED  BY <1>1, <2>1
<1>3. PICK r \in A : \A p \in A : r <= p
  <2> HIDE DEF A
  <2>. QED  BY <1>1, LeastNatural
<1>4. \A p \in 1 .. r - 1 : keys[p] # keys[q]
  <2>1. SUFFICES ASSUME NEW p \in 1 .. r - 1, keys[p] = keys[q] PROVE FALSE
    OBVIOUS
  <2>2. r \in 1 .. n
    BY <1>3
  <2>3. p \in A /\ ~(r <= p)
    BY <2>1, <2>2
  <2>. QED  BY <1>3, <2>3
<1>5. PICK k \in B : \A l \in B : k <= l
  <2> HIDE DEF B
  <2>. QED  BY <1>2, LeastNatural
<1>6. \A p \in (n - k) + 1 .. n : keys[p] # keys[q]
  <2>1. SUFFICES ASSUME NEW p \in (n - k) + 1 .. n, keys[p] = keys[q] PROVE FALSE
    OBVIOUS
  <2>2. k \in 0 .. n /\ n - k \in 1 .. n
    BY <1>5
  <2>3. p \in 1 .. n /\ n - p \in 0 .. n /\ n - (n - p) = p /\ ~(k <= n - p)
    BY <2>1, <2>2
  <2>4. n - p \in B
    BY <2>1, <2>3
  <2>. QED  BY <1>5, <2>3, <2>4
<1>7. r \in 1 .. n /\ keys[r] = keys[q] /\ n - k \in 1 .. n /\ keys[n - k] = keys[q]
  BY <1>3, <1>5
<1>. QED  BY <1>4, <1>6, <1>7 DEF IsFirst, IsLast

\* The digests of the leaves that are asked for, the last one's where some meet.
LastLeaves(leaves, nodes) ==
    [m \in {nodes[q] : q \in DOMAIN nodes} |->
        LeafHash(leaves[CHOOSE q \in DOMAIN nodes :
                          nodes[q] = m /\ \A r \in q + 1 .. Len(nodes) : nodes[r] # m])]

FillAllStep(v, leaves, nodes, kept, j) ==
    IF j = 0 THEN [seen |-> LastLeaves(leaves, nodes), rest |-> kept]
             ELSE FillLayer(v, nodes, j - 1)

IsFillingAll(u, leaves, nodes, kept, n) ==
    u = [j \in 0 .. n |-> FillAllStep(u[j - 1], leaves, nodes, kept, j)]

\* DecompressPaths reads off such a run.
LEMMA FillingAllExists ==
    ASSUME NEW leaves, NEW nodes, NEW kept, NEW n \in Nat
    PROVE  \E f : IsFillingAll(f, leaves, nodes, kept, n)
<1> DEFINE With == {m \in Nat : \E f : IsFillingAll(f, leaves, nodes, kept, m)}
           step(e, k) == FillAllStep(e[k - 1], leaves, nodes, kept, k)
<1>0. \A e, g : step(e, 0) = step(g, 0)
  BY DEF FillAllStep
<1>1. 0 \in With
  <2> DEFINE g == [k \in 0 .. 0 |-> step(<<>>, 0)]
  <2>1. g = [k \in 0 .. 0 |-> step(g, k)]
    BY <1>0
  <2> HIDE DEF g
  <2>. QED  BY <2>1 DEF IsFillingAll
<1>2. ASSUME NEW m \in 1 .. n, m - 1 \in With PROVE m \in With
  <2>1. PICK f : IsFillingAll(f, leaves, nodes, kept, m - 1)
    BY <1>2
  <2> DEFINE g == [k \in 0 .. m |-> IF k < m THEN f[k] ELSE step(f, m)]
  <2>2. \A k \in 0 .. m - 1 : f[k] = step(f, k)
    BY <2>1 DEF IsFillingAll
  <2> HIDE DEF step
  <2>3. \A k \in 0 .. m : g[k] = step(g, k)
    <3> TAKE k \in 0 .. m
    <3>1. CASE k = 0
      <4>1. g[k] = step(f, 0)
        BY <2>2, <3>1
      <4>. QED  BY <1>0, <3>1, <4>1
    <3>2. CASE k # 0
      <4>1. g[k - 1] = f[k - 1] /\ g[k] = step(f, k)
        BY <2>2, <3>2
      <4>. QED  BY <4>1 DEF step
    <3>. QED  BY <3>1, <3>2
  <2>4. g = [k \in 0 .. m |-> step(g, k)]
    BY <2>3
  <2> HIDE DEF g
  <2>. QED  BY <2>4 DEF IsFillingAll, step
<1> HIDE DEF With
<1>3. \A m \in 0 .. n : m \in With
  BY <1>1, <1>2, Counting
<1>. QED  BY <1>3 DEF With

FirstKept(kept, K, nodes, n, L) ==
    /\ kept = [q \in 1 .. n |-> kept[q]]
    /\ \A q \in 1 .. n : FirstOf(nodes, q) => kept[q] = K[q][L]

Copied(paths, n, L) == [q \in 1 .. n |-> [j \in 1 .. L |-> paths[q][j]]]

\* decompress_merkle_proofs restores the paths that were compressed, given for
\* each leaf what its first query kept.
LEMMA PathsRestored ==
    ASSUME NEW nodes, NEW leaves, NEW paths, NEW n \in Nat, NEW L \in Nat,
           IsNodes(nodes, n), Separated(nodes, n, L), NEW V, Digests(V, nodes, leaves, paths, n, L),
           NEW K, KeepsUnshared(K, nodes, paths, n, L), NEW kept, FirstKept(kept, K, nodes, n, L)
    PROVE  DecompressPaths(leaves, nodes, kept, L) = Copied(paths, n, L)
<1> DEFINE u == CHOOSE g : IsFillingAll(g, leaves, nodes, kept, L)
           T == {j \in 0 .. L : Filling(u[j], V, K, nodes, n, L, j, 0)}
<1>0. /\ Len(nodes) = n /\ DOMAIN nodes = 1 .. n /\ \A q \in 1 .. n : nodes[q] \in Nat
      /\ kept = [q \in 1 .. n |-> kept[q]]
      /\ \A q \in 1 .. n : FirstOf(nodes, q) => kept[q] = K[q][L]
  BY DEF IsNodes, FirstKept
<1>1. IsFillingAll(u, leaves, nodes, kept, L)
  BY FillingAllExists
<1>2. DecompressPaths(leaves, nodes, kept, L)
        = [q \in 1 .. n |-> [j \in 1 .. L |-> u[L].seen[Sibling(nodes[q] \div 2 ^ (j - 1))]]]
  BY <1>0 DEF DecompressPaths, IsFillingAll, FillAllStep, LastLeaves
<1> HIDE DEF u
<1>3. \A j \in 0 .. L : u[j] = FillAllStep(u[j - 1], leaves, nodes, kept, j)
  BY <1>1 DEF IsFillingAll
<1>4. \A q \in 1 .. n : K[q][L] \in Seq({paths[q][k] : k \in 1 .. L})
  <2> TAKE q \in 1 .. n
  <2> DEFINE S == {paths[q][k] : k \in 1 .. L}
             Q == K[q]
  <2>1. Q[0] = <<>> /\ \A k \in 1 .. L : Grows(Q[k - 1], Q[k], S)
    BY DEF KeepsUnshared, Grows
  <2> HIDE DEF S, Q
  <2>2. IsGrowth(Q, L, S)
    BY <2>1 DEF IsGrowth
  <2>3. L \in 0 .. L
    OBVIOUS
  <2>. QED  BY <2>2, <2>3, GrowthTyped DEF S, Q
<1>5. 0 \in T
  <2> DEFINE seen == LastLeaves(leaves, nodes)
             t == u[0]
  <2>1. t.seen = seen /\ t.rest = kept
    <3>1. 0 \in 0 .. L
      OBVIOUS
    <3>2. t = [seen |-> seen, rest |-> kept]
      BY <1>3, <3>1 DEF FillAllStep
    <3> HIDE DEF t, seen
    <3>. QED  BY <3>2
  <2>2. \A m : m \in DOMAIN seen <=> \E r \in 1 .. n : m = nodes[r]
    <3>1. DOMAIN seen = {nodes[q] : q \in 1 .. n}
      BY <1>0 DEF LastLeaves
    <3> HIDE DEF seen
    <3>. QED  BY <3>1
  <2>3. ASSUME NEW q \in 1 .. n PROVE seen[nodes[q]] = V[nodes[q]]
    <3> DEFINE l == CHOOSE r \in 1 .. n : nodes[r] = nodes[q] /\ \A p \in r + 1 .. n : nodes[p] # nodes[q]
    <3>1. \E r : IsLast(nodes, n, nodes[q], r)
      BY PlaceOf
    <3>2. l \in 1 .. n /\ nodes[l] = nodes[q]
      BY <3>1 DEF IsLast
    <3>3. seen[nodes[q]] = LeafHash(leaves[l])
      BY <1>0 DEF LastLeaves
    <3> HIDE DEF l
    <3>4. V[nodes[l]] = LeafHash(leaves[l])
      BY <3>2 DEF Digests
    <3>. QED  BY <3>2, <3>3, <3>4, Zenon
  <2> HIDE DEF seen
  <2>4. \A m \in DOMAIN seen : seen[m] = V[m]
    BY <2>2, <2>3
  <2>5. \A m : m \in DOMAIN seen <=> Seen(m, nodes, n, L, 0, 0)
    <3>1. \A m : Seen(m, nodes, n, L, 0, 0) <=> \E r \in 1 .. n : m = nodes[r]
      BY SeenFirst
    <3>. QED  BY <2>2, <3>1
  <2>6. ASSUME NEW r \in 1 .. n, FirstOf(nodes, r)
        PROVE  kept[r] = Rest(K[r][L], K[r][IF r <= 0 THEN 0 + 1 ELSE 0])
    <3>1. ~(r <= 0) /\ K[r][0] = <<>> /\ kept[r] = K[r][L]
      BY <1>0, <2>6 DEF KeepsUnshared
    <3>2. Rest(K[r][L], <<>>) = K[r][L]
      BY <1>4, RestOfNothing
    <3>. QED  BY <3>1, <3>2
  <2> HIDE DEF t
  <2>7. Filling(t, V, K, nodes, n, L, 0, 0)
    BY <1>0, <2>1, <2>4, <2>5, <2>6 DEF Filling
  <2>. QED  BY <2>7 DEF t
<1>6. ASSUME NEW j \in 1 .. L, j - 1 \in T PROVE j \in T
  <2> DEFINE i == j - 1
             v == u[i]
  <2>1. i \in 0 .. L - 1 /\ j = i + 1
    OBVIOUS
  <2>2. Filling(v, V, K, nodes, n, L, i, 0)
    BY <1>6
  <2>3. u[j] = FillLayer(v, nodes, i)
    <3>1. j \in 0 .. L /\ j # 0
      OBVIOUS
    <3>. QED  BY <1>3, <3>1 DEF FillAllStep
  <2> HIDE DEF i, v
  <2>4. Filling(FillLayer(v, nodes, i), V, K, nodes, n, L, i + 1, 0)
    BY <1>0, <2>1, <2>2, LayerFilled
  <2>. QED  BY <2>1, <2>3, <2>4
<1> HIDE DEF T
<1>7. \A j \in 0 .. L : j \in T
  BY <1>5, <1>6, Counting
<1>8. Filling(u[L], V, K, nodes, n, L, L, 0)
  <2>1. L \in 0 .. L
    OBVIOUS
  <2>. QED  BY <1>7, <2>1 DEF T
<1>9. ASSUME NEW q \in 1 .. n, NEW j \in 1 .. L
      PROVE  u[L].seen[Sibling(nodes[q] \div 2 ^ (j - 1))] = paths[q][j]
  <2> DEFINE i == j - 1
             m == Sibling(Up(nodes, q, i))
  <2>1. i \in 0 .. L - 1 /\ i < L
    OBVIOUS
  <2>2. Seen(m, nodes, n, L, L, 0)
    <3> HIDE DEF i
    <3>. QED  BY <2>1 DEF Seen
  <2>3. u[L].seen[m] = V[m]
    <3> HIDE DEF m
    <3>. QED  BY <1>8, <2>2 DEF Filling
  <2>4. paths[q][j] = V[m]
    BY DEF Digests
  <2>. QED  BY <2>3, <2>4 DEF Up
<1> DEFINE got(q) == [j \in 1 .. L |-> u[L].seen[Sibling(nodes[q] \div 2 ^ (j - 1))]]
<1>10. \A q \in 1 .. n : got(q) = [j \in 1 .. L |-> paths[q][j]]
  BY <1>9
<1> HIDE DEF got
<1>11. [q \in 1 .. n |-> got(q)] = [q \in 1 .. n |-> [j \in 1 .. L |-> paths[q][j]]]
  BY <1>10
<1>. QED  BY <1>2, <1>11 DEF got, Copied

-----------------------------------------------------------------------------
(* Numbers of nodes.                                                       *)

\* The numbers of a layer, counted from the leaves of a tree of some height.
InLayer(m, H, j) == m \in 2 ^ (H - j) .. 2 * 2 ^ (H - j) - 1

LEMMA LayersDiffer ==
    ASSUME NEW H \in Nat, NEW i \in 0 .. H, NEW j \in 0 .. H, NEW m,
           InLayer(m, H, i), InLayer(m, H, j)
    PROVE  i = j
<1>1. ASSUME NEW a \in 0 .. H, NEW b \in 0 .. H, InLayer(m, H, a), InLayer(m, H, b), a < b
      PROVE  FALSE
  <2> DEFINE c == H - b
             d == (b - a) - 1
             e == H - a
             w == 2 ^ c
             x == 2 ^ d
  <2>1. c \in Nat /\ d \in Nat /\ e \in Nat /\ e = (c + 1) + d /\ c + 1 \in Nat
    BY <1>1
  <2>2. InLayer(m, H, a) <=> m \in 2 ^ e .. 2 * 2 ^ e - 1
    BY DEF InLayer
  <2>3. InLayer(m, H, b) <=> m \in w .. 2 * w - 1
    BY DEF InLayer
  <2> HIDE DEF c, d, e
  <2>4. 2 ^ e = 2 ^ (c + 1) * x /\ x \in Nat /\ x >= 1
    BY <2>1, PowerSum
  <2>5. 2 ^ (c + 1) = 2 * w /\ w \in Nat /\ w >= 1
    BY <2>1, Doubling
  <2> HIDE DEF w, x
  <2>6. (2 * w) * x >= 2 * w
    BY <2>4, <2>5
  <2>7. 2 ^ e = (2 * w) * x
    BY <2>4, <2>5
  <2>. QED  BY <1>1, <2>2, <2>3, <2>4, <2>5, <2>6, <2>7
<1>. QED  BY <1>1

\* From a leaf's number to the one some layers up.
LEMMA UpInLayer ==
    ASSUME NEW H \in Nat, NEW x \in 0 .. 2 ^ H - 1, NEW j \in 0 .. H
    PROVE  /\ (x + 2 ^ H) \div 2 ^ j = (x \div 2 ^ j) + 2 ^ (H - j)
           /\ x \div 2 ^ j \in 0 .. 2 ^ (H - j) - 1
           /\ InLayer((x + 2 ^ H) \div 2 ^ j, H, j)
<1> DEFINE T == 2 ^ j
           U == 2 ^ (H - j)
           a == x \div T
           b == x % T
<1>1. 2 ^ H = U * T /\ T \in Nat /\ T >= 1 /\ U \in Nat /\ U >= 1
  <2>1. H - j \in Nat /\ j \in Nat /\ H = (H - j) + j
    OBVIOUS
  <2>. QED  BY <2>1, PowerSum
<1> HIDE DEF T, U
<1>2. x \in Nat /\ x < U * T
  BY <1>1
<1>3. x = a * T + b /\ a \in Nat /\ b \in 0 .. T - 1 /\ a \in 0 .. U - 1
  BY <1>1, <1>2, Divided
<1> HIDE DEF a, b
<1>4. x + U * T = (a + U) * T + b
  BY <1>1, <1>3
<1>5. (x + U * T) \div T = a + U
  <2> DEFINE y == x + U * T
             c == a + U
  <2>1. y = c * T + b /\ c \in Nat /\ T > 0
    BY <1>1, <1>3, <1>4
  <2> HIDE DEF y, c
  <2>2. y \div T = c
    BY <1>1, <1>3, <2>1, DivUnique
  <2>. QED  BY <2>2 DEF y, c
<1>6. a + U \in U .. 2 * U - 1
  BY <1>1, <1>3
<1>. QED  BY <1>1, <1>3, <1>5, <1>6 DEF InLayer, a, T, U

\* Siblings are of one layer, and numbers in a layer have the parity of their offset.
LEMMA SiblingInLayer ==
    ASSUME NEW H \in Nat, NEW j \in 0 .. H - 1, NEW a \in 0 .. 2 ^ (H - j) - 1
    PROVE  /\ Sibling(a) \in 0 .. 2 ^ (H - j) - 1
           /\ Sibling(a + 2 ^ (H - j)) = Sibling(a) + 2 ^ (H - j)
           /\ (a + 2 ^ (H - j)) % 2 = a % 2
           /\ InLayer(Sibling(a + 2 ^ (H - j)), H, j)
<1> DEFINE c == (H - j) - 1
           w == 2 ^ c
           k == a \div 2
           b == a % 2
<1>1. c \in Nat /\ H - j = c + 1
  OBVIOUS
<1> HIDE DEF c
<1>2. 2 ^ (H - j) = 2 * w /\ w \in Nat /\ w >= 1
  BY <1>1, Doubling
<1>3. InLayer(Sibling(a + 2 ^ (H - j)), H, j) <=> Sibling(a + 2 * w) \in 2 * w .. 2 * (2 * w) - 1
  BY <1>2 DEF InLayer
<1> HIDE DEF w
<1>4. a \in Nat /\ a <= 2 * w - 1
  BY <1>2
<1>5. a = 2 * k + b /\ k \in Nat /\ b \in 0 .. 1
  BY <1>4, SiblingOf
<1> HIDE DEF k, b
<1>6. k <= w - 1
  BY <1>2, <1>4, <1>5
<1>7. Sibling(a) = 2 * k + (1 - b) /\ a % 2 = b
  BY <1>4, <1>5 DEF Sibling
<1>8. Sibling(a + 2 * w) = 2 * k + (1 - b) + 2 * w /\ (a + 2 * w) % 2 = b
  BY <1>2, <1>4, <1>5 DEF Sibling
<1>. QED  BY <1>2, <1>3, <1>5, <1>6, <1>7, <1>8

LEMMA SiblingsDiffer ==
    ASSUME NEW a \in Nat, NEW b \in Nat, Sibling(a) = Sibling(b)
    PROVE  a = b
BY DEF Sibling

\* The leaves of a tree that queries ask for.
AtLeaves(nodes, xs, n, H) ==
    /\ Len(nodes) = n /\ DOMAIN nodes = 1 .. n
    /\ \A q \in 1 .. n : xs[q] \in 0 .. 2 ^ H - 1 /\ nodes[q] = xs[q] + 2 ^ H

\* Layers of such nodes do not meet.
LEMMA NodesSeparated ==
    ASSUME NEW H \in Nat, NEW L \in 0 .. H, NEW n \in Nat, NEW xs, NEW nodes, AtLeaves(nodes, xs, n, H)
    PROVE  Separated(nodes, n, L)
<1>1. ASSUME NEW q \in 1 .. n, NEW j \in 0 .. L
      PROVE  InLayer(Up(nodes, q, j), H, j) /\ Up(nodes, q, j) \in Nat
  <2> DEFINE x == xs[q]
  <2>1. x \in 0 .. 2 ^ H - 1 /\ Up(nodes, q, j) = (x + 2 ^ H) \div 2 ^ j
    BY DEF AtLeaves, Up
  <2> HIDE DEF x
  <2>2. j \in 0 .. H
    OBVIOUS
  <2>3. /\ (x + 2 ^ H) \div 2 ^ j = (x \div 2 ^ j) + 2 ^ (H - j)
        /\ x \div 2 ^ j \in 0 .. 2 ^ (H - j) - 1
        /\ InLayer((x + 2 ^ H) \div 2 ^ j, H, j)
    BY <2>1, <2>2, UpInLayer
  <2>4. 2 ^ (H - j) \in Nat
    BY <2>2, Doubling
  <2>. QED  BY <2>1, <2>3, <2>4
<1>2. ASSUME NEW q \in 1 .. n, NEW j \in 0 .. L - 1
      PROVE  InLayer(Sibling(Up(nodes, q, j)), H, j)
  <2> DEFINE x == xs[q]
             a == x \div 2 ^ j
  <2>1. x \in 0 .. 2 ^ H - 1 /\ Up(nodes, q, j) = (x + 2 ^ H) \div 2 ^ j
    BY DEF AtLeaves, Up
  <2> HIDE DEF x
  <2>2. j \in 0 .. H /\ j \in 0 .. H - 1
    OBVIOUS
  <2>3. (x + 2 ^ H) \div 2 ^ j = a + 2 ^ (H - j) /\ a \in 0 .. 2 ^ (H - j) - 1
    BY <2>1, <2>2, UpInLayer
  <2> HIDE DEF a
  <2>4. InLayer(Sibling(a + 2 ^ (H - j)), H, j)
    BY <2>2, <2>3, SiblingInLayer
  <2>. QED  BY <2>1, <2>3, <2>4
<1>3. ASSUME NEW q \in 1 .. n, NEW r \in 1 .. n, NEW j \in 0 .. L - 1, NEW i \in 0 .. L,
             Sibling(Up(nodes, q, j)) = Up(nodes, r, i)
      PROVE  i = j
  <2>1. i \in 0 .. H /\ j \in 0 .. H
    OBVIOUS
  <2>2. InLayer(Up(nodes, r, i), H, i) /\ InLayer(Up(nodes, r, i), H, j)
    BY <1>1, <1>2, <1>3
  <2>. QED  BY <2>1, <2>2, LayersDiffer
<1>4. ASSUME NEW q \in 1 .. n, NEW r \in 1 .. n, NEW j \in 0 .. L - 1, NEW i \in 0 .. L - 1,
             Sibling(Up(nodes, q, j)) = Sibling(Up(nodes, r, i))
      PROVE  i = j /\ Up(nodes, q, j) = Up(nodes, r, i)
  <2>1. i \in 0 .. H /\ j \in 0 .. H /\ i \in 0 .. L /\ j \in 0 .. L
    OBVIOUS
  <2>2. InLayer(Sibling(Up(nodes, r, i)), H, i) /\ InLayer(Sibling(Up(nodes, r, i)), H, j)
    BY <1>2, <1>4
  <2>3. i = j
    BY <2>1, <2>2, LayersDiffer
  <2>4. Up(nodes, q, j) \in Nat /\ Up(nodes, r, i) \in Nat
    BY <1>1, <2>1
  <2>. QED  BY <1>4, <2>3, <2>4, SiblingsDiffer
<1>. QED  BY <1>3, <1>4 DEF Separated

\* The digests of a tree, by the numbers of their nodes.
DigestsOf(f, H) ==
    [m \in Nat |-> LET j == CHOOSE i \in 0 .. H : InLayer(m, H, i)
                   IN  f[j][m - 2 ^ (H - j)].root]

LEMMA DigestAt ==
    ASSUME NEW f, NEW H \in Nat, NEW j \in 0 .. H, NEW a \in 0 .. 2 ^ (H - j) - 1
    PROVE  DigestsOf(f, H)[a + 2 ^ (H - j)] = f[j][a].root
<1> DEFINE w == 2 ^ (H - j)
           m == a + w
           k == CHOOSE i \in 0 .. H : InLayer(m, H, i)
<1>1. w \in Nat /\ a \in 0 .. w - 1
  BY Doubling
<1>2. m \in w .. 2 * w - 1 /\ m \in Nat /\ m - w = a
  <2> HIDE DEF w
  <2>. QED  BY <1>1
<1>3. InLayer(m, H, j)
  BY <1>2 DEF InLayer
<1> HIDE DEF m
<1>4. k \in 0 .. H /\ InLayer(m, H, k)
  BY <1>3
<1>5. k = j
  <2> HIDE DEF k
  <2>. QED  BY <1>3, <1>4, LayersDiffer
<1>6. DigestsOf(f, H)[m] = f[k][m - 2 ^ (H - k)].root
  BY <1>2 DEF DigestsOf
<1> HIDE DEF k
<1>7. DigestsOf(f, H)[m] = f[j][m - w].root
  BY <1>5, <1>6
<1>. QED  BY <1>2, <1>7 DEF m, w

\* They are those of the ways up from the leaves asked for.
LEMMA TreeDigests ==
    ASSUME NEW leaves, NEW H \in Nat, NEW L \in 0 .. H, NEW n \in Nat,
           NEW xs, NEW nodes, AtLeaves(nodes, xs, n, H),
           NEW data, \A q \in 1 .. n : data[q] = leaves[xs[q] + 1],
           NEW paths, \A q \in 1 .. n : paths[q] = Siblings(Subtrees(leaves, H), xs[q], L)
    PROVE  Digests(DigestsOf(Subtrees(leaves, H), H), nodes, data, paths, n, L)
<1> DEFINE f == Subtrees(leaves, H)
           V == DigestsOf(f, H)
<1>1. Grown(f, leaves, H)
  BY SubtreesGrown
<1>2. ASSUME NEW q \in 1 .. n
      PROVE  xs[q] \in 0 .. 2 ^ H - 1 /\ nodes[q] = xs[q] + 2 ^ H
             /\ paths[q] = Siblings(f, xs[q], L) /\ data[q] = leaves[xs[q] + 1]
  BY DEF AtLeaves
<1> HIDE DEF f
<1>3. ASSUME NEW q \in 1 .. n PROVE V[nodes[q]] = LeafHash(data[q])
  <2> DEFINE x == xs[q]
  <2>1. H - 0 = H /\ 0 \in 0 .. H
    OBVIOUS
  <2>2. V[x + 2 ^ (H - 0)] = f[0][x].root
    <3>1. x \in 0 .. 2 ^ (H - 0) - 1
      BY <1>2, <2>1
    <3> HIDE DEF x
    <3>. QED  BY <2>1, <3>1, DigestAt
  <2>3. f[0][x] = [digests |-> <<>>, root |-> LeafHash(leaves[x + 1])]
    BY <1>1, <1>2 DEF Grown
  <2>4. f[0][x].root = LeafHash(leaves[x + 1])
    BY <2>3
  <2> HIDE DEF V
  <2>. QED  BY <1>2, <2>1, <2>2, <2>4
<1>4. ASSUME NEW q \in 1 .. n, NEW j \in 1 .. L PROVE paths[q][j] = V[Sibling(Up(nodes, q, j - 1))]
  <2> DEFINE x == xs[q]
             i == j - 1
             a == x \div 2 ^ i
             w == 2 ^ (H - i)
  <2>1. i \in 0 .. H /\ i \in 0 .. H - 1
    OBVIOUS
  <2>2. x \in 0 .. 2 ^ H - 1 /\ Up(nodes, q, i) = (x + 2 ^ H) \div 2 ^ i
    BY <1>2 DEF Up
  <2>3. paths[q][j] = f[i][Sibling(a)].root
    <3> DEFINE g(k) == f[k - 1][Sibling(x \div 2 ^ (k - 1))].root
    <3>1. paths[q] = [k \in 1 .. L |-> g(k)]
      BY <1>2 DEF Siblings
    <3> HIDE DEF g, x
    <3>2. paths[q][j] = g(j)
      BY <3>1
    <3>. QED  BY <3>2 DEF g
  <2> HIDE DEF x, i
  <2>4. Up(nodes, q, i) = a + w /\ a \in 0 .. w - 1
    BY <2>1, <2>2, UpInLayer
  <2> HIDE DEF a
  <2>5. Sibling(a) \in 0 .. w - 1 /\ Sibling(a + w) = Sibling(a) + w
    BY <2>1, <2>4, SiblingInLayer
  <2> DEFINE b == Sibling(a)
  <2> HIDE DEF b
  <2>6. V[b + w] = f[i][b].root
    BY <2>1, <2>5, DigestAt DEF b
  <2> HIDE DEF V, w
  <2>. QED  BY <2>3, <2>4, <2>5, <2>6 DEF b, i
<1>5. ASSUME NEW q \in 1 .. n, NEW j \in 0 .. L - 1
      PROVE  V[Up(nodes, q, j + 1)] =
                IF Up(nodes, q, j) % 2 = 0
                THEN TwoToOne(V[Up(nodes, q, j)], V[Sibling(Up(nodes, q, j))])
                ELSE TwoToOne(V[Sibling(Up(nodes, q, j))], V[Up(nodes, q, j)])
  <2> DEFINE x == xs[q]
             a == x \div 2 ^ j
             w == 2 ^ (H - j)
             h == j + 1
             k == x \div 2 ^ h
             v == 2 ^ (H - h)
  <2>1. j \in 0 .. H /\ j \in 0 .. H - 1 /\ h \in 0 .. H /\ h \in 1 .. H /\ h - 1 = j /\ j \in Nat
    OBVIOUS
  <2>2. x \in 0 .. 2 ^ H - 1 /\ x \in Nat /\ Up(nodes, q, j) = (x + 2 ^ H) \div 2 ^ j
        /\ Up(nodes, q, h) = (x + 2 ^ H) \div 2 ^ h
    BY <1>2 DEF Up
  <2> HIDE DEF x
  <2>3. a \div 2 = k
    BY <2>1, <2>2, UpTwice
  <2> HIDE DEF h
  <2>4. Up(nodes, q, j) = a + w /\ a \in 0 .. w - 1
    BY <2>1, <2>2, UpInLayer
  <2>5. Up(nodes, q, h) = k + v /\ k \in 0 .. v - 1
    BY <2>1, <2>2, UpInLayer
  <2> HIDE DEF a, k
  <2>6. Sibling(a) \in 0 .. w - 1 /\ Sibling(a + w) = Sibling(a) + w /\ (a + w) % 2 = a % 2
    BY <2>1, <2>4, SiblingInLayer
  <2> DEFINE b == Sibling(a)
  <2> HIDE DEF b
  <2>7. V[a + w] = f[j][a].root /\ V[b + w] = f[j][b].root /\ V[k + v] = f[h][k].root
    <3>1. V[a + w] = f[j][a].root
      BY <2>1, <2>4, DigestAt
    <3>2. V[b + w] = f[j][b].root
      BY <2>1, <2>6, DigestAt DEF b
    <3>3. V[k + v] = f[h][k].root
      BY <2>1, <2>5, DigestAt
    <3>. QED  BY <3>1, <3>2, <3>3
  <2>8. f[h][k].root = TwoToOne(f[j][2 * k].root, f[j][2 * k + 1].root)
    <3>1. f[h][k] = Parent(f[h - 1][2 * k], f[h - 1][2 * k + 1])
      BY <1>1, <2>1, <2>5 DEF Grown
    <3>. QED  BY <2>1, <3>1 DEF Parent
  <2>9. a \in Nat /\ w \in Nat
    <3>1. w \in Nat
      BY <2>1, Doubling
    <3> HIDE DEF w
    <3>. QED  BY <2>4, <3>1
  <2>10. a = 2 * k + (a % 2) /\ b = 2 * k + (1 - (a % 2)) /\ a % 2 \in 0 .. 1 /\ k \in Nat
    BY <2>3, <2>9, SiblingOf DEF b
  <2> HIDE DEF V, w, v
  <2>11. CASE a % 2 = 0
    <3>1. a = 2 * k /\ b = 2 * k + 1
      BY <2>10, <2>11
    <3>. QED  BY <2>4, <2>5, <2>6, <2>7, <2>8, <2>11, <3>1 DEF b, h
  <2>12. CASE a % 2 # 0
    <3>1. a = 2 * k + 1 /\ b = 2 * k
      BY <2>10, <2>12
    <3>. QED  BY <2>4, <2>5, <2>6, <2>7, <2>8, <2>12, <3>1 DEF b, h
  <2>. QED  BY <2>11, <2>12
<1>6. Digests(V, nodes, data, paths, n, L)
  <2> HIDE DEF V
  <2>. QED  BY <1>3, <1>4, <1>5, Zenon DEF Digests
<1>. QED  BY <1>6 DEF f

\* The openings of a tree at the indices of some queries, and what compressing
\* kept for the first query of each leaf.
OpensTree(data, paths, leaves, H, c, xs, n) ==
    /\ paths = [q \in 1 .. n |-> paths[q]]
    /\ \A q \in 1 .. n : data[q] = leaves[xs[q] + 1] /\ paths[q] = Path(Tree(leaves, H, c), xs[q])

KeepsFirst(kept, nodes, paths, n) ==
    /\ kept = [q \in 1 .. n |-> kept[q]]
    /\ \A q \in 1 .. n : FirstOf(nodes, q) => kept[q] = CompressPaths(nodes, paths)[q]

Compresses(kept, data, paths, nodes, leaves, H, c, xs, n) ==
    /\ H \in Nat /\ c \in 0 .. H /\ n \in Nat \ {0} /\ AtLeaves(nodes, xs, n, H)
    /\ OpensTree(data, paths, leaves, H, c, xs, n) /\ KeepsFirst(kept, nodes, paths, n)

\* The paths of a tree, compressed and given for each leaf what its first
\* query kept, are restored.
LEMMA TreeRestored ==
    ASSUME NEW kept, NEW data, NEW paths, NEW nodes, NEW leaves, NEW H, NEW c, NEW xs, NEW n,
           Compresses(kept, data, paths, nodes, leaves, H, c, xs, n)
    PROVE  DecompressPaths(data, nodes, kept, H - c) = paths
<1> DEFINE f == Subtrees(leaves, H)
           V == DigestsOf(f, H)
           L == H - c
<1>0. /\ H \in Nat /\ c \in 0 .. H /\ n \in Nat \ {0} /\ AtLeaves(nodes, xs, n, H)
      /\ OpensTree(data, paths, leaves, H, c, xs, n) /\ KeepsFirst(kept, nodes, paths, n)
  BY DEF Compresses
<1>1. L \in 0 .. H /\ L \in Nat /\ n \in Nat
  BY <1>0
<1>2. ASSUME NEW q \in 1 .. n PROVE paths[q] = Siblings(f, xs[q], L)
  <2>1. xs[q] \in 0 .. 2 ^ H - 1 /\ paths[q] = Path(Tree(leaves, H, c), xs[q])
    BY <1>0 DEF AtLeaves, OpensTree
  <2>2. Path(Tree(leaves, H, c), xs[q]) = Siblings(f, xs[q], L)
    <3> DEFINE x == xs[q]
    <3> HIDE DEF x
    <3>1. Path(Tree(leaves, H, c), x) = Siblings(f, x, L)
      BY <1>0, <2>1, PathIs DEF x
    <3>. QED  BY <3>1 DEF x
  <2>. QED  BY <2>1, <2>2
<1> HIDE DEF L
<1>3. Separated(nodes, n, L)
  BY <1>0, <1>1, NodesSeparated
<1>4. Digests(V, nodes, data, paths, n, L)
  <2>1. \A q \in 1 .. n : data[q] = leaves[xs[q] + 1]
    BY <1>0 DEF OpensTree
  <2>. QED  BY <1>0, <1>1, <1>2, <2>1, TreeDigests
<1>5. Len(nodes) = n /\ DOMAIN nodes = 1 .. n /\ \A q \in 1 .. n : nodes[q] \in Nat
  <2>1. 2 ^ H \in Nat
    BY <1>0, Doubling
  <2> DEFINE w == 2 ^ H
  <2>2. Len(nodes) = n /\ DOMAIN nodes = 1 .. n /\ \A q \in 1 .. n : xs[q] \in 0 .. w - 1 /\ nodes[q] = xs[q] + w
    BY <1>0 DEF AtLeaves
  <2> HIDE DEF w
  <2>. QED  BY <2>1, <2>2 DEF w
<1>6. \A q \in 1 .. n : Len(paths[q]) = L /\ paths[q] = [j \in 1 .. L |-> paths[q][j]]
  <2> TAKE q \in 1 .. n
  <2> DEFINE g(j) == f[j - 1][Sibling(xs[q] \div 2 ^ (j - 1))].root
  <2>1. paths[q] = [j \in 1 .. L |-> g(j)]
    BY <1>2 DEF Siblings
  <2> HIDE DEF g
  <2>. QED  BY <1>1, <2>1
<1> HIDE DEF f, V
<1>12. IsNodes(nodes, n) /\ AreLong(paths, n, L)
  BY <1>5, <1>6 DEF IsNodes, AreLong
<1>7. PICK K : Compressing(K, nodes, paths, n, L)
  BY <1>0, <1>1, <1>3, <1>12, PathsCompressed
<1>8. KeepsUnshared(K, nodes, paths, n, L) /\ FirstKept(kept, K, nodes, n, L)
  BY <1>0, <1>7 DEF Compressing, FirstKept, KeepsFirst
<1>9. DecompressPaths(data, nodes, kept, L) = Copied(paths, n, L)
  BY <1>0, <1>1, <1>3, <1>4, <1>8, <1>12, PathsRestored
<1> DEFINE p(q) == [j \in 1 .. L |-> paths[q][j]]
<1>10. \A q \in 1 .. n : p(q) = paths[q]
  BY <1>6
<1> HIDE DEF p
<1>11. [q \in 1 .. n |-> p(q)] = [q \in 1 .. n |-> paths[q]]
  BY <1>10
<1>13. paths = [q \in 1 .. n |-> paths[q]]
  BY <1>0 DEF OpensTree
<1>14. DecompressPaths(data, nodes, kept, L) = [q \in 1 .. n |-> paths[q]]
  BY <1>9, <1>11 DEF p, Copied
<1>. QED  BY <1>13, <1>14, Zenon DEF L

-----------------------------------------------------------------------------
(* What is inferred, and the cosets it completes.                          *)

\* The coset of a query, and whether no earlier query is in it.
Place(s, xs, q, i) == IndexAt(s, xs[q], i)
Fresh(s, xs, q, i) == \A r \in 1 .. q - 1 : Place(s, xs, r, i) # Place(s, xs, q, i)

\* Cosets that were come to when a query is followed to a reduction.
Visited(y, s, xs, n, k, q, i) ==
    \E r \in 1 .. n : (r < q \/ (r = q /\ k <= i)) /\ y = Place(s, xs, r, k)

LEMMA VisitedIsMet ==
    ASSUME NEW s, NEW xs, NEW n \in Nat, NEW q \in 1 .. n, NEW i \in Nat \ {0}
    PROVE  Visited(Place(s, xs, q, i), s, xs, n, i, q, i - 1) <=> ~Fresh(s, xs, q, i)
<1>1. \A r \in 1 .. n : r < q \/ (r = q /\ i <= i - 1) <=> r \in 1 .. q - 1
  OBVIOUS
<1>2. \A r \in 1 .. q - 1 : r \in 1 .. n
  OBVIOUS
<1>. QED  BY <1>1, <1>2, Zenon DEF Visited, Fresh

LEMMA VisitedNext ==
    ASSUME NEW s, NEW xs, NEW n \in Nat, NEW q \in 1 .. n, NEW i \in Nat \ {0}, NEW k \in Nat, NEW y
    PROVE  Visited(y, s, xs, n, k, q, i) <=>
             Visited(y, s, xs, n, k, q, i - 1) \/ (k = i /\ y = Place(s, xs, q, i))
<1>1. \A r \in 1 .. n : r < q \/ (r = q /\ k <= i) <=> (r < q \/ (r = q /\ k <= i - 1)) \/ (r = q /\ k = i)
  OBVIOUS
<1>. QED  BY <1>1, Zenon DEF Visited

LEMMA VisitedByAll ==
    ASSUME NEW s, NEW xs, NEW n \in Nat, NEW q \in 1 .. n, NEW D \in Nat, NEW k \in 1 .. D, NEW y
    PROVE  Visited(y, s, xs, n, k, q, 0) <=> Visited(y, s, xs, n, k, q - 1, D)
<1>1. \A r \in 1 .. n : r < q \/ (r = q /\ k <= 0) <=> r < q - 1 \/ (r = q - 1 /\ k <= D)
  OBVIOUS
<1>. QED  BY <1>1, Zenon DEF Visited

LEMMA VisitedNone ==
    ASSUME NEW s, NEW xs, NEW n \in Nat, NEW D \in Nat, NEW k \in 1 .. D, NEW y
    PROVE  ~Visited(y, s, xs, n, k, 0, D)
<1>1. \A r \in 1 .. n : ~(r < 0 \/ (r = 0 /\ k <= D))
  OBVIOUS
<1>. QED  BY <1>1, Zenon DEF Visited

\* Queries that meet stay together.
LEMMA FreshBefore ==
    ASSUME NEW s, Depths(s) \in Nat, NEW xs, NEW q, NEW i \in 1 .. Depths(s), Fresh(s, xs, q, i)
    PROVE  Fresh(s, xs, q, i - 1)
<1>1. \A r : Place(s, xs, r, i) = Place(s, xs, r, i - 1) \div 2 ^ s.arities[i]
  BY IndexSteps DEF Place
<1>2. ASSUME NEW r \in 1 .. q - 1, Place(s, xs, r, i - 1) = Place(s, xs, q, i - 1) PROVE FALSE
  <2>1. Place(s, xs, r, i) = Place(s, xs, q, i)
    BY <1>1, <1>2
  <2>. QED  BY <2>1 DEF Fresh
<1>. QED  BY <1>2 DEF Fresh

\* The value a query comes with is the one left out of its coset.
LEMMA CosetCompleted ==
    ASSUME NEW s, Reducing(s), NEW x \in 0 .. 2 ^ s.logN - 1, NEW i \in 1 .. Depths(s)
    PROVE  LET y == IndexAt(s, x, i)
               k == WithinCoset(s, x, i) + 1
           IN  /\ InsertAt(RemoveAt(CosetOf(s, i, y), k), k, Codewords(s)[i - 1][IndexAt(s, x, i - 1)])
                    = CosetOf(s, i, y)
               /\ Codewords(s)[i][y] = Folded(CosetOf(s, i, y), y)
<1> DEFINE y == IndexAt(s, x, i)
           z == IndexAt(s, x, i - 1)
           A == 2 ^ s.arities[i]
           k == WithinCoset(s, x, i) + 1
           W == Codewords(s)[i - 1]
           d == CosetOf(s, i, y)
           S == {W[A * y + j - 1] : j \in 1 .. A}
<1>1. Depths(s) \in Nat /\ s.arities[i] \in Nat /\ i - 1 \in 0 .. Depths(s) /\ i \in 0 .. Depths(s)
      /\ LogSize(s, i - 1) \in Nat
  <2>1. Depths(s) \in Nat /\ s.arities[i] \in Nat
    BY DEF Reducing
  <2>2. i - 1 \in 0 .. Depths(s) /\ i \in 0 .. Depths(s)
    BY <2>1
  <2>. QED  BY <2>1, <2>2 DEF Reducing
<1>2. y = z \div A /\ k = (z % A) + 1
  BY <1>1, IndexSteps DEF WithinCoset
<1>3. A \in Nat /\ A >= 1
  BY <1>1, Doubling
<1>4. z \in Nat
  <2>1. z \in 0 .. 2 ^ LogSize(s, i - 1) - 1
    BY <1>1, IndexIs
  <2> DEFINE N == 2 ^ LogSize(s, i - 1)
  <2>2. N \in Nat
    BY <1>1, Doubling
  <2> HIDE DEF N, z
  <2>. QED  BY <2>1, <2>2 DEF N
<1>5. y \in 0 .. 2 ^ LogSize(s, i) - 1
  BY <1>1, IndexIs
<1>6. d = [j \in 1 .. A |-> W[A * y + j - 1]]
  BY DEF CosetOf
<1>7. Codewords(s)[i][y] = Folded(d, y)
  BY <1>5, Words
<1> HIDE DEF W, d
<1>8. z = y * A + (z % A) /\ z % A \in 0 .. A - 1 /\ y \in Nat
  <2> HIDE DEF A, z, y
  <2>. QED  BY <1>2, <1>3, <1>4, Divided
<1> HIDE DEF A, y, z, k
<1>9. k \in 1 .. A /\ A * y + k - 1 = z
  BY <1>2, <1>3, <1>4, <1>8
<1>10. d \in Seq(S) /\ Len(d) = A /\ d[k] = W[z]
  <2>1. \A j \in 1 .. A : W[A * y + j - 1] \in S
    OBVIOUS
  <2> DEFINE e(j) == W[A * y + j - 1]
  <2>2. d = [j \in 1 .. A |-> e(j)] /\ \A j \in 1 .. A : e(j) \in S
    BY <1>6
  <2>3. e(k) = W[z]
    BY <1>9
  <2> HIDE DEF e, S
  <2>. QED  BY <1>3, <1>9, <2>2, <2>3
<1> HIDE DEF S
<1>11. InsertAt(RemoveAt(d, k), k, d[k]) = d
  BY <1>9, <1>10, PutBack
<1>. QED  BY <1>7, <1>10, <1>11 DEF W, d, k, y, z

\* What a compressed proof holds of the values.
HoldsValues(c, s, xs, n) == \A q \in 1 .. n :
    /\ \A o \in 1 .. NumOracles : c.initial[xs[q]][o].data = Leaf(o, xs[q])
    /\ \A i \in 1 .. Depths(s) : Fresh(s, xs, q, i) =>
         c.steps[i][Place(s, xs, q, i)].data
           = RemoveAt(CosetOf(s, i, Place(s, xs, q, i)), WithinCoset(s, xs[q], i) + 1)

IsIndices(xs, n, s) == Len(xs) = n /\ \A q \in 1 .. n : xs[q] \in 0 .. 2 ^ s.logN - 1

\* The value a query comes to a reduction with.
Value(s, xs, q, i) == Codewords(s)[i][Place(s, xs, q, i)]

LEMMA ValueNext ==
    ASSUME NEW s, Reducing(s), NEW n \in Nat, NEW xs, IsIndices(xs, n, s), NEW c, HoldsValues(c, s, xs, n),
           NEW q \in 1 .. n, NEW i \in 1 .. Depths(s), Fresh(s, xs, q, i)
    PROVE  LET y == Place(s, xs, q, i)
               d == InsertAt(c.steps[i][y].data, WithinCoset(s, xs[q], i) + 1, Value(s, xs, q, i - 1))
           IN  d = CosetOf(s, i, y) /\ Folded(d, y) = Value(s, xs, q, i)
<1> DEFINE x == xs[q]
           y == Place(s, xs, q, i)
           k == WithinCoset(s, x, i) + 1
           W == Codewords(s)
<1>1. x \in 0 .. 2 ^ s.logN - 1
  BY DEF IsIndices
<1>2. c.steps[i][y].data = RemoveAt(CosetOf(s, i, y), k)
  BY DEF HoldsValues
<1>3. y = IndexAt(s, x, i) /\ Value(s, xs, q, i) = W[i][y] /\ Value(s, xs, q, i - 1) = W[i - 1][IndexAt(s, x, i - 1)]
  BY DEF Value, Place
<1> HIDE DEF x, y
<1>4. InsertAt(RemoveAt(CosetOf(s, i, y), k), k, W[i - 1][IndexAt(s, x, i - 1)]) = CosetOf(s, i, y)
      /\ W[i][y] = Folded(CosetOf(s, i, y), y)
  BY <1>1, <1>3, CosetCompleted
<1>. QED  BY <1>2, <1>3, <1>4 DEF x, y

InferStep(v, t, s, c, x, i) ==
    IF i = 0
    THEN [ stopped |-> FALSE, seen |-> t.seen, out |-> t.out,
           old |-> Combined([o \in 1 .. NumOracles |-> c.initial[x][o].data], x) ]
    ELSE Infer(v, s, c, x, i)

IsInferring(u, t, s, c, x, n) == u = [i \in 0 .. n |-> InferStep(u[i - 1], t, s, c, x, i)]

\* InferQuery is the end of such a run.
LEMMA InferringExists ==
    ASSUME NEW t, NEW s, NEW c, NEW x, NEW n \in Nat
    PROVE  \E f : IsInferring(f, t, s, c, x, n)
<1> DEFINE With == {m \in Nat : \E f : IsInferring(f, t, s, c, x, m)}
           step(e, k) == InferStep(e[k - 1], t, s, c, x, k)
<1>0. \A e, g : step(e, 0) = step(g, 0)
  BY DEF InferStep
<1>1. 0 \in With
  <2> DEFINE g == [k \in 0 .. 0 |-> step(<<>>, 0)]
  <2>1. g = [k \in 0 .. 0 |-> step(g, k)]
    BY <1>0
  <2> HIDE DEF g
  <2>. QED  BY <2>1 DEF IsInferring
<1>2. ASSUME NEW m \in 1 .. n, m - 1 \in With PROVE m \in With
  <2>1. PICK f : IsInferring(f, t, s, c, x, m - 1)
    BY <1>2
  <2> DEFINE g == [k \in 0 .. m |-> IF k < m THEN f[k] ELSE step(f, m)]
  <2>2. \A k \in 0 .. m - 1 : f[k] = step(f, k)
    BY <2>1 DEF IsInferring
  <2> HIDE DEF step
  <2>3. \A k \in 0 .. m : g[k] = step(g, k)
    <3> TAKE k \in 0 .. m
    <3>1. CASE k = 0
      <4>1. g[k] = step(f, 0)
        BY <2>2, <3>1
      <4>. QED  BY <1>0, <3>1, <4>1
    <3>2. CASE k # 0
      <4>1. g[k - 1] = f[k - 1] /\ g[k] = step(f, k)
        BY <2>2, <3>2
      <4>. QED  BY <4>1 DEF step
    <3>. QED  BY <3>1, <3>2
  <2>4. g = [k \in 0 .. m |-> step(g, k)]
    BY <2>3
  <2> HIDE DEF g
  <2>. QED  BY <2>4 DEF IsInferring, step
<1> HIDE DEF With
<1>3. \A m \in 0 .. n : m \in With
  BY <1>1, <1>2, Counting
<1>. QED  BY <1>3 DEF With

InferAllStep(v, s, xs, c, q) ==
    IF q = 0
    THEN [stopped |-> FALSE, seen |-> [i \in 1 .. Depths(s) |-> {}], out |-> <<>>, old |-> None]
    ELSE InferQuery(v, s, c, xs[q])

IsInferringAll(u, s, xs, c, n) == u = [q \in 0 .. n |-> InferAllStep(u[q - 1], s, xs, c, q)]

\* Inferred is read off such a run.
LEMMA InferringAllExists ==
    ASSUME NEW s, NEW xs, NEW c, NEW n \in Nat
    PROVE  \E f : IsInferringAll(f, s, xs, c, n)
<1> DEFINE With == {m \in Nat : \E f : IsInferringAll(f, s, xs, c, m)}
           step(e, k) == InferAllStep(e[k - 1], s, xs, c, k)
<1>0. \A e, g : step(e, 0) = step(g, 0)
  BY DEF InferAllStep
<1>1. 0 \in With
  <2> DEFINE g == [k \in 0 .. 0 |-> step(<<>>, 0)]
  <2>1. g = [k \in 0 .. 0 |-> step(g, k)]
    BY <1>0
  <2> HIDE DEF g
  <2>. QED  BY <2>1 DEF IsInferringAll
<1>2. ASSUME NEW m \in 1 .. n, m - 1 \in With PROVE m \in With
  <2>1. PICK f : IsInferringAll(f, s, xs, c, m - 1)
    BY <1>2
  <2> DEFINE g == [k \in 0 .. m |-> IF k < m THEN f[k] ELSE step(f, m)]
  <2>2. \A k \in 0 .. m - 1 : f[k] = step(f, k)
    BY <2>1 DEF IsInferringAll
  <2> HIDE DEF step
  <2>3. \A k \in 0 .. m : g[k] = step(g, k)
    <3> TAKE k \in 0 .. m
    <3>1. CASE k = 0
      <4>1. g[k] = step(f, 0)
        BY <2>2, <3>1
      <4>. QED  BY <1>0, <3>1, <4>1
    <3>2. CASE k # 0
      <4>1. g[k - 1] = f[k - 1] /\ g[k] = step(f, k)
        BY <2>2, <3>2
      <4>. QED  BY <4>1 DEF step
    <3>. QED  BY <3>1, <3>2
  <2>4. g = [k \in 0 .. m |-> step(g, k)]
    BY <2>3
  <2> HIDE DEF g
  <2>. QED  BY <2>4 DEF IsInferringAll, step
<1> HIDE DEF With
<1>3. \A m \in 0 .. n : m \in With
  BY <1>1, <1>2, Counting
<1>. QED  BY <1>3 DEF With

\* One query, and one after the other.
FollowsOne(u, t, s, c, x) ==
    /\ u[0] = [ stopped |-> FALSE, seen |-> t.seen, out |-> t.out,
                old |-> Combined([o \in 1 .. NumOracles |-> c.initial[x][o].data], x) ]
    /\ \A i \in 1 .. Depths(s) : u[i] = Infer(u[i - 1], s, c, x, i)

LEMMA QueryFollowed ==
    ASSUME NEW s, Depths(s) \in Nat, NEW t, NEW c, NEW x
    PROVE  \E u : FollowsOne(u, t, s, c, x) /\ InferQuery(t, s, c, x) = u[Depths(s)]
<1> DEFINE n == Depths(s)
           u == CHOOSE g : IsInferring(g, t, s, c, x, n)
<1>1. IsInferring(u, t, s, c, x, n)
  BY InferringExists
<1>2. InferQuery(t, s, c, x) = u[n]
  BY DEF InferQuery, IsInferring, InferStep
<1> HIDE DEF u
<1>3. \A i \in 0 .. n : u[i] = InferStep(u[i - 1], t, s, c, x, i)
  BY <1>1 DEF IsInferring
<1>4. 0 \in 0 .. n /\ \A i \in 1 .. n : i \in 0 .. n /\ i # 0
  OBVIOUS
<1>5. FollowsOne(u, t, s, c, x)
  BY <1>3, <1>4 DEF FollowsOne, InferStep
<1>. QED  BY <1>2, <1>5

\* The elements that are inferred: at each coset that is met first, the value
\* the query comes with.
Outs(O, s, xs, n) == \A q \in 1 .. n :
    /\ O[q][0] = IF q = 1 THEN <<>> ELSE O[q - 1][Depths(s)]
    /\ \A i \in 1 .. Depths(s) :
         O[q][i] = IF Fresh(s, xs, q, i) THEN Append(O[q][i - 1], Value(s, xs, q, i - 1)) ELSE O[q][i - 1]

\* A query at a reduction: it stopped if it met another's coset.
Inferring(t, s, xs, n, q, i) ==
    /\ t = [stopped |-> t.stopped, seen |-> t.seen, out |-> t.out, old |-> t.old]
    /\ t.seen = [k \in 1 .. Depths(s) |-> t.seen[k]]
    /\ \A k \in 1 .. Depths(s) : \A y : y \in t.seen[k] <=> Visited(y, s, xs, n, k, q, i)
    /\ t.stopped <=> i >= 1 /\ ~Fresh(s, xs, q, i)
    /\ ~t.stopped => t.old = Value(s, xs, q, i)

\* A reduction of a query: an element is inferred exactly if its coset is fresh.
LEMMA InferKeeps ==
    ASSUME NEW s, Reducing(s), NEW n \in Nat, NEW xs, IsIndices(xs, n, s), NEW c, HoldsValues(c, s, xs, n),
           NEW q \in 1 .. n, NEW i \in 1 .. Depths(s), NEW t, Inferring(t, s, xs, n, q, i - 1)
    PROVE  /\ Inferring(Infer(t, s, c, xs[q], i), s, xs, n, q, i)
           /\ Infer(t, s, c, xs[q], i).out =
                IF Fresh(s, xs, q, i) THEN Append(t.out, Value(s, xs, q, i - 1)) ELSE t.out
<1> DEFINE D == Depths(s)
           x == xs[q]
           y == Place(s, xs, q, i)
           fresh == Fresh(s, xs, q, i)
           d == InsertAt(c.steps[i][y].data, WithinCoset(s, x, i) + 1, t.old)
           u == Infer(t, s, c, x, i)
<1>1. D \in Nat /\ i \in Nat \ {0} /\ i \in 1 .. D
  BY DEF Reducing
<1>2. /\ t = [stopped |-> t.stopped, seen |-> t.seen, out |-> t.out, old |-> t.old]
      /\ t.seen = [k \in 1 .. D |-> t.seen[k]]
      /\ \A k \in 1 .. D : \A z : z \in t.seen[k] <=> Visited(z, s, xs, n, k, q, i - 1)
      /\ t.stopped <=> i - 1 >= 1 /\ ~Fresh(s, xs, q, i - 1)
      /\ ~t.stopped => t.old = Value(s, xs, q, i - 1)
  BY DEF Inferring
<1>3. y = IndexAt(s, x, i)
  BY DEF Place
<1>4. y \in t.seen[i] <=> ~fresh
  BY <1>1, <1>2, VisitedIsMet
<1>5. MetBefore(t, i, y) <=> ~fresh
  <2>1. MetBefore(t, i, y) <=> t.stopped \/ y \in t.seen[i]
    BY DEF MetBefore
  <2>2. fresh => Fresh(s, xs, q, i - 1)
    BY <1>1, FreshBefore
  <2> HIDE DEF y, fresh
  <2>. QED  BY <1>2, <1>4, <2>1, <2>2
<1>6. \A k \in 1 .. D : \A z : Visited(z, s, xs, n, k, q, i) <=>
         Visited(z, s, xs, n, k, q, i - 1) \/ (k = i /\ z = y)
  BY <1>1, VisitedNext
<1>7. CASE ~fresh
  <2>1. u = [t EXCEPT !.stopped = TRUE]
    BY <1>3, <1>5, <1>7 DEF Infer
  <2>2. u = [stopped |-> TRUE, seen |-> t.seen, out |-> t.out, old |-> t.old]
    <3> DEFINE a == t.stopped
               b == t.seen
               e == t.out
               f == t.old
    <3>1. t = [stopped |-> a, seen |-> b, out |-> e, old |-> f]
      BY <1>2
    <3> HIDE DEF a, b, e, f, u
    <3>2. [[stopped |-> a, seen |-> b, out |-> e, old |-> f] EXCEPT !.stopped = TRUE]
            = [stopped |-> TRUE, seen |-> b, out |-> e, old |-> f]
      <4>1. \A g : [[stopped |-> a, seen |-> b, out |-> e, old |-> f] EXCEPT !.stopped = g]
            = [stopped |-> g, seen |-> b, out |-> e, old |-> f]
        OBVIOUS
      <4>. QED  BY <4>1
    <3>3. u = [stopped |-> TRUE, seen |-> b, out |-> e, old |-> f]
      BY <2>1, <3>1, <3>2, Zenon
    <3>. QED  BY <3>3 DEF a, b, e, f
  <2> HIDE DEF u
  <2>3. u.stopped = TRUE /\ u.seen = t.seen /\ u.out = t.out /\ u.old = t.old
    BY <2>2
  <2>4. \A k \in 1 .. D : \A z : z \in u.seen[k] <=> Visited(z, s, xs, n, k, q, i)
    <3> HIDE DEF y, fresh
    <3>. QED  BY <1>2, <1>4, <1>6, <1>7, <2>3
  <2>5. u.seen = [k \in 1 .. D |-> u.seen[k]]
    BY <1>2, <2>3
  <2>6. u = [stopped |-> u.stopped, seen |-> u.seen, out |-> u.out, old |-> u.old]
    BY <2>2, <2>3, Zenon
  <2>7. i >= 1
    BY <1>1
  <2>8. Inferring(u, s, xs, n, q, i)
    BY <1>7, <2>3, <2>4, <2>5, <2>6, <2>7 DEF Inferring
  <2>. QED  BY <1>7, <2>3, <2>8 DEF u
<1>8. CASE fresh
  <2> DEFINE a == [t.seen EXCEPT ![i] = @ \cup {y}]
             b == Append(t.out, t.old)
             e == Folded(d, y)
  <2>1. ~t.stopped /\ t.old = Value(s, xs, q, i - 1)
    BY <1>2, <1>5, <1>8 DEF MetBefore
  <2>2. u = [stopped |-> FALSE, seen |-> a, out |-> b, old |-> e]
    BY <1>3, <1>5, <1>8 DEF Infer
  <2>3. a = [k \in 1 .. D |-> a[k]] /\ \A k \in 1 .. D : a[k] = IF k = i THEN t.seen[k] \cup {y} ELSE t.seen[k]
    BY <1>1, <1>2
  <2>4. e = Value(s, xs, q, i)
    <3>1. d = InsertAt(c.steps[i][y].data, WithinCoset(s, xs[q], i) + 1, Value(s, xs, q, i - 1))
      BY <2>1
    <3>2. Folded(InsertAt(c.steps[i][y].data, WithinCoset(s, xs[q], i) + 1, Value(s, xs, q, i - 1)), y)
            = Value(s, xs, q, i)
      BY <1>8, ValueNext
    <3>. QED  BY <3>1, <3>2
  <2>5. b = Append(t.out, Value(s, xs, q, i - 1))
    BY <2>1
  <2> HIDE DEF a, b, e, u
  <2>6. u.stopped = FALSE /\ u.seen = a /\ u.out = b /\ u.old = e
    BY <2>2
  <2>7. \A k \in 1 .. D : \A z : z \in a[k] <=> Visited(z, s, xs, n, k, q, i)
    <3> HIDE DEF y, fresh
    <3>. QED  BY <1>2, <1>6, <2>3
  <2>8. u = [stopped |-> u.stopped, seen |-> u.seen, out |-> u.out, old |-> u.old]
    BY <2>2, <2>6
  <2>9. Inferring(u, s, xs, n, q, i)
    BY <1>8, <2>3, <2>4, <2>6, <2>7, <2>8 DEF Inferring
  <2>. QED  BY <1>8, <2>5, <2>6, <2>9 DEF u
<1>. QED  BY <1>7, <1>8

\* A query starts from the value of its leaves.
LEMMA InferStarts ==
    ASSUME NEW s, Reducing(s), NEW n \in Nat, NEW xs, IsIndices(xs, n, s), NEW c, HoldsValues(c, s, xs, n),
           NEW q \in 1 .. n, NEW t, t.seen = [k \in 1 .. Depths(s) |-> t.seen[k]],
           \A k \in 1 .. Depths(s) : \A y : y \in t.seen[k] <=> Visited(y, s, xs, n, k, q - 1, Depths(s)),
           NEW u, FollowsOne(u, t, s, c, xs[q])
    PROVE  Inferring(u[0], s, xs, n, q, 0) /\ u[0].out = t.out
<1> DEFINE x == xs[q]
           W == Codewords(s)
           a == Combined([o \in 1 .. NumOracles |-> c.initial[x][o].data], x)
           seen == t.seen
           out == t.out
           v == u[0]
<1>1. v = [stopped |-> FALSE, seen |-> seen, out |-> out, old |-> a]
  BY DEF FollowsOne
<1>2. a = Value(s, xs, q, 0)
  <2>1. \A o \in 1 .. NumOracles : c.initial[x][o].data = Leaf(o, x)
    BY DEF HoldsValues
  <2>2. a = Combined([o \in 1 .. NumOracles |-> Leaf(o, x)], x)
    BY <2>1
  <2>3. x \in 0 .. 2 ^ s.logN - 1
    BY DEF IsIndices
  <2>4. W[0][x] = Combined([o \in 1 .. NumOracles |-> Leaf(o, x)], x)
    BY <2>3, Words
  <2>5. Place(s, xs, q, 0) = x
    BY IndexSteps DEF Place, Reducing
  <2> HIDE DEF a, x
  <2>. QED  BY <2>2, <2>4, <2>5 DEF Value
<1>3. \A k \in 1 .. Depths(s) : \A y : y \in seen[k] <=> Visited(y, s, xs, n, k, q, 0)
  <2>1. Depths(s) \in Nat
    BY DEF Reducing
  <2>. QED  BY <2>1, VisitedByAll
<1>4. seen = [k \in 1 .. Depths(s) |-> seen[k]]
  OBVIOUS
<1> HIDE DEF seen, out, a, v
<1>5. v.stopped = FALSE /\ v.seen = seen /\ v.out = out /\ v.old = a
  BY <1>1
<1>6. v = [stopped |-> v.stopped, seen |-> v.seen, out |-> v.out, old |-> v.old]
  BY <1>1, <1>5
<1>7. ~(0 >= 1)
  OBVIOUS
<1>8. Inferring(v, s, xs, n, q, 0)
  BY <1>2, <1>3, <1>4, <1>5, <1>6, <1>7 DEF Inferring
<1>. QED  BY <1>5, <1>8 DEF v, out

\* get_inferred_elements infers exactly those.
LEMMA InferredIs ==
    ASSUME NEW s, Reducing(s), NEW n \in Nat \ {0}, NEW xs, IsIndices(xs, n, s),
           NEW c, HoldsValues(c, s, xs, n)
    PROVE  \E O : Outs(O, s, xs, n) /\ Inferred(s, xs, c) = O[n][Depths(s)]
<1> DEFINE D == Depths(s)
           u == CHOOSE g : IsInferringAll(g, s, xs, c, n)
<1>1. D \in Nat /\ Len(xs) = n
  BY DEF Reducing, IsIndices
<1>2. IsInferringAll(u, s, xs, c, n)
  BY InferringAllExists
<1>3. Inferred(s, xs, c) = u[n].out
  BY <1>1 DEF Inferred, IsInferringAll, InferAllStep
<1> HIDE DEF u, D
<1>4. \A q \in 0 .. n : u[q] = InferAllStep(u[q - 1], s, xs, c, q)
  BY <1>2 DEF IsInferringAll
<1>5. u[0].seen = [i \in 1 .. D |-> {}] /\ u[0].out = <<>>
  <2>1. 0 \in 0 .. n
    OBVIOUS
  <2>2. u[0] = [stopped |-> FALSE, seen |-> [i \in 1 .. D |-> {}], out |-> <<>>, old |-> None]
    BY <1>4, <2>1 DEF InferAllStep, D
  <2>. QED  BY <2>2
<1> DEFINE Runs(v, q) == FollowsOne(v, u[q - 1], s, c, xs[q]) /\ u[q] = v[D]
           w(q) == CHOOSE v : Runs(v, q)
<1>6. ASSUME NEW q \in 1 .. n PROVE Runs(w(q), q)
  <2> DEFINE t == u[q - 1]
             x == xs[q]
  <2>1. u[q] = InferQuery(t, s, c, x)
    <3>1. q \in 0 .. n /\ q # 0
      OBVIOUS
    <3>. QED  BY <1>4, <3>1 DEF InferAllStep
  <2> HIDE DEF t, x
  <2>2. \E v : FollowsOne(v, t, s, c, x) /\ InferQuery(t, s, c, x) = v[D]
    BY <1>1, QueryFollowed DEF D
  <2>3. \E v : Runs(v, q)
    BY <2>1, <2>2 DEF t, x
  <2> HIDE DEF Runs
  <2>. QED  BY <2>3
<1> HIDE DEF w
<1> DEFINE Sees(t, q) == /\ t.seen = [k \in 1 .. D |-> t.seen[k]]
                         /\ \A k \in 1 .. D : \A y : y \in t.seen[k] <=> Visited(y, s, xs, n, k, q, D)
           Right(q, i) == Inferring(w(q)[i], s, xs, n, q, i)
           Grew(q, i) == w(q)[i].out =
                IF Fresh(s, xs, q, i) THEN Append(w(q)[i - 1].out, Value(s, xs, q, i - 1)) ELSE w(q)[i - 1].out
<1>7. ASSUME NEW q \in 1 .. n, Sees(u[q - 1], q - 1)
      PROVE  w(q)[0].out = u[q - 1].out /\ \A i \in 0 .. D : Right(q, i) /\ (i # 0 => Grew(q, i))
  <2> DEFINE v == w(q)
             t == u[q - 1]
             T == {i \in 0 .. D : Right(q, i) /\ (i # 0 => Grew(q, i))}
  <2>1. FollowsOne(v, t, s, c, xs[q])
    BY <1>6
  <2>2. \A i \in 1 .. D : v[i] = Infer(v[i - 1], s, c, xs[q], i)
    BY <2>1 DEF FollowsOne, D
  <2>3. Inferring(v[0], s, xs, n, q, 0) /\ v[0].out = t.out
    <3>1. t.seen = [k \in 1 .. D |-> t.seen[k]]
          /\ \A k \in 1 .. D : \A y : y \in t.seen[k] <=> Visited(y, s, xs, n, k, q - 1, D)
      BY <1>7
    <3> HIDE DEF v, t
    <3>. QED  BY <2>1, <3>1, InferStarts DEF D
  <2>4. 0 \in T
    BY <1>1, <2>3
  <2>5. ASSUME NEW i \in 1 .. D, i - 1 \in T PROVE i \in T
    <3> DEFINE z == v[i - 1]
    <3>1. Inferring(z, s, xs, n, q, i - 1)
      BY <2>5
    <3>2. v[i] = Infer(z, s, c, xs[q], i)
      BY <2>2
    <3> HIDE DEF z
    <3>3. /\ Inferring(Infer(z, s, c, xs[q], i), s, xs, n, q, i)
          /\ Infer(z, s, c, xs[q], i).out =
               IF Fresh(s, xs, q, i) THEN Append(z.out, Value(s, xs, q, i - 1)) ELSE z.out
      BY <3>1, InferKeeps DEF D
    <3>. QED  BY <3>2, <3>3 DEF z
  <2> HIDE DEF T
  <2>6. \A i \in 0 .. D : i \in T
    BY <1>1, <2>4, <2>5, Counting
  <2>. QED  BY <2>3, <2>6 DEF T
<1> HIDE DEF Grew, Right
<1> DEFINE U == {q \in 0 .. n : Sees(u[q], q)}
<1>8. 0 \in U
  <2>1. \A k \in 1 .. D : \A y : ~Visited(y, s, xs, n, k, 0, D)
    BY <1>1, VisitedNone
  <2> DEFINE v == u[0]
  <2>2. v.seen = [i \in 1 .. D |-> {}]
    BY <1>5
  <2> HIDE DEF v
  <2>3. Sees(v, 0)
    BY <2>1, <2>2
  <2> HIDE DEF Sees
  <2>. QED  BY <2>3 DEF v
<1>9. ASSUME NEW q \in 1 .. n, q - 1 \in U PROVE q \in U
  <2>1. Right(q, D)
    <3>1. Sees(u[q - 1], q - 1)
      BY <1>9
    <3>2. D \in 0 .. D
      BY <1>1
    <3>. QED  BY <1>7, <3>1, <3>2
  <2>2. u[q] = w(q)[D]
    BY <1>6
  <2>3. Sees(u[q], q)
    <3> DEFINE v == u[q]
    <3>1. Inferring(v, s, xs, n, q, D)
      BY <2>1, <2>2 DEF Right
    <3> HIDE DEF v
    <3>. QED  BY <3>1 DEF Inferring, D, v
  <2>. QED  BY <2>3
<1> HIDE DEF U
<1>10. \A q \in 0 .. n : q \in U
  BY <1>8, <1>9, Counting
<1>11. \A q \in 1 .. n : Sees(u[q - 1], q - 1)
  <2> TAKE q \in 1 .. n
  <2>1. q - 1 \in 0 .. n
    OBVIOUS
  <2>. QED  BY <1>10, <2>1 DEF U
<1> HIDE DEF Sees
<1> DEFINE o(q) == [i \in 0 .. D |-> w(q)[i].out]
           O == [q \in 1 .. n |-> o(q)]
<1>12. ASSUME NEW q \in 1 .. n
       PROVE  /\ O[q][0] = u[q - 1].out /\ O[q][D] = u[q].out
              /\ \A i \in 1 .. D : O[q][i] = IF Fresh(s, xs, q, i)
                    THEN Append(O[q][i - 1], Value(s, xs, q, i - 1)) ELSE O[q][i - 1]
  <2>1. O[q][0] = u[q - 1].out /\ O[q][D] = u[q].out
    BY <1>1, <1>6, <1>7, <1>11
  <2>2. ASSUME NEW i \in 1 .. D
        PROVE  O[q][i] = IF Fresh(s, xs, q, i)
                    THEN Append(O[q][i - 1], Value(s, xs, q, i - 1)) ELSE O[q][i - 1]
    <3>1. O[q][i] = w(q)[i].out /\ O[q][i - 1] = w(q)[i - 1].out
      BY <1>1
    <3>2. i \in 0 .. D /\ i # 0
      OBVIOUS
    <3>3. Grew(q, i)
      BY <1>7, <1>11, <3>2
    <3> HIDE DEF O
    <3>. QED  BY <3>1, <3>3 DEF Grew
  <2>. QED  BY <2>1, <2>2
<1> HIDE DEF O
<1>13. ASSUME NEW q \in 1 .. n PROVE O[q][0] = IF q = 1 THEN <<>> ELSE O[q - 1][D]
  <2>1. CASE q = 1
    BY <1>5, <1>12, <2>1
  <2>2. CASE q # 1
    <3>1. q - 1 \in 1 .. n
      BY <2>2
    <3>. QED  BY <1>12, <2>2, <3>1
  <2>. QED  BY <2>1, <2>2
<1>14. Outs(O, s, xs, n)
  BY <1>12, <1>13 DEF Outs, D
<1>15. Inferred(s, xs, c) = O[n][D]
  BY <1>3, <1>12
<1>. QED  BY <1>14, <1>15 DEF D

\* Values that are inferred.
Values(s, xs) == {Value(s, xs, m[1], m[2]) : m \in Int \X Int}

\* What is inferred at first is the beginning of all that is inferred.
LEMMA OutsExtend ==
    ASSUME NEW s, Depths(s) \in Nat, NEW n \in Nat \ {0}, NEW xs, NEW O, Outs(O, s, xs, n)
    PROVE  \A q \in 1 .. n : \A i \in 0 .. Depths(s) :
             O[q][i] \in Seq(Values(s, xs)) /\ Extends(O[q][i], O[n][Depths(s)])
<1> DEFINE D == Depths(s)
           S == Values(s, xs)
           K(q) == O[q]
<1>1. \A q \in 1 .. n : K(q)[0] = IF q = 1 THEN <<>> ELSE K(q - 1)[D]
  BY DEF Outs
<1>2. ASSUME NEW q \in 1 .. n, NEW i \in 1 .. D PROVE Grows(K(q)[i - 1], K(q)[i], S)
  <2> DEFINE e == Value(s, xs, q, i - 1)
             f == Fresh(s, xs, q, i)
  <2>1. e \in S
    <3> DEFINE m == <<q, i - 1>>
    <3>1. m \in Int \X Int /\ m[1] = q /\ m[2] = i - 1
      OBVIOUS
    <3> HIDE DEF m
    <3>. QED  BY <3>1 DEF Values
  <2>2. K(q)[i] = IF f THEN Append(K(q)[i - 1], e) ELSE K(q)[i - 1]
    BY DEF Outs
  <2> HIDE DEF e, f, S, K
  <2>. QED  BY <2>1, <2>2 DEF Grows
<1> HIDE DEF D, S, K
<1>3. ASSUME NEW q \in 1 .. n, K(q)[0] \in Seq(S)
      PROVE  \A i \in 0 .. D : K(q)[i] \in Seq(S) /\ Extends(K(q)[i], K(q)[D])
  <2>1. IsGrowth(K(q), D, S)
    BY <1>2, <1>3 DEF IsGrowth
  <2>2. D \in Nat
    BY DEF D
  <2>. QED  BY <2>1, <2>2, GrowthExtends
<1> DEFINE U == {q \in 0 .. n : q = 0 \/ K(q)[0] \in Seq(S)}
<1>4. 0 \in U
  OBVIOUS
<1>5. ASSUME NEW q \in 1 .. n, q - 1 \in U PROVE q \in U
  <2>1. CASE q = 1
    <3>1. <<>> \in Seq(S)
      OBVIOUS
    <3>2. K(q)[0] = <<>>
      BY <1>1, <2>1
    <3>3. K(q)[0] \in Seq(S)
      BY <3>1, <3>2, Zenon
    <3>. QED  BY <3>3
  <2>2. CASE q # 1
    <3>1. q - 1 \in 1 .. n /\ q - 1 # 0
      BY <2>2
    <3>2. K(q - 1)[0] \in Seq(S)
      BY <1>5, <3>1
    <3>3. D \in 0 .. D
      BY DEF D
    <3>4. K(q - 1)[D] \in Seq(S)
      BY <1>3, <3>1, <3>2, <3>3
    <3>. QED  BY <1>1, <2>2, <3>4
  <2>. QED  BY <2>1, <2>2
<1> HIDE DEF U
<1>6. \A q \in 0 .. n : q \in U
  BY <1>4, <1>5, Counting
<1>7. \A q \in 1 .. n : K(q)[0] \in Seq(S)
  <2> TAKE q \in 1 .. n
  <2>1. q \in 0 .. n /\ q # 0
    OBVIOUS
  <2>. QED  BY <1>6, <2>1 DEF U
<1>8. \A q \in 1 .. n : K(q)[D] \in Seq(S) /\ Extends(K(q)[0], K(q)[D])
  <2>1. D \in 0 .. D /\ 0 \in 0 .. D
    BY DEF D
  <2>. QED  BY <1>3, <1>7, <2>1
<1> DEFINE T == {i \in 0 .. n : i < n => Extends(K(n - i)[D], K(n)[D])}
<1>9. 0 \in T
  <2>1. n \in 1 .. n /\ n - 0 = n
    OBVIOUS
  <2>2. Extends(K(n)[D], K(n)[D])
    BY <1>8, <2>1, ExtendsItself
  <2>. QED  BY <2>1, <2>2
<1>10. ASSUME NEW i \in 1 .. n, i - 1 \in T PROVE i \in T
  <2>1. SUFFICES ASSUME i < n PROVE Extends(K(n - i)[D], K(n)[D])
    OBVIOUS
  <2> DEFINE q == n - (i - 1)
  <2>2. q \in 1 .. n /\ q # 1 /\ q - 1 \in 1 .. n /\ n - i = q - 1 /\ n \in 1 .. n
    BY <2>1
  <2>3. Extends(K(q)[D], K(n)[D])
    BY <1>10, <2>1
  <2> HIDE DEF q
  <2>4. K(q)[0] = K(q - 1)[D]
    BY <1>1, <2>2
  <2>5. Extends(K(q - 1)[D], K(n)[D])
    <3>1. Extends(K(q)[0], K(q)[D]) /\ K(q)[0] \in Seq(S) /\ K(q)[D] \in Seq(S) /\ K(n)[D] \in Seq(S)
      BY <1>7, <1>8, <2>2
    <3>. QED  BY <2>3, <2>4, <3>1, ExtendsOn
  <2>. QED  BY <2>2, <2>5
<1> HIDE DEF T
<1>11. \A i \in 0 .. n : i \in T
  BY <1>9, <1>10, Counting
<1>12. ASSUME NEW q \in 1 .. n PROVE Extends(K(q)[D], K(n)[D])
  <2>1. n - q \in 0 .. n /\ n - q < n /\ n - (n - q) = q
    OBVIOUS
  <2>. QED  BY <1>11, <2>1 DEF T
<1>13. ASSUME NEW q \in 1 .. n, NEW i \in 0 .. D
       PROVE  K(q)[i] \in Seq(S) /\ Extends(K(q)[i], K(n)[D])
  <2>1. K(q)[i] \in Seq(S) /\ Extends(K(q)[i], K(q)[D])
    BY <1>3, <1>7
  <2>2. n \in 1 .. n
    OBVIOUS
  <2>3. K(q)[D] \in Seq(S) /\ K(n)[D] \in Seq(S)
    BY <1>8, <2>2
  <2>. QED  BY <1>12, <2>1, <2>3, ExtendsOn
<1>. QED  BY <1>13 DEF K, S, D

\* Cosets that are completed are those that were come to.
Known(t, s, xs, n, q, i) ==
    /\ t.known = [k \in 1 .. Depths(s) |-> t.known[k]]
    /\ \A k \in 1 .. Depths(s) : \A y : y \in DOMAIN t.known[k] <=> Visited(y, s, xs, n, k, q, i)
    /\ \A k \in 1 .. Depths(s) : \A y \in DOMAIN t.known[k] : t.known[k][y] = CosetOf(s, k, y)

Completing(t, O, s, xs, n, q, i) ==
    Known(t, s, xs, n, q, i) /\ t.rest = Rest(O[n][Depths(s)], O[q][i])

\* An element is read exactly where one was inferred.
LEMMA CompleteKeeps ==
    ASSUME NEW s, Reducing(s), NEW n \in Nat \ {0}, NEW xs, IsIndices(xs, n, s), NEW c, HoldsValues(c, s, xs, n),
           NEW O, Outs(O, s, xs, n),
           NEW q \in 1 .. n, NEW i \in 1 .. Depths(s), NEW t, Completing(t, O, s, xs, n, q, i - 1)
    PROVE  Completing(Complete(t, s, c, xs[q], i), O, s, xs, n, q, i)
<1> DEFINE D == Depths(s)
           x == xs[q]
           y == Place(s, xs, q, i)
           fresh == Fresh(s, xs, q, i)
           S == Values(s, xs)
           a == O[q][i - 1]
           b == O[n][D]
           e == Value(s, xs, q, i - 1)
           u == Complete(t, s, c, x, i)
<1>1. D \in Nat /\ i \in Nat \ {0} /\ i \in 1 .. D /\ n \in Nat
  BY DEF Reducing
<1>2. /\ t.known = [k \in 1 .. D |-> t.known[k]]
      /\ \A k \in 1 .. D : \A z : z \in DOMAIN t.known[k] <=> Visited(z, s, xs, n, k, q, i - 1)
      /\ \A k \in 1 .. D : \A z \in DOMAIN t.known[k] : t.known[k][z] = CosetOf(s, k, z)
      /\ t.rest = Rest(b, a)
  BY DEF Completing, Known
<1>3. y = IndexAt(s, x, i)
  BY DEF Place
<1>4. y \in DOMAIN t.known[i] <=> ~fresh
  BY <1>1, <1>2, VisitedIsMet
<1>5. \A k \in 1 .. D : \A z : Visited(z, s, xs, n, k, q, i) <=>
         Visited(z, s, xs, n, k, q, i - 1) \/ (k = i /\ z = y)
  BY <1>1, VisitedNext
<1>6. O[q][i] = IF fresh THEN Append(a, e) ELSE a
  BY DEF Outs
<1>7. CASE ~fresh
  <2>1. u = t
    BY <1>3, <1>4, <1>7 DEF Complete
  <2>2. O[q][i] = a
    BY <1>6, <1>7
  <2>3. \A k \in 1 .. D : \A z : z \in DOMAIN t.known[k] <=> Visited(z, s, xs, n, k, q, i)
    <3> HIDE DEF y, fresh
    <3>. QED  BY <1>2, <1>4, <1>5, <1>7
  <2>4. Known(t, s, xs, n, q, i)
    BY <1>2, <2>3 DEF Known
  <2>. QED  BY <1>2, <2>1, <2>2, <2>4 DEF Completing
<1>8. CASE fresh
  <2> DEFINE d == InsertAt(c.steps[i][y].data, WithinCoset(s, x, i) + 1, Head(t.rest))
             map == Inserted(t.known[i], y, d)
             known == [t.known EXCEPT ![i] = map]
             rest == Tail(t.rest)
  <2>1. u = [known |-> known, rest |-> rest]
    BY <1>3, <1>4, <1>8 DEF Complete
  <2>2. Head(t.rest) = e /\ rest = Rest(b, O[q][i])
    <3>1. i - 1 \in 0 .. D /\ i \in 0 .. D /\ D \in 0 .. D /\ n \in 1 .. n
      BY <1>1
    <3>2. a \in Seq(S) /\ b \in Seq(S) /\ Extends(O[q][i], b)
      BY <1>1, <3>1, OutsExtend
    <3>3. e \in S
      <4> DEFINE m == <<q, i - 1>>
      <4>1. m \in Int \X Int /\ m[1] = q /\ m[2] = i - 1
        OBVIOUS
      <4> HIDE DEF m
      <4>. QED  BY <4>1 DEF Values
    <3>4. O[q][i] = Append(a, e)
      BY <1>6, <1>8
    <3> HIDE DEF a, b, e, S
    <3>5. Head(Rest(b, a)) = e /\ Tail(Rest(b, a)) = Rest(b, Append(a, e))
      BY <3>2, <3>3, <3>4, ReadsNext
    <3>. QED  BY <1>2, <3>4, <3>5
  <2>3. d = CosetOf(s, i, y)
    <3>1. InsertAt(c.steps[i][y].data, WithinCoset(s, xs[q], i) + 1, Value(s, xs, q, i - 1)) = CosetOf(s, i, y)
      BY <1>1, <1>8, ValueNext
    <3>. QED  BY <2>2, <3>1
  <2> HIDE DEF d
  <2>4. DOMAIN map = DOMAIN t.known[i] \cup {y}
        /\ \A z \in DOMAIN map : map[z] = IF z = y THEN d ELSE t.known[i][z]
    BY DEF Inserted
  <2>5. known = [k \in 1 .. D |-> known[k]] /\ \A k \in 1 .. D : known[k] = IF k = i THEN map ELSE t.known[k]
    <3> DEFINE old == t.known
    <3>1. old = [k \in 1 .. D |-> old[k]]
      BY <1>2
    <3> HIDE DEF map, old, D
    <3>2. [old EXCEPT ![i] = map] = [k \in 1 .. D |-> IF k = i THEN map ELSE old[k]]
      BY <1>1, <3>1
    <3>. QED  BY <3>2 DEF old
  <2> HIDE DEF map, known, rest, u
  <2>6. u.known = known /\ u.rest = rest
    BY <2>1
  <2>7. \A k \in 1 .. D : \A z : z \in DOMAIN known[k] <=> Visited(z, s, xs, n, k, q, i)
    <3> HIDE DEF y, fresh
    <3>. QED  BY <1>2, <1>5, <2>4, <2>5
  <2>8. \A k \in 1 .. D : \A z \in DOMAIN known[k] : known[k][z] = CosetOf(s, k, z)
    <3> TAKE k \in 1 .. D
    <3>1. CASE k = i
      <4>1. known[k] = map
        BY <2>5, <3>1
      <4> HIDE DEF y
      <4>2. \A z \in DOMAIN map : map[z] = CosetOf(s, i, z)
        BY <1>1, <1>2, <2>3, <2>4
      <4>. QED  BY <3>1, <4>1, <4>2
    <3>2. CASE k # i
      BY <1>2, <2>5, <3>2
    <3>. QED  BY <3>1, <3>2
  <2>9. Known(u, s, xs, n, q, i)
    BY <2>5, <2>6, <2>7, <2>8 DEF Known
  <2>10. u.rest = Rest(O[n][Depths(s)], O[q][i])
    BY <2>2, <2>6
  <2>. QED  BY <2>9, <2>10 DEF Completing, u
<1>. QED  BY <1>7, <1>8

CompleteStep(v, t, s, c, x, i) == IF i = 0 THEN t ELSE Complete(v, s, c, x, i)

IsCompleting(u, t, s, c, x, n) == u = [i \in 0 .. n |-> CompleteStep(u[i - 1], t, s, c, x, i)]

\* CompleteQuery is the end of such a run.
LEMMA CompletingExists ==
    ASSUME NEW t, NEW s, NEW c, NEW x, NEW n \in Nat
    PROVE  \E f : IsCompleting(f, t, s, c, x, n)
<1> DEFINE With == {m \in Nat : \E f : IsCompleting(f, t, s, c, x, m)}
           step(e, k) == CompleteStep(e[k - 1], t, s, c, x, k)
<1>0. \A e, g : step(e, 0) = step(g, 0)
  BY DEF CompleteStep
<1>1. 0 \in With
  <2> DEFINE g == [k \in 0 .. 0 |-> step(<<>>, 0)]
  <2>1. g = [k \in 0 .. 0 |-> step(g, k)]
    BY <1>0
  <2> HIDE DEF g
  <2>. QED  BY <2>1 DEF IsCompleting
<1>2. ASSUME NEW m \in 1 .. n, m - 1 \in With PROVE m \in With
  <2>1. PICK f : IsCompleting(f, t, s, c, x, m - 1)
    BY <1>2
  <2> DEFINE g == [k \in 0 .. m |-> IF k < m THEN f[k] ELSE step(f, m)]
  <2>2. \A k \in 0 .. m - 1 : f[k] = step(f, k)
    BY <2>1 DEF IsCompleting
  <2> HIDE DEF step
  <2>3. \A k \in 0 .. m : g[k] = step(g, k)
    <3> TAKE k \in 0 .. m
    <3>1. CASE k = 0
      <4>1. g[k] = step(f, 0)
        BY <2>2, <3>1
      <4>. QED  BY <1>0, <3>1, <4>1
    <3>2. CASE k # 0
      <4>1. g[k - 1] = f[k - 1] /\ g[k] = step(f, k)
        BY <2>2, <3>2
      <4>. QED  BY <4>1 DEF step
    <3>. QED  BY <3>1, <3>2
  <2>4. g = [k \in 0 .. m |-> step(g, k)]
    BY <2>3
  <2> HIDE DEF g
  <2>. QED  BY <2>4 DEF IsCompleting, step
<1> HIDE DEF With
<1>3. \A m \in 0 .. n : m \in With
  BY <1>1, <1>2, Counting
<1>. QED  BY <1>3 DEF With

CompleteAllStep(v, s, xs, c, inferred, q) ==
    IF q = 0 THEN [known |-> [i \in 1 .. Depths(s) |-> <<>>], rest |-> inferred]
             ELSE CompleteQuery(v, s, c, xs[q])

IsCompletingAll(u, s, xs, c, inferred, n) ==
    u = [q \in 0 .. n |-> CompleteAllStep(u[q - 1], s, xs, c, inferred, q)]

\* The cosets are read off such a run.
LEMMA CompletingAllExists ==
    ASSUME NEW s, NEW xs, NEW c, NEW inferred, NEW n \in Nat
    PROVE  \E f : IsCompletingAll(f, s, xs, c, inferred, n)
<1> DEFINE With == {m \in Nat : \E f : IsCompletingAll(f, s, xs, c, inferred, m)}
           step(e, k) == CompleteAllStep(e[k - 1], s, xs, c, inferred, k)
<1>0. \A e, g : step(e, 0) = step(g, 0)
  BY DEF CompleteAllStep
<1>1. 0 \in With
  <2> DEFINE g == [k \in 0 .. 0 |-> step(<<>>, 0)]
  <2>1. g = [k \in 0 .. 0 |-> step(g, k)]
    BY <1>0
  <2> HIDE DEF g
  <2>. QED  BY <2>1 DEF IsCompletingAll
<1>2. ASSUME NEW m \in 1 .. n, m - 1 \in With PROVE m \in With
  <2>1. PICK f : IsCompletingAll(f, s, xs, c, inferred, m - 1)
    BY <1>2
  <2> DEFINE g == [k \in 0 .. m |-> IF k < m THEN f[k] ELSE step(f, m)]
  <2>2. \A k \in 0 .. m - 1 : f[k] = step(f, k)
    BY <2>1 DEF IsCompletingAll
  <2> HIDE DEF step
  <2>3. \A k \in 0 .. m : g[k] = step(g, k)
    <3> TAKE k \in 0 .. m
    <3>1. CASE k = 0
      <4>1. g[k] = step(f, 0)
        BY <2>2, <3>1
      <4>. QED  BY <1>0, <3>1, <4>1
    <3>2. CASE k # 0
      <4>1. g[k - 1] = f[k - 1] /\ g[k] = step(f, k)
        BY <2>2, <3>2
      <4>. QED  BY <4>1 DEF step
    <3>. QED  BY <3>1, <3>2
  <2>4. g = [k \in 0 .. m |-> step(g, k)]
    BY <2>3
  <2> HIDE DEF g
  <2>. QED  BY <2>4 DEF IsCompletingAll, step
<1> HIDE DEF With
<1>3. \A m \in 0 .. n : m \in With
  BY <1>1, <1>2, Counting
<1>. QED  BY <1>3 DEF With

\* A query completes the cosets that it comes to first.
LEMMA QueryCompletes ==
    ASSUME NEW s, Reducing(s), NEW n \in Nat \ {0}, NEW xs, IsIndices(xs, n, s), NEW c, HoldsValues(c, s, xs, n),
           NEW O, Outs(O, s, xs, n), NEW q \in 1 .. n, NEW t, Completing(t, O, s, xs, n, q, 0)
    PROVE  Completing(CompleteQuery(t, s, c, xs[q]), O, s, xs, n, q, Depths(s))
<1> DEFINE D == Depths(s)
           x == xs[q]
           u == CHOOSE g : IsCompleting(g, t, s, c, x, D)
<1>1. D \in Nat
  BY DEF Reducing
<1>2. IsCompleting(u, t, s, c, x, D)
  BY <1>1, CompletingExists
<1>3. CompleteQuery(t, s, c, x) = u[D]
  BY DEF CompleteQuery, IsCompleting, CompleteStep
<1> HIDE DEF u
<1>4. \A i \in 0 .. D : u[i] = CompleteStep(u[i - 1], t, s, c, x, i)
  BY <1>2 DEF IsCompleting
<1> DEFINE T == {i \in 0 .. D : Completing(u[i], O, s, xs, n, q, i)}
<1>5. 0 \in T
  <2>1. 0 \in 0 .. D
    BY <1>1
  <2>2. u[0] = t
    BY <1>4, <2>1 DEF CompleteStep
  <2>. QED  BY <2>1, <2>2
<1>6. ASSUME NEW i \in 1 .. D, i - 1 \in T PROVE i \in T
  <2> DEFINE v == u[i - 1]
  <2>1. i \in 0 .. D /\ i # 0
    OBVIOUS
  <2>2. u[i] = Complete(v, s, c, x, i)
    BY <1>4, <2>1 DEF CompleteStep
  <2>3. Completing(v, O, s, xs, n, q, i - 1)
    BY <1>6
  <2> HIDE DEF v
  <2>4. Completing(Complete(v, s, c, xs[q], i), O, s, xs, n, q, i)
    BY <2>3, CompleteKeeps
  <2>. QED  BY <2>1, <2>2, <2>4
<1> HIDE DEF T
<1>7. \A i \in 0 .. D : i \in T
  BY <1>1, <1>5, <1>6, Counting
<1>8. D \in 0 .. D
  BY <1>1
<1>9. Completing(u[D], O, s, xs, n, q, D)
  BY <1>7, <1>8 DEF T
<1>. QED  BY <1>3, <1>9

\* Every coset that a query asks for is completed to that of the prover.
LEMMA CosetsAre ==
    ASSUME NEW s, Reducing(s), NEW n \in Nat \ {0}, NEW xs, IsIndices(xs, n, s), NEW c, HoldsValues(c, s, xs, n)
    PROVE  \A q \in 1 .. n : \A i \in 1 .. Depths(s) :
             Cosets(s, xs, c, Inferred(s, xs, c))[i][Place(s, xs, q, i)] = CosetOf(s, i, Place(s, xs, q, i))
<1> DEFINE D == Depths(s)
           S == Values(s, xs)
<1>1. D \in Nat /\ Len(xs) = n
  BY DEF Reducing, IsIndices
<1>2. PICK O : Outs(O, s, xs, n) /\ Inferred(s, xs, c) = O[n][D]
  BY InferredIs
<1> DEFINE F == O[n][D]
           u == CHOOSE g : IsCompletingAll(g, s, xs, c, F, n)
<1>3. IsCompletingAll(u, s, xs, c, F, n)
  BY CompletingAllExists
<1>4. Cosets(s, xs, c, F) = u[n].known
  BY <1>1 DEF Cosets, IsCompletingAll, CompleteAllStep
<1> HIDE DEF u
<1>5. \A q \in 0 .. n : u[q] = CompleteAllStep(u[q - 1], s, xs, c, F, q)
  BY <1>3 DEF IsCompletingAll
<1>6. F \in Seq(S)
  <2>1. n \in 1 .. n /\ D \in 0 .. D
    BY <1>1
  <2>. QED  BY <1>1, <1>2, <2>1, OutsExtend
<1> DEFINE Read(q) == IF q = 0 THEN <<>> ELSE O[q][D]
           After(t, q) == Known(t, s, xs, n, q, D) /\ t.rest = Rest(F, Read(q))
           U == {q \in 0 .. n : After(u[q], q)}
<1> HIDE DEF D
<1>7. 0 \in U
  <2>1. \A k \in 1 .. D : \A y : ~Visited(y, s, xs, n, k, 0, D)
    BY <1>1, VisitedNone
  <2> DEFINE t == u[0]
             e == [i \in 1 .. D |-> <<>>]
  <2>2. 0 \in 0 .. n
    OBVIOUS
  <2>3. t = [known |-> e, rest |-> F]
    BY <1>5, <2>2 DEF CompleteAllStep, D
  <2>4. \A k \in 1 .. D : DOMAIN e[k] = {}
    OBVIOUS
  <2>5. e = [k \in 1 .. D |-> e[k]]
    OBVIOUS
  <2> HIDE DEF t, e, F
  <2>6. t.known = e /\ t.rest = F
    BY <2>3
  <2>7. Known(t, s, xs, n, 0, D)
    BY <2>1, <2>4, <2>5, <2>6 DEF Known, D
  <2>8. Rest(F, <<>>) = F
    BY <1>6, RestOfNothing
  <2>. QED  BY <2>2, <2>6, <2>7, <2>8 DEF t
<1> HIDE DEF F
<1>8. ASSUME NEW q \in 1 .. n, q - 1 \in U PROVE q \in U
  <2> DEFINE t == u[q - 1]
  <2>1. q \in 0 .. n /\ q # 0
    OBVIOUS
  <2>2. u[q] = CompleteQuery(t, s, c, xs[q])
    BY <1>5, <2>1 DEF CompleteAllStep
  <2>3. Known(t, s, xs, n, q - 1, D) /\ t.rest = Rest(F, Read(q - 1))
    BY <1>8
  <2>4. Read(q - 1) = O[q][0]
    BY <1>2 DEF Outs, D
  <2> HIDE DEF t, Read
  <2>5. \A k \in 1 .. D : \A y : Visited(y, s, xs, n, k, q, 0) <=> Visited(y, s, xs, n, k, q - 1, D)
    BY <1>1, VisitedByAll
  <2>6. Known(t, s, xs, n, q, 0)
    BY <2>3, <2>5 DEF Known, D
  <2>7. Completing(t, O, s, xs, n, q, 0)
    BY <2>3, <2>4, <2>6 DEF Completing, F, D
  <2>8. Completing(CompleteQuery(t, s, c, xs[q]), O, s, xs, n, q, D)
    BY <1>2, <2>7, QueryCompletes DEF D
  <2>9. Completing(u[q], O, s, xs, n, q, D)
    BY <2>2, <2>8
  <2>10. Read(q) = O[q][D]
    BY <2>1 DEF Read
  <2>11. After(u[q], q)
    BY <2>9, <2>10 DEF Completing, D, F
  <2>. QED  BY <2>1, <2>11
<1> HIDE DEF U
<1>9. \A q \in 0 .. n : q \in U
  BY <1>7, <1>8, Counting
<1>10. n \in 0 .. n
  OBVIOUS
<1>11. Known(u[n], s, xs, n, n, D)
  BY <1>9, <1>10 DEF U
<1>12. ASSUME NEW q \in 1 .. n, NEW i \in 1 .. D
       PROVE  Cosets(s, xs, c, F)[i][Place(s, xs, q, i)] = CosetOf(s, i, Place(s, xs, q, i))
  <2> DEFINE y == Place(s, xs, q, i)
             m == u[n].known
  <2>1. Visited(y, s, xs, n, i, n, D)
    <3>1. q < n \/ (q = n /\ i <= D)
      BY <1>1 DEF D
    <3>. QED  BY <3>1 DEF Visited
  <2> HIDE DEF y
  <2>2. y \in DOMAIN m[i] <=> Visited(y, s, xs, n, i, n, D)
    BY <1>11 DEF Known, D
  <2>3. \A z \in DOMAIN m[i] : m[i][z] = CosetOf(s, i, z)
    BY <1>11 DEF Known, D
  <2>4. Cosets(s, xs, c, F) = m
    BY <1>4 DEF F, D
  <2> HIDE DEF m
  <2>5. m[i][y] = CosetOf(s, i, y)
    BY <2>1, <2>2, <2>3
  <2>. QED  BY <2>4, <2>5 DEF y
<1>. QED  BY <1>2, <1>12 DEF F, D

-----------------------------------------------------------------------------
(* Compressed proofs.                                                      *)

\* What is kept under a key is what its first query brought.
LEMMA FirstAtIs ==
    ASSUME NEW n \in Nat, NEW keys, DOMAIN keys = 1 .. n, NEW values, NEW m, NEW r, IsFirst(keys, n, m, r)
    PROVE  FirstAt(keys, values)[m] = values[r]
<1> DEFINE P(q) == keys[q] = m /\ \A p \in 1 .. q - 1 : keys[p] # m
           k == CHOOSE q \in 1 .. n : P(q)
<1>1. r \in 1 .. n /\ P(r)
  BY DEF IsFirst
<1>2. k \in 1 .. n /\ P(k)
  <2> HIDE DEF P
  <2>. QED  BY <1>1
<1>3. k = r
  <2> HIDE DEF k
  <2>1. k < r => k \in 1 .. r - 1
    BY <1>1, <1>2
  <2>2. r < k => r \in 1 .. k - 1
    BY <1>1, <1>2
  <2>. QED  BY <1>1, <1>2, <2>1, <2>2
<1>4. m \in {keys[q] : q \in 1 .. n}
  BY <1>1
<1>5. FirstAt(keys, values)[m] = values[k]
  BY <1>4 DEF FirstAt
<1>. QED  BY <1>3, <1>5

\* A proof's rounds are those opened at the indices drawn.
AllOpen(s, xs, rs, n) ==
    /\ IsIndices(xs, n, s) /\ DOMAIN xs = 1 .. n
    /\ DOMAIN rs = 1 .. n /\ rs = [q \in 1 .. n |-> rs[q]]
    /\ \A q \in 1 .. n : IsRound(s, rs[q]) /\ OpensInitial(s, rs[q], xs[q]) /\ OpensSteps(s, rs[q], xs[q])

\* What they hold.
OpensAt(s, r, x) ==
    /\ \A o \in 1 .. NumOracles : r.initial[o].data = Leaf(o, x)
         /\ r.initial[o].data = InitialLeaves(s, o)[x + 1]
         /\ r.initial[o].path = Path(Tree(InitialLeaves(s, o), s.logN, s.capHeight), x)
    /\ \A i \in 1 .. Depths(s) : LET y == IndexAt(s, x, i) IN
         /\ r.steps[i].data = CosetOf(s, i, y)
         /\ r.steps[i].data = StepLeaves(s, i)[y + 1]
         /\ r.steps[i].path = Path(Tree(StepLeaves(s, i), LogSize(s, i), s.capHeight), y)

LEMMA RoundOpens ==
    ASSUME NEW s, Reducing(s), NEW x \in 0 .. 2 ^ s.logN - 1, NEW r, OpensInitial(s, r, x), OpensSteps(s, r, x)
    PROVE  OpensAt(s, r, x)
<1>1. ASSUME NEW o \in 1 .. NumOracles
      PROVE  /\ r.initial[o].data = Leaf(o, x)
             /\ r.initial[o].data = InitialLeaves(s, o)[x + 1]
             /\ r.initial[o].path = Path(Tree(InitialLeaves(s, o), s.logN, s.capHeight), x)
  <2> DEFINE t == Tree(InitialLeaves(s, o), s.logN, s.capHeight)
             N == 2 ^ s.logN
  <2>1. Committed(s).initial[o] = t
    BY CommittedTrees
  <2>2. t.leaves = InitialLeaves(s, o)
    BY TreeFields
  <2> HIDE DEF t
  <2>3. r.initial[o].data = InitialLeaves(s, o)[x + 1] /\ r.initial[o].path = Path(t, x)
    BY <2>1, <2>2 DEF OpensInitial, IsOpening
  <2>4. N \in Nat /\ x \in 0 .. N - 1
    BY Doubling DEF Reducing
  <2>5. InitialLeaves(s, o) = [k \in 1 .. N |-> Leaf(o, k - 1)]
    BY DEF InitialLeaves
  <2> HIDE DEF N
  <2>6. x + 1 \in 1 .. N /\ (x + 1) - 1 = x
    BY <2>4
  <2>7. InitialLeaves(s, o)[x + 1] = Leaf(o, x)
    BY <2>5, <2>6
  <2>. QED  BY <2>3, <2>7 DEF t
<1>2. ASSUME NEW i \in 1 .. Depths(s)
      PROVE  LET y == IndexAt(s, x, i) IN
             /\ r.steps[i].data = CosetOf(s, i, y)
             /\ r.steps[i].data = StepLeaves(s, i)[y + 1]
             /\ r.steps[i].path = Path(Tree(StepLeaves(s, i), LogSize(s, i), s.capHeight), y)
  <2> DEFINE y == IndexAt(s, x, i)
             t == Tree(StepLeaves(s, i), LogSize(s, i), s.capHeight)
             N == 2 ^ LogSize(s, i)
  <2>1. Committed(s).steps[i] = t
    BY CommittedTrees
  <2>2. t.leaves = StepLeaves(s, i)
    BY TreeFields
  <2> HIDE DEF t
  <2>3. r.steps[i].data = StepLeaves(s, i)[y + 1] /\ r.steps[i].path = Path(t, y)
    BY <2>1, <2>2 DEF OpensSteps, IsOpening
  <2>4. N \in Nat /\ y \in 0 .. N - 1
    <3>1. i \in 0 .. Depths(s)
      BY DEF Reducing
    <3>2. LogSize(s, i) \in Nat
      BY <3>1 DEF Reducing
    <3>3. y \in 0 .. N - 1
      BY <3>1, IndexIs
    <3>. QED  BY <3>2, <3>3, Doubling
  <2>5. StepLeaves(s, i) = [k \in 1 .. N |-> CosetOf(s, i, k - 1)]
    BY DEF StepLeaves
  <2> HIDE DEF N, y
  <2>6. y + 1 \in 1 .. N /\ (y + 1) - 1 = y
    BY <2>4
  <2>7. StepLeaves(s, i)[y + 1] = CosetOf(s, i, y)
    BY <2>5, <2>6
  <2>. QED  BY <2>3, <2>7 DEF t, y
<1>. QED  BY <1>1, <1>2 DEF OpensAt

\* The leaves that the queries ask for, at a reduction or of the initial trees.
LEMMA QueriesAtLeaves ==
    ASSUME NEW s, Reducing(s), NEW n \in Nat, NEW xs, IsIndices(xs, n, s), DOMAIN xs = 1 .. n,
           NEW i \in 0 .. Depths(s)
    PROVE  /\ AtLeaves(NodesAt(s, xs, i), At(s, xs, i), n, LogSize(s, i))
           /\ DOMAIN At(s, xs, i) = 1 .. n /\ \A q \in 1 .. n : At(s, xs, i)[q] = Place(s, xs, q, i)
           /\ \A q \in 1 .. n : FirstOf(NodesAt(s, xs, i), q)
                => Fresh(s, xs, q, i) /\ IsFirst(At(s, xs, i), n, Place(s, xs, q, i), q)
<1> DEFINE H == LogSize(s, i)
           w == 2 ^ H
           y(q) == Place(s, xs, q, i)
           nodes == NodesAt(s, xs, i)
           keys == At(s, xs, i)
<1>1. H \in Nat /\ s.capHeight \in Nat /\ w \in Nat
  BY Doubling DEF Reducing
<1>2. (H - s.capHeight) + s.capHeight = H
  <2> HIDE DEF H
  <2>. QED  BY <1>1
<1>3. \A q \in 1 .. n : y(q) \in 0 .. w - 1
  BY IndexIs DEF IsIndices, Place
<1>4. nodes = [q \in 1 .. n |-> y(q) + w]
  BY <1>2 DEF NodesAt, Node, Place
<1>5. keys = [q \in 1 .. n |-> y(q)]
  BY DEF At, Place
<1> HIDE DEF w, y, nodes, keys
<1>6. DOMAIN nodes = 1 .. n /\ Len(nodes) = n /\ \A q \in 1 .. n : nodes[q] = y(q) + w
  BY <1>4
<1>7. DOMAIN keys = 1 .. n /\ \A q \in 1 .. n : keys[q] = y(q)
  BY <1>5
<1>8. AtLeaves(nodes, keys, n, H)
  BY <1>3, <1>6, <1>7 DEF AtLeaves, w
<1>9. ASSUME NEW q \in 1 .. n, FirstOf(nodes, q), NEW p \in 1 .. q - 1 PROVE y(p) # y(q) /\ keys[p] # y(q)
  <2>1. p \in 1 .. n
    OBVIOUS
  <2>2. nodes[p] # nodes[q]
    BY <1>9 DEF FirstOf
  <2>3. y(p) # y(q)
    BY <1>6, <2>1, <2>2
  <2>. QED  BY <1>7, <2>1, <2>3
<1>10. ASSUME NEW q \in 1 .. n, FirstOf(nodes, q) PROVE Fresh(s, xs, q, i) /\ IsFirst(keys, n, y(q), q)
  BY <1>7, <1>9, <1>10 DEF Fresh, IsFirst, y
<1>. QED  BY <1>7, <1>8, <1>10 DEF nodes, keys, y

InitialPaths(rs, o) == [q \in DOMAIN rs |-> rs[q].initial[o].path]
StepPaths(rs, i)    == [q \in DOMAIN rs |-> rs[q].steps[i].path]

InitialKept(c, s, xs, rs, n, o) == \A r \in 1 .. n : \A m : IsFirst(xs, n, m, r) =>
    /\ c.initial[m][o].data = rs[r].initial[o].data
    /\ c.initial[m][o].path = CompressPaths(NodesAt(s, xs, 0), InitialPaths(rs, o))[r]

StepKept(c, s, xs, rs, n, i) == \A r \in 1 .. n : \A m : IsFirst(At(s, xs, i), n, m, r) =>
    /\ c.steps[i][m].data = RemoveAt(rs[r].steps[i].data, WithinCoset(s, xs[r], i) + 1)
    /\ c.steps[i][m].path = CompressPaths(NodesAt(s, xs, i), StepPaths(rs, i))[r]

\* What a compressed proof keeps of a query that is the first at its index.
LEMMA CompressKeeps ==
    ASSUME NEW s, NEW n \in Nat, NEW xs, NEW rs, AllOpen(s, xs, rs, n), NEW c, c = Compress(s, xs, rs)
    PROVE  /\ \A o \in 1 .. NumOracles : InitialKept(c, s, xs, rs, n, o)
           /\ \A i \in 1 .. Depths(s) : StepKept(c, s, xs, rs, n, i)
<1> DEFINE kept(o) == CompressPaths(NodesAt(s, xs, 0), InitialPaths(rs, o))
           paths == [o \in 1 .. NumOracles |-> kept(o)]
           a(q) == [o \in 1 .. NumOracles |-> [data |-> rs[q].initial[o].data, path |-> paths[o][q]]]
           b(i, q) == [ data |-> RemoveAt(rs[q].steps[i].data, WithinCoset(s, xs[q], i) + 1),
                        path |-> CompressPaths(NodesAt(s, xs, i), StepPaths(rs, i))[q] ]
           fa == [q \in 1 .. n |-> a(q)]
           fb(i) == [q \in 1 .. n |-> b(i, q)]
           first == FirstAt(xs, fa)
           steps == [i \in 1 .. Depths(s) |-> FirstAt(At(s, xs, i), fb(i))]
<1>1. DOMAIN rs = 1 .. n /\ DOMAIN xs = 1 .. n
  BY DEF AllOpen
<1>2. c = [initial |-> first, steps |-> steps]
  BY <1>1 DEF Compress, InitialPaths, StepPaths
<1>3. c.initial = first /\ c.steps = steps
  <2> HIDE DEF first, steps
  <2>. QED  BY <1>2
<1>4. ASSUME NEW r \in 1 .. n, NEW m, IsFirst(xs, n, m, r), NEW o \in 1 .. NumOracles
      PROVE  c.initial[m][o].data = rs[r].initial[o].data /\ c.initial[m][o].path = kept(o)[r]
  <2> HIDE DEF kept
  <2>1. fa[r] = a(r) /\ a(r)[o].data = rs[r].initial[o].data /\ a(r)[o].path = kept(o)[r]
    OBVIOUS
  <2> HIDE DEF fa, a
  <2>2. first[m] = fa[r]
    BY <1>1, <1>4, FirstAtIs
  <2>. QED  BY <1>3, <2>1, <2>2
<1>5. ASSUME NEW i \in 1 .. Depths(s), NEW r \in 1 .. n, NEW m, IsFirst(At(s, xs, i), n, m, r)
      PROVE  /\ c.steps[i][m].data = RemoveAt(rs[r].steps[i].data, WithinCoset(s, xs[r], i) + 1)
             /\ c.steps[i][m].path = CompressPaths(NodesAt(s, xs, i), StepPaths(rs, i))[r]
  <2>1. fb(i)[r] = b(i, r)
    OBVIOUS
  <2>2. steps[i] = FirstAt(At(s, xs, i), fb(i))
    OBVIOUS
  <2>3. DOMAIN At(s, xs, i) = 1 .. n
    BY <1>1 DEF At
  <2> HIDE DEF fb, steps, b
  <2>4. FirstAt(At(s, xs, i), fb(i))[m] = fb(i)[r]
    BY <1>5, <2>3, FirstAtIs
  <2>5. c.steps[i][m] = b(i, r)
    BY <1>3, <2>1, <2>2, <2>4
  <2>. QED  BY <2>5 DEF b
<1>6. \A o \in 1 .. NumOracles : InitialKept(c, s, xs, rs, n, o)
  BY <1>4 DEF InitialKept
<1>7. \A i \in 1 .. Depths(s) : StepKept(c, s, xs, rs, n, i)
  BY <1>5 DEF StepKept
<1>. QED  BY <1>6, <1>7

\* So it holds the values that inferring and completing start from.
LEMMA CompressHolds ==
    ASSUME NEW s, Reducing(s), NEW n \in Nat, NEW xs, NEW rs, AllOpen(s, xs, rs, n), NEW c, c = Compress(s, xs, rs)
    PROVE  HoldsValues(c, s, xs, n)
<1>1. DOMAIN xs = 1 .. n /\ IsIndices(xs, n, s) /\ Depths(s) \in Nat
  BY DEF AllOpen, Reducing
<1>2. \A q \in 1 .. n : OpensAt(s, rs[q], xs[q])
  BY RoundOpens DEF AllOpen, IsIndices
<1>3. ASSUME NEW q \in 1 .. n, NEW o \in 1 .. NumOracles
      PROVE  c.initial[xs[q]][o].data = Leaf(o, xs[q])
  <2>1. PICK r : IsFirst(xs, n, xs[q], r)
    BY PlaceOf
  <2>2. r \in 1 .. n /\ xs[r] = xs[q]
    BY <2>1 DEF IsFirst
  <2>5. InitialKept(c, s, xs, rs, n, o)
    BY CompressKeeps
  <2>3. c.initial[xs[q]][o].data = rs[r].initial[o].data
    BY <2>1, <2>2, <2>5 DEF InitialKept
  <2>4. rs[r].initial[o].data = Leaf(o, xs[r])
    BY <1>2, <2>2 DEF OpensAt
  <2>. QED  BY <2>2, <2>3, <2>4
<1>4. ASSUME NEW q \in 1 .. n, NEW i \in 1 .. Depths(s), Fresh(s, xs, q, i)
      PROVE  c.steps[i][Place(s, xs, q, i)].data
               = RemoveAt(CosetOf(s, i, Place(s, xs, q, i)), WithinCoset(s, xs[q], i) + 1)
  <2> DEFINE y == Place(s, xs, q, i)
  <2>1. i \in 0 .. Depths(s)
    BY <1>1
  <2>2. \A p \in 1 .. n : At(s, xs, i)[p] = Place(s, xs, p, i)
    BY <1>1, <2>1, QueriesAtLeaves
  <2>3. \A p \in 1 .. q - 1 : p \in 1 .. n
    OBVIOUS
  <2>4. IsFirst(At(s, xs, i), n, y, q)
    BY <1>4, <2>2, <2>3, Zenon DEF IsFirst, Fresh
  <2>7. StepKept(c, s, xs, rs, n, i)
    BY CompressKeeps
  <2>5. c.steps[i][y].data = RemoveAt(rs[q].steps[i].data, WithinCoset(s, xs[q], i) + 1)
    BY <2>4, <2>7 DEF StepKept
  <2>6. rs[q].steps[i].data = CosetOf(s, i, y)
    BY <1>2 DEF OpensAt, Place
  <2>. QED  BY <2>5, <2>6
<1>. QED  BY <1>3, <1>4 DEF HoldsValues

-----------------------------------------------------------------------------
(* Decompressing.                                                          *)

InitialDecompressed(s, xs, c, o) ==
    DecompressPaths([q \in DOMAIN xs |-> c.initial[xs[q]][o].data], NodesAt(s, xs, 0),
                    [q \in DOMAIN xs |-> c.initial[xs[q]][o].path], s.logN - s.capHeight)

StepDecompressed(s, xs, c, i, data) ==
    DecompressPaths(data, NodesAt(s, xs, i),
                    [q \in DOMAIN xs |-> c.steps[i][IndexAt(s, xs[q], i)].path], LogSize(s, i) - s.capHeight)

\* The paths in an initial tree.
LEMMA InitialRestored ==
    ASSUME NEW s, Reducing(s), NEW n \in Nat \ {0}, NEW xs, NEW rs, AllOpen(s, xs, rs, n),
           NEW c, c = Compress(s, xs, rs), NEW o \in 1 .. NumOracles
    PROVE  InitialDecompressed(s, xs, c, o) = [q \in 1 .. n |-> rs[q].initial[o].path]
<1> DEFINE leaves == InitialLeaves(s, o)
           nodes == NodesAt(s, xs, 0)
           a(q) == c.initial[xs[q]][o].data
           b(q) == c.initial[xs[q]][o].path
           p(q) == rs[q].initial[o].path
           data == [q \in 1 .. n |-> a(q)]
           kept == [q \in 1 .. n |-> b(q)]
           paths == [q \in 1 .. n |-> p(q)]
<1>1. DOMAIN xs = 1 .. n /\ IsIndices(xs, n, s) /\ Depths(s) \in Nat /\ DOMAIN rs = 1 .. n
      /\ LogSize(s, 0) = s.logN /\ n \in Nat
  BY DEF AllOpen, Reducing
<1>2. \A q \in 1 .. n : OpensAt(s, rs[q], xs[q])
  BY RoundOpens DEF AllOpen, IsIndices
<1>3. s.logN \in Nat /\ s.capHeight \in 0 .. s.logN /\ 0 \in 0 .. Depths(s)
  BY <1>1, TreesHaveRoom
<1>4. \A q \in 1 .. n : Place(s, xs, q, 0) = xs[q]
  BY <1>1, IndexSteps DEF Place
<1>5. /\ AtLeaves(nodes, At(s, xs, 0), n, s.logN)
      /\ \A q \in 1 .. n : At(s, xs, 0)[q] = xs[q]
      /\ \A q \in 1 .. n : FirstOf(nodes, q) => IsFirst(At(s, xs, 0), n, xs[q], q)
  BY <1>1, <1>3, <1>4, QueriesAtLeaves
<1>6. AtLeaves(nodes, xs, n, s.logN)
  BY <1>5 DEF AtLeaves
<1>7. \A q \in 1 .. n : a(q) = leaves[xs[q] + 1]
  <2> TAKE q \in 1 .. n
  <2>1. a(q) = Leaf(o, xs[q])
    BY <1>1, CompressHolds DEF HoldsValues
  <2>2. rs[q].initial[o].data = Leaf(o, xs[q]) /\ rs[q].initial[o].data = leaves[xs[q] + 1]
    BY <1>2 DEF OpensAt
  <2>. QED  BY <2>1, <2>2
<1>8. \A q \in 1 .. n : p(q) = Path(Tree(leaves, s.logN, s.capHeight), xs[q])
  BY <1>2 DEF OpensAt
<1>9. paths = InitialPaths(rs, o)
  BY <1>1 DEF InitialPaths
<1>10. ASSUME NEW q \in 1 .. n, FirstOf(nodes, q) PROVE b(q) = CompressPaths(nodes, paths)[q]
  <2>1. IsFirst(At(s, xs, 0), n, xs[q], q)
    BY <1>5, <1>10
  <2>2. \A r \in 1 .. q - 1 : r \in 1 .. n
    OBVIOUS
  <2>3. IsFirst(xs, n, xs[q], q)
    BY <1>5, <2>1, <2>2, Zenon DEF IsFirst
  <2>4. InitialKept(c, s, xs, rs, n, o)
    BY <1>1, CompressKeeps
  <2>. QED  BY <1>9, <2>3, <2>4 DEF InitialKept
<1> HIDE DEF a, b, p
<1>11. /\ \A q \in 1 .. n : data[q] = leaves[xs[q] + 1]
       /\ \A q \in 1 .. n : paths[q] = Path(Tree(leaves, s.logN, s.capHeight), xs[q])
       /\ kept = [q \in 1 .. n |-> kept[q]]
       /\ paths = [q \in 1 .. n |-> paths[q]]
       /\ \A q \in 1 .. n : kept[q] = b(q)
  BY <1>7, <1>8
<1> HIDE DEF data, kept, paths, leaves, nodes
<1>12. \A q \in 1 .. n : FirstOf(nodes, q) => kept[q] = CompressPaths(nodes, paths)[q]
  BY <1>10, <1>11
<1>13. DecompressPaths(data, nodes, kept, s.logN - s.capHeight) = paths
  <2> DEFINE H == s.logN
             k == s.capHeight
  <2>1. OpensTree(data, paths, leaves, H, k, xs, n)
    BY <1>11 DEF OpensTree
  <2>2. KeepsFirst(kept, nodes, paths, n)
    BY <1>11, <1>12 DEF KeepsFirst
  <2>3. H \in Nat /\ k \in 0 .. H /\ AtLeaves(nodes, xs, n, H)
    BY <1>3, <1>6
  <2> HIDE DEF H, k
  <2>4. Compresses(kept, data, paths, nodes, leaves, H, k, xs, n)
    BY <2>1, <2>2, <2>3 DEF Compresses
  <2>5. DecompressPaths(data, nodes, kept, H - k) = paths
    BY <2>4, TreeRestored
  <2>. QED  BY <2>5 DEF H, k
<1>. QED  BY <1>1, <1>13 DEF data, kept, paths, nodes, a, b, p, InitialDecompressed

AreCosets(data, s, xs, n, i) == \A q \in 1 .. n : data[q] = CosetOf(s, i, Place(s, xs, q, i))

\* The paths in the tree of a reduction.
LEMMA StepRestored ==
    ASSUME NEW s, Reducing(s), NEW n \in Nat \ {0}, NEW xs, NEW rs, AllOpen(s, xs, rs, n),
           NEW c, c = Compress(s, xs, rs), NEW i \in 1 .. Depths(s),
           NEW data, AreCosets(data, s, xs, n, i)
    PROVE  StepDecompressed(s, xs, c, i, data) = [q \in 1 .. n |-> rs[q].steps[i].path]
<1> DEFINE leaves == StepLeaves(s, i)
           nodes == NodesAt(s, xs, i)
           ys == At(s, xs, i)
           H == LogSize(s, i)
           b(q) == c.steps[i][IndexAt(s, xs[q], i)].path
           p(q) == rs[q].steps[i].path
           kept == [q \in 1 .. n |-> b(q)]
           paths == [q \in 1 .. n |-> p(q)]
<1>1. DOMAIN xs = 1 .. n /\ IsIndices(xs, n, s) /\ Depths(s) \in Nat /\ DOMAIN rs = 1 .. n /\ n \in Nat
  BY DEF AllOpen, Reducing
<1>2. \A q \in 1 .. n : OpensAt(s, rs[q], xs[q])
  BY RoundOpens DEF AllOpen, IsIndices
<1>3. i \in 0 .. Depths(s) /\ H \in Nat /\ s.capHeight \in 0 .. H
  <2>1. i \in 0 .. Depths(s)
    BY <1>1
  <2>. QED  BY <2>1, TreesHaveRoom
<1>5. /\ AtLeaves(nodes, ys, n, H)
      /\ \A q \in 1 .. n : ys[q] = Place(s, xs, q, i)
      /\ \A q \in 1 .. n : FirstOf(nodes, q) => IsFirst(ys, n, Place(s, xs, q, i), q)
  BY <1>1, <1>3, QueriesAtLeaves
<1>6. \A q \in 1 .. n : ys[q] = IndexAt(s, xs[q], i)
  BY <1>5 DEF Place
<1>7. ASSUME NEW q \in 1 .. n
      PROVE  data[q] = leaves[ys[q] + 1] /\ p(q) = Path(Tree(leaves, H, s.capHeight), ys[q])
  <2> DEFINE y == IndexAt(s, xs[q], i)
  <2>1. data[q] = CosetOf(s, i, y)
    BY DEF Place, AreCosets
  <2>2. rs[q].steps[i].data = CosetOf(s, i, y) /\ rs[q].steps[i].data = leaves[y + 1]
        /\ p(q) = Path(Tree(leaves, H, s.capHeight), y)
    BY <1>2 DEF OpensAt
  <2>3. ys[q] = y
    BY <1>6
  <2> HIDE DEF ys, y, leaves, p
  <2>. QED  BY <2>1, <2>2, <2>3
<1>9. paths = StepPaths(rs, i)
  BY <1>1 DEF StepPaths
<1>10. ASSUME NEW q \in 1 .. n, FirstOf(nodes, q) PROVE b(q) = CompressPaths(nodes, paths)[q]
  <2>1. IsFirst(ys, n, Place(s, xs, q, i), q)
    BY <1>5, <1>10
  <2>2. c.steps[i][Place(s, xs, q, i)].path = CompressPaths(nodes, paths)[q]
    <3>1. StepKept(c, s, xs, rs, n, i)
      BY <1>1, CompressKeeps
    <3>. QED  BY <1>9, <2>1, <3>1 DEF StepKept
  <2>. QED  BY <2>2 DEF Place
<1> HIDE DEF b, p
<1>11. /\ kept = [q \in 1 .. n |-> kept[q]]
       /\ paths = [q \in 1 .. n |-> paths[q]]
       /\ \A q \in 1 .. n : kept[q] = b(q)
       /\ \A q \in 1 .. n : paths[q] = p(q)
  OBVIOUS
<1> HIDE DEF kept, paths, leaves, nodes, ys, H
<1>12. \A q \in 1 .. n : FirstOf(nodes, q) => kept[q] = CompressPaths(nodes, paths)[q]
  BY <1>10, <1>11
<1>15. \A q \in 1 .. n : paths[q] = Path(Tree(leaves, H, s.capHeight), ys[q])
  BY <1>7, <1>11
<1>16. \A q \in 1 .. n : data[q] = leaves[ys[q] + 1]
  BY <1>7
<1>13. DecompressPaths(data, nodes, kept, H - s.capHeight) = paths
  <2> DEFINE k == s.capHeight
  <2>1. OpensTree(data, paths, leaves, H, k, ys, n)
    BY <1>11, <1>15, <1>16 DEF OpensTree
  <2>2. KeepsFirst(kept, nodes, paths, n)
    BY <1>11, <1>12 DEF KeepsFirst
  <2>3. H \in Nat /\ k \in 0 .. H /\ AtLeaves(nodes, ys, n, H)
    BY <1>3, <1>5
  <2> HIDE DEF k
  <2>4. Compresses(kept, data, paths, nodes, leaves, H, k, ys, n)
    BY <2>1, <2>2, <2>3 DEF Compresses
  <2>5. DecompressPaths(data, nodes, kept, H - k) = paths
    BY <2>4, TreeRestored
  <2>. QED  BY <2>5 DEF k
<1>. QED  BY <1>1, <1>13 DEF kept, paths, nodes, b, p, H, StepDecompressed

\* The rounds of a proof are restored.
LEMMA RoundsRestored ==
    ASSUME NEW s, Reducing(s), NEW n \in Nat \ {0}, NEW xs, NEW rs, AllOpen(s, xs, rs, n),
           NEW c, c = Compress(s, xs, rs)
    PROVE  Decompress(s, xs, c, Inferred(s, xs, c)) = rs
<1> DEFINE D == Depths(s)
           inferred == Inferred(s, xs, c)
           cosets == Cosets(s, xs, c, inferred)
           leaves(i) == [q \in 1 .. n |-> cosets[i][IndexAt(s, xs[q], i)]]
           ip(o) == InitialDecompressed(s, xs, c, o)
           sp(i) == StepDecompressed(s, xs, c, i, leaves(i))
           ips == [o \in 1 .. NumOracles |-> ip(o)]
           sps == [i \in 1 .. D |-> sp(i)]
           a(q) == [o \in 1 .. NumOracles |-> [data |-> c.initial[xs[q]][o].data, path |-> ips[o][q]]]
           b(q) == [i \in 1 .. D |-> [data |-> leaves(i)[q], path |-> sps[i][q]]]
           round(q) == [initial |-> a(q), steps |-> b(q)]
<1>1. DOMAIN xs = 1 .. n /\ IsIndices(xs, n, s) /\ D \in Nat /\ n \in Nat /\ rs = [q \in 1 .. n |-> rs[q]]
  BY DEF AllOpen, Reducing
<1>2. Decompress(s, xs, c, inferred) = [q \in 1 .. n |-> round(q)]
  BY <1>1, Zenon DEF Decompress, InitialDecompressed, StepDecompressed
<1>3. HoldsValues(c, s, xs, n)
  BY <1>1, CompressHolds
<1>4. \A q \in 1 .. n : OpensAt(s, rs[q], xs[q]) /\ IsRound(s, rs[q])
  BY RoundOpens DEF AllOpen, IsIndices
<1>5. ASSUME NEW i \in 1 .. D, NEW q \in 1 .. n
      PROVE  leaves(i)[q] = CosetOf(s, i, Place(s, xs, q, i)) /\ leaves(i)[q] = rs[q].steps[i].data
  <2>1. cosets[i][Place(s, xs, q, i)] = CosetOf(s, i, Place(s, xs, q, i))
    BY <1>1, <1>3, CosetsAre
  <2>2. leaves(i)[q] = cosets[i][Place(s, xs, q, i)]
    BY DEF Place
  <2>3. rs[q].steps[i].data = CosetOf(s, i, Place(s, xs, q, i))
    BY <1>4 DEF OpensAt, Place
  <2>. QED  BY <2>1, <2>2, <2>3, Zenon
<1> HIDE DEF leaves, cosets, inferred
<1>6. ASSUME NEW o \in 1 .. NumOracles, NEW q \in 1 .. n
      PROVE  ip(o)[q] = rs[q].initial[o].path /\ c.initial[xs[q]][o].data = rs[q].initial[o].data
  <2> DEFINE p(r) == rs[r].initial[o].path
  <2>1. ip(o) = [r \in 1 .. n |-> p(r)]
    BY <1>1, InitialRestored
  <2>2. c.initial[xs[q]][o].data = Leaf(o, xs[q]) /\ rs[q].initial[o].data = Leaf(o, xs[q])
    BY <1>3, <1>4 DEF HoldsValues, OpensAt
  <2> HIDE DEF ip, p
  <2>3. ip(o)[q] = p(q)
    BY <2>1
  <2>. QED  BY <2>2, <2>3 DEF p
<1>7. ASSUME NEW i \in 1 .. D, NEW q \in 1 .. n PROVE sp(i)[q] = rs[q].steps[i].path
  <2> DEFINE p(r) == rs[r].steps[i].path
             l == leaves(i)
  <2>1. AreCosets(l, s, xs, n, i)
    BY <1>5 DEF AreCosets
  <2>2. sp(i) = StepDecompressed(s, xs, c, i, l)
    OBVIOUS
  <2> HIDE DEF l
  <2>3. sp(i) = [r \in 1 .. n |-> p(r)]
    BY <1>1, <2>1, <2>2, StepRestored
  <2> HIDE DEF sp, p
  <2>4. sp(i)[q] = p(q)
    BY <2>3
  <2>. QED  BY <2>4 DEF p
<1> HIDE DEF ip, sp
<1>8. ASSUME NEW q \in 1 .. n PROVE round(q) = rs[q]
  <2> DEFINE r == rs[q]
             A(o) == [data |-> r.initial[o].data, path |-> r.initial[o].path]
             B(i) == [data |-> r.steps[i].data, path |-> r.steps[i].path]
             e(o) == [data |-> c.initial[xs[q]][o].data, path |-> ips[o][q]]
             f(i) == [data |-> leaves(i)[q], path |-> sps[i][q]]
             ini == r.initial
             ste == r.steps
  <2>1. /\ r = [initial |-> ini, steps |-> ste]
        /\ ini = [o \in 1 .. NumOracles |-> ini[o]] /\ \A o \in 1 .. NumOracles : ini[o] = A(o)
        /\ ste = [i \in 1 .. D |-> ste[i]] /\ \A i \in 1 .. D : ste[i] = B(i)
    BY <1>4 DEF IsRound, HasForm
  <2>2. \A o \in 1 .. NumOracles : e(o) = A(o)
    BY <1>6
  <2>3. \A i \in 1 .. D : f(i) = B(i)
    BY <1>5, <1>7
  <2>4. a(q) = [o \in 1 .. NumOracles |-> e(o)] /\ b(q) = [i \in 1 .. D |-> f(i)]
    OBVIOUS
  <2> HIDE DEF a, b, e, f, A, B, ini, ste
  <2>5. a(q) = ini
    BY <2>1, <2>2, <2>4
  <2>6. b(q) = ste
    BY <2>1, <2>3, <2>4
  <2>. QED  BY <2>1, <2>5, <2>6
<1> HIDE DEF round
<1>9. [q \in 1 .. n |-> round(q)] = [q \in 1 .. n |-> rs[q]]
  BY <1>8
<1>. QED  BY <1>1, <1>2, <1>9 DEF inferred

-----------------------------------------------------------------------------
(* Compression in the state machine.                                       *)

\* Unless it is altered a proof opens the indices drawn; compressed, it is
\* compressed from its rounds, and restored to them.
CompressionInv ==
    /\ rounds # None /\ ~altered => rounds = OpenedAt(Indices(shape, challenges))
    /\ compressed # None => /\ rounds # None /\ ~altered
                            /\ compressed = Compress(shape, Indices(shape, challenges), rounds)
    /\ restored # None => compressed # None /\ restored = rounds

LEMMA CompressionInitially == Init => CompressionInv
BY DEF Init, CompressionInv

\* An unaltered proof's rounds, as those that a compressed proof restores.
LEMMA UnalteredOpen ==
    ASSUME IInv, CompressionInv, rounds # None, ~altered
    PROVE  /\ shape \in Shape
           /\ AllOpen(shape, Indices(shape, challenges), rounds, NumQueries)
<1> DEFINE s == shape
           n == NumQueries
           xs == Indices(s, challenges)
           rs == rounds
<1>1. /\ s \in Shape /\ committed = Committed(s)
      /\ challenges \in [1 .. n -> 0 .. FieldOrder - 1]
      /\ rs = [q \in 1 .. n |-> rs[q]] /\ \A q \in 1 .. n : IsRound(s, rs[q])
  BY DEF IInv
<1>2. Reducing(s)
  BY <1>1, ShapeReduces
<1>3. rs = OpenedAt(xs)
  BY DEF CompressionInv
<1>4. challenges = [q \in 1 .. n |-> challenges[q]] /\ DOMAIN challenges = 1 .. n
  BY <1>1
<1>5. \A q \in 1 .. n : xs[q] = challenges[q] % 2 ^ s.logN
  BY <1>4, IndicesAt
<1>6. n \in Nat
  BY QueriesAssumption
<1>7. DOMAIN xs = 1 .. n /\ Len(xs) = n
  <2> DEFINE e(q) == challenges[q] % 2 ^ s.logN
  <2>1. xs = [q \in 1 .. n |-> e(q)]
    BY <1>4 DEF Indices
  <2> HIDE DEF xs, e
  <2>. QED  BY <1>6, <2>1
<1>8. \A q \in 1 .. n : rs[q] = Opened(s, Committed(s), xs[q])
  <2> HIDE DEF xs
  <2>. QED  BY <1>1, <1>3, OpenedAtEach
<1> HIDE DEF xs
<1>9. ASSUME NEW q \in 1 .. n PROVE xs[q] \in 0 .. 2 ^ s.logN - 1
  <2> DEFINE N == 2 ^ s.logN
  <2>1. N \in Nat /\ N > 0
    <3> DEFINE k == s.logN
    <3>1. k \in Nat
      BY <1>2 DEF Reducing
    <3> HIDE DEF k
    <3>2. 2 ^ k \in Nat /\ 2 ^ k >= 1
      BY <3>1, Doubling
    <3> DEFINE p == 2 ^ k
    <3> HIDE DEF p
    <3>3. p \in Nat /\ p > 0
      BY <3>2 DEF p
    <3>. QED  BY <3>3 DEF p, k
  <2>2. challenges[q] \in Nat
    BY <1>1
  <2> HIDE DEF N
  <2>3. challenges[q] % N \in 0 .. N - 1
    BY <2>1, <2>2, Divided
  <2>. QED  BY <1>5, <2>3 DEF N
<1>10. ASSUME NEW q \in 1 .. n PROVE OpensInitial(s, rs[q], xs[q]) /\ OpensSteps(s, rs[q], xs[q])
  <2> DEFINE r == rs[q]
             x == xs[q]
  <2>1. IsRound(s, r) /\ r = Opened(s, Committed(s), x)
    BY <1>1, <1>8
  <2> HIDE DEF r, x
  <2>2. OpensInitial(s, r, x) /\ OpensSteps(s, r, x)
    BY <2>1, RoundIs
  <2>. QED  BY <2>2 DEF r, x
<1>11. DOMAIN rs = 1 .. n
  <2> DEFINE e(q) == rs[q]
  <2>1. rs = [q \in 1 .. n |-> e(q)]
    BY <1>1
  <2> HIDE DEF e
  <2>. QED  BY <2>1
<1>12. IsIndices(xs, n, s)
  BY <1>7, <1>9 DEF IsIndices
<1>13. AllOpen(s, xs, rs, n)
  BY <1>1, <1>7, <1>10, <1>11, <1>12 DEF AllOpen
<1>. QED  BY <1>1, <1>13 DEF xs

LEMMA CompressionStep == IInv /\ CompressionInv /\ [Next]_vars => CompressionInv'
<1>1. SUFFICES ASSUME IInv, CompressionInv, [Next]_vars PROVE CompressionInv'
  OBVIOUS
<1>2. CASE Query
  <2>1. /\ challenges = None
        /\ rounds' = [q \in 1 .. NumQueries |-> Opened(shape, committed, Indices(shape, challenges')[q])]
        /\ UNCHANGED <<shape, committed, altered, native, circuit, compressed, restored>>
    BY <1>2 DEF Query
  <2>2. compressed' = None /\ restored' = None
    BY <1>1, <2>1 DEF IInv, CompressionInv
  <2>3. rounds' = OpenedAt(Indices(shape, challenges))'
    BY <2>1 DEF OpenedAt
  <2>. QED  BY <2>2, <2>3 DEF CompressionInv
<1>3. CASE Alter
  <2>1. compressed' = None /\ restored' = None /\ altered'
    BY <1>1, <1>3 DEF Alter, CompressionInv
  <2>. QED  BY <2>1 DEF CompressionInv
<1>4. CASE UNCHANGED <<shape, committed, challenges, rounds, altered, compressed, restored>>
  BY <1>1, <1>4 DEF CompressionInv, OpenedAt
<1>5. CASE CompressProof
  <2>1. /\ rounds # None /\ ~altered /\ compressed = None
        /\ compressed' = Compress(shape, Indices(shape, challenges), rounds)
        /\ UNCHANGED <<shape, committed, challenges, rounds, altered, restored>>
    BY <1>5 DEF CompressProof
  <2>2. restored' = None
    BY <1>1, <2>1 DEF CompressionInv
  <2>3. rounds' = OpenedAt(Indices(shape, challenges))'
    BY <1>1, <2>1 DEF CompressionInv, OpenedAt
  <2>. QED  BY <2>1, <2>2, <2>3 DEF CompressionInv
<1>6. CASE DecompressProof
  <2> DEFINE xs == Indices(shape, challenges)
  <2>1. /\ compressed # None
        /\ restored' = Decompress(shape, xs, compressed, Inferred(shape, xs, compressed))
        /\ UNCHANGED <<shape, committed, challenges, rounds, altered, compressed>>
    BY <1>6 DEF DecompressProof
  <2>2. rounds # None /\ ~altered /\ compressed = Compress(shape, xs, rounds)
    BY <1>1, <2>1 DEF CompressionInv
  <2>3. shape \in Shape /\ AllOpen(shape, xs, rounds, NumQueries)
    BY <1>1, <2>2, UnalteredOpen
  <2>4. Reducing(shape) /\ NumQueries \in Nat \ {0}
    BY <2>3, ShapeReduces, QueriesAssumption
  <2> DEFINE c == compressed
             s == shape
             rs == rounds
             n == NumQueries
  <2> HIDE DEF xs, c, s, rs, n
  <2>5. Decompress(s, xs, c, Inferred(s, xs, c)) = rs
    BY <2>2, <2>3, <2>4, RoundsRestored DEF c, s, rs, n
  <2>6. restored' = rounds'
    BY <2>1, <2>5 DEF c, s, rs
  <2>. QED  BY <1>1, <2>1, <2>6 DEF CompressionInv, OpenedAt
<1>. QED  BY <1>1, <1>2, <1>3, <1>4, <1>5, <1>6 DEF Next, Verify, VerifyInCircuit, vars

\* A compressed proof is restored to exactly what it was: for any trees, caps
\* and reductions and any number of queries, wherever their paths meet and
\* whichever cosets they share, the siblings that compress_merkle_proofs
\* leaves out and the values that FriProof::compress leaves out are the ones
\* that decompress_merkle_proofs and get_inferred_elements put back.
THEOREM CompressionRestores == Spec => []CompressionIsLossless
<1>1. Init => CompressionInv
  BY CompressionInitially
<1>2. IInv /\ CompressionInv /\ [Next]_vars => CompressionInv'
  BY CompressionStep
<1>3. CompressionInv => CompressionIsLossless
  BY DEF CompressionInv, CompressionIsLossless
<1>. QED  BY <1>1, <1>2, <1>3, FriInvariant, PTL DEF Spec

=============================================================================
