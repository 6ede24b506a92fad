---------------------------- MODULE ClaimTheorems ----------------------------
(***************************************************************************)
(* A credential that was loaded or built keeps the payload it was signed   *)
(* with, what R_Base accepts of it can be proved, and every reading of a   *)
(* claim is a member the payload shows.                                    *)
(*                                                                         *)
(* All of it rests on where a key's opening, a quote, the key, a quote and *)
(* a colon, can be found in the text of a payload: nowhere but where a     *)
(* member opens, or x and y in cnf, since a quote in a value is escaped    *)
(* and so never followed by a key.  The invariant says of every text the   *)
(* program holds that it is laid out from members in this way.             *)
(***************************************************************************)
EXTENDS ClaimExtraction, SequenceTheorems, WellFoundedInduction, TLAPS

-----------------------------------------------------------------------------
(* Sequences put together.                                                 *)

LessThan == {ss \in Nat \X Nat : ss[1] < ss[2]}

\* A set of numbers that is not empty has a least one.
LEMMA LeastNatural ==
    ASSUME NEW T \in SUBSET Nat, T # {}
    PROVE  \E b \in T : \A c \in T : b <= c
<1>1. PICK b \in T : \A c \in T : ~(<<c, b>> \in OpToRel(<, Nat))
  BY WFMin, NatLessThanWellFounded
<1>2. OpToRel(<, Nat) = LessThan
  BY DEF OpToRel, LessThan
<1>3. \A c \in T : <<c, b>> \notin LessThan
  BY <1>1, <1>2
<1>4. \A c \in T : ~(c < b)
  <2>1. SUFFICES ASSUME NEW c \in T, c < b PROVE FALSE
    OBVIOUS
  <2>2. <<c, b>> \in Nat \X Nat /\ <<c, b>>[1] < <<c, b>>[2]
    BY <2>1
  <2>. QED  BY <1>3, <2>2 DEF LessThan
<1>5. \A c \in T : c \in Nat /\ b \in Nat
  OBVIOUS
<1>. QED  BY <1>4, <1>5

\* One sequence after another, of known lengths.
Joined(c, a, k, b, l, S) ==
    /\ c \in Seq(S) /\ Len(c) = k + l
    /\ \A i \in 1 .. k : c[i] = a[i]
    /\ \A i \in 1 .. l : c[k + i] = b[i]

LEMMA Join ==
    ASSUME NEW S, NEW a \in Seq(S), NEW b \in Seq(S), NEW k, NEW l, Len(a) = k, Len(b) = l
    PROVE  Joined(a \o b, a, k, b, l, S)
<1> DEFINE c == a \o b
<1>1. k \in Nat /\ l \in Nat
  OBVIOUS
<1>2. c \in Seq(S) /\ Len(c) = Len(a) + Len(b)
      /\ \A i \in 1 .. Len(a) + Len(b) : c[i] = IF i <= Len(a) THEN a[i] ELSE b[i - Len(a)]
  BY ConcatProperties
<1> HIDE DEF c
<1>3. c \in Seq(S) /\ Len(c) = k + l /\ \A i \in 1 .. k + l : c[i] = IF i <= k THEN a[i] ELSE b[i - k]
  BY <1>2
<1>4. \A i \in 1 .. k : c[i] = a[i]
  BY <1>1, <1>3
<1>5. \A i \in 1 .. l : c[k + i] = b[i]
  <2> TAKE i \in 1 .. l
  <2> DEFINE j == k + i
  <2>1. j \in 1 .. k + l /\ ~(j <= k) /\ j - k = i
    BY <1>1
  <2> HIDE DEF j
  <2>2. c[j] = b[j - k]
    BY <1>3, <2>1
  <2>. QED  BY <2>1, <2>2 DEF j
<1>. QED  BY <1>3, <1>4, <1>5 DEF Joined, c

\* The prefixes of a flattened sequence, the function FlattenSeq recurs by.
IsFlattening(f, ss, n) == f = [i \in 1 .. n |-> IF i = 1 THEN ss[i] ELSE f[i - 1] \o ss[i]]

LEMMA FlatteningExists ==
    ASSUME NEW ss, NEW n \in Nat
    PROVE  \E f : IsFlattening(f, ss, n)
<1> DEFINE Without == {m \in Nat : ~\E f : IsFlattening(f, ss, m)}
<1>1. SUFFICES ASSUME n \in Without PROVE FALSE
  OBVIOUS
<1>2. PICK m \in Without : \A k \in Without : m <= k
  <2>1. Without \in SUBSET Nat /\ Without # {}
    BY <1>1
  <2> HIDE DEF Without
  <2>. QED  BY <2>1, LeastNatural
<1>3. CASE m = 0
  <2>1. IsFlattening([k \in 1 .. 0 |-> ss[k]], ss, 0)
    BY DEF IsFlattening
  <2>. QED  BY <1>2, <1>3, <2>1
<1>4. CASE m # 0
  <2>1. m - 1 \in Nat /\ m - 1 \notin Without
    BY <1>2, <1>4
  <2>2. PICK f : IsFlattening(f, ss, m - 1)
    BY <2>1
  <2> DEFINE g == [k \in 1 .. m |-> IF k < m THEN f[k] ELSE IF m = 1 THEN ss[m] ELSE f[m - 1] \o ss[m]]
  <2>3. \A k \in 1 .. m : g[k] = IF k = 1 THEN ss[k] ELSE g[k - 1] \o ss[k]
    <3> TAKE k \in 1 .. m
    <3>1. CASE k < m
      <4>1. k \in 1 .. m - 1 /\ (k = 1 \/ (k - 1 \in 1 .. m /\ k - 1 < m))
        BY <2>1, <3>1
      <4>2. f[k] = IF k = 1 THEN ss[k] ELSE f[k - 1] \o ss[k]
        BY <2>2, <4>1 DEF IsFlattening
      <4>. QED  BY <3>1, <4>1, <4>2
    <3>2. CASE k = m
      <4>1. k = 1 \/ (k - 1 \in 1 .. m /\ k - 1 < m)
        BY <2>1, <3>2
      <4>. QED  BY <2>1, <3>2, <4>1
    <3>. QED  BY <2>1, <3>1, <3>2
  <2>4. g = [k \in 1 .. m |-> g[k]]
    OBVIOUS
  <2> HIDE DEF g
  <2>5. IsFlattening(g, ss, m)
    BY <2>3, <2>4 DEF IsFlattening
  <2>. QED  BY <1>2, <2>5
<1>. QED  BY <1>2, <1>3, <1>4

\* Where each part of a flattened sequence stands in it.
Laid(t, ss, at, S) ==
    /\ t \in Seq(S) /\ at \in [1 .. Len(ss) + 1 -> Nat]
    /\ at[1] = 0 /\ Len(t) = at[Len(ss) + 1]
    /\ \A i \in 1 .. Len(ss) :
          /\ at[i + 1] = at[i] + Len(ss[i])
          /\ \A j \in 1 .. Len(ss[i]) : at[i] + j \in 1 .. Len(t) /\ t[at[i] + j] = ss[i][j]

\* A prefix of a flattened sequence holds the parts up to its last.
Prefix(c, ss, at, i, S) ==
    /\ c \in Seq(S) /\ at[i] \in Nat /\ Len(c) = at[i] + Len(ss[i])
    /\ \A k \in 1 .. i : \A j \in 1 .. Len(ss[k]) :
          at[k] + j \in 1 .. Len(c) /\ c[at[k] + j] = ss[k][j]

LEMMA PrefixGrows ==
    ASSUME NEW S, NEW ss, NEW at, NEW i \in Nat, i # 0, NEW c,
           Prefix(c, ss, at, i, S), ss[i + 1] \in Seq(S), at[i + 1] = Len(c)
    PROVE  Prefix(c \o ss[i + 1], ss, at, i + 1, S)
<1> DEFINE l == Len(c)
           b == ss[i + 1]
           m == Len(b)
           d == c \o b
<1>1. c \in Seq(S) /\ b \in Seq(S) /\ l \in Nat /\ m \in Nat
  BY DEF Prefix
<1>2. Joined(d, c, l, b, m, S)
  BY <1>1, Join
<1>3. at[i + 1] = l
  OBVIOUS
<1> HIDE DEF d, m, l
<1>4. d \in Seq(S) /\ Len(d) = l + m
  BY <1>2 DEF Joined
<1>5. ASSUME NEW j \in 1 .. m
      PROVE  at[i + 1] + j \in 1 .. Len(d) /\ d[at[i + 1] + j] = b[j]
  BY <1>1, <1>2, <1>3, <1>4 DEF Joined
<1>6. ASSUME NEW k \in 1 .. i, NEW j \in 1 .. Len(ss[k])
      PROVE  at[k] + j \in 1 .. Len(d) /\ d[at[k] + j] = ss[k][j]
  <2> DEFINE p == at[k] + j
  <2>1. p \in 1 .. l /\ c[p] = ss[k][j]
    BY DEF Prefix, l
  <2> HIDE DEF p
  <2>2. d[p] = c[p] /\ p \in 1 .. l + m
    BY <1>1, <1>2, <2>1 DEF Joined
  <2>. QED  BY <1>4, <2>1, <2>2 DEF p
<1>7. ASSUME NEW k \in 1 .. i + 1, NEW j \in 1 .. Len(ss[k])
      PROVE  at[k] + j \in 1 .. Len(d) /\ d[at[k] + j] = ss[k][j]
  <2>1. k \in 1 .. i \/ k = i + 1
    OBVIOUS
  <2>2. CASE k = i + 1
    BY <1>5, <2>2 DEF m
  <2>. QED  BY <1>6, <2>1, <2>2
<1>8. at[i + 1] \in Nat /\ Len(d) = at[i + 1] + Len(ss[i + 1])
  BY <1>1, <1>3, <1>4 DEF m
<1>. QED  BY <1>4, <1>7, <1>8 DEF Prefix, d

LEMMA Flattened ==
    ASSUME NEW S, NEW n \in Nat, NEW ss \in [1 .. n -> Seq(S)]
    PROVE  \E at : Laid(FlattenSeq(ss), ss, at, S)
<1>1. ss \in Seq(Seq(S)) /\ Len(ss) = n
  OBVIOUS
<1>2. CASE n = 0
  <2>1. FlattenSeq(ss) = ss /\ ss \in Seq(S)
    BY <1>1, <1>2 DEF FlattenSeq
  <2>2. Laid(FlattenSeq(ss), ss, [i \in 1 .. 1 |-> 0], S)
    BY <1>1, <1>2, <2>1 DEF Laid
  <2>. QED  BY <2>2
<1>3. CASE n # 0
  <2>1. \E f : IsFlattening(f, ss, n)
    BY FlatteningExists
  <2>2. PICK f : IsFlattening(f, ss, n) /\ FlattenSeq(ss) = f[n]
    <3> DEFINE g == CHOOSE f : IsFlattening(f, ss, n)
    <3>1. IsFlattening(g, ss, n)
      BY <2>1
    <3>2. FlattenSeq(ss) = g[n]
      BY <1>1, <1>3 DEF FlattenSeq, IsFlattening
    <3>. QED  BY <3>1, <3>2
  <2>3. \A i \in 1 .. n : f[i] = IF i = 1 THEN ss[i] ELSE f[i - 1] \o ss[i]
    BY <2>2 DEF IsFlattening
  <2> DEFINE at == [i \in 1 .. n + 1 |-> IF i = 1 THEN 0 ELSE Len(f[i - 1])]
             Off == {i \in Nat : i \in 1 .. n /\ ~Prefix(f[i], ss, at, i, S)}
  <2>4. \A i \in 1 .. n : ss[i] \in Seq(S) /\ Len(ss[i]) \in Nat
    OBVIOUS
  <2>5. at[1] = 0 /\ \A i \in 1 .. n : at[i + 1] = Len(f[i])
    <3>1. \A i \in 1 .. n : i + 1 \in 1 .. n + 1 /\ i + 1 # 1 /\ (i + 1) - 1 = i
      OBVIOUS
    <3>. QED  BY <3>1
  <2>6. at = [i \in 1 .. n + 1 |-> at[i]]
    OBVIOUS
  <2> HIDE DEF at
  <2>7. \A i \in 1 .. n : Prefix(f[i], ss, at, i, S)
    <3>1. ASSUME Off # {} PROVE FALSE
      <4>1. Off \in SUBSET Nat
        OBVIOUS
      <4> HIDE DEF Off
      <4>2. PICK i \in Off : \A k \in Off : i <= k
        BY <3>1, <4>1, LeastNatural
      <4> USE DEF Off
      <4>3. i \in 1 .. n /\ ~Prefix(f[i], ss, at, i, S)
        BY <4>2
      <4>4. CASE i = 1
        <5>1. f[1] = ss[1] /\ ss[1] \in Seq(S)
          BY <2>3, <2>4, <4>3, <4>4
        <5>2. \A k \in 1 .. 1 : k = 1
          OBVIOUS
        <5>3. Prefix(f[1], ss, at, 1, S)
          BY <2>5, <5>1, <5>2 DEF Prefix
        <5>. QED  BY <4>3, <4>4, <5>3
      <4>5. CASE i # 1
        <5>1. PICK h \in Nat : h = i - 1
          BY <4>3, <4>5
        <5>2. h # 0 /\ h \in 1 .. n /\ h + 1 = i /\ ~(i <= h)
          BY <4>3, <4>5, <5>1
        <5>3. h \notin Off
          BY <4>2, <5>2
        <5>4. Prefix(f[h], ss, at, h, S)
          BY <5>2, <5>3
        <5>5. f[i] = f[h] \o ss[i] /\ ss[i] \in Seq(S) /\ at[i] = Len(f[h])
          BY <2>3, <2>4, <2>5, <4>3, <4>5, <5>1, <5>2
        <5>6. ss[h + 1] \in Seq(S) /\ at[h + 1] = Len(f[h]) /\ f[i] = f[h] \o ss[h + 1]
          BY <5>2, <5>5
        <5>7. Prefix(f[h] \o ss[h + 1], ss, at, h + 1, S)
          BY <5>2, <5>4, <5>6, PrefixGrows
        <5>. QED  BY <4>3, <5>2, <5>6, <5>7
      <4>. QED  BY <4>4, <4>5
    <3>. QED  BY <3>1
  <2> HIDE DEF Off
  <2>8. f[n] \in Seq(S) /\ Len(f[n]) = at[n + 1]
    BY <1>3, <2>5, <2>7 DEF Prefix
  <2>9. at \in [1 .. n + 1 -> Nat]
    <3>1. \A i \in 1 .. n : at[i] \in Nat
      BY <2>7 DEF Prefix
    <3>2. at[n + 1] \in Nat
      BY <2>8
    <3>3. \A i \in 1 .. n + 1 : i \in 1 .. n \/ i = n + 1
      OBVIOUS
    <3>4. \A i \in 1 .. n + 1 : at[i] \in Nat
      BY <3>1, <3>2, <3>3
    <3>. QED  BY <2>6, <3>4
  <2>10. ASSUME NEW i \in 1 .. n
         PROVE  /\ at[i + 1] = at[i] + Len(ss[i])
                /\ \A j \in 1 .. Len(ss[i]) :
                      at[i] + j \in 1 .. Len(f[n]) /\ f[n][at[i] + j] = ss[i][j]
    <3>1. n \in 1 .. n
      BY <1>3
    <3>2. Prefix(f[n], ss, at, n, S) /\ Prefix(f[i], ss, at, i, S)
      BY <2>7, <3>1
    <3>. QED  BY <2>5, <3>2 DEF Prefix
  <2>11. Laid(f[n], ss, at, S)
    BY <1>1, <2>5, <2>8, <2>9, <2>10 DEF Laid
  <2>. QED  BY <2>2, <2>11
<1>. QED  BY <1>2, <1>3

-----------------------------------------------------------------------------
(* The text of a member.                                                   *)

LEMMA StructureIsText ==
    /\ Quote \in Byte /\ Colon \in Byte /\ Comma \in Byte /\ LBrace \in Byte
    /\ RBrace \in Byte /\ Nul \in Byte /\ Cnf \in Byte /\ X \in Byte /\ Y \in Byte
    /\ KeyByte \subseteq Byte
BY TextAssumption DEF KeyByte

LEMMA StructureDiffers ==
    /\ Quote # Colon /\ Quote # Comma /\ Quote # LBrace /\ Quote # RBrace
    /\ Colon # Comma /\ Colon # LBrace /\ Colon # RBrace /\ Comma # RBrace
    /\ Quote # Nul /\ Nul # LBrace /\ Nul # Comma
    /\ Escape # LBrace /\ Escape # Comma
    /\ \A k \in {X, Y, Cnf} : k \notin {Quote, Colon, Comma, LBrace, RBrace}
    /\ X # Y /\ X # Cnf /\ Y # Cnf
BY DEF Quote, Colon, Comma, LBrace, RBrace, Nul, Escape, X, Y, Cnf

\* A key byte is none of the structure's.
LEMMA KeysDiffer ==
    ASSUME NEW k \in KeyByte
    PROVE  k # Quote /\ k # Colon /\ k # Comma /\ k # LBrace /\ k # RBrace
BY DEF KeyByte

\* A text spells a member from an offset to another.
Spelled(t, b, e, m) ==
    LET v == m.val
        l == Len(m.val)
    IN  /\ t[b + 1] = Quote /\ t[b + 2] = m.key /\ t[b + 3] = Quote /\ t[b + 4] = Colon
        /\ m.kind = "string" =>
              /\ e = b + l + 6 /\ t[b + 5] = Quote
              /\ \A j \in 1 .. l : t[b + 5 + j] = v[j]
              /\ t[b + l + 6] = Quote
        /\ m.kind = "number" =>
              /\ e = b + l + 4
              /\ \A j \in 1 .. l : t[b + 4 + j] = v[j]
        /\ m.kind = "cnf" =>
              /\ e = b + l + l + 19
              /\ t[b + 5] = LBrace /\ t[b + 6] = Quote /\ t[b + 7] = X
              /\ t[b + 8] = Quote /\ t[b + 9] = Colon /\ t[b + 10] = Quote
              /\ \A j \in 1 .. l : t[b + 10 + j] = v[j]
              /\ t[b + l + 11] = Quote /\ t[b + l + 12] = Comma /\ t[b + l + 13] = Quote
              /\ t[b + l + 14] = Y /\ t[b + l + 15] = Quote /\ t[b + l + 16] = Colon
              /\ t[b + l + 17] = Quote
              /\ \A j \in 1 .. l : t[b + l + 17 + j] = v[j]
              /\ t[b + l + l + 18] = Quote /\ t[b + l + l + 19] = RBrace

\* Members whose cnf block is a holder's key.
Proper(m) == m \in Member /\ (m.kind = "cnf" => m.key = Cnf /\ Unquoted(m.val))

LEMMA KeyTextLaid ==
    ASSUME NEW k \in Byte
    PROVE  /\ SearchKey(k) \in Seq(Byte) /\ Len(SearchKey(k)) = 4
           /\ SearchKey(k)[1] = Quote /\ SearchKey(k)[2] = k
           /\ SearchKey(k)[3] = Quote /\ SearchKey(k)[4] = Colon
BY StructureIsText DEF Quoted, SearchKey

LEMMA QuotedLaid ==
    ASSUME NEW v \in Seq(Byte), NEW l, l = Len(v)
    PROVE  /\ Quoted(v) \in Seq(Byte) /\ Len(Quoted(v)) = l + 2
           /\ Quoted(v)[1] = Quote /\ Quoted(v)[l + 2] = Quote
           /\ \A j \in 1 .. l : Quoted(v)[1 + j] = v[j]
<1> DEFINE q == <<Quote>>
           a == q \o v
           c == a \o q
<1>1. l \in Nat /\ q \in Seq(Byte) /\ Len(q) = 1 /\ q[1] = Quote
  BY StructureIsText
<1> HIDE DEF q
<1>2. Joined(a, q, 1, v, l, Byte)
  BY <1>1, Join
<1> HIDE DEF a
<1>3. a \in Seq(Byte) /\ Len(a) = 1 + l /\ a[1] = Quote /\ \A j \in 1 .. l : a[1 + j] = v[j]
  BY <1>1, <1>2 DEF Joined
<1>4. Joined(c, a, 1 + l, q, 1, Byte)
  BY <1>1, <1>3, Join
<1> HIDE DEF c
<1>5. c \in Seq(Byte) /\ Len(c) = l + 2 /\ c[1] = Quote /\ c[l + 2] = Quote
  BY <1>1, <1>3, <1>4 DEF Joined
<1>6. \A j \in 1 .. l : c[1 + j] = v[j]
  <2> TAKE j \in 1 .. l
  <2> DEFINE p == 1 + j
  <2>1. p \in 1 .. 1 + l /\ a[p] = v[j]
    BY <1>1, <1>3
  <2> HIDE DEF p
  <2>2. c[p] = a[p]
    BY <1>4, <2>1 DEF Joined
  <2>. QED  BY <2>1, <2>2 DEF p
<1>. QED  BY <1>5, <1>6 DEF Quoted, a, c, q

LEMMA StringLaid ==
    ASSUME NEW m, Proper(m), m.kind = "string"
    PROVE  MemberText(m) \in Seq(Byte) /\ Spelled(MemberText(m), 0, Len(MemberText(m)), m)
<1> DEFINE v == m.val
           l == Len(v)
           a == SearchKey(m.key)
           q == Quoted(v)
           c == a \o q
<1>1. v \in Seq(Byte) /\ l \in Nat /\ m.key \in Byte
  BY StructureIsText DEF Proper, Member
<1> HIDE DEF l, v
<1>2. a \in Seq(Byte) /\ Len(a) = 4 /\ a[1] = Quote /\ a[2] = m.key /\ a[3] = Quote /\ a[4] = Colon
  BY <1>1, KeyTextLaid
<1>3. q \in Seq(Byte) /\ Len(q) = l + 2 /\ q[1] = Quote /\ q[l + 2] = Quote
      /\ \A j \in 1 .. l : q[1 + j] = v[j]
  BY <1>1, QuotedLaid DEF l
<1> HIDE DEF a, q
<1>4. Joined(c, a, 4, q, l + 2, Byte)
  BY <1>2, <1>3, Join
<1> HIDE DEF c
<1>5. c \in Seq(Byte) /\ Len(c) = l + 6 /\ c[1] = Quote /\ c[2] = m.key /\ c[3] = Quote /\ c[4] = Colon
  BY <1>1, <1>2, <1>4 DEF Joined
<1>6. c[5] = Quote /\ c[l + 6] = Quote
  <2>1. 1 \in 1 .. l + 2 /\ l + 2 \in 1 .. l + 2 /\ 4 + 1 = 5 /\ 4 + (l + 2) = l + 6
    BY <1>1
  <2>2. c[4 + 1] = q[1] /\ c[4 + (l + 2)] = q[l + 2]
    BY <1>4, <2>1 DEF Joined
  <2>. QED  BY <1>3, <2>1, <2>2
<1>7. \A j \in 1 .. l : c[5 + j] = v[j]
  <2> TAKE j \in 1 .. l
  <2> DEFINE p == 1 + j
  <2>1. p \in 1 .. l + 2 /\ q[p] = v[j] /\ 4 + p = 5 + j
    BY <1>1, <1>3
  <2> HIDE DEF p
  <2>2. c[4 + p] = q[p]
    BY <1>4, <2>1 DEF Joined
  <2>. QED  BY <2>1, <2>2
<1>8. MemberText(m) = c
  BY DEF MemberText, c, a, q, v, SearchKey
<1>. QED  BY <1>1, <1>5, <1>6, <1>7, <1>8 DEF Spelled, l, v

LEMMA NumberLaid ==
    ASSUME NEW m, Proper(m), m.kind = "number"
    PROVE  MemberText(m) \in Seq(Byte) /\ Spelled(MemberText(m), 0, Len(MemberText(m)), m)
<1> DEFINE v == m.val
           l == Len(v)
           a == SearchKey(m.key)
           c == a \o v
<1>1. v \in Seq(Byte) /\ l \in Nat /\ m.key \in Byte
  BY StructureIsText DEF Proper, Member
<1>2. l = Len(v)
  OBVIOUS
<1> HIDE DEF l, v
<1>3. a \in Seq(Byte) /\ Len(a) = 4 /\ a[1] = Quote /\ a[2] = m.key /\ a[3] = Quote /\ a[4] = Colon
  BY <1>1, KeyTextLaid
<1> HIDE DEF a
<1>4. Joined(c, a, 4, v, l, Byte)
  BY <1>1, <1>2, <1>3, Join
<1> HIDE DEF c
<1>5. c \in Seq(Byte) /\ Len(c) = l + 4 /\ c[1] = Quote /\ c[2] = m.key /\ c[3] = Quote /\ c[4] = Colon
      /\ \A j \in 1 .. l : c[4 + j] = v[j]
  BY <1>1, <1>3, <1>4 DEF Joined
<1>6. MemberText(m) = c
  BY DEF MemberText, c, a, v, SearchKey
<1>. QED  BY <1>1, <1>5, <1>6 DEF Spelled, l, v

LEMMA CnfPrefixLaid ==
    /\ CnfPrefix \in Seq(Byte) /\ Len(CnfPrefix) = 10
    /\ CnfPrefix[1] = Quote /\ CnfPrefix[2] = Cnf /\ CnfPrefix[3] = Quote
    /\ CnfPrefix[4] = Colon /\ CnfPrefix[5] = LBrace /\ CnfPrefix[6] = Quote
    /\ CnfPrefix[7] = X /\ CnfPrefix[8] = Quote /\ CnfPrefix[9] = Colon /\ CnfPrefix[10] = Quote
BY StructureIsText DEF CnfPrefix, Quoted

LEMMA CnfSeparatorLaid ==
    /\ CnfSeparator \in Seq(Byte) /\ Len(CnfSeparator) = 7
    /\ CnfSeparator[1] = Quote /\ CnfSeparator[2] = Comma /\ CnfSeparator[3] = Quote
    /\ CnfSeparator[4] = Y /\ CnfSeparator[5] = Quote /\ CnfSeparator[6] = Colon
    /\ CnfSeparator[7] = Quote
BY StructureIsText DEF CnfSeparator, Quoted

LEMMA CnfLaid ==
    ASSUME NEW m, Proper(m), m.kind = "cnf"
    PROVE  MemberText(m) \in Seq(Byte) /\ Spelled(MemberText(m), 0, Len(MemberText(m)), m)
<1> DEFINE v == m.val
           l == Len(v)
           z == <<Quote, RBrace>>
           a == CnfPrefix \o v
           b == a \o CnfSeparator
           c == b \o v
           d == c \o z
<1>1. v \in Seq(Byte) /\ l \in Nat /\ l = Len(v) /\ m.key = Cnf
  BY DEF Proper, Member
<1>2. z \in Seq(Byte) /\ Len(z) = 2 /\ z[1] = Quote /\ z[2] = RBrace
  BY StructureIsText
<1>3. MemberText(m) = d
  BY DEF MemberText, CnfBlock
<1> HIDE DEF v, l, z
<1>4. Joined(a, CnfPrefix, 10, v, l, Byte)
  BY <1>1, CnfPrefixLaid, Join
<1> HIDE DEF a
<1>5. a \in Seq(Byte) /\ Len(a) = 10 + l
  BY <1>4 DEF Joined
<1>6. Joined(b, a, 10 + l, CnfSeparator, 7, Byte)
  BY <1>5, CnfSeparatorLaid, Join
<1> HIDE DEF b
<1>7. b \in Seq(Byte) /\ Len(b) = (10 + l) + 7
  BY <1>6 DEF Joined
<1>8. Joined(c, b, (10 + l) + 7, v, l, Byte)
  BY <1>1, <1>7, Join
<1> HIDE DEF c
<1>9. c \in Seq(Byte) /\ Len(c) = ((10 + l) + 7) + l
  BY <1>8 DEF Joined
<1>10. Joined(d, c, ((10 + l) + 7) + l, z, 2, Byte)
  BY <1>2, <1>9, Join
<1> HIDE DEF d
<1>11. d \in Seq(Byte) /\ Len(d) = l + l + 19
  BY <1>1, <1>10 DEF Joined
<1>12. \A j \in 1 .. 10 : d[j] = CnfPrefix[j]
  <2> TAKE j \in 1 .. 10
  <2>1. j \in 1 .. 10 + l /\ j \in 1 .. (10 + l) + 7 /\ j \in 1 .. ((10 + l) + 7) + l
    BY <1>1
  <2>. QED  BY <2>1, <1>4, <1>6, <1>8, <1>10 DEF Joined
<1>13. \A j \in 1 .. l : d[10 + j] = v[j]
  <2> TAKE j \in 1 .. l
  <2> DEFINE p == 10 + j
  <2>1. p \in 1 .. 10 + l /\ p \in 1 .. (10 + l) + 7 /\ p \in 1 .. ((10 + l) + 7) + l
    BY <1>1
  <2>2. a[p] = v[j]
    BY <1>4 DEF Joined
  <2> HIDE DEF p
  <2>. QED  BY <2>1, <2>2, <1>6, <1>8, <1>10 DEF Joined, p
<1>14. \A j \in 1 .. 7 : d[(10 + l) + j] = CnfSeparator[j]
  <2> TAKE j \in 1 .. 7
  <2> DEFINE p == (10 + l) + j
  <2>1. p \in 1 .. (10 + l) + 7 /\ p \in 1 .. ((10 + l) + 7) + l
    BY <1>1
  <2>2. b[p] = CnfSeparator[j]
    BY <1>6 DEF Joined
  <2> HIDE DEF p
  <2>. QED  BY <2>1, <2>2, <1>8, <1>10 DEF Joined, p
<1>15. \A j \in 1 .. l : d[((10 + l) + 7) + j] = v[j]
  <2> TAKE j \in 1 .. l
  <2> DEFINE p == ((10 + l) + 7) + j
  <2>1. p \in 1 .. ((10 + l) + 7) + l
    BY <1>1
  <2>2. c[p] = v[j]
    BY <1>8 DEF Joined
  <2> HIDE DEF p
  <2>. QED  BY <2>1, <2>2, <1>10 DEF Joined, p
<1>16. \A j \in 1 .. 2 : d[(((10 + l) + 7) + l) + j] = z[j]
  BY <1>10 DEF Joined
<1>17. /\ d[1] = Quote /\ d[2] = Cnf /\ d[3] = Quote /\ d[4] = Colon /\ d[5] = LBrace
       /\ d[6] = Quote /\ d[7] = X /\ d[8] = Quote /\ d[9] = Colon /\ d[10] = Quote
  BY <1>12, CnfPrefixLaid
<1>18. /\ d[l + 11] = Quote /\ d[l + 12] = Comma /\ d[l + 13] = Quote /\ d[l + 14] = Y
       /\ d[l + 15] = Quote /\ d[l + 16] = Colon /\ d[l + 17] = Quote
  <2>1. /\ l + 11 = (10 + l) + 1 /\ l + 12 = (10 + l) + 2 /\ l + 13 = (10 + l) + 3
        /\ l + 14 = (10 + l) + 4 /\ l + 15 = (10 + l) + 5 /\ l + 16 = (10 + l) + 6
        /\ l + 17 = (10 + l) + 7
    BY <1>1
  <2>. QED  BY <1>14, <2>1, CnfSeparatorLaid
<1>19. \A j \in 1 .. l : d[l + 17 + j] = v[j]
  <2> TAKE j \in 1 .. l
  <2>1. l + 17 + j = ((10 + l) + 7) + j
    BY <1>1
  <2>. QED  BY <1>15, <2>1
<1>20. d[l + l + 18] = Quote /\ d[l + l + 19] = RBrace
  <2>1. l + l + 18 = (((10 + l) + 7) + l) + 1 /\ l + l + 19 = (((10 + l) + 7) + l) + 2
    BY <1>1
  <2>. QED  BY <1>2, <1>16, <2>1
<1>21. Spelled(d, 0, Len(d), m)
  BY <1>1, <1>11, <1>13, <1>17, <1>18, <1>19, <1>20 DEF Spelled, v, l
<1>. QED  BY <1>3, <1>11, <1>21

LEMMA MemberLaid ==
    ASSUME NEW m, Proper(m)
    PROVE  MemberText(m) \in Seq(Byte) /\ Spelled(MemberText(m), 0, Len(MemberText(m)), m)
<1>1. m.kind \in {"string", "number", "cnf"}
  BY DEF Proper, Member
<1>. QED  BY <1>1, StringLaid, NumberLaid, CnfLaid

\* A text that holds a member's text spells the member.
LEMMA SpelledThere ==
    ASSUME NEW m, Proper(m), NEW t, NEW b \in Nat, NEW e, e = b + Len(MemberText(m)),
           \A j \in 1 .. Len(MemberText(m)) : t[b + j] = MemberText(m)[j]
    PROVE  Spelled(t, b, e, m)
<1> DEFINE d == MemberText(m)
           v == m.val
           l == Len(v)
           n == Len(d)
<1>1. d \in Seq(Byte) /\ Spelled(d, 0, n, m)
  BY MemberLaid
<1>2. v \in Seq(Byte) /\ m.kind \in {"string", "number", "cnf"}
  BY DEF Proper, Member
<1>3. l \in Nat
  BY <1>2
<1> HIDE DEF d
<1>4. n \in Nat
  BY <1>1
<1> HIDE DEF n
<1>5. e = b + n /\ \A j \in 1 .. n : t[b + j] = d[j]
  BY DEF n, d
<1>6. d[1] = Quote /\ d[2] = m.key /\ d[3] = Quote /\ d[4] = Colon
  BY <1>1 DEF Spelled
<1>7. CASE m.kind = "string"
  <2>1. /\ n = l + 6 /\ d[5] = Quote /\ d[l + 6] = Quote
        /\ \A j \in 1 .. l : d[5 + j] = v[j]
    BY <1>1, <1>3, <1>4, <1>7 DEF Spelled
  <2> HIDE DEF v, l
  <2>2. \A j \in 1 .. 6 : t[b + j] = d[j]
    BY <1>3, <1>4, <1>5, <2>1
  <2>3. t[b + l + 6] = Quote
    <3>1. l + 6 \in 1 .. n /\ b + l + 6 = b + (l + 6)
      BY <1>3, <2>1
    <3>. QED  BY <1>5, <2>1, <3>1
  <2>4. ASSUME NEW j \in 1 .. l PROVE t[b + 5 + j] = v[j]
    <3>1. 5 + j \in 1 .. n /\ b + 5 + j = b + (5 + j)
      BY <1>3, <2>1
    <3>. QED  BY <1>5, <2>1, <3>1
  <2>5. e = b + l + 6
    <3>1. b + n = b + l + 6
      BY <1>3, <2>1
    <3>. QED  BY <1>5, <3>1
  <2>. QED  BY <1>6, <1>7, <2>1, <2>2, <2>3, <2>4, <2>5 DEF Spelled, v, l
<1>8. CASE m.kind = "number"
  <2>1. n = l + 4 /\ \A j \in 1 .. l : d[4 + j] = v[j]
    <3>1. n = 0 + l + 4 /\ \A j \in 1 .. l : d[0 + 4 + j] = v[j]
      BY <1>1, <1>8 DEF Spelled
    <3>. QED  BY <1>3, <3>1
  <2> HIDE DEF v, l
  <2>2. \A j \in 1 .. 4 : t[b + j] = d[j]
    BY <1>3, <1>4, <1>5, <2>1
  <2>3. ASSUME NEW j \in 1 .. l PROVE t[b + 4 + j] = v[j]
    <3>1. 4 + j \in 1 .. n /\ b + 4 + j = b + (4 + j)
      BY <1>3, <2>1
    <3>. QED  BY <1>5, <2>1, <3>1
  <2>4. e = b + l + 4
    <3>1. b + n = b + l + 4
      BY <1>3, <2>1
    <3>. QED  BY <1>5, <3>1
  <2>. QED  BY <1>6, <1>8, <2>2, <2>3, <2>4 DEF Spelled, v, l
<1>9. CASE m.kind = "cnf"
  <2>1. /\ n = l + l + 19
        /\ d[5] = LBrace /\ d[6] = Quote /\ d[7] = X /\ d[8] = Quote /\ d[9] = Colon /\ d[10] = Quote
        /\ \A j \in 1 .. l : d[10 + j] = v[j]
        /\ d[l + 11] = Quote /\ d[l + 12] = Comma /\ d[l + 13] = Quote /\ d[l + 14] = Y
        /\ d[l + 15] = Quote /\ d[l + 16] = Colon /\ d[l + 17] = Quote
        /\ \A j \in 1 .. l : d[l + 17 + j] = v[j]
        /\ d[l + l + 18] = Quote /\ d[l + l + 19] = RBrace
    BY <1>1, <1>3, <1>4, <1>9 DEF Spelled
  <2> HIDE DEF v, l
  <2>2. \A j \in 1 .. 10 : t[b + j] = d[j]
    BY <1>3, <1>4, <1>5, <2>1
  <2>3. \A j \in 11 .. 17 : t[b + l + j] = d[l + j]
    <3> TAKE j \in 11 .. 17
    <3>1. l + j \in 1 .. n /\ b + l + j = b + (l + j)
      BY <1>3, <2>1
    <3>. QED  BY <1>5, <3>1
  <2>4. \A j \in 18 .. 19 : t[b + l + l + j] = d[l + l + j]
    <3> TAKE j \in 18 .. 19
    <3>1. l + l + j \in 1 .. n /\ b + l + l + j = b + (l + l + j)
      BY <1>3, <2>1
    <3>. QED  BY <1>5, <3>1
  <2>5. ASSUME NEW j \in 1 .. l PROVE t[b + 10 + j] = v[j] /\ t[b + l + 17 + j] = v[j]
    <3>1. 10 + j \in 1 .. n /\ b + 10 + j = b + (10 + j)
      BY <1>3, <2>1
    <3>2. l + 17 + j \in 1 .. n /\ b + l + 17 + j = b + (l + 17 + j)
      BY <1>3, <2>1
    <3>. QED  BY <1>5, <2>1, <3>1, <3>2
  <2>6. e = b + l + l + 19
    <3>1. b + n = b + l + l + 19
      BY <1>3, <2>1
    <3>. QED  BY <1>5, <3>1
  <2>7. /\ t[b + 1] = Quote /\ t[b + 2] = m.key /\ t[b + 3] = Quote /\ t[b + 4] = Colon
        /\ t[b + 5] = LBrace /\ t[b + 6] = Quote /\ t[b + 7] = X /\ t[b + 8] = Quote
        /\ t[b + 9] = Colon /\ t[b + 10] = Quote
    <3>1. /\ t[b + 1] = d[1] /\ t[b + 2] = d[2] /\ t[b + 3] = d[3] /\ t[b + 4] = d[4]
          /\ t[b + 5] = d[5] /\ t[b + 6] = d[6] /\ t[b + 7] = d[7] /\ t[b + 8] = d[8]
          /\ t[b + 9] = d[9] /\ t[b + 10] = d[10]
      BY <2>2
    <3>. QED  BY <1>6, <2>1, <3>1
  <2>8. /\ t[b + l + 11] = Quote /\ t[b + l + 12] = Comma /\ t[b + l + 13] = Quote
        /\ t[b + l + 14] = Y /\ t[b + l + 15] = Quote /\ t[b + l + 16] = Colon
        /\ t[b + l + 17] = Quote /\ t[b + l + l + 18] = Quote /\ t[b + l + l + 19] = RBrace
    BY <2>1, <2>3, <2>4, SMTT(30)
  <2>. QED  BY <1>9, <2>5, <2>6, <2>7, <2>8 DEF Spelled, v, l
<1>. QED  BY <1>2, <1>7, <1>8, <1>9

-----------------------------------------------------------------------------
(* The text of a payload.                                                  *)

\* Members a payload can be made from.
Object(ms) == ms \in Seq(Member) /\ ms # <<>> /\ \A i \in 1 .. Len(ms) : Proper(ms[i])

\* Where in a payload the bytes before each member end, and what is there.
Placed(text, ms, at) ==
    /\ text \in Seq(Byte) /\ at \in [1 .. Len(ms) + 1 -> Nat] /\ at[1] = 0
    /\ Len(text) = at[Len(ms) + 1] + 1 /\ text[Len(text)] = RBrace
    /\ \A i \in 1 .. Len(ms) :
          /\ at[i + 1] = at[i] + 1 + Len(MemberText(ms[i]))
          /\ at[i + 1] < Len(text) /\ text[at[i] + 1] \in {LBrace, Comma}
          /\ Spelled(text, at[i] + 1, at[i + 1], ms[i])

\* A separator and the member after it.
LEMMA SeparatedLaid ==
    ASSUME NEW s \in Byte, NEW d \in Seq(Byte), NEW l, l = Len(d)
    PROVE  /\ <<s>> \o d \in Seq(Byte) /\ Len(<<s>> \o d) = 1 + l /\ (<<s>> \o d)[1] = s
           /\ \A j \in 1 .. l : (<<s>> \o d)[1 + j] = d[j]
<1> DEFINE q == <<s>>
<1>1. q \in Seq(Byte) /\ Len(q) = 1 /\ q[1] = s /\ l \in Nat
  OBVIOUS
<1> HIDE DEF q
<1>2. Joined(q \o d, q, 1, d, l, Byte)
  BY <1>1, Join
<1>. QED  BY <1>1, <1>2 DEF Joined, q

LEMMA PayloadLaid ==
    ASSUME NEW ms, Object(ms)
    PROVE  \E at : Placed(JsonText(ms), ms, at)
<1> DEFINE n == Len(ms)
           mt(i) == MemberText(ms[i])
           part(i) == <<Comma>> \o mt(i + 1)
           ss == [i \in 1 .. n - 1 |-> part(i)]
           h == mt(1)
           hl == Len(h)
           fl == FlattenSeq(ss)
           z == <<RBrace>>
           a == <<LBrace>> \o h
           b == a \o fl
           c == b \o z
           k == 1 + hl
           g == Len(fl)
<1>1. n \in Nat /\ n # 0
  BY DEF Object
<1>2. \A i \in 1 .. n : Proper(ms[i])
  BY DEF Object
<1> HIDE DEF n
<1>3. \A i \in 1 .. n : mt(i) \in Seq(Byte)
  BY <1>2, MemberLaid
<1>4. ASSUME NEW i \in 1 .. n - 1
      PROVE  /\ part(i) \in Seq(Byte) /\ Len(part(i)) = 1 + Len(mt(i + 1)) /\ part(i)[1] = Comma
             /\ \A j \in 1 .. Len(mt(i + 1)) : part(i)[1 + j] = mt(i + 1)[j]
  <2>1. mt(i + 1) \in Seq(Byte)
    BY <1>1, <1>3
  <2>. QED  BY <2>1, SeparatedLaid, StructureIsText
<1>5. JsonText(ms) = c
  <2>1. Head(ms) = ms[1]
    BY <1>1 DEF Object
  <2>. QED  BY <2>1 DEF JsonText, n
<1>6. h \in Seq(Byte) /\ hl \in Nat
  <2>1. h \in Seq(Byte)
    BY <1>1, <1>3
  <2>. QED  BY <2>1
<1>7. /\ a \in Seq(Byte) /\ Len(a) = 1 + hl /\ a[1] = LBrace
      /\ \A j \in 1 .. hl : a[1 + j] = h[j]
  BY <1>6, SeparatedLaid, StructureIsText
<1>8. z \in Seq(Byte) /\ Len(z) = 1 /\ z[1] = RBrace
  BY StructureIsText
<1> HIDE DEF part, mt
<1>9. PICK f : Laid(fl, ss, f, Byte)
  <2>1. n - 1 \in Nat /\ ss \in [1 .. n - 1 -> Seq(Byte)]
    BY <1>1, <1>4
  <2> HIDE DEF ss
  <2>. QED  BY <2>1, Flattened
<1>10. Len(ss) = n - 1 /\ \A i \in 1 .. n - 1 : ss[i] = part(i)
  BY <1>1
<1>11. /\ fl \in Seq(Byte) /\ f \in [1 .. n -> Nat] /\ f[1] = 0 /\ g = f[n]
       /\ \A i \in 1 .. n - 1 : f[i + 1] = f[i] + Len(part(i))
       /\ \A i \in 1 .. n - 1 : \A j \in 1 .. Len(part(i)) :
             f[i] + j \in 1 .. g /\ fl[f[i] + j] = part(i)[j]
  <2> HIDE DEF fl, ss
  <2>1. (n - 1) + 1 = n
    BY <1>1
  <2>. QED  BY <1>9, <1>10, <2>1 DEF Laid
<1> HIDE DEF ss, h, hl, fl, z, a
<1>12. k \in Nat /\ g \in Nat
  BY <1>1, <1>6, <1>11
<1>13. Joined(b, a, k, fl, g, Byte)
  BY <1>7, <1>11, <1>12, Join
<1> HIDE DEF b
<1>14. b \in Seq(Byte) /\ Len(b) = k + g
  BY <1>13 DEF Joined
<1>15. Joined(c, b, k + g, z, 1, Byte)
  BY <1>8, <1>14, Join
<1> HIDE DEF c
<1>16. c \in Seq(Byte) /\ Len(c) = k + g + 1 /\ c[k + g + 1] = RBrace
  BY <1>8, <1>12, <1>15 DEF Joined
<1>17. \A j \in 1 .. k : c[j] = a[j]
  <2> TAKE j \in 1 .. k
  <2>1. j \in 1 .. k + g
    BY <1>12
  <2>. QED  BY <1>13, <1>15, <2>1 DEF Joined
<1>18. \A j \in 1 .. g : c[k + j] = fl[j]
  <2> TAKE j \in 1 .. g
  <2>1. k + j \in 1 .. k + g
    BY <1>12
  <2>. QED  BY <1>13, <1>15, <2>1 DEF Joined
<1> DEFINE at == [i \in 1 .. n + 1 |-> IF i = 1 THEN 0 ELSE k + f[i - 1]]
<1>19. at \in [1 .. n + 1 -> Nat] /\ at[1] = 0 /\ \A i \in 1 .. n : at[i + 1] = k + f[i]
  <2>1. \A i \in 1 .. n : i + 1 \in 1 .. n + 1 /\ i + 1 # 1 /\ (i + 1) - 1 = i
    BY <1>1
  <2>2. \A i \in 1 .. n + 1 : i = 1 \/ (i # 1 /\ i - 1 \in 1 .. n)
    BY <1>1
  <2>3. at[1] = 0 /\ \A i \in 1 .. n : at[i + 1] = k + f[i]
    BY <1>1, <2>1
  <2>4. \A i \in 1 .. n : k + f[i] \in Nat
    BY <1>11, <1>12
  <2>5. \A i \in 1 .. n + 1 : (IF i = 1 THEN 0 ELSE k + f[i - 1]) \in Nat
    BY <2>2, <2>4
  <2>. QED  BY <2>3, <2>5
<1> HIDE DEF at, k
<1> HIDE DEF g
<1>20. ASSUME NEW i \in 1 .. n
       PROVE  /\ at[i + 1] = at[i] + 1 + Len(mt(i))
              /\ at[i + 1] < Len(c) /\ c[at[i] + 1] \in {LBrace, Comma}
              /\ Spelled(c, at[i] + 1, at[i + 1], ms[i])
  <2> DEFINE l == Len(mt(i))
  <2>1. l \in Nat /\ at[i] \in Nat
    <3>1. mt(i) \in Seq(Byte) /\ i \in 1 .. n + 1
      BY <1>1, <1>3
    <3>. QED  BY <1>19, <3>1
  <2>2. at[i + 1] = at[i] + 1 + l /\ at[i + 1] <= k + g /\ c[at[i] + 1] \in {LBrace, Comma}
        /\ \A j \in 1 .. l : c[at[i] + 1 + j] = mt(i)[j]
    <3>1. CASE i = 1
      <4>1. at[i] = 0 /\ at[i + 1] = k /\ mt(i) = h /\ l = hl
        BY <1>6, <1>11, <1>12, <1>19, <3>1 DEF h, hl
      <4>2. k = 1 + hl
        BY DEF k
      <4>3. c[1] = LBrace
        BY <1>6, <1>7, <1>17, <4>2
      <4>4. ASSUME NEW j \in 1 .. hl PROVE c[1 + j] = h[j]
        <5>1. 1 + j \in 1 .. k
          BY <1>6, <4>2
        <5>. QED  BY <1>7, <1>17, <5>1
      <4> HIDE DEF l
      <4>. QED  BY <4>1, <4>2, <4>3, <4>4, <1>6, <1>12
    <3>2. CASE i # 1
      <4> DEFINE p == i - 1
                 o == f[p]
                 d == part(p)
                 m == mt(i)
      <4>1. p \in 1 .. n - 1 /\ p + 1 = i /\ p \in 1 .. n
        BY <1>1, <3>2
      <4> HIDE DEF p, l
      <4>2. /\ Len(d) = 1 + l /\ d[1] = Comma
            /\ \A j \in 1 .. l : d[1 + j] = m[j]
        BY <1>4, <4>1 DEF l
      <4>3. o \in Nat /\ f[i] = o + Len(d)
            /\ \A j \in 1 .. Len(d) : o + j \in 1 .. g /\ fl[o + j] = d[j]
        BY <1>11, <4>1
      <4>4. at[i] = k + o /\ at[i + 1] = k + f[i]
        BY <1>19, <4>1
      <4> HIDE DEF o, d, m
      <4>5. \A j \in 1 .. 1 + l : o + j \in 1 .. g /\ fl[o + j] = d[j]
        BY <4>2, <4>3
      <4>6. at[i + 1] = at[i] + 1 + l /\ at[i + 1] <= k + g
        <5>1. 1 + l \in 1 .. 1 + l
          BY <2>1
        <5>2. o + (1 + l) <= g
          BY <4>5, <5>1, <1>12
        <5>3. f[i] = o + (1 + l)
          BY <4>2, <4>3
        <5>. QED  BY <1>12, <2>1, <4>3, <4>4, <5>2, <5>3
      <4>7. \A j \in 1 .. 1 + l : c[at[i] + j] = d[j]
        <5> TAKE j \in 1 .. 1 + l
        <5> DEFINE q == o + j
        <5>1. q \in 1 .. g /\ fl[q] = d[j] /\ q \in Nat
          BY <4>5, <1>12
        <5>2. at[i] + j = k + q
          BY <1>12, <2>1, <4>3, <4>4
        <5> HIDE DEF q
        <5>3. c[k + q] = fl[q]
          BY <1>18, <5>1
        <5>. QED  BY <5>1, <5>2, <5>3
      <4>8. c[at[i] + 1] = Comma
        BY <2>1, <4>2, <4>7
      <4>9. ASSUME NEW j \in 1 .. l PROVE c[at[i] + 1 + j] = m[j]
        <5>1. 1 + j \in 1 .. 1 + l /\ at[i] + 1 + j = at[i] + (1 + j)
          BY <2>1
        <5>. QED  BY <4>2, <4>7, <5>1
      <4>. QED  BY <4>6, <4>8, <4>9 DEF m
    <3>. QED  BY <3>1, <3>2
  <2>3. Spelled(c, at[i] + 1, at[i + 1], ms[i])
    <3> DEFINE b1 == at[i] + 1
               e1 == at[i + 1]
    <3>1. b1 \in Nat /\ Proper(ms[i])
      BY <1>2, <2>1
    <3>2. e1 = b1 + Len(MemberText(ms[i]))
          /\ \A j \in 1 .. Len(MemberText(ms[i])) : c[b1 + j] = MemberText(ms[i])[j]
      BY <2>2 DEF mt
    <3> HIDE DEF b1, e1
    <3>3. Spelled(c, b1, e1, ms[i])
      BY <3>1, <3>2, SpelledThere
    <3>. QED  BY <3>3 DEF b1, e1
  <2>4. at[i + 1] < Len(c)
    BY <1>12, <1>16, <2>1, <2>2
  <2> HIDE DEF l
  <2>. QED  BY <2>2, <2>3, <2>4 DEF l
<1>21. Placed(c, ms, at)
  <2>1. Len(c) = at[n + 1] + 1 /\ c[Len(c)] = RBrace
    <3>1. at[n + 1] = k + g
      BY <1>1, <1>11, <1>19
    <3>. QED  BY <1>12, <1>16, <3>1
  <2>. QED  BY <1>16, <1>19, <1>20, <2>1 DEF Placed, n, mt
<1>. QED  BY <1>5, <1>21

-----------------------------------------------------------------------------
(* Where a key can be read.                                                *)

\* In a JSON string a quote is escaped.
Guarded(v) == \A p \in 1 .. Len(v) : v[p] = Quote => p > 1 /\ v[p - 1] = Escape

\* A key in quotes before a colon, after the start of an object or a member.
KeyAt(t, s, k) ==
    /\ t[s - 1] \in {LBrace, Comma} /\ t[s] = Quote /\ t[s + 1] = k
    /\ t[s + 2] = Quote /\ t[s + 3] = Colon

\* The key that opens a member whose text starts after b, or one in its cnf.
OpensThere(s, k, b, m) ==
    \/ s = b + 1 /\ k = m.key
    \/ m.kind = "cnf" /\ s = b + 6 /\ k = X
    \/ m.kind = "cnf" /\ s = b + Len(m.val) + 13 /\ k = Y

\* No byte of a value stands where a key opens.
LEMMA ValueOpensNothing ==
    ASSUME NEW v, Guarded(v), NEW t, NEW c \in Nat, NEW l \in Nat, l = Len(v),
           \A j \in 1 .. l : t[c + j] = v[j],
           NEW s, s \in c + 1 .. c + l, t[s] = Quote, t[s - 1] \in {LBrace, Comma}
    PROVE  FALSE
<1> DEFINE j == s - c
<1>1. j \in 1 .. l /\ c + j = s
  OBVIOUS
<1> HIDE DEF j
<1>2. v[j] = Quote
  BY <1>1
<1>3. j > 1 /\ v[j - 1] = Escape
  BY <1>1, <1>2 DEF Guarded
<1>4. j - 1 \in 1 .. l /\ c + (j - 1) = s - 1
  BY <1>1, <1>3
<1>5. t[c + (j - 1)] = v[j - 1]
  BY <1>4
<1>6. t[s - 1] = Escape
  BY <1>3, <1>4, <1>5
<1>. QED  BY <1>6, StructureDiffers

LEMMA OpensInMember ==
    ASSUME NEW m, Proper(m), Guarded(m.val), NEW t, NEW b \in Nat, NEW e,
           Spelled(t, b, e, m), t[e + 1] \in {LBrace, Comma, RBrace},
           NEW k \in KeyByte, NEW s \in Int, s > b, s <= e, KeyAt(t, s, k)
    PROVE  OpensThere(s, k, b, m)
<1> DEFINE v == m.val
           l == Len(v)
<1>1. l \in Nat /\ m.key \in KeyByte /\ m.kind \in {"string", "number", "cnf"}
  BY DEF Proper, Member
<1>2. /\ t[s] = Quote /\ t[s - 1] # Quote /\ t[s - 1] # Colon /\ t[s - 1] \notin KeyByte
      /\ t[s + 1] \in KeyByte
  BY StructureDiffers, KeysDiffer DEF KeyAt
<1>3. CASE s = b + 1
  <2>1. s + 1 = b + 2
    BY <1>3
  <2>. QED  BY <1>3, <2>1 DEF OpensThere, KeyAt, Spelled
<1>4. s # b + 2 /\ s # b + 3 /\ s # b + 4
  <2>1. t[b + 2] = m.key /\ t[b + 4] = Colon
    BY DEF Spelled
  <2>2. s = b + 3 => s - 1 = b + 2
    OBVIOUS
  <2>. QED  BY <1>1, <1>2, <2>1, <2>2, StructureDiffers, KeysDiffer
<1>0. ASSUME NEW c \in Nat, \A j \in 1 .. l : t[c + j] = v[j], s \in c + 1 .. c + l
      PROVE  FALSE
  <2>1. t[s - 1] \in {LBrace, Comma} /\ l = Len(v) /\ Guarded(v)
    BY DEF KeyAt
  <2> HIDE DEF v, l
  <2>. QED  BY <1>0, <1>1, <1>2, <2>1, ValueOpensNothing
<1>5. CASE s > b + 4 /\ m.kind = "string"
  <2>1. /\ e = b + l + 6 /\ t[b + 4] = Colon /\ t[b + 5] = Quote
        /\ \A j \in 1 .. l : t[b + 5 + j] = v[j]
    BY <1>5 DEF Spelled
  <2> HIDE DEF v, l
  <2>2. s # b + 5
    <3>1. s = b + 5 => s - 1 = b + 4
      OBVIOUS
    <3>. QED  BY <1>2, <2>1, <3>1
  <2>3. s # e
    BY <1>2, KeysDiffer
  <2>4. s \in b + 5 + 1 .. b + 5 + l /\ b + 5 \in Nat
    BY <1>1, <1>5, <2>1, <2>2, <2>3
  <2> DEFINE c == b + 5
  <2>5. c \in Nat /\ (\A j \in 1 .. l : t[c + j] = v[j]) /\ s \in c + 1 .. c + l
    BY <2>1, <2>4
  <2> HIDE DEF c
  <2>. QED  BY <2>5, <1>0
<1>6. CASE s > b + 4 /\ m.kind = "number"
  <2>1. e = b + l + 4 /\ \A j \in 1 .. l : t[b + 4 + j] = v[j]
    BY <1>6 DEF Spelled
  <2> HIDE DEF v, l
  <2>2. s \in b + 4 + 1 .. b + 4 + l /\ b + 4 \in Nat
    BY <1>1, <1>6, <2>1
  <2> DEFINE c == b + 4
  <2>3. c \in Nat /\ (\A j \in 1 .. l : t[c + j] = v[j]) /\ s \in c + 1 .. c + l
    BY <2>1, <2>2
  <2> HIDE DEF c
  <2>. QED  BY <2>3, <1>0
<1>7. CASE s > b + 4 /\ m.kind = "cnf"
  <2>1. /\ e = b + l + l + 19
        /\ t[b + 5] = LBrace /\ t[b + 6] = Quote /\ t[b + 7] = X
        /\ t[b + 8] = Quote /\ t[b + 9] = Colon /\ t[b + 10] = Quote
        /\ \A j \in 1 .. l : t[b + 10 + j] = v[j]
        /\ t[b + l + 11] = Quote /\ t[b + l + 12] = Comma /\ t[b + l + 13] = Quote
        /\ t[b + l + 14] = Y /\ t[b + l + 15] = Quote /\ t[b + l + 16] = Colon
        /\ t[b + l + 17] = Quote
        /\ \A j \in 1 .. l : t[b + l + 17 + j] = v[j]
        /\ t[b + l + l + 18] = Quote /\ t[b + l + l + 19] = RBrace
    BY <1>7 DEF Spelled
  <2> HIDE DEF v, l
  <2>2. X \in KeyByte /\ Y \in KeyByte
    BY StructureIsText, StructureDiffers DEF KeyByte
  <2>3. CASE s <= b + 10
    <3>1. s # b + 5 /\ s # b + 7 /\ s # b + 9
      BY <1>2, <2>1, <2>2, StructureDiffers
    <3>2. s # b + 8 /\ s # b + 10
      <4>1. (s = b + 8 => s - 1 = b + 7) /\ (s = b + 10 => s - 1 = b + 9)
        OBVIOUS
      <4>. QED  BY <1>2, <2>1, <2>2, <4>1
    <3>3. s = b + 6 /\ s + 1 = b + 7
      BY <1>7, <2>3, <3>1, <3>2
    <3>. QED  BY <1>7, <2>1, <3>3 DEF OpensThere, KeyAt
  <2>4. CASE s \in b + 10 + 1 .. b + 10 + l
    <3> DEFINE c == b + 10
    <3>1. c \in Nat /\ (\A j \in 1 .. l : t[c + j] = v[j]) /\ s \in c + 1 .. c + l
      BY <2>1, <2>4
    <3> HIDE DEF c
    <3>. QED  BY <3>1, <1>0
  <2>5. CASE s > b + l + 10 /\ s <= b + l + 17
    <3>1. s # b + l + 12 /\ s # b + l + 14 /\ s # b + l + 16
      BY <1>2, <2>1, <2>2, StructureDiffers
    <3>2. s # b + l + 11
      <4>1. s = b + l + 11 => s + 1 = b + l + 12
        BY <1>1
      <4>. QED  BY <1>2, <2>1, <4>1, KeysDiffer
    <3>3. s # b + l + 15 /\ s # b + l + 17
      <4>1. (s = b + l + 15 => s - 1 = b + l + 14) /\ (s = b + l + 17 => s - 1 = b + l + 16)
        BY <1>1
      <4>. QED  BY <1>2, <2>1, <2>2, <4>1
    <3>4. s = b + l + 13 /\ s + 1 = b + l + 14
      BY <1>1, <2>5, <3>1, <3>2, <3>3
    <3>. QED  BY <1>7, <2>1, <3>4 DEF OpensThere, KeyAt, l, v
  <2>6. CASE s \in b + l + 17 + 1 .. b + l + 17 + l
    <3> DEFINE c == b + l + 17
    <3>1. c \in Nat /\ (\A j \in 1 .. l : t[c + j] = v[j]) /\ s \in c + 1 .. c + l
      BY <1>1, <2>1, <2>6
    <3> HIDE DEF c
    <3>. QED  BY <3>1, <1>0
  <2>7. CASE s > b + l + l + 17
    <3>1. s # b + l + l + 19
      BY <1>2, <2>1, StructureDiffers
    <3>2. s # b + l + l + 18
      <4>1. s = b + l + l + 18 => s + 1 = b + l + l + 19
        BY <1>1
      <4>. QED  BY <1>2, <2>1, <4>1, KeysDiffer
    <3>. QED  BY <1>1, <2>1, <2>7, <3>1, <3>2
  <2>8. \/ s <= b + 10
        \/ s \in b + 10 + 1 .. b + 10 + l
        \/ (s > b + l + 10 /\ s <= b + l + 17)
        \/ s \in b + l + 17 + 1 .. b + l + 17 + l
        \/ s > b + l + l + 17
    BY <1>1
  <2>. QED  BY <2>3, <2>4, <2>5, <2>6, <2>7, <2>8
<1>8. s = b + 1 \/ s > b + 4
  BY <1>4
<1>. QED  BY <1>1, <1>3, <1>5, <1>6, <1>7, <1>8

\* Every byte of a payload but the last belongs to a member or precedes one.
LEMMA Within ==
    ASSUME NEW ms, Object(ms), NEW text, NEW at, Placed(text, ms, at),
           NEW p \in Nat, p # 0, p < Len(text)
    PROVE  \E i \in 1 .. Len(ms) : at[i] < p /\ p <= at[i + 1]
<1> DEFINE n == Len(ms)
           Past == {i \in Nat : i \in 1 .. n + 1 /\ p <= at[i]}
<1>1. n \in Nat
  BY DEF Object
<1>2. at \in [1 .. n + 1 -> Nat] /\ at[1] = 0 /\ Len(text) = at[n + 1] + 1
  BY DEF Placed
<1> HIDE DEF n
<1>3. n + 1 \in Past
  BY <1>1, <1>2
<1>4. Past \in SUBSET Nat
  OBVIOUS
<1> HIDE DEF Past
<1>5. PICK i \in Past : \A j \in Past : i <= j
  BY <1>3, <1>4, LeastNatural
<1> USE DEF Past
<1>6. i \in 1 .. n + 1 /\ p <= at[i] /\ i # 1
  BY <1>2, <1>5
<1>7. PICK h \in Nat : h = i - 1
  BY <1>6
<1>8. h \in 1 .. n /\ h + 1 = i /\ h \in 1 .. n + 1 /\ ~(i <= h)
  BY <1>1, <1>6, <1>7
<1>9. h \notin Past
  BY <1>5, <1>8
<1>10. at[h] < p
  BY <1>2, <1>8, <1>9
<1>. QED  BY <1>6, <1>8, <1>10 DEF n

\* A key can be read only where a member or one of cnf's opens.
LEMMA Opens ==
    ASSUME NEW ms, Object(ms), IsJson(ms), NEW text, NEW at, Placed(text, ms, at),
           NEW k \in KeyByte, NEW s \in Nat, s # 0, s <= Len(text), KeyAt(text, s, k)
    PROVE  \E i \in 1 .. Len(ms) : OpensThere(s, k, at[i] + 1, ms[i])
<1>1. text[s] = Quote /\ text[s] # RBrace /\ Len(text) \in Nat
  BY StructureDiffers DEF KeyAt, Placed
<1>2. s # Len(text)
  BY <1>1 DEF Placed
<1>3. s < Len(text)
  BY <1>1, <1>2
<1>4. PICK i \in 1 .. Len(ms) : at[i] < s /\ s <= at[i + 1]
  BY <1>3, Within
<1>5. /\ Proper(ms[i]) /\ Guarded(ms[i].val) /\ Len(ms) \in Nat
  BY DEF Object, IsJson, Guarded
<1> DEFINE b == at[i] + 1
           e == at[i + 1]
<1>6. b \in Nat /\ e \in Nat /\ Spelled(text, b, e, ms[i]) /\ text[b] \in {LBrace, Comma}
  <2>1. i \in 1 .. Len(ms) + 1 /\ i + 1 \in 1 .. Len(ms) + 1
    BY <1>5
  <2>2. at[i] \in Nat /\ at[i + 1] \in Nat
    BY <2>1 DEF Placed
  <2>3. Spelled(text, at[i] + 1, at[i + 1], ms[i]) /\ text[at[i] + 1] \in {LBrace, Comma}
    BY DEF Placed
  <2>. QED  BY <2>2, <2>3
<1>7. text[e + 1] \in {LBrace, Comma, RBrace}
  <2>1. CASE i = Len(ms)
    <3>1. e + 1 = Len(text)
      BY <2>1 DEF Placed
    <3>. QED  BY <3>1 DEF Placed
  <2>2. CASE i # Len(ms)
    <3>1. i + 1 \in 1 .. Len(ms)
      BY <1>5, <2>2
    <3>. QED  BY <3>1 DEF Placed
  <2>. QED  BY <2>1, <2>2
<1>8. s # b
  BY <1>1, <1>6, StructureDiffers
<1>9. s > b /\ s <= e
  <2>1. at[i] \in Nat
    <3>1. i \in 1 .. Len(ms) + 1
      BY <1>5
    <3>. QED  BY <3>1 DEF Placed
  <2>. QED  BY <1>4, <1>8, <2>1
<1> HIDE DEF b, e
<1>10. OpensThere(s, k, b, ms[i])
  BY <1>5, <1>6, <1>7, <1>9, OpensInMember
<1>. QED  BY <1>10 DEF b

-----------------------------------------------------------------------------
(* Values read between quotes.                                             *)

LEMMA LeastIs ==
    ASSUME NEW T \in SUBSET Nat, T # {}
    PROVE  Least(T) \in T /\ \A r \in T : Least(T) <= r
<1>1. \E p \in T : \A r \in T : p <= r
  BY LeastNatural
<1>. QED  BY <1>1 DEF Least

LEMMA SameSequence ==
    ASSUME NEW S, NEW a \in Seq(S), NEW b \in Seq(S), Len(a) = Len(b),
           \A i \in 1 .. Len(a) : a[i] = b[i]
    PROVE  a = b
BY SeqEqual

\* Part of a sequence, counted from the element before it.
LEMMA Slice ==
    ASSUME NEW S, NEW t \in Seq(S), NEW c \in Nat, NEW l \in Nat, c + l <= Len(t)
    PROVE  /\ SubSeq(t, c + 1, c + l) \in Seq(S) /\ Len(SubSeq(t, c + 1, c + l)) = l
           /\ \A j \in 1 .. l : SubSeq(t, c + 1, c + l)[j] = t[c + j]
<1> DEFINE m == c + 1
           n == c + l
           u == SubSeq(t, m, n)
<1>1. m \in Int /\ n \in Int /\ n - m + 1 = l /\ (m <= n <=> l # 0)
  OBVIOUS
<1>2. \A i \in m .. n : t[i] \in S
  <2>1. \A i \in m .. n : i \in 1 .. Len(t)
    OBVIOUS
  <2>. QED  BY <2>1
<1>3. \A j \in 1 .. l : m + j - 1 = c + j
  OBVIOUS
<1> HIDE DEF m, n
<1>4. /\ u \in Seq(S) /\ Len(u) = IF m <= n THEN n - m + 1 ELSE 0
      /\ \A i \in 1 .. n - m + 1 : u[i] = t[m + i - 1]
  BY <1>1, <1>2, SubSeqProperties
<1> HIDE DEF u
<1>5. u \in Seq(S) /\ Len(u) = l /\ \A j \in 1 .. l : u[j] = t[c + j]
  BY <1>1, <1>3, <1>4
<1>. QED  BY <1>5 DEF u, m, n

\* What stands between an offset and the next quote.
UpToQuote(t, c, l) ==
    c \in Nat /\ l \in Nat /\ (\A j \in 1 .. l : t[c + j] # Quote) /\ t[c + l + 1] = Quote

\* A value and the quote after it, from an offset.
Holds(t, c, v) ==
    /\ c \in Nat /\ v \in Seq(Byte) /\ t[c + Len(v) + 1] = Quote
    /\ \A j \in 1 .. Len(v) : t[c + j] = v[j]

\* Reading up to a quote from where a value starts reads it up to its first.
LEMMA ReadsCut ==
    ASSUME NEW t \in Seq(Byte), NEW c, NEW v, Holds(t, c, v),
           NEW l, UpToQuote(t, c, l), c + l <= Len(t)
    PROVE  SubSeq(t, c + 1, c + l) = Cut(v)
<1> DEFINE n == Len(v)
           quotes == {p \in 1 .. n : v[p] = Quote}
           d == SubSeq(t, c + 1, c + l)
<1>1. c \in Nat /\ l \in Nat /\ v \in Seq(Byte) /\ n \in Nat
  BY DEF Holds, UpToQuote
<1>2. d \in Seq(Byte) /\ Len(d) = l /\ \A j \in 1 .. l : d[j] = t[c + j]
  BY <1>1, Slice
<1>3. t[c + n + 1] = Quote /\ \A j \in 1 .. n : t[c + j] = v[j]
  BY DEF Holds
<1>4. (\A j \in 1 .. l : t[c + j] # Quote) /\ t[c + l + 1] = Quote
  BY DEF UpToQuote
<1> HIDE DEF d, n
<1>5. l <= n
  <2>1. ASSUME l > n PROVE FALSE
    <3>1. n + 1 \in 1 .. l /\ c + (n + 1) = c + n + 1
      BY <1>1, <2>1
    <3>. QED  BY <1>3, <1>4, <3>1
  <2>. QED  BY <1>1, <2>1
<1>6. \A j \in 1 .. l : d[j] = v[j] /\ v[j] # Quote
  BY <1>1, <1>2, <1>3, <1>4, <1>5, SMTT(30)
<1>7. CASE quotes = {}
  <2>1. ASSUME l < n PROVE FALSE
    <3>1. l + 1 \in 1 .. n /\ c + (l + 1) = c + l + 1
      BY <1>1, <2>1
    <3>2. v[l + 1] = Quote
      BY <1>3, <1>4, <3>1
    <3>. QED  BY <1>7, <3>1, <3>2
  <2>2. l = n
    BY <1>1, <1>5, <2>1
  <2>3. d = v
    BY <1>1, <1>2, <1>6, <2>2, SameSequence DEF n
  <2>4. Cut(v) = v
    BY <1>7 DEF Cut, n
  <2>. QED  BY <2>3, <2>4 DEF d
<1>8. CASE quotes # {}
  <2> DEFINE q == Least(quotes)
  <2>1. q \in quotes /\ \A r \in quotes : q <= r
    <3>1. quotes \in SUBSET Nat
      BY <1>1
    <3> HIDE DEF quotes
    <3>. QED  BY <1>8, <3>1, LeastIs
  <2>2. Cut(v) = SubSeq(v, 1, q - 1)
    BY <1>8 DEF Cut, n
  <2> HIDE DEF q
  <2>3. q \in 1 .. n /\ v[q] = Quote
    BY <2>1
  <2>4. ~(q <= l)
    BY <1>1, <1>6, <2>3
  <2>5. ASSUME l + 1 < q PROVE FALSE
    <3>1. l + 1 \in 1 .. n /\ c + (l + 1) = c + l + 1
      BY <1>1, <2>3, <2>5
    <3>2. l + 1 \in quotes
      BY <1>3, <1>4, <3>1
    <3>. QED  BY <1>1, <2>1, <2>3, <2>5, <3>2
  <2>6. q - 1 = l /\ 0 + l <= n
    BY <1>1, <2>3, <2>4, <2>5
  <2> DEFINE u == SubSeq(v, 0 + 1, 0 + l)
  <2>7. u \in Seq(Byte) /\ Len(u) = l /\ \A j \in 1 .. l : u[j] = v[0 + j]
    <3>1. 0 \in Nat /\ 0 + l <= Len(v)
      BY <2>6 DEF n
    <3>. QED  BY <1>1, <3>1, Slice
  <2>8. Cut(v) = u
    <3>1. 0 + l = q - 1 /\ 0 + 1 = 1
      BY <1>1, <2>6
    <3>2. u = SubSeq(v, 1, q - 1)
      BY <3>1
    <3> HIDE DEF u
    <3>. QED  BY <2>2, <3>2
  <2> HIDE DEF u
  <2>9. \A j \in 1 .. l : d[j] = u[j]
    BY <1>1, <1>6, <2>7
  <2>10. d = u
    BY <1>2, <2>7, <2>9, SameSequence
  <2>. QED  BY <2>8, <2>10 DEF d
<1>. QED  BY <1>7, <1>8

LEMMA UnquotedIsCut ==
    ASSUME NEW v, Unquoted(v)
    PROVE  Cut(v) = v /\ v \in Seq(Byte) /\ \A p \in 1 .. Len(v) : v[p] # Quote
<1>1. v \in Seq(Byte) /\ \A p \in 1 .. Len(v) : v[p] # Quote
  BY DEF Unquoted, ToSet
<1>. QED  BY <1>1 DEF Cut

\* A key found at s and the quote r that ends its value.
FoundAt(text, k, s, r) ==
    /\ s \in Nat /\ s > 1 /\ r \in Nat /\ s + 5 <= r /\ r <= Len(text)
    /\ KeyAt(text, s, k)
    /\ text[r] = Quote /\ \A j \in Nat : s + 5 <= j /\ j < r => text[j] # Quote
    /\ FindClaimPosition(text, k)
         = [key |-> k, start |-> s - 1, value |-> SubSeq(text, s + 5, r - 1)]

LEMMA Found ==
    ASSUME NEW text \in Seq(Byte), NEW k \in KeyByte, Findable(text, k)
    PROVE  \E s, r : FoundAt(text, k, s, r)
<1> DEFINE pattern == SearchKey(k)
           found == Occurrences(text, pattern)
           s == Least(found)
           closing == ClosingQuotes(text, s)
           r == Least(closing)
<1>1. /\ pattern \in Seq(Byte) /\ Len(pattern) = 4 /\ pattern[1] = Quote /\ pattern[2] = k
      /\ pattern[3] = Quote /\ pattern[4] = Colon
  BY KeyTextLaid, StructureIsText
<1>2. Len(text) \in Nat
  OBVIOUS
<1> HIDE DEF pattern
<1>3. \A p \in found : p \in Nat /\ p # 0 /\ p + 3 <= Len(text) /\ SubSeq(text, p, p + 3) = pattern
  BY <1>1, <1>2 DEF Occurrences
<1>4. found # {} /\ found \in SUBSET Nat /\ s > 1 /\ text[s - 1] \in {LBrace, Comma} /\ closing # {}
  BY <1>3 DEF Findable, pattern
<1> HIDE DEF found
<1>5. s \in found
  BY <1>4, LeastIs
<1> HIDE DEF s
<1>6. s \in Nat /\ s + 3 <= Len(text) /\ SubSeq(text, s, s + 3) = pattern
  BY <1>3, <1>5
<1>7. text[s] = Quote /\ text[s + 1] = k /\ text[s + 2] = Quote /\ text[s + 3] = Colon
  <2> DEFINE c == s - 1
  <2>1. c \in Nat /\ c + 1 = s /\ c + 4 = s + 3 /\ c + 4 <= Len(text) /\ c + 2 = s + 1 /\ c + 3 = s + 2
    BY <1>4, <1>6
  <2> HIDE DEF c
  <2>2. \A j \in 1 .. 4 : SubSeq(text, c + 1, c + 4)[j] = text[c + j]
    BY <2>1, Slice
  <2>3. SubSeq(text, c + 1, c + 4) = pattern
    BY <1>6, <2>1
  <2>4. \A j \in 1 .. 4 : pattern[j] = text[c + j]
    BY <2>2, <2>3
  <2>5. /\ pattern[1] = text[c + 1] /\ pattern[2] = text[c + 2]
        /\ pattern[3] = text[c + 3] /\ pattern[4] = text[c + 4]
    BY <2>4
  <2>. QED  BY <1>1, <2>1, <2>5
<1>8. closing \in SUBSET Nat
  BY <1>6 DEF ClosingQuotes, ValueStart
<1>9. closing = {q \in s + 5 .. Len(text) : text[q] = Quote}
  BY DEF ClosingQuotes, ValueStart
<1> HIDE DEF closing
<1>10. r \in closing /\ \A q \in closing : r <= q
  BY <1>4, <1>8, LeastIs
<1>11. FindClaimPosition(text, k)
         = [key |-> k, start |-> s - 1, value |-> SubSeq(text, s + 5, r - 1)]
  BY DEF FindClaimPosition, s, r, closing, found, pattern, ValueStart, SearchKey
<1> HIDE DEF r
<1>12. r \in Nat /\ s + 5 <= r /\ r <= Len(text) /\ text[r] = Quote
  BY <1>2, <1>6, <1>9, <1>10
<1>13. ASSUME NEW j \in Nat, s + 5 <= j, j < r PROVE text[j] # Quote
  <2>1. j \in s + 5 .. Len(text)
    BY <1>2, <1>6, <1>12, <1>13
  <2>. QED  BY <1>9, <1>10, <1>12, <1>13, <2>1
<1>14. FoundAt(text, k, s, r)
  BY <1>4, <1>6, <1>7, <1>11, <1>12, <1>13 DEF FoundAt, KeyAt
<1>. QED  BY <1>14

-----------------------------------------------------------------------------
(* The operators the constructors use.                                     *)

LEMMA Padded ==
    ASSUME NEW s \in Seq(Byte), NEW n \in Nat
    PROVE  /\ Resize(s, n) \in Seq(Byte) /\ Len(Resize(s, n)) = n
           /\ \A i \in 1 .. n : Resize(s, n)[i] = IF i <= Len(s) THEN s[i] ELSE Nul
<1>1. \A i \in 1 .. n : (IF i <= Len(s) THEN s[i] ELSE Nul) \in Byte
  <2> TAKE i \in 1 .. n
  <2>1. i <= Len(s) => i \in 1 .. Len(s)
    OBVIOUS
  <2>. QED  BY <2>1, StructureIsText
<1>2. Resize(s, n) \in [1 .. n -> Byte]
  BY <1>1 DEF Resize
<1>. QED  BY <1>2 DEF Resize

IsKept(kept, s, S, n) ==
    kept = [i \in 0 .. n |-> IF i = 0 THEN <<>>
                             ELSE IF s[i] \in S THEN Append(kept[i - 1], s[i]) ELSE kept[i - 1]]

LEMMA KeptExists ==
    ASSUME NEW s, NEW S, NEW n \in Nat
    PROVE  \E f : IsKept(f, s, S, n)
<1> DEFINE Without == {m \in Nat : ~\E f : IsKept(f, s, S, m)}
<1>1. ASSUME n \in Without PROVE FALSE
  <2>1. Without \in SUBSET Nat /\ Without # {}
    BY <1>1
  <2> HIDE DEF Without
  <2>2. PICK m \in Without : \A k \in Without : m <= k
    BY <2>1, LeastNatural
  <2> USE DEF Without
  <2>3. CASE m = 0
    <3> DEFINE g == [i \in 0 .. 0 |-> <<>>]
    <3>1. g = [i \in 0 .. 0 |-> IF i = 0 THEN <<>>
                                ELSE IF s[i] \in S THEN Append(g[i - 1], s[i]) ELSE g[i - 1]]
      OBVIOUS
    <3> HIDE DEF g
    <3>2. IsKept(g, s, S, 0)
      BY <3>1 DEF IsKept
    <3>. QED  BY <2>2, <2>3, <3>2
  <2>4. CASE m # 0
    <3>1. m - 1 \in Nat /\ m - 1 \notin Without
      BY <2>2, <2>4
    <3>2. PICK f : IsKept(f, s, S, m - 1)
      BY <3>1
    <3> DEFINE step(h, k) == IF k = 0 THEN <<>>
                             ELSE IF s[k] \in S THEN Append(h[k - 1], s[k]) ELSE h[k - 1]
               g == [k \in 0 .. m |-> IF k < m THEN f[k] ELSE step(f, k)]
    <3>3. \A k \in 0 .. m - 1 : f[k] = step(f, k)
      BY <3>2 DEF IsKept
    <3>4. \A k \in 0 .. m : g[k] = step(g, k)
      <4> TAKE k \in 0 .. m
      <4>1. k = 0 \/ (k - 1 \in 0 .. m /\ k - 1 < m /\ k # 0)
        BY <2>2
      <4>2. CASE k < m
        <5>1. k \in 0 .. m - 1
          BY <3>1, <4>2
        <5>. QED  BY <3>3, <4>1, <4>2, <5>1
      <4>3. CASE k = m
        BY <2>4, <4>1, <4>3
      <4>. QED  BY <3>1, <4>2, <4>3
    <3>5. g = [k \in 0 .. m |-> g[k]]
      OBVIOUS
    <3> HIDE DEF g
    <3>6. IsKept(g, s, S, m)
      BY <3>4, <3>5 DEF IsKept
    <3>. QED  BY <2>2, <3>6
  <2>. QED  BY <2>3, <2>4
<1>. QED  BY <1>1

\* What is kept of a sequence is a sequence over the set.
LEMMA OnlyTyped ==
    ASSUME NEW s, NEW S, Len(s) \in Nat
    PROVE  Only(s, S) \in Seq(S)
<1> DEFINE n == Len(s)
           f == CHOOSE kept : IsKept(kept, s, S, n)
<1>1. IsKept(f, s, S, n)
  BY KeptExists
<1>2. Only(s, S) = f[n]
  BY DEF Only, IsKept
<1> HIDE DEF f
<1> DEFINE Off == {i \in Nat : i <= n /\ f[i] \notin Seq(S)}
<1>3. ASSUME Off # {} PROVE FALSE
  <2>1. Off \in SUBSET Nat
    OBVIOUS
  <2> HIDE DEF Off
  <2>2. PICK i \in Off : \A k \in Off : i <= k
    BY <1>3, <2>1, LeastNatural
  <2> USE DEF Off
  <2>3. i \in 0 .. n /\ f[i] \notin Seq(S)
    BY <2>2
  <2>4. f[i] = IF i = 0 THEN <<>>
               ELSE IF s[i] \in S THEN Append(f[i - 1], s[i]) ELSE f[i - 1]
    BY <1>1, <2>3 DEF IsKept
  <2>5. i # 0
    BY <2>3, <2>4
  <2>6. i - 1 \in Nat /\ i - 1 <= n /\ ~(i <= i - 1)
    BY <2>3, <2>5
  <2>7. f[i - 1] \in Seq(S)
    BY <2>2, <2>6
  <2>8. s[i] \in S => Append(f[i - 1], s[i]) \in Seq(S)
    BY <2>7
  <2>. QED  BY <2>3, <2>4, <2>5, <2>7, <2>8
<1>4. n \notin Off
  BY <1>3
<1>. QED  BY <1>2, <1>4

LEMMA SequenceWidens ==
    ASSUME NEW S, NEW T, S \subseteq T, NEW s \in Seq(S)
    PROVE  s \in Seq(T)
OBVIOUS

\* Which claims a definition file keeps are members, and their values' texts
\* stay texts.
LEMMA ClaimsTyped ==
    ASSUME NEW ms, Object(ms), NEW S
    PROVE  Only(JsonObject(ms), S) \in Seq(S)
<1> DEFINE firsts == {i \in 1 .. Len(ms) : \A j \in 1 .. i - 1 : ms[j].key # ms[i].key}
           first == Only([i \in 1 .. Len(ms) |-> i], firsts)
<1>1. Len(ms) \in Nat
  BY DEF Object
<1>2. first \in Seq(firsts)
  <2>1. Len([i \in 1 .. Len(ms) |-> i]) \in Nat
    BY <1>1
  <2>. QED  BY <2>1, OnlyTyped
<1> DEFINE last(i) == CHOOSE j \in 1 .. Len(ms) :
                         /\ ms[j].key = ms[i].key
                         /\ \A m \in j + 1 .. Len(ms) : ms[m].key # ms[i].key
           o == [n \in 1 .. Len(first) |-> ms[last(first[n])]]
<1>3. JsonObject(ms) = o
  BY DEF JsonObject
<1> HIDE DEF first
<1>4. Len(first) \in Nat
  BY <1>2
<1>5. Len(o) \in Nat
  BY <1>4
<1> HIDE DEF o
<1>. QED  BY <1>3, <1>5, OnlyTyped

LEMMA UnescapedTyped ==
    ASSUME NEW v \in Seq(Byte)
    PROVE  Unescaped(v) \in Seq(Byte)
<1>1. Len(v) \in Nat /\ ToSet(v) \ {Escape} \subseteq Byte
  BY DEF ToSet
<1>2. Unescaped(v) \in Seq(ToSet(v) \ {Escape})
  BY <1>1, OnlyTyped DEF Unescaped
<1>. QED  BY <1>1, <1>2, SequenceWidens

-----------------------------------------------------------------------------
(* The payloads the library writes, and room in their layouts.             *)

\* Claims a payload can be written for.
Claims(keys, values) ==
    keys \in Seq(KeyByte) /\ keys # <<>> /\ values \in [1 .. Len(keys) -> Seq(Byte)]

LEMMA StandardKeys ==
    /\ Iss \in KeyByte /\ Iat \in KeyByte /\ Cnf \in KeyByte /\ X \in KeyByte /\ Y \in KeyByte
BY TextAssumption DEF KeyByte, Iss, Iat, Cnf, X, Y, Quote, Colon, Comma, LBrace, RBrace

LEMMA CoordTyped == Coord \in Seq(Byte) /\ Unquoted(Coord)
BY TextAssumption DEF Unquoted

LEMMA Members ==
    ASSUME NEW keys, NEW values, Claims(keys, values), NEW iss \in Seq(Byte), NEW iat \in Seq(Byte)
    PROVE  /\ Object(PayloadMembers(keys, values, iss, iat))
           /\ Len(PayloadMembers(keys, values, iss, iat)) = 3 + Len(keys)
           /\ PayloadMembers(keys, values, iss, iat)[1] = Str(Iss, iss)
           /\ PayloadMembers(keys, values, iss, iat)[2] = Str(Iat, iat)
           /\ PayloadMembers(keys, values, iss, iat)[3] = CnfOf(Coord)
           /\ \A i \in 1 .. Len(keys) :
                 PayloadMembers(keys, values, iss, iat)[3 + i] = Str(keys[i], values[i])
<1> DEFINE n == Len(keys)
           a == <<Str(Iss, iss), Str(Iat, iat), CnfOf(Coord)>>
           b == [i \in 1 .. n |-> Str(keys[i], values[i])]
           c == a \o b
<1>1. n \in Nat /\ \A i \in 1 .. n : keys[i] \in KeyByte /\ values[i] \in Seq(Byte)
  BY DEF Claims
<1>2. \A k \in KeyByte : \A v \in Seq(Byte) : Str(k, v) \in Member /\ Proper(Str(k, v))
  BY DEF Str, Member, Proper
<1>3. CnfOf(Coord) \in Member /\ Proper(CnfOf(Coord))
  BY StandardKeys, CoordTyped DEF CnfOf, Member, Proper
<1>4. Str(Iss, iss) \in Member /\ Str(Iat, iat) \in Member
      /\ Proper(Str(Iss, iss)) /\ Proper(Str(Iat, iat))
  BY <1>2, StandardKeys
<1>5. \A i \in 1 .. n : Str(keys[i], values[i]) \in Member /\ Proper(Str(keys[i], values[i]))
  BY <1>1, <1>2
<1> HIDE DEF n
<1>6. a \in Seq(Member) /\ Len(a) = 3 /\ a[1] = Str(Iss, iss) /\ a[2] = Str(Iat, iat)
      /\ a[3] = CnfOf(Coord)
  BY <1>3, <1>4
<1>7. b \in Seq(Member) /\ Len(b) = n /\ \A i \in 1 .. n : b[i] = Str(keys[i], values[i])
  <2>1. b \in [1 .. n -> Member]
    BY <1>5
  <2>. QED  BY <1>1, <2>1
<1>8. PayloadMembers(keys, values, iss, iat) = c
  BY DEF PayloadMembers, n
<1> HIDE DEF a, b
<1>9. Joined(c, a, 3, b, n, Member)
  BY <1>6, <1>7, Join
<1> HIDE DEF c
<1>10. c \in Seq(Member) /\ Len(c) = 3 + n /\ c[1] = Str(Iss, iss) /\ c[2] = Str(Iat, iat)
       /\ c[3] = CnfOf(Coord) /\ \A i \in 1 .. n : c[3 + i] = Str(keys[i], values[i])
  BY <1>6, <1>7, <1>9 DEF Joined
<1>11. ASSUME NEW i \in 1 .. 3 + n PROVE Proper(c[i])
  <2>1. CASE i <= 3
    <3>1. i = 1 \/ i = 2 \/ i = 3
      BY <2>1
    <3>. QED  BY <1>3, <1>4, <1>10, <3>1
  <2>2. CASE i > 3
    <3>1. i - 3 \in 1 .. n /\ 3 + (i - 3) = i
      BY <1>1, <2>2
    <3>. QED  BY <1>5, <1>10, <3>1
  <2>. QED  BY <1>1, <2>1, <2>2
<1>12. c # <<>>
  BY <1>1, <1>10
<1>13. Object(c)
  BY <1>10, <1>11, <1>12 DEF Object
<1>. QED  BY <1>8, <1>10, <1>13 DEF n

LEMMA TextTyped ==
    ASSUME NEW ms, Object(ms)
    PROVE  JsonText(ms) \in Seq(Byte)
BY PayloadLaid DEF Placed

\* Longer members make a longer text.
LEMMA TextGrows ==
    ASSUME NEW ms, Object(ms), NEW ns, Object(ns), Len(ms) = Len(ns),
           \A i \in 1 .. Len(ms) : Len(MemberText(ms[i])) <= Len(MemberText(ns[i]))
    PROVE  Len(JsonText(ms)) <= Len(JsonText(ns))
<1> DEFINE n == Len(ms)
<1>1. PICK at : Placed(JsonText(ms), ms, at)
  BY PayloadLaid
<1>2. PICK bt : Placed(JsonText(ns), ns, bt)
  BY PayloadLaid
<1>3. n \in Nat
  BY DEF Object
<1>4. \A i \in 1 .. n : Len(MemberText(ms[i])) \in Nat /\ Len(MemberText(ns[i])) \in Nat
  <2>1. \A i \in 1 .. n : MemberText(ms[i]) \in Seq(Byte) /\ MemberText(ns[i]) \in Seq(Byte)
    BY MemberLaid DEF Object
  <2>. QED  BY <2>1
<1>5. /\ at \in [1 .. n + 1 -> Nat] /\ at[1] = 0 /\ Len(JsonText(ms)) = at[n + 1] + 1
      /\ \A i \in 1 .. n : at[i + 1] = at[i] + 1 + Len(MemberText(ms[i]))
  BY <1>1 DEF Placed
<1>6. /\ bt \in [1 .. n + 1 -> Nat] /\ bt[1] = 0 /\ Len(JsonText(ns)) = bt[n + 1] + 1
      /\ \A i \in 1 .. n : bt[i + 1] = bt[i] + 1 + Len(MemberText(ns[i]))
  BY <1>2 DEF Placed
<1>7. \A i \in 1 .. n : Len(MemberText(ms[i])) <= Len(MemberText(ns[i]))
  OBVIOUS
<1> HIDE DEF n
<1> DEFINE Off == {i \in Nat : i \in 1 .. n + 1 /\ ~(at[i] <= bt[i])}
<1>8. ASSUME Off # {} PROVE FALSE
  <2>1. Off \in SUBSET Nat
    OBVIOUS
  <2> HIDE DEF Off
  <2>2. PICK i \in Off : \A k \in Off : i <= k
    BY <1>8, <2>1, LeastNatural
  <2> USE DEF Off
  <2>3. i \in 1 .. n + 1 /\ ~(at[i] <= bt[i]) /\ i # 1
    BY <1>5, <1>6, <2>2
  <2>4. PICK h \in Nat : h = i - 1
    BY <2>3
  <2>5. h \in 1 .. n /\ h \in 1 .. n + 1 /\ h + 1 = i /\ ~(i <= h)
    BY <1>3, <2>3, <2>4
  <2>6. at[h] <= bt[h]
    BY <2>2, <2>5
  <2>7. at[i] = at[h] + 1 + Len(MemberText(ms[h])) /\ bt[i] = bt[h] + 1 + Len(MemberText(ns[h]))
    BY <1>5, <1>6, <2>5
  <2>8. at[h] \in Nat /\ bt[h] \in Nat
    BY <1>5, <1>6, <2>5
  <2>. QED  BY <1>4, <1>7, <2>3, <2>5, <2>6, <2>7, <2>8
<1>9. n + 1 \in 1 .. n + 1
  BY <1>3
<1>10. at[n + 1] <= bt[n + 1] /\ at[n + 1] \in Nat /\ bt[n + 1] \in Nat
  BY <1>5, <1>6, <1>8, <1>9
<1>. QED  BY <1>5, <1>6, <1>10

LEMMA MemberTextLength ==
    ASSUME NEW k \in KeyByte, NEW v \in Seq(Byte)
    PROVE  Len(MemberText(Str(k, v))) = Len(v) + 6
<1> DEFINE m == Str(k, v)
<1>1. Proper(m) /\ m.kind = "string" /\ m.val = v
  BY DEF Str, Member, Proper
<1> HIDE DEF m
<1>2. Spelled(MemberText(m), 0, Len(MemberText(m)), m)
  BY <1>1, MemberLaid
<1>3. Len(MemberText(m)) = 0 + Len(v) + 6
  BY <1>1, <1>2 DEF Spelled
<1>. QED  BY <1>3 DEF m

Limit == MaxValueLen \in Nat /\ IssMaxLen \in Nat /\ IatMaxLen \in Nat

LEMMA LimitsTyped == Limit
BY ExtractionAssumption DEF Limit

LEMMA LongestTyped ==
    ASSUME NEW n \in Nat
    PROVE  Longest(n) \in Seq(Byte) /\ Len(Longest(n)) = n
BY StructureIsText DEF Longest

\* The members of the payload a layout is made for.
LongestMembers(keys) ==
    PayloadMembers(keys, [i \in 1 .. Len(keys) |-> Longest(MaxValueLen)],
                   Longest(IssMaxLen), Longest(IatMaxLen))

LEMMA LongestObject ==
    ASSUME NEW keys \in Seq(KeyByte), keys # <<>>
    PROVE  /\ Claims(keys, [i \in 1 .. Len(keys) |-> Longest(MaxValueLen)])
           /\ Object(LongestMembers(keys))
           /\ MaxDecodedLen(keys) \in Nat
           /\ Len(JsonText(LongestMembers(keys))) <= MaxDecodedLen(keys)
<1> DEFINE values == [i \in 1 .. Len(keys) |-> Longest(MaxValueLen)]
           l == Len(JsonText(LongestMembers(keys)))
<1>1. Claims(keys, values)
  BY LongestTyped, LimitsTyped DEF Claims, Limit
<1>2. Object(LongestMembers(keys))
  BY <1>1, Members, LongestTyped, LimitsTyped DEF LongestMembers, Limit
<1>3. l \in Nat
  <2>1. JsonText(LongestMembers(keys)) \in Seq(Byte)
    BY <1>2, TextTyped
  <2>. QED  BY <2>1
<1>4. MaxDecodedLen(keys) = Ceil3(l)
  BY DEF MaxDecodedLen, PayloadJson, LongestMembers
<1> HIDE DEF l
<1>5. Ceil3(l) \in Nat /\ l <= Ceil3(l)
  BY <1>3 DEF Ceil3
<1>. QED  BY <1>1, <1>2, <1>4, <1>5 DEF l

\* A payload written for claims that fit fits the layout of their keys.
LEMMA WrittenFits ==
    ASSUME NEW keys, NEW values, Claims(keys, values),
           \A i \in 1 .. Len(keys) : Len(values[i]) <= MaxValueLen
    PROVE  /\ Object(PayloadMembers(keys, values, IssValue, IatValue))
           /\ Len(PayloadJson(keys, values, IssValue, IatValue)) <= MaxDecodedLen(keys)
<1> DEFINE n == Len(keys)
           longest == [i \in 1 .. Len(keys) |-> Longest(MaxValueLen)]
           ms == PayloadMembers(keys, values, IssValue, IatValue)
           ns == LongestMembers(keys)
<1>1. IssValue \in Seq(Byte) /\ IatValue \in Seq(Byte)
  BY TextAssumption DEF Unquoted
<1>2. Len(IssValue) \in Nat /\ Len(IatValue) \in Nat
      /\ Len(IssValue) <= IssMaxLen /\ Len(IatValue) <= IatMaxLen
  BY <1>1, ExtractionAssumption
<1>3. keys \in Seq(KeyByte) /\ keys # <<>> /\ n \in Nat
      /\ \A i \in 1 .. n : keys[i] \in KeyByte /\ values[i] \in Seq(Byte) /\ Len(values[i]) \in Nat
  BY DEF Claims
<1>4. /\ Object(ms) /\ Len(ms) = 3 + n
      /\ ms[1] = Str(Iss, IssValue) /\ ms[2] = Str(Iat, IatValue) /\ ms[3] = CnfOf(Coord)
      /\ \A i \in 1 .. n : ms[3 + i] = Str(keys[i], values[i])
  BY <1>1, Members
<1>5. MaxValueLen \in Nat /\ IssMaxLen \in Nat /\ IatMaxLen \in Nat
  BY LimitsTyped DEF Limit
<1>6. Claims(keys, longest)
  BY <1>3, LongestObject
<1>7. \A i \in 1 .. n : longest[i] = Longest(MaxValueLen)
  OBVIOUS
<1> HIDE DEF longest
<1>8. /\ Object(ns) /\ Len(ns) = 3 + n
      /\ ns[1] = Str(Iss, Longest(IssMaxLen)) /\ ns[2] = Str(Iat, Longest(IatMaxLen))
      /\ ns[3] = CnfOf(Coord)
      /\ \A i \in 1 .. n : ns[3 + i] = Str(keys[i], longest[i])
  <2>1. ns = PayloadMembers(keys, longest, Longest(IssMaxLen), Longest(IatMaxLen))
    BY DEF LongestMembers, longest
  <2>2. Longest(IssMaxLen) \in Seq(Byte) /\ Longest(IatMaxLen) \in Seq(Byte)
    BY <1>5, LongestTyped
  <2> HIDE DEF ns, n
  <2>. QED  BY <1>6, <2>1, <2>2, Members DEF n
<1> HIDE DEF ms, ns, n
<1>9. ASSUME NEW i \in 1 .. 3 + n
      PROVE  Len(MemberText(ms[i])) <= Len(MemberText(ns[i]))
  <2>1. CASE i = 1
    <3>1. Len(MemberText(ms[i])) = Len(IssValue) + 6
      BY <1>1, <1>4, <2>1, MemberTextLength, StandardKeys
    <3>2. Len(MemberText(ns[i])) = IssMaxLen + 6
      BY <1>5, <1>8, <2>1, MemberTextLength, StandardKeys, LongestTyped
    <3>. QED  BY <1>2, <1>5, <3>1, <3>2
  <2>2. CASE i = 2
    <3>1. Len(MemberText(ms[i])) = Len(IatValue) + 6
      BY <1>1, <1>4, <2>2, MemberTextLength, StandardKeys
    <3>2. Len(MemberText(ns[i])) = IatMaxLen + 6
      BY <1>5, <1>8, <2>2, MemberTextLength, StandardKeys, LongestTyped, SMTT(30)
    <3>. QED  BY <1>2, <1>5, <3>1, <3>2
  <2>3. CASE i = 3
    <3>1. ms[i] = ns[i] /\ Proper(ms[i])
      BY <1>4, <1>8, <2>3 DEF Object
    <3>2. MemberText(ms[i]) \in Seq(Byte)
      BY <3>1, MemberLaid
    <3>3. Len(MemberText(ms[i])) \in Nat
      BY <3>2
    <3>. QED  BY <3>1, <3>3
  <2>4. CASE i > 3
    <3> DEFINE j == i - 3
    <3>1. j \in 1 .. n /\ 3 + j = i
      BY <1>3, <2>4
    <3> HIDE DEF j
    <3>2. Len(MemberText(ms[i])) = Len(values[j]) + 6
      <4>1. ms[i] = Str(keys[j], values[j]) /\ keys[j] \in KeyByte /\ values[j] \in Seq(Byte)
        BY <1>3, <1>4, <3>1
      <4>. QED  BY <4>1, MemberTextLength
    <3>3. Len(MemberText(ns[i])) = MaxValueLen + 6
      <4>1. ns[i] = Str(keys[j], Longest(MaxValueLen)) /\ keys[j] \in KeyByte
        BY <1>3, <1>7, <1>8, <3>1
      <4>2. Longest(MaxValueLen) \in Seq(Byte) /\ Len(Longest(MaxValueLen)) = MaxValueLen
        BY <1>5, LongestTyped
      <4>. QED  BY <4>1, <4>2, MemberTextLength
    <3>4. Len(values[j]) <= MaxValueLen /\ Len(values[j]) \in Nat
      BY <1>3, <3>1 DEF n
    <3>. QED  BY <1>5, <3>2, <3>3, <3>4
  <2>5. i = 1 \/ i = 2 \/ i = 3 \/ i > 3
    OBVIOUS
  <2>. QED  BY <2>1, <2>2, <2>3, <2>4, <2>5
<1>10. Len(JsonText(ms)) <= Len(JsonText(ns))
  BY <1>4, <1>8, <1>9, TextGrows
<1>11. Len(JsonText(ms)) \in Nat /\ Len(JsonText(ns)) \in Nat
  <2>1. JsonText(ms) \in Seq(Byte) /\ JsonText(ns) \in Seq(Byte)
    BY <1>4, <1>8, TextTyped
  <2>. QED  BY <2>1
<1>12. MaxDecodedLen(keys) \in Nat /\ Len(JsonText(ns)) <= MaxDecodedLen(keys)
  BY <1>3, LongestObject DEF ns
<1>13. Len(JsonText(ms)) <= MaxDecodedLen(keys)
  BY <1>10, <1>11, <1>12
<1>. QED  BY <1>4, <1>13 DEF ms, PayloadJson

-----------------------------------------------------------------------------
(* The circuit's windows.                                                  *)

Slices == {SliceLen(MaxValueLen), SliceLen(IssMaxLen), SliceLen(IatMaxLen), CnfSliceLen}

LEMMA CnfBlockLaid ==
    CnfBlock(Coord) \in Seq(Byte) /\ Len(CnfBlock(Coord)) \in Nat
<1> DEFINE m == CnfOf(Coord)
<1>1. Proper(m)
  BY StandardKeys, CoordTyped DEF CnfOf, Member, Proper
<1>2. MemberText(m) = CnfBlock(Coord)
  BY DEF MemberText, CnfOf
<1> HIDE DEF m
<1>3. CnfBlock(Coord) \in Seq(Byte)
  BY <1>1, <1>2, MemberLaid
<1>. QED  BY <1>3

LEMMA SlicesTyped == \A l \in Slices : l \in Nat
<1>1. \A n \in Nat : SliceLen(n) \in Nat
  BY DEF SliceLen, Ceil4
<1>2. CnfSliceLen \in Nat
  BY CnfBlockLaid DEF CnfSliceLen, Ceil4
<1>. QED  BY <1>1, <1>2, LimitsTyped DEF Slices, Limit

LEMMA WidestSlice == Max(Slices) \in Nat /\ \A l \in Slices : l <= Max(Slices)
<1> DEFINE T == {n \in Nat : \A l \in Slices : l <= n}
           a == SliceLen(MaxValueLen)
           b == SliceLen(IssMaxLen)
           c == SliceLen(IatMaxLen)
           d == CnfSliceLen
<1>1. Slices = {a, b, c, d}
  BY DEF Slices
<1>2. a \in Nat /\ b \in Nat /\ c \in Nat /\ d \in Nat
  BY SlicesTyped DEF Slices
<1> HIDE DEF a, b, c, d
<1>3. \E x \in {a, b, c, d} : \A y \in {a, b, c, d} : x >= y
  <2> DEFINE p == IF a >= b THEN a ELSE b
             q == IF c >= d THEN c ELSE d
             x == IF p >= q THEN p ELSE q
  <2>1. x \in {a, b, c, d} /\ x >= a /\ x >= b /\ x >= c /\ x >= d
    BY <1>2
  <2> HIDE DEF x
  <2>. QED  BY <2>1
<1>4. \E x \in Slices : \A y \in Slices : x >= y
  BY <1>1, <1>3
<1>5. Max(Slices) \in Slices /\ \A y \in Slices : Max(Slices) >= y
  BY <1>4 DEF Max
<1> HIDE DEF T
<1>. QED  BY <1>5, SlicesTyped

\* Every window that begins within the payload fits in the padded text.
LEMMA Room ==
    ASSUME NEW d \in Nat
    PROVE  /\ PaddedJsonLen(d) \in Nat /\ d <= PaddedJsonLen(d)
           /\ \A l \in Slices : \A p \in 0 .. d : p \in ValidStarts(PaddedJsonLen(d), l)
<1> DEFINE w == Max(Slices)
           n == Ceil4(d + w)
<1>1. w \in Nat /\ \A l \in Slices : l \in Nat /\ l <= w
  BY WidestSlice, SlicesTyped
<1>2. PaddedJsonLen(d) = n
  BY DEF PaddedJsonLen, Slices
<1> HIDE DEF w
<1>3. n \in Nat /\ d + w <= n
  BY <1>1 DEF Ceil4
<1> HIDE DEF n
<1>4. ASSUME NEW l \in Slices, NEW p \in 0 .. d PROVE p \in ValidStarts(n, l)
  <2>1. l \in Nat /\ p \in Nat /\ p <= n - l
    BY <1>1, <1>3
  <2> DEFINE x == n - l
  <2>2. x \in Nat /\ p <= x
    BY <1>3, <2>1
  <2> HIDE DEF x
  <2>3. x <= (x \div 4) * 4 + 3
    BY <2>2
  <2>4. p \in 0 .. (x \div 4) * 4 + 3
    BY <2>1, <2>2, <2>3
  <2>. QED  BY <2>4 DEF ValidStarts, x
<1>. QED  BY <1>1, <1>2, <1>3, <1>4

\* A window that may be cut holds the longest value and the quotes around it.
LEMMA WindowHolds ==
    ASSUME NEW n \in Nat, NEW maxLen \in Nat, NEW start \in ValidStarts(n, SliceLen(maxLen)),
           NEW l \in 1 .. maxLen
    PROVE  start \in Nat /\ start + 7 + l <= n
<1> DEFINE z == SliceLen(maxLen)
           x == n - z
<1>1. z \in Nat /\ 1 + maxLen + 7 + 4 <= z
  BY DEF SliceLen, Ceil4
<1>2. start \in 0 .. (x \div 4) * 4 + 3
  BY DEF ValidStarts
<1>3. x \in Int
  BY <1>1
<1>4. n = x + z
  BY <1>1
<1> HIDE DEF x, z
<1>5. (x \div 4) * 4 <= x
  BY <1>3
<1>6. start \in Nat /\ start <= x + 3
  BY <1>2, <1>3, <1>5
<1>. QED  BY <1>1, <1>3, <1>4, <1>6

-----------------------------------------------------------------------------
(* What the circuit accepts and yields.                                    *)

\* The padded text begins with the payload; the rest are zero bytes.
Holding(json, text) ==
    /\ json \in Seq(Byte) /\ text \in Seq(Byte)
    /\ Len(text) \in Nat /\ Len(json) \in Nat /\ Len(text) <= Len(json)
    /\ \A i \in 1 .. Len(json) : json[i] = IF i <= Len(text) THEN text[i] ELSE Nul

Layouted(keys, text) ==
    /\ keys \in Seq(KeyByte) /\ keys # <<>> /\ text \in Seq(Byte)
    /\ Len(text) <= MaxDecodedLen(keys)

LEMMA JsonHolds ==
    ASSUME NEW keys, NEW text, Layouted(keys, text)
    PROVE  /\ Holding(CircuitJson(text, keys), text)
           /\ \A l \in Slices : \A p \in 0 .. Len(text) :
                 p \in ValidStarts(Len(CircuitJson(text, keys)), l)
<1> DEFINE d == MaxDecodedLen(keys)
           n == PaddedJsonLen(d)
           json == CircuitJson(text, keys)
<1>1. text \in Seq(Byte) /\ Len(text) \in Nat /\ Len(text) <= d /\ d \in Nat
  <2>1. keys \in Seq(KeyByte) /\ keys # <<>>
    BY DEF Layouted
  <2>2. d \in Nat
    BY <2>1, LongestObject
  <2>3. text \in Seq(Byte) /\ Len(text) <= d
    BY DEF Layouted
  <2>. QED  BY <2>2, <2>3
<1>2. json = Resize(text, n)
  BY DEF CircuitJson
<1> HIDE DEF d
<1>3. n \in Nat /\ d <= n /\ \A l \in Slices : \A p \in 0 .. d : p \in ValidStarts(n, l)
  BY <1>1, Room
<1> HIDE DEF n, json
<1>4. json \in Seq(Byte) /\ Len(json) = n
      /\ \A i \in 1 .. n : json[i] = IF i <= Len(text) THEN text[i] ELSE Nul
  BY <1>1, <1>2, <1>3, Padded
<1>5. Holding(json, text)
  BY <1>1, <1>3, <1>4 DEF Holding
<1>6. \A p \in 0 .. Len(text) : p \in 0 .. d
  BY <1>1
<1>. QED  BY <1>3, <1>4, <1>5, <1>6 DEF json

LEMMA SliceEqual ==
    ASSUME NEW json, NEW text, Holding(json, text), NEW c \in Nat, NEW l \in Nat, c + l <= Len(text)
    PROVE  SubSeq(json, c + 1, c + l) = SubSeq(text, c + 1, c + l)
<1> DEFINE a == SubSeq(json, c + 1, c + l)
           b == SubSeq(text, c + 1, c + l)
<1>1. a \in Seq(Byte) /\ Len(a) = l /\ \A j \in 1 .. l : a[j] = json[c + j]
  <2>1. c + l <= Len(json) /\ json \in Seq(Byte)
    BY DEF Holding
  <2>. QED  BY <2>1, Slice
<1>2. b \in Seq(Byte) /\ Len(b) = l /\ \A j \in 1 .. l : b[j] = text[c + j]
  <2>1. text \in Seq(Byte)
    BY DEF Holding
  <2>. QED  BY <2>1, Slice
<1> HIDE DEF a, b
<1>3. \A j \in 1 .. l : a[j] = b[j]
  <2> TAKE j \in 1 .. l
  <2>1. c + j \in 1 .. Len(json) /\ c + j <= Len(text)
    BY DEF Holding
  <2>. QED  BY <1>1, <1>2, <2>1 DEF Holding
<1>4. a = b
  BY <1>1, <1>2, <1>3, SameSequence
<1>. QED  BY <1>4 DEF a, b

LEMMA OpeningLaid ==
    ASSUME NEW k \in KeyByte
    PROVE  LET p == SearchKey(k) \o <<Quote>>
           IN  /\ p \in Seq(Byte) /\ Len(p) = 5 /\ p[1] = Quote /\ p[2] = k /\ p[3] = Quote
               /\ p[4] = Colon /\ p[5] = Quote
<1> DEFINE a == SearchKey(k)
           q == <<Quote>>
<1>1. a \in Seq(Byte) /\ Len(a) = 4 /\ a[1] = Quote /\ a[2] = k /\ a[3] = Quote /\ a[4] = Colon
  BY KeyTextLaid, StructureIsText
<1>2. q \in Seq(Byte) /\ Len(q) = 1 /\ q[1] = Quote
  BY StructureIsText
<1> HIDE DEF a, q
<1>3. Joined(a \o q, a, 4, q, 1, Byte)
  BY <1>1, <1>2, Join
<1>. QED  BY <1>1, <1>2, <1>3 DEF Joined, a, q

\* A string claim the search found is one the circuit takes.
LEMMA ClaimAccepted ==
    ASSUME NEW json, NEW text, Holding(json, text), NEW k \in KeyByte, Findable(text, k),
           NEW maxLen, maxLen \in Nat,
           \A p \in 0 .. Len(text) : p \in ValidStarts(Len(json), SliceLen(maxLen)),
           NEW c, c = FindClaimPosition(text, k),
           text[c.start + 5] = Quote, Len(c.value) \in 1 .. maxLen
    PROVE  /\ Fillable(json, c, maxLen)
           /\ KnownKeyClaim(json, k, maxLen, c.start - 1, Len(c.value))
<1>1. PICK s, r : FoundAt(text, k, s, r)
  BY Found DEF Holding
<1>2. /\ s \in Nat /\ s > 1 /\ r \in Nat /\ s + 5 <= r /\ r <= Len(text)
      /\ KeyAt(text, s, k) /\ text[r] = Quote
      /\ \A j \in Nat : s + 5 <= j /\ j < r => text[j] # Quote
  BY <1>1 DEF FoundAt
<1>3. c.start = s - 1 /\ c.value = SubSeq(text, s + 5, r - 1)
  BY <1>1 DEF FoundAt
<1> DEFINE l == r - (s + 5)
<1>4. l \in Nat /\ Len(c.value) = l
  <2> DEFINE o == s + 4
  <2>0. Len(text) \in Nat
    BY DEF Holding
  <2>1. o \in Nat /\ o + 1 = s + 5 /\ o + l = r - 1 /\ o + l <= Len(text) /\ l \in Nat
    BY <1>2, <2>0
  <2> HIDE DEF o, l
  <2>2. Len(SubSeq(text, o + 1, o + l)) = l
    BY <2>1, Slice DEF Holding
  <2>. QED  BY <1>3, <2>1, <2>2
<1>5. l \in 1 .. maxLen /\ s + 5 + l = r
  BY <1>2, <1>4
<1> HIDE DEF l
<1>6. \A j \in 1 .. r : json[j] = text[j]
  BY <1>2 DEF Holding
<1>7. text[s + 4] = Quote
  BY <1>2, <1>3
<1> DEFINE start == c.start - 1
           p == SearchKey(k) \o <<Quote>>
           u == [j \in 1 .. 5 |-> json[start + j + 1]]
<1>8. start = s - 2
  BY <1>2, <1>3
<1>9. start \in ValidStarts(Len(json), SliceLen(maxLen))
  <2>1. start \in 0 .. Len(text)
    BY <1>2, <1>8 DEF Holding
  <2>. QED  BY <2>1
<1> HIDE DEF start
<1>10. json[start + 0 + 1] \in {LBrace, Comma}
  <2>1. start + 0 + 1 = s - 1 /\ s - 1 \in 1 .. r
    BY <1>2, <1>8
  <2>. QED  BY <1>2, <1>6, <2>1 DEF KeyAt
<1>11. u = p
  <2>1. u[1] = text[s] /\ u[2] = text[s + 1] /\ u[3] = text[s + 2] /\ u[4] = text[s + 3]
        /\ u[5] = text[s + 4]
    <3>1. /\ start + 1 + 1 = s /\ start + 2 + 1 = s + 1 /\ start + 3 + 1 = s + 2
          /\ start + 4 + 1 = s + 3 /\ start + 5 + 1 = s + 4
      BY <1>2, <1>8
    <3>2. s \in 1 .. r /\ s + 1 \in 1 .. r /\ s + 2 \in 1 .. r /\ s + 3 \in 1 .. r /\ s + 4 \in 1 .. r
      BY <1>2
    <3>3. /\ json[s] = text[s] /\ json[s + 1] = text[s + 1] /\ json[s + 2] = text[s + 2]
          /\ json[s + 3] = text[s + 3] /\ json[s + 4] = text[s + 4]
      BY <1>6, <3>2
    <3>4. /\ u[1] = json[start + 1 + 1] /\ u[2] = json[start + 2 + 1] /\ u[3] = json[start + 3 + 1]
          /\ u[4] = json[start + 4 + 1] /\ u[5] = json[start + 5 + 1]
      OBVIOUS
    <3> HIDE DEF u
    <3>. QED  BY <3>1, <3>3, <3>4
  <2>2. /\ u[1] = Quote /\ u[2] = k /\ u[3] = Quote /\ u[4] = Colon /\ u[5] = Quote
    BY <1>2, <1>7, <2>1 DEF KeyAt
  <2>3. /\ p \in Seq(Byte) /\ Len(p) = 5 /\ p[1] = Quote /\ p[2] = k /\ p[3] = Quote
        /\ p[4] = Colon /\ p[5] = Quote
    BY OpeningLaid
  <2>4. u = [j \in 1 .. 5 |-> u[j]]
    OBVIOUS
  <2> HIDE DEF u, p
  <2>5. p = [j \in 1 .. 5 |-> p[j]]
    BY <2>3
  <2>6. \A j \in 1 .. 5 : j = 1 \/ j = 2 \/ j = 3 \/ j = 4 \/ j = 5
    OBVIOUS
  <2>7. \A j \in 1 .. 5 : u[j] = p[j]
    BY <2>2, <2>3, <2>6
  <2>. QED  BY <2>4, <2>5, <2>7
<1>12. json[start + (6 + l) + 1] = Quote
  <2>1. start + (6 + l) + 1 = r /\ r \in 1 .. r
    BY <1>2, <1>4, <1>5, <1>8
  <2>. QED  BY <1>2, <1>6, <2>1
<1>13. ASSUME NEW j \in 6 .. 5 + l PROVE json[start + j + 1] # Quote
  <2> DEFINE q == start + j + 1
  <2>1. q \in 1 .. r /\ q \in Nat /\ s + 5 <= q /\ q < r
    BY <1>2, <1>4, <1>5, <1>8
  <2> HIDE DEF q
  <2>2. json[q] # Quote
    BY <1>2, <1>6, <2>1
  <2>. QED  BY <2>2 DEF q
<1>14. KnownKeyClaim(json, k, maxLen, start, l)
  BY <1>5, <1>9, <1>10, <1>11, <1>12, <1>13 DEF KnownKeyClaim
<1>15. Fillable(json, c, maxLen)
  BY <1>4, <1>5, <1>9 DEF Fillable, start
<1>. QED  BY <1>4, <1>14, <1>15 DEF start

LEMMA CnfAccepted ==
    ASSUME NEW json, NEW text, Holding(json, text), CnfFindable(text),
           \A p \in 0 .. Len(text) : p \in ValidStarts(Len(json), CnfSliceLen)
    PROVE  CnfClaim(json, FindCnfStart(text))
<1> DEFINE p == Least(Occurrences(text, CnfPrefix))
           l == Len(CnfBlock(Coord))
           c == p - 1
<1>1. p \in Occurrences(text, CnfBlock(Coord))
  BY DEF CnfFindable
<1>2. FindCnfStart(text) = c
  BY DEF FindCnfStart
<1> HIDE DEF p
<1>3. Len(text) \in Nat /\ l \in Nat
  BY CnfBlockLaid DEF Holding
<1>4. p \in 1 .. Len(text) - l + 1 /\ SubSeq(text, p, p + l - 1) = CnfBlock(Coord)
  BY <1>1 DEF Occurrences
<1> HIDE DEF l
<1>5. c \in Nat /\ c + 1 = p /\ c + l = p + l - 1 /\ c + l <= Len(text) /\ c \in 0 .. Len(text)
  BY <1>3, <1>4
<1> HIDE DEF c
<1>6. SubSeq(json, c + 1, c + l) = SubSeq(text, c + 1, c + l)
  BY <1>3, <1>5, SliceEqual
<1>7. SubSeq(json, c + 1, c + l) = CnfBlock(Coord)
  BY <1>4, <1>5, <1>6
<1>8. c \in ValidStarts(Len(json), CnfSliceLen)
  BY <1>5
<1>. QED  BY <1>2, <1>7, <1>8 DEF CnfClaim, l

\* The value a witness makes the circuit read.
Reads(text, k, s, l) ==
    /\ s \in Nat /\ s > 1 /\ l \in Nat /\ s + 4 + l < Len(text)
    /\ KeyAt(text, s, k) /\ text[s + 4] = Quote /\ UpToQuote(text, s + 4, l)

LEMMA ClaimRead ==
    ASSUME NEW json, NEW text, Holding(json, text), NEW k \in KeyByte, NEW start, NEW l,
           KnownKeyClaim(json, k, MaxValueLen, start, l)
    PROVE  /\ start \in Nat /\ Reads(text, k, start + 2, l)
           /\ ClaimLeaf(json, k, start, l) = AttributeOf(k, SubSeq(text, start + 7, start + 6 + l))
<1> DEFINE p == SearchKey(k) \o <<Quote>>
           u == [j \in 1 .. 5 |-> json[start + j + 1]]
           n == Len(json)
           t == Len(text)
<1>1. n \in Nat /\ t \in Nat /\ t <= n
      /\ \A i \in 1 .. n : json[i] = IF i <= t THEN text[i] ELSE Nul
  BY DEF Holding
<1>2. /\ start \in ValidStarts(n, SliceLen(MaxValueLen)) /\ l \in 1 .. MaxValueLen
      /\ json[start + 0 + 1] \in {LBrace, Comma}
      /\ u = p
      /\ json[start + (6 + l) + 1] = Quote
      /\ \A j \in 6 .. 5 + l : json[start + j + 1] # Quote
  BY DEF KnownKeyClaim
<1> HIDE DEF n, t
<1>3. MaxValueLen \in Nat
  BY LimitsTyped DEF Limit
<1>4. start \in Nat /\ start + 7 + l <= n /\ l \in Nat
  BY <1>1, <1>2, <1>3, WindowHolds
<1>5. start + 7 + l <= t
  <2> DEFINE q == start + (6 + l) + 1
  <2>1. q \in 1 .. n /\ q = start + 7 + l
    BY <1>1, <1>4
  <2>2. json[q] = Quote
    BY <1>2
  <2> HIDE DEF q
  <2>3. q <= t
    BY <1>1, <2>1, <2>2, StructureDiffers
  <2>. QED  BY <2>1, <2>3
<1>6. \A j \in 1 .. start + 7 + l : json[j] = text[j]
  BY <1>1, <1>4, <1>5
<1>7. u[1] = Quote /\ u[2] = k /\ u[3] = Quote /\ u[4] = Colon /\ u[5] = Quote
  <2>1. p[1] = Quote /\ p[2] = k /\ p[3] = Quote /\ p[4] = Colon /\ p[5] = Quote
    BY OpeningLaid
  <2> HIDE DEF p, u
  <2>. QED  BY <1>2, <2>1
<1>8. /\ json[start + 1 + 1] = Quote /\ json[start + 2 + 1] = k /\ json[start + 3 + 1] = Quote
      /\ json[start + 4 + 1] = Colon /\ json[start + 5 + 1] = Quote
  <2>1. /\ u[1] = json[start + 1 + 1] /\ u[2] = json[start + 2 + 1] /\ u[3] = json[start + 3 + 1]
        /\ u[4] = json[start + 4 + 1] /\ u[5] = json[start + 5 + 1]
    OBVIOUS
  <2> HIDE DEF u
  <2>. QED  BY <1>7, <2>1
<1> HIDE DEF u, p
<1> DEFINE s == start + 2
<1>9. /\ s \in Nat /\ s > 1 /\ s - 1 = start + 0 + 1 /\ s = start + 1 + 1 /\ s + 1 = start + 2 + 1
      /\ s + 2 = start + 3 + 1 /\ s + 3 = start + 4 + 1 /\ s + 4 = start + 5 + 1
      /\ s + 4 + l + 1 = start + (6 + l) + 1 /\ s + 5 + l = start + 7 + l
  BY <1>4
<1> HIDE DEF s
<1>10. /\ s - 1 \in 1 .. s + 5 + l /\ s \in 1 .. s + 5 + l /\ s + 1 \in 1 .. s + 5 + l
       /\ s + 2 \in 1 .. s + 5 + l /\ s + 3 \in 1 .. s + 5 + l /\ s + 4 \in 1 .. s + 5 + l
       /\ s + 4 + l + 1 \in 1 .. s + 5 + l
  BY <1>4, <1>9
<1>11. \A j \in 1 .. s + 5 + l : json[j] = text[j]
  BY <1>6, <1>9
<1>12. KeyAt(text, s, k) /\ text[s + 4] = Quote
  <2>1. /\ json[s - 1] \in {LBrace, Comma} /\ json[s] = Quote /\ json[s + 1] = k
        /\ json[s + 2] = Quote /\ json[s + 3] = Colon /\ json[s + 4] = Quote
    BY <1>2, <1>8, <1>9
  <2>2. /\ json[s - 1] = text[s - 1] /\ json[s] = text[s] /\ json[s + 1] = text[s + 1]
        /\ json[s + 2] = text[s + 2] /\ json[s + 3] = text[s + 3] /\ json[s + 4] = text[s + 4]
    BY <1>10, <1>11
  <2>. QED  BY <2>1, <2>2 DEF KeyAt
<1>13. UpToQuote(text, s + 4, l)
  <2>1. text[s + 4 + l + 1] = Quote
    BY <1>2, <1>9, <1>10, <1>11
  <2>2. ASSUME NEW j \in 1 .. l PROVE text[s + 4 + j] # Quote
    <3> DEFINE q == s + 4 + j
    <3>1. 5 + j \in 6 .. 5 + l /\ start + (5 + j) + 1 = q /\ q \in 1 .. s + 5 + l
      BY <1>4, <1>9
    <3>2. json[start + (5 + j) + 1] # Quote
      BY <1>2, <3>1
    <3> HIDE DEF q
    <3>3. json[q] = text[q] /\ json[q] # Quote
      BY <1>11, <3>1, <3>2
    <3>. QED  BY <3>3 DEF q
  <2>3. s + 4 \in Nat
    BY <1>9
  <2>. QED  BY <1>4, <2>1, <2>2, <2>3 DEF UpToQuote
<1>14. s + 4 + l < t
  BY <1>1, <1>4, <1>5, <1>9
<1>15. SubSeq(json, start + 7, start + 6 + l) = SubSeq(text, start + 7, start + 6 + l)
  <2> DEFINE c == start + 6
  <2>1. c \in Nat /\ c + 1 = start + 7 /\ c + l = start + 6 + l /\ c + l <= Len(text)
    BY <1>1, <1>4, <1>5 DEF t
  <2> HIDE DEF c
  <2>2. SubSeq(json, c + 1, c + l) = SubSeq(text, c + 1, c + l)
    BY <1>4, <2>1, SliceEqual, ZenonT(30)
  <2>. QED  BY <2>1, <2>2
<1>. QED  BY <1>4, <1>9, <1>12, <1>13, <1>14, <1>15 DEF Reads, ClaimLeaf, AttributeOf, s, t

\* The member a value is read from.
ReadFrom(k, value, m) ==
    \/ m.kind = "string" /\ m.key = k /\ value = Cut(m.val)
    \/ m.kind = "cnf" /\ k \in {X, Y} /\ value = m.val

\* What is read is a string member's value up to its first quote, or a
\* coordinate.
LEMMA ReadsMember ==
    ASSUME NEW ms, Object(ms), IsJson(ms), NEW text, NEW at, Placed(text, ms, at),
           NEW k \in KeyByte, NEW s, NEW l, Reads(text, k, s, l)
    PROVE  \E i \in 1 .. Len(ms) : ReadFrom(k, SubSeq(text, s + 5, s + 4 + l), ms[i])
<1> DEFINE c == s + 4
           value == SubSeq(text, s + 5, s + 4 + l)
<1>1. /\ s \in Nat /\ s > 1 /\ l \in Nat /\ c + l < Len(text) /\ text \in Seq(Byte)
      /\ KeyAt(text, s, k) /\ text[c] = Quote /\ UpToQuote(text, c, l)
  BY DEF Reads, Placed
<1>2. value = SubSeq(text, c + 1, c + l) /\ c \in Nat
  <2>1. c + 1 = s + 5
    BY <1>1
  <2>. QED  BY <1>1, <2>1
<1> HIDE DEF c, value
<1>3. PICK i \in 1 .. Len(ms) : OpensThere(s, k, at[i] + 1, ms[i])
  <2>1. Len(text) \in Nat
    BY <1>1
  <2>2. s # 0 /\ s <= Len(text)
    BY <1>1, <2>1 DEF c
  <2>. QED  BY <1>1, <2>2, Opens
<1> DEFINE m == ms[i]
           v == m.val
           n == Len(v)
           b == at[i] + 1
           e == at[i + 1]
<1>4. Proper(m) /\ Guarded(v)
  BY DEF Object, IsJson, Guarded
<1>5. v \in Seq(Byte) /\ n \in Nat /\ m.kind \in {"string", "number", "cnf"}
  BY <1>4 DEF Proper, Member
<1>6. b \in Nat /\ Spelled(text, b, e, m) /\ text[e + 1] # Quote
  <2>1. Len(ms) \in Nat
    BY DEF Object
  <2>2. at[i] \in Nat /\ Spelled(text, b, e, m)
    <3>1. i \in 1 .. Len(ms) + 1
      BY <2>1
    <3>. QED  BY <3>1 DEF Placed
  <2>3. CASE i = Len(ms)
    <3>1. text[e + 1] = RBrace
      BY <2>3 DEF Placed
    <3>. QED  BY <2>2, <3>1, StructureDiffers
  <2>4. CASE i # Len(ms)
    <3>1. i + 1 \in 1 .. Len(ms)
      BY <2>1, <2>4
    <3>2. text[e + 1] \in {LBrace, Comma}
      BY <3>1 DEF Placed
    <3>. QED  BY <2>2, <3>2, StructureDiffers
  <2>. QED  BY <2>3, <2>4
<1>7. ASSUME Holds(text, c, v) PROVE value = Cut(v)
  <2>1. Len(text) \in Nat
    BY <1>1
  <2>2. c + l <= Len(text)
    BY <1>1, <1>2, <2>1
  <2> HIDE DEF v
  <2>. QED  BY <1>1, <1>2, <1>7, <2>2, ReadsCut
<1> HIDE DEF b, e
<1>8. OpensThere(s, k, b, m)
  BY <1>3 DEF b
<1> HIDE DEF m
<1>9. CASE s = b + 1 /\ k = m.key
  <2>1. c = b + 5
    BY <1>1, <1>6, <1>9 DEF c
  <2>2. CASE m.kind = "string"
    <3>1. /\ \A j \in 1 .. n : text[b + 5 + j] = v[j]
          /\ text[b + n + 6] = Quote
      BY <1>6, <2>2 DEF Spelled
    <3>2. b + n + 6 = c + n + 1
      <4> HIDE DEF n
      <4>. QED  BY <1>5, <1>6, <2>1
    <3>3. Holds(text, c, v)
      BY <1>2, <1>5, <2>1, <3>1, <3>2 DEF Holds
    <3>4. ReadFrom(k, value, m)
      BY <1>7, <1>9, <2>2, <3>3 DEF ReadFrom
    <3>. QED  BY <3>4 DEF m, value
  <2>3. CASE m.kind = "number"
    <3>1. e = b + n + 4 /\ \A j \in 1 .. n : text[b + 4 + j] = v[j]
      BY <1>6, <2>3 DEF Spelled
    <3>2. CASE n = 0
      <4>1. e + 1 = c
        BY <1>6, <2>1, <3>1, <3>2
      <4>. QED  BY <1>1, <1>6, <4>1
    <3>3. CASE n # 0
      <4>1. 1 \in 1 .. n /\ b + 4 + 1 = c
        BY <1>5, <1>6, <2>1, <3>3
      <4>2. v[1] = Quote
        BY <1>1, <3>1, <4>1
      <4>. QED  BY <1>4, <4>1, <4>2 DEF Guarded
    <3>. QED  BY <3>2, <3>3
  <2>4. CASE m.kind = "cnf"
    <3>1. text[b + 5] = LBrace
      BY <1>6, <2>4 DEF Spelled
    <3>. QED  BY <1>1, <2>1, <3>1, StructureDiffers
  <2>. QED  BY <1>5, <2>2, <2>3, <2>4
<1>10. ASSUME m.kind = "cnf", k \in {X, Y}, Holds(text, c, v)
       PROVE  ReadFrom(k, value, m)
  <2>1. Cut(v) = v
    BY <1>4, <1>10, UnquotedIsCut DEF Proper
  <2>. QED  BY <1>7, <1>10, <2>1 DEF ReadFrom
<1>11. CASE m.kind = "cnf" /\ s = b + 6 /\ k = X
  <2>1. c = b + 10
    BY <1>1, <1>6, <1>11 DEF c
  <2>2. (\A j \in 1 .. n : text[b + 10 + j] = v[j]) /\ text[b + n + 11] = Quote
    BY <1>6, <1>11 DEF Spelled
  <2>3. b + n + 11 = c + n + 1
    <3> HIDE DEF n
    <3>. QED  BY <1>5, <1>6, <2>1
  <2>4. Holds(text, c, v)
    BY <1>2, <1>5, <2>1, <2>2, <2>3 DEF Holds
  <2>5. ReadFrom(k, value, m)
    BY <1>10, <1>11, <2>4
  <2>. QED  BY <2>5 DEF m, value
<1>12. CASE m.kind = "cnf" /\ s = b + n + 13 /\ k = Y
  <2>1. c = b + n + 17
    BY <1>1, <1>5, <1>6, <1>12 DEF c
  <2>2. (\A j \in 1 .. n : text[b + n + 17 + j] = v[j]) /\ text[b + n + n + 18] = Quote
    BY <1>6, <1>12 DEF Spelled
  <2>3. b + n + n + 18 = c + n + 1
    <3> HIDE DEF n
    <3>. QED  BY <1>5, <1>6, <2>1
  <2>4. Holds(text, c, v)
    BY <1>2, <1>5, <2>1, <2>2, <2>3 DEF Holds
  <2>5. ReadFrom(k, value, m)
    BY <1>10, <1>12, <2>4
  <2>. QED  BY <2>5 DEF m, value
<1>. QED  BY <1>8, <1>9, <1>11, <1>12 DEF OpensThere

-----------------------------------------------------------------------------
(* The credential in memory.                                               *)

\* Claims the search reads as they were written.
Plain(keys, values) ==
    \A i \in 1 .. Len(keys) :
        /\ Unquoted(values[i]) /\ keys[i] \notin Standard \cup {X, Y}
        /\ \A j \in 1 .. i - 1 : keys[j] # keys[i]

LEMMA AttributeLaid ==
    ASSUME NEW k \in Byte, NEW v \in Seq(Byte), Len(v) <= MaxValueLen
    PROVE  /\ AttributeOf(k, v)[1] = k
           /\ \A p \in 1 .. Len(v) : v[p] \in ToSet(AttributeOf(k, v))
<1> DEFINE z == Resize(v, MaxValueLen)
           a == <<k>> \o z
<1>1. MaxValueLen \in Nat /\ Len(v) \in Nat
  BY LimitsTyped DEF Limit
<1>2. z \in Seq(Byte) /\ Len(z) = MaxValueLen
      /\ \A i \in 1 .. MaxValueLen : z[i] = IF i <= Len(v) THEN v[i] ELSE Nul
  BY <1>1, Padded
<1> HIDE DEF z
<1>3. a \in Seq(Byte) /\ Len(a) = 1 + MaxValueLen /\ a[1] = k
      /\ \A j \in 1 .. MaxValueLen : a[1 + j] = z[j]
  BY <1>2, SeparatedLaid
<1> HIDE DEF a
<1>4. ASSUME NEW p \in 1 .. Len(v) PROVE v[p] \in ToSet(a)
  <2>1. p \in 1 .. MaxValueLen /\ 1 + p \in 1 .. Len(a)
    BY <1>1, <1>3
  <2>2. a[1 + p] = v[p]
    BY <1>2, <1>3, <2>1
  <2>3. DOMAIN a = 1 .. Len(a)
    BY <1>3
  <2>. QED  BY <2>1, <2>2, <2>3 DEF ToSet
<1>. QED  BY <1>3, <1>4 DEF AttributeOf, a, z

LEMMA PlainList ==
    ASSUME NEW keys, NEW values, Claims(keys, values),
           \A i \in 1 .. Len(keys) : Len(values[i]) <= MaxValueLen,
           ~Misread([i \in 1 .. Len(values) |-> AttributeOf(keys[i], values[i])])
    PROVE  Plain(keys, values)
<1> DEFINE n == Len(keys)
           list == [i \in 1 .. Len(values) |-> AttributeOf(keys[i], values[i])]
<1>1. n \in Nat /\ Len(values) = n /\ \A i \in 1 .. n : keys[i] \in KeyByte /\ values[i] \in Seq(Byte)
  BY DEF Claims
<1>2. \A i \in 1 .. n : Len(values[i]) <= MaxValueLen
  OBVIOUS
<1>3. ~Misread(list)
  OBVIOUS
<1>4. Len(list) = n /\ \A i \in 1 .. n : list[i] = AttributeOf(keys[i], values[i])
  BY <1>1
<1> HIDE DEF list, n
<1>5. \A i \in 1 .. n : /\ list[i][1] = keys[i]
                        /\ \A p \in 1 .. Len(values[i]) : values[i][p] \in ToSet(list[i])
  BY <1>1, <1>2, <1>4, AttributeLaid, StructureIsText
<1>6. \A i \in 1 .. n : /\ \A j \in 1 .. i - 1 : list[j][1] # list[i][1]
                        /\ list[i][1] \notin Standard \cup {X, Y}
                        /\ Quote \notin ToSet(list[i])
  BY <1>3, <1>4 DEF Misread
<1>7. ASSUME NEW i \in 1 .. n
      PROVE  /\ Unquoted(values[i]) /\ keys[i] \notin Standard \cup {X, Y}
             /\ \A j \in 1 .. i - 1 : keys[j] # keys[i]
  <2>1. values[i] \in Seq(Byte) /\ \A p \in 1 .. Len(values[i]) : values[i][p] # Quote
    BY <1>1, <1>5, <1>6
  <2>2. Unquoted(values[i])
    BY <2>1 DEF Unquoted, ToSet
  <2>3. \A j \in 1 .. i - 1 : j \in 1 .. n
    BY <1>1
  <2>. QED  BY <1>5, <1>6, <2>2, <2>3
<1>. QED  BY <1>7 DEF Plain, n

LEMMA PlainIsJson ==
    ASSUME NEW keys, NEW values, Claims(keys, values), Plain(keys, values)
    PROVE  \A i \in 1 .. 3 + Len(keys) :
              Unquoted(PayloadMembers(keys, values, IssValue, IatValue)[i].val)
<1> DEFINE ms == PayloadMembers(keys, values, IssValue, IatValue)
<1>1. Unquoted(IssValue) /\ Unquoted(IatValue) /\ Unquoted(Coord)
      /\ IssValue \in Seq(Byte) /\ IatValue \in Seq(Byte)
  BY TextAssumption DEF Unquoted
<1>2. /\ ms[1] = Str(Iss, IssValue) /\ ms[2] = Str(Iat, IatValue) /\ ms[3] = CnfOf(Coord)
      /\ \A i \in 1 .. Len(keys) : ms[3 + i] = Str(keys[i], values[i])
  BY <1>1, Members
<1>3. Len(keys) \in Nat
  BY DEF Claims
<1> HIDE DEF ms
<1>4. ASSUME NEW i \in 1 .. 3 + Len(keys) PROVE Unquoted(ms[i].val)
  <2>1. CASE i <= 3
    <3>1. i = 1 \/ i = 2 \/ i = 3
      BY <2>1
    <3>. QED  BY <1>1, <1>2, <3>1 DEF Str, CnfOf
  <2>2. CASE i > 3
    <3>1. i - 3 \in 1 .. Len(keys) /\ 3 + (i - 3) = i
      BY <1>3, <2>2
    <3>2. ms[i] = Str(keys[i - 3], values[i - 3])
      BY <1>2, <3>1
    <3>. QED  BY <3>1, <3>2 DEF Plain, Str
  <2>. QED  BY <1>3, <2>1, <2>2
<1>. QED  BY <1>4 DEF ms

\* The search finds a plain claim's own value.
LEMMA WrittenValue ==
    ASSUME NEW keys, NEW values, Claims(keys, values), Plain(keys, values),
           NEW text, text = PayloadJson(keys, values, IssValue, IatValue),
           NEW i \in 1 .. Len(keys), Findable(text, keys[i])
    PROVE  FindClaimPosition(text, keys[i]).value = values[i]
<1> DEFINE ms == PayloadMembers(keys, values, IssValue, IatValue)
           k == keys[i]
           v == values[i]
           n == Len(keys)
<1>1. IssValue \in Seq(Byte) /\ IatValue \in Seq(Byte)
  BY TextAssumption DEF Unquoted
<1>2. /\ Object(ms) /\ Len(ms) = 3 + n
      /\ ms[1] = Str(Iss, IssValue) /\ ms[2] = Str(Iat, IatValue) /\ ms[3] = CnfOf(Coord)
      /\ \A j \in 1 .. n : ms[3 + j] = Str(keys[j], values[j])
  BY <1>1, Members
<1>3. \A j \in 1 .. 3 + n : Unquoted(ms[j].val)
  BY PlainIsJson
<1>4. n \in Nat /\ \A j \in 1 .. n : keys[j] \in KeyByte
  BY DEF Claims
<1>5. PICK at : Placed(text, ms, at)
  BY <1>2, PayloadLaid DEF PayloadJson
<1> HIDE DEF ms
<1>6. IsJson(ms)
  <2>1. \A j \in 1 .. Len(ms) : \A p \in 1 .. Len(ms[j].val) : ms[j].val[p] # Quote
    BY <1>2, <1>3, UnquotedIsCut
  <2>. QED  BY <2>1 DEF IsJson
<1>7. k \in KeyByte /\ text \in Seq(Byte)
  BY <1>4, <1>5 DEF Placed
<1>8. PICK s, r : FoundAt(text, k, s, r)
  BY <1>7, Found
<1>9. /\ s \in Nat /\ s > 1 /\ r \in Nat /\ s + 5 <= r /\ r <= Len(text) /\ KeyAt(text, s, k)
      /\ text[r] = Quote /\ \A j \in Nat : s + 5 <= j /\ j < r => text[j] # Quote
      /\ FindClaimPosition(text, k).value = SubSeq(text, s + 5, r - 1)
  BY <1>8 DEF FoundAt
<1>10. k \notin Standard \cup {X, Y} /\ (\A j \in 1 .. n : keys[j] = k => j = i) /\ Unquoted(v)
  <2>1. ASSUME NEW j \in 1 .. n, keys[j] = k, j # i PROVE FALSE
    <3>1. j \in 1 .. i - 1 \/ i \in 1 .. j - 1
      BY <1>4, <2>1
    <3>. QED  BY <2>1, <3>1 DEF Plain
  <2>. QED  BY <2>1 DEF Plain
<1>11. PICK j \in 1 .. Len(ms) : OpensThere(s, k, at[j] + 1, ms[j])
  <2>1. s # 0 /\ s <= Len(text)
    <3>1. Len(text) \in Nat
      BY <1>7
    <3>. QED  BY <1>9, <3>1
  <2>. QED  BY <1>2, <1>5, <1>6, <1>7, <1>9, <2>1, Opens
<1>12. s = (at[j] + 1) + 1 /\ ms[j].key = k
  BY <1>10, <1>11 DEF OpensThere
<1>13. ms[j] = Str(k, v)
  <2>1. CASE j <= 3
    <3>1. j = 1 \/ j = 2 \/ j = 3
      BY <2>1
    <3>2. ms[j].key \in Standard
      BY <1>2, <3>1 DEF Str, CnfOf, Standard
    <3>. QED  BY <1>10, <1>12, <3>2
  <2>2. CASE j > 3
    <3>1. j - 3 \in 1 .. n /\ 3 + (j - 3) = j
      BY <1>2, <1>4, <2>2
    <3>2. ms[j] = Str(keys[j - 3], values[j - 3])
      BY <1>2, <3>1
    <3>3. keys[j - 3] = k
      BY <1>12, <3>2 DEF Str
    <3>4. j - 3 = i
      BY <1>10, <3>1, <3>3
    <3>. QED  BY <3>2, <3>4
  <2>. QED  BY <1>2, <1>4, <2>1, <2>2
<1> HIDE DEF v
<1>14. Cut(v) = v /\ v \in Seq(Byte) /\ Len(v) \in Nat
  BY <1>10, UnquotedIsCut
<1> DEFINE b == at[j] + 1
           c == b + 5
           l == r - (s + 5)
<1>15. b \in Nat
  <2>1. j \in 1 .. Len(ms) + 1
    BY <1>2, <1>4
  <2>2. at[j] \in Nat
    BY <1>5, <2>1 DEF Placed
  <2>. QED  BY <2>2
<1>16. Spelled(text, b, at[j + 1], Str(k, v))
  BY <1>5, <1>13 DEF Placed
<1> HIDE DEF b
<1>17. (\A p \in 1 .. Len(v) : text[b + 5 + p] = v[p]) /\ text[b + Len(v) + 6] = Quote
  BY <1>16 DEF Spelled, Str
<1>18. Holds(text, c, v)
  <2>1. b + Len(v) + 6 = c + Len(v) + 1 /\ c \in Nat
    BY <1>14, <1>15
  <2>. QED  BY <1>14, <1>17, <2>1 DEF Holds
<1>19. /\ c = s + 4 /\ c \in Nat /\ l \in Nat /\ c + l + 1 = r /\ c + 1 = s + 5 /\ c + l = r - 1
       /\ \A p \in 1 .. l : c + p \in Nat /\ s + 5 <= c + p /\ c + p < r
  <2>1. s = b + 1
    BY <1>12 DEF b
  <2>2. s \in Nat /\ r \in Nat /\ s + 5 <= r
    BY <1>9
  <2>. QED  BY <1>15, <2>1, <2>2
<1> HIDE DEF c, l
<1>20. UpToQuote(text, c, l)
  BY <1>9, <1>19 DEF UpToQuote
<1>21. c + l <= Len(text)
  <2>1. Len(text) \in Nat
    BY <1>7
  <2>. QED  BY <1>9, <1>19, <2>1
<1>22. SubSeq(text, c + 1, c + l) = Cut(v)
  BY <1>7, <1>18, <1>20, <1>21, ReadsCut
<1>. QED  BY <1>9, <1>14, <1>19, <1>22 DEF v

-----------------------------------------------------------------------------
(* The inductive invariant.                                                *)

\* The library wrote the payload for these values.
WrittenFor(c, ms, values) ==
    /\ Claims(c.keys, values) /\ \A i \in 1 .. Len(c.keys) : Len(values[i]) \in 1 .. MaxValueLen
    /\ ms = PayloadMembers(c.keys, values, IssValue, IatValue)
    /\ c = Credential(JsonText(ms), c.keys, values)

\* A credential says where its claims are in the text of its members.
Held(c, ms, written) ==
    /\ Object(ms) /\ c.payload = JsonText(ms)
    /\ Layouted(c.keys, c.payload) /\ Parsable(c.payload, c.keys)
    /\ \/ written /\ \E values : WrittenFor(c, ms, values)
       \/ ~written /\ c = LoadedCredential(JsonText(ms), c.keys)

TextIInv ==
    /\ built \in BOOLEAN
    /\ jwt # None => Object(jwt.members) /\ jwt.payload = JsonText(jwt.members)
    /\ cred # None => Held(cred, members, built)

IInv == TextIInv /\ ListOpensBase

LEMMA HeldFields ==
    ASSUME NEW c, NEW ms, NEW written, Held(c, ms, written)
    PROVE  /\ c.claims = [i \in 1 .. Len(c.keys) |-> FindClaimPosition(c.payload, c.keys[i])]
           /\ c.iss = FindClaimPosition(c.payload, Iss) /\ c.iat = FindClaimPosition(c.payload, Iat)
           /\ c.cnf = FindCnfStart(c.payload)
<1>1. c.payload = JsonText(ms)
  BY DEF Held
<1>2. \E values : c = Credential(JsonText(ms), c.keys, values)
  BY DEF Held, WrittenFor, LoadedCredential
<1>3. PICK values : c = Credential(JsonText(ms), c.keys, values)
  BY <1>2
<1> DEFINE text == JsonText(ms)
           keys == c.keys
<1>4. c = Credential(text, keys, values)
  BY <1>3
<1> HIDE DEF text, keys
<1>5. /\ c.claims = [i \in 1 .. Len(keys) |-> FindClaimPosition(text, keys[i])]
      /\ c.iss = FindClaimPosition(text, Iss) /\ c.iat = FindClaimPosition(text, Iat)
      /\ c.cnf = FindCnfStart(text)
  BY <1>4 DEF Credential, Parsed
<1>. QED  BY <1>1, <1>5 DEF text, keys

\* What signing claims leaves in memory.
LEMMA Signed ==
    ASSUME NEW keys, NEW values, Claims(keys, values), SignClaims(keys, values)
    PROVE  Held(cred', members', built') /\ built' = TRUE /\ UNCHANGED <<jwt, base>>
<1> DEFINE ms == PayloadMembers(keys, values, IssValue, IatValue)
           text == PayloadJson(keys, values, IssValue, IatValue)
           c == Credential(text, keys, values)
<1>1. /\ Len(keys) = Len(values) /\ \A i \in 1 .. Len(values) : Len(values[i]) \in 1 .. MaxValueLen
      /\ Parsable(text, keys)
      /\ cred' = c /\ members' = ms /\ built' = TRUE /\ UNCHANGED <<jwt, base>>
  BY DEF SignClaims, BuiltCredential
<1>2. \A i \in 1 .. Len(keys) : Len(values[i]) \in 1 .. MaxValueLen /\ Len(values[i]) <= MaxValueLen
  BY <1>1
<1>3. Object(ms) /\ Len(text) <= MaxDecodedLen(keys)
  BY <1>2, WrittenFits
<1>4. text = JsonText(ms) /\ text \in Seq(Byte)
  BY <1>3, TextTyped DEF PayloadJson
<1>5. c.payload = text /\ c.keys = keys
  BY DEF Credential
<1>6. Layouted(c.keys, c.payload)
  BY <1>3, <1>4, <1>5 DEF Layouted, Claims
<1>7. WrittenFor(c, ms, values)
  BY <1>2, <1>4, <1>5 DEF WrittenFor
<1>8. Held(c, ms, TRUE)
  BY <1>1, <1>3, <1>4, <1>5, <1>6, <1>7 DEF Held
<1>. QED  BY <1>1, <1>8

\* The claims taken from a definition file.
LEMMA DefinitionTyped ==
    ASSUME NEW ms, Object(ms), NEW S, S \subseteq ToSet(ms), NEW claims,
           claims = Only(JsonObject(ms), S),
           [i \in 1 .. Len(claims) |-> claims[i].key] # <<>>
    PROVE  Claims([i \in 1 .. Len(claims) |-> claims[i].key],
                  [i \in 1 .. Len(claims) |-> Unescaped(claims[i].val)])
<1> DEFINE n == Len(claims)
           keys == [i \in 1 .. n |-> claims[i].key]
           values == [i \in 1 .. n |-> Unescaped(claims[i].val)]
<1>1. claims \in Seq(S)
  BY ClaimsTyped
<1>2. S \subseteq Member
  BY DEF Object, ToSet
<1>3. n \in Nat /\ \A i \in 1 .. n : claims[i] \in Member
  BY <1>1, <1>2
<1> HIDE DEF n
<1>4. \A i \in 1 .. n : claims[i].key \in KeyByte /\ claims[i].val \in Seq(Byte)
  BY <1>3 DEF Member
<1>5. keys \in [1 .. n -> KeyByte] /\ values \in [1 .. n -> Seq(Byte)]
  BY <1>4, UnescapedTyped
<1>6. keys \in Seq(KeyByte) /\ Len(keys) = n
  BY <1>3, <1>5
<1>7. keys # <<>>
  BY DEF n
<1> HIDE DEF keys, values
<1>8. Claims(keys, values)
  BY <1>5, <1>6, <1>7 DEF Claims
<1>. QED  BY <1>8 DEF keys, values, n

LEMMA TextInductive ==
    ASSUME TextIInv, [Next]_vars
    PROVE  TextIInv'
<1> USE DEF TextIInv
<1>1. ASSUME NEW keys, NEW values, Claims(keys, values), SignClaims(keys, values)
      PROVE  TextIInv'
  <2>1. Held(cred', members', built') /\ built' = TRUE /\ UNCHANGED <<jwt, base>>
    BY <1>1, Signed
  <2>. QED  BY <2>1
<1>2. ASSUME NEW keys \in KeyList, NEW values \in [1 .. Len(keys) -> GivenValue],
             GenerateJwtFromClaims(keys, values)
      PROVE  TextIInv'
  <2>1. Claims(keys, values)
    BY TextAssumption, ExtractionAssumption DEF Claims
  <2>2. SignClaims(keys, values)
    BY <1>2 DEF GenerateJwtFromClaims
  <2>. QED  BY <1>1, <2>1, <2>2
<1>3. ASSUME NEW ms \in Legacy, SignLegacy(ms)
      PROVE  TextIInv'
  <2>1. Object(ms)
    <3>1. ms \in Seq(Member) /\ ms # <<>>
      BY TextAssumption
    <3>2. \A i \in 1 .. Len(ms) : i \in DOMAIN ms /\ ms[i] \in Member
      BY <3>1
    <3>3. \A i \in 1 .. Len(ms) : ms[i].kind = "cnf" => ms[i].key = Cnf /\ Unquoted(ms[i].val)
      BY <3>2, TextAssumption
    <3>. QED  BY <3>1, <3>2, <3>3 DEF Object, Proper
  <2>2. jwt' = [payload |-> JsonText(ms), members |-> ms] /\ UNCHANGED <<cred, members, built>>
    BY <1>3 DEF SignLegacy
  <2>3. jwt'.members = ms /\ jwt'.payload = JsonText(ms)
    BY <2>2
  <2>. QED  BY <2>1, <2>2, <2>3
<1>4. ASSUME SaveJwtFile
      PROVE  TextIInv'
  <2>1. cred # None /\ jwt' = [payload |-> cred.payload, members |-> members]
        /\ UNCHANGED <<cred, members, built>>
    BY <1>4 DEF SaveJwtFile
  <2>2. Object(members) /\ cred.payload = JsonText(members)
    BY <2>1 DEF Held
  <2>3. jwt'.members = members /\ jwt'.payload = JsonText(members)
    BY <2>1, <2>2
  <2>. QED  BY <2>1, <2>2, <2>3
<1>5. ASSUME NEW keys \in KeyList, FromJwtFile(keys)
      PROVE  TextIInv'
  <2> DEFINE text == jwt.payload
             ms == jwt.members
             c == LoadedCredential(text, keys)
  <2>1. jwt # None /\ Loadable(text, keys) /\ cred' = c /\ members' = ms /\ built' = FALSE
        /\ jwt' = jwt
    BY <1>5 DEF FromJwtFile
  <2>2. Object(ms) /\ text = JsonText(ms)
    BY <2>1
  <2>3. text \in Seq(Byte)
    BY <2>2, TextTyped
  <2>4. c.payload = text /\ c.keys = keys
    BY DEF LoadedCredential, Credential
  <2>5. keys \in Seq(KeyByte) /\ keys # <<>>
    BY TextAssumption, ExtractionAssumption
  <2> HIDE DEF c
  <2>6. Layouted(c.keys, c.payload) /\ Parsable(c.payload, c.keys)
    BY <2>1, <2>3, <2>4, <2>5 DEF Layouted, Loadable
  <2>7. c = LoadedCredential(JsonText(ms), c.keys)
    <3>1. c = LoadedCredential(text, keys)
      BY DEF c
    <3>. QED  BY <2>2, <2>4, <3>1
  <2>8. Held(c, ms, FALSE)
    BY <2>2, <2>4, <2>6, <2>7 DEF Held
  <2>. QED  BY <2>1, <2>2, <2>8
<1>6. ASSUME FromDefinitionJson
      PROVE  TextIInv'
  <2> DEFINE S == {m \in ToSet(members) : m.key \notin Standard}
             claims == Only(JsonObject(members), S)
             keys == [i \in 1 .. Len(claims) |-> claims[i].key]
             values == [i \in 1 .. Len(claims) |-> Unescaped(claims[i].val)]
  <2>1. cred # None /\ SignClaims(keys, values)
    BY <1>6 DEF FromDefinitionJson
  <2>2. Object(members) /\ S \subseteq ToSet(members)
    BY <2>1 DEF Held
  <2>3. keys # <<>>
    BY <2>1 DEF SignClaims
  <2>4. Claims(keys, values)
    <3> HIDE DEF S
    <3> DEFINE d == claims
    <3>1. d = Only(JsonObject(members), S) /\ [i \in 1 .. Len(d) |-> d[i].key] # <<>>
      BY <2>3
    <3> HIDE DEF d
    <3>2. Claims([i \in 1 .. Len(d) |-> d[i].key], [i \in 1 .. Len(d) |-> Unescaped(d[i].val)])
      BY <2>2, <3>1, DefinitionTyped
    <3>. QED  BY <3>2 DEF d
  <2> HIDE DEF keys, values
  <2>. QED  BY <1>1, <2>1, <2>4
<1>7. ASSUME NEW keys \in KeyList, ProveJwtBase(keys)
      PROVE  TextIInv'
  BY <1>7 DEF ProveJwtBase
<1>8. CASE UNCHANGED vars
  BY <1>8 DEF vars
<1>. QED  BY <1>2, <1>3, <1>4, <1>5, <1>6, <1>7, <1>8 DEF Next

-----------------------------------------------------------------------------
(* What a base proof commits to.                                           *)

\* The values the search finds, as attributes.
FoundList(c) ==
    [i \in 1 .. Len(c.keys) |-> AttributeOf(c.keys[i], FindClaimPosition(c.payload, c.keys[i]).value)]

LEMMA LeavesFound ==
    ASSUME NEW c, NEW ms, NEW written, Held(c, ms, written),
           NEW keys \in KeyList, WitnessAccepted(c, keys)
    PROVE  CommittedLeaves(c, keys) = FoundList(c)
<1> DEFINE text == c.payload
           json == CircuitJson(text, keys)
           n == Len(c.keys)
           claim(i) == FindClaimPosition(text, c.keys[i])
           leaf(i) == ClaimLeaf(json, keys[i], claim(i).start - 1, Len(claim(i).value))
<1>1. /\ c.keys \in Seq(KeyByte) /\ text \in Seq(Byte) /\ n \in Nat
      /\ \A i \in 1 .. n : c.keys[i] \in KeyByte /\ Findable(text, c.keys[i])
  <2>1. c.keys \in Seq(KeyByte) /\ text \in Seq(Byte) /\ Parsable(text, c.keys)
    BY DEF Held, Layouted
  <2>2. \A i \in 1 .. n : c.keys[i] \in ToSet(c.keys)
    BY <2>1 DEF ToSet
  <2>. QED  BY <2>1, <2>2 DEF Parsable
<1>2. c.claims = [i \in 1 .. n |-> claim(i)]
  BY HeldFields
<1>3. keys \in Seq(KeyByte) /\ keys # <<>>
  BY TextAssumption, ExtractionAssumption
<1>4. Len(c.claims) = n
  BY <1>1, <1>2
<1>5. /\ Len(keys) = n /\ Len(text) <= MaxDecodedLen(keys)
      /\ \A i \in 1 .. n :
            KnownKeyClaim(json, keys[i], MaxValueLen, claim(i).start - 1, Len(claim(i).value))
  BY <1>2, <1>4 DEF WitnessAccepted
<1>6. Holding(json, text)
  BY <1>1, <1>3, <1>5, JsonHolds DEF Layouted
<1>7. CommittedLeaves(c, keys) = [i \in 1 .. n |-> leaf(i)]
  BY <1>2, <1>5 DEF CommittedLeaves
<1> HIDE DEF n, json, text
<1>8. ASSUME NEW i \in 1 .. n PROVE leaf(i) = AttributeOf(c.keys[i], claim(i).value)
  <2> DEFINE k == c.keys[i]
             m == keys[i]
             start == claim(i).start - 1
             value == claim(i).value
             l == Len(value)
  <2>1. k \in KeyByte /\ Findable(text, k)
    BY <1>1
  <2>2. PICK s, r : FoundAt(text, k, s, r)
    BY <1>1, <2>1, Found
  <2>3. /\ s \in Nat /\ s > 1 /\ r \in Nat /\ s + 5 <= r /\ r <= Len(text) /\ text[s + 1] = k
        /\ claim(i).start = s - 1 /\ value = SubSeq(text, s + 5, r - 1)
    BY <2>2 DEF FoundAt, KeyAt
  <2>4. l = r - (s + 5)
    <3> DEFINE o == s + 4
               q == r - (s + 5)
    <3>1. Len(text) \in Nat
      BY <1>1
    <3>2. o \in Nat /\ q \in Nat /\ o + 1 = s + 5 /\ o + q = r - 1 /\ o + q <= Len(text)
      BY <2>3, <3>1
    <3> HIDE DEF o, q
    <3>3. Len(SubSeq(text, o + 1, o + q)) = q
      BY <1>1, <3>2, Slice
    <3>. QED  BY <2>3, <3>2, <3>3 DEF q
  <2>5. KnownKeyClaim(json, m, MaxValueLen, start, l) /\ m \in KeyByte
    BY <1>3, <1>5 DEF n
  <2>6. start = s - 2
    BY <2>3
  <2> HIDE DEF start, l, value, m, k
  <2>7. /\ Reads(text, m, start + 2, l)
        /\ ClaimLeaf(json, m, start, l) = AttributeOf(m, SubSeq(text, start + 7, start + 6 + l))
    BY <1>6, <2>5, ClaimRead
  <2>8. start + 2 = s /\ start + 7 = s + 5 /\ start + 6 + l = r - 1
    BY <2>3, <2>4, <2>6
  <2>9. m = k
    BY <2>3, <2>7, <2>8 DEF Reads, KeyAt
  <2>. QED  BY <2>3, <2>7, <2>8, <2>9 DEF start, l, value, m, k
<1> HIDE DEF leaf
<1>9. [i \in 1 .. n |-> leaf(i)] = [i \in 1 .. n |-> AttributeOf(c.keys[i], claim(i).value)]
  BY <1>8
<1>. QED  BY <1>7, <1>9 DEF FoundList, n, text

\* What a reader may rely on in a list the library gave: it is what the
\* search finds, unless the search misreads it.
LEMMA ListFound ==
    ASSUME NEW c, NEW ms, NEW written, Held(c, ms, written), ~(written /\ Misread(c.attributes))
    PROVE  /\ c.attributes = FoundList(c)
           /\ c = LoadedCredential(c.payload, c.keys)
<1> DEFINE text == c.payload
           keys == c.keys
           n == Len(keys)
           found == FoundValues(text, keys)
<1>1. keys \in Seq(KeyByte) /\ n \in Nat /\ text = JsonText(ms) /\ Parsable(text, keys)
  BY DEF Held, Layouted
<1>2. found = [i \in 1 .. n |-> FindClaimPosition(text, keys[i]).value] /\ Len(found) = n
  BY <1>1 DEF FoundValues
<1>3. c = Credential(text, keys, found)
  <2>1. CASE ~written
    BY <1>1, <2>1 DEF Held, LoadedCredential
  <2>2. CASE written
    <3>1. PICK values : WrittenFor(c, ms, values)
      BY <2>2 DEF Held
    <3>2. /\ Claims(keys, values) /\ \A i \in 1 .. n : Len(values[i]) \in 1 .. MaxValueLen
          /\ ms = PayloadMembers(keys, values, IssValue, IatValue)
          /\ c = Credential(text, keys, values)
      BY <1>1, <3>1 DEF WrittenFor
    <3>3. c.attributes = [i \in 1 .. Len(values) |-> AttributeOf(keys[i], values[i])]
      <4> HIDE DEF text, keys
      <4>. QED  BY <3>2 DEF Credential
    <3>4. text = PayloadJson(keys, values, IssValue, IatValue)
      BY <1>1, <3>2 DEF PayloadJson
    <3>5. \A i \in 1 .. n : Len(values[i]) <= MaxValueLen
      BY <3>2
    <3> HIDE DEF text, keys, found
    <3>6. Plain(keys, values)
      BY <2>2, <3>2, <3>3, <3>5, PlainList DEF n
    <3>7. \A i \in 1 .. n : Findable(text, keys[i])
      <4>1. \A i \in 1 .. n : keys[i] \in ToSet(keys)
        BY <1>1 DEF ToSet, n
      <4>. QED  BY <1>1, <4>1 DEF Parsable
    <3>8. \A i \in 1 .. n : FindClaimPosition(text, keys[i]).value = values[i]
      BY <3>2, <3>4, <3>6, <3>7, WrittenValue DEF n
    <3>9. values = [i \in 1 .. n |-> values[i]]
      BY <3>2 DEF Claims, n
    <3>10. found = values
      BY <1>2, <3>8, <3>9
    <3>. QED  BY <3>2, <3>10
  <2>. QED  BY <2>1, <2>2
<1>4. c = LoadedCredential(text, keys)
  BY <1>3 DEF LoadedCredential
<1>5. c.attributes = [i \in 1 .. Len(found) |-> AttributeOf(keys[i], found[i])]
  <2> HIDE DEF text, keys, found
  <2>. QED  BY <1>3 DEF Credential
<1>6. c.attributes = [i \in 1 .. n |-> AttributeOf(keys[i], FindClaimPosition(text, keys[i]).value)]
  <2> HIDE DEF text, keys, found
  <2>. QED  BY <1>2, <1>5
<1>. QED  BY <1>4, <1>6 DEF FoundList

LEMMA ListInductive ==
    ASSUME TextIInv, ListOpensBase, [Next]_vars
    PROVE  ListOpensBase'
<1>1. ASSUME NEW keys \in KeyList, ProveJwtBase(keys)
      PROVE  ListOpensBase'
  <2>1. /\ cred # None /\ WitnessAccepted(cred, keys)
        /\ base' = [leaves |-> CommittedLeaves(cred, keys), list |-> cred.attributes, built |-> built]
    BY <1>1 DEF ProveJwtBase
  <2>2. Held(cred, members, built)
    BY <2>1 DEF TextIInv
  <2>3. CommittedLeaves(cred, keys) = FoundList(cred)
    BY <2>1, <2>2, LeavesFound
  <2>4. ~(built /\ Misread(cred.attributes)) => cred.attributes = FoundList(cred)
    BY <2>2, ListFound
  <2>5. base'.leaves = CommittedLeaves(cred, keys) /\ base'.list = cred.attributes
        /\ base'.built = built
    BY <2>1
  <2>6. base'.leaves = base'.list \/ (base'.built /\ Misread(base'.list))
    BY <2>3, <2>4, <2>5
  <2>. QED  BY <2>6 DEF ListOpensBase
<1>2. ASSUME UNCHANGED base PROVE ListOpensBase'
  BY <1>2 DEF ListOpensBase
<1>3. ASSUME NEW keys, NEW values, GenerateJwtFromClaims(keys, values) PROVE UNCHANGED base
  BY <1>3 DEF GenerateJwtFromClaims, SignClaims
<1>4. ASSUME NEW ms, SignLegacy(ms) PROVE UNCHANGED base
  BY <1>4 DEF SignLegacy
<1>5. ASSUME SaveJwtFile PROVE UNCHANGED base
  BY <1>5 DEF SaveJwtFile
<1>6. ASSUME NEW keys, FromJwtFile(keys) PROVE UNCHANGED base
  BY <1>6 DEF FromJwtFile
<1>7. ASSUME FromDefinitionJson PROVE UNCHANGED base
  BY <1>7 DEF FromDefinitionJson, SignClaims
<1>8. CASE UNCHANGED vars
  BY <1>2, <1>8 DEF vars
<1>. QED  BY <1>1, <1>2, <1>3, <1>4, <1>5, <1>6, <1>7, <1>8 DEF Next

LEMMA Inductive == Spec => []IInv
<1>1. Init => IInv
  BY DEF Init, IInv, TextIInv, ListOpensBase
<1>2. IInv /\ [Next]_vars => IInv'
  BY TextInductive, ListInductive DEF IInv
<1>. QED  BY <1>1, <1>2, PTL DEF Spec

\* The list an owner holds opens the commitment of the base proof made with
\* it, whatever text it was loaded from, but for the lists a library-signed
\* credential's search misreads.
THEOREM ListOpens == Spec => []ListOpensBase
<1>1. IInv => ListOpensBase
  BY DEF IInv
<1>. QED  BY <1>1, Inductive, PTL

LEMMA HeldCanBeProved ==
    ASSUME NEW c, NEW ms, NEW written, Held(c, ms, written),
           \A i \in 1 .. Len(c.keys) : StringClaim(c, c.claims[i], MaxValueLen),
           StringClaim(c, c.iss, IssMaxLen), StringClaim(c, c.iat, IatMaxLen)
    PROVE  WitnessAccepted(c, c.keys)
<1> DEFINE text == c.payload
           keys == c.keys
           n == Len(keys)
           json == CircuitJson(text, keys)
           accepts(key, claim, maxLen) ==
               /\ Fillable(json, claim, maxLen)
               /\ KnownKeyClaim(json, key, maxLen, claim.start - 1, Len(claim.value))
<1>1. Layouted(keys, text) /\ Parsable(text, keys) /\ n \in Nat
      /\ keys \in Seq(KeyByte) /\ Len(text) <= MaxDecodedLen(keys)
  BY DEF Held, Layouted
<1>2. /\ c.claims = [i \in 1 .. n |-> FindClaimPosition(text, keys[i])]
      /\ c.iss = FindClaimPosition(text, Iss) /\ c.iat = FindClaimPosition(text, Iat)
      /\ c.cnf = FindCnfStart(text)
  BY HeldFields
<1>3. Holding(json, text)
      /\ \A l \in Slices : \A p \in 0 .. Len(text) : p \in ValidStarts(Len(json), l)
  BY <1>1, JsonHolds
<1>4. /\ \A i \in 1 .. n : keys[i] \in KeyByte /\ Findable(text, keys[i])
      /\ Findable(text, Iss) /\ Findable(text, Iat) /\ CnfFindable(text)
  <2>1. \A i \in 1 .. n : keys[i] \in ToSet(keys) /\ keys[i] \in KeyByte
    BY <1>1 DEF ToSet
  <2>. QED  BY <1>1, <2>1 DEF Parsable
<1>5. /\ \A i \in 1 .. n : StringClaim(c, c.claims[i], MaxValueLen)
      /\ StringClaim(c, c.iss, IssMaxLen) /\ StringClaim(c, c.iat, IatMaxLen)
  OBVIOUS
<1> HIDE DEF keys, n, json
<1>6. ASSUME NEW k \in KeyByte, Findable(text, k), NEW maxLen \in Nat, SliceLen(maxLen) \in Slices,
             NEW claim, claim = FindClaimPosition(text, k), StringClaim(c, claim, maxLen)
      PROVE  accepts(k, claim, maxLen)
  <2>1. text[claim.start + 5] = Quote /\ Len(claim.value) \in 1 .. maxLen
    BY <1>6 DEF StringClaim
  <2>2. \A p \in 0 .. Len(text) : p \in ValidStarts(Len(json), SliceLen(maxLen))
    BY <1>3, <1>6
  <2> HIDE DEF text
  <2>. QED  BY <1>3, <1>6, <2>1, <2>2, ClaimAccepted
<1> HIDE DEF accepts
<1>7. MaxValueLen \in Nat /\ IssMaxLen \in Nat /\ IatMaxLen \in Nat
      /\ SliceLen(MaxValueLen) \in Slices /\ SliceLen(IssMaxLen) \in Slices
      /\ SliceLen(IatMaxLen) \in Slices /\ CnfSliceLen \in Slices
  BY LimitsTyped DEF Limit, Slices
<1>8. ASSUME NEW i \in 1 .. n PROVE accepts(keys[i], c.claims[i], MaxValueLen)
  <2>1. c.claims[i] = FindClaimPosition(text, keys[i])
    BY <1>2
  <2>. QED  BY <1>4, <1>5, <1>6, <1>7, <2>1
<1>9. accepts(Iss, c.iss, IssMaxLen)
  BY <1>2, <1>4, <1>5, <1>6, <1>7, StandardKeys
<1>10. accepts(Iat, c.iat, IatMaxLen)
  BY <1>2, <1>4, <1>5, <1>6, <1>7, StandardKeys
<1>11. CnfClaim(json, c.cnf)
  BY <1>2, <1>3, <1>4, <1>7, CnfAccepted
<1>12. Len(c.claims) = n
  BY <1>1, <1>2
<1>. QED  BY <1>1, <1>8, <1>9, <1>10, <1>11, <1>12 DEF WitnessAccepted, accepts, json, n, keys

\* Whatever its payload looks like, a credential whose claims are strings of
\* admissible length is one the circuit accepts a witness for.
THEOREM AcceptedIsProvable == Spec => []AcceptedCanBeProved
<1>1. IInv => AcceptedCanBeProved
  BY HeldCanBeProved DEF IInv, TextIInv, AcceptedCanBeProved
<1>. QED  BY <1>1, Inductive, PTL

\* A credential the library signed and its search does not misread is loaded
\* from its file as it was signed.
THEOREM ReloadsAsSigned == Spec => []ReloadIsIdentity
<1>1. ASSUME IInv PROVE ReloadIsIdentity
  <2>1. SUFFICES ASSUME cred # None, built, ~Misread(cred.attributes)
                 PROVE  /\ Loadable(cred.payload, cred.keys)
                        /\ LoadedCredential(cred.payload, cred.keys) = cred
    BY DEF ReloadIsIdentity
  <2>2. Held(cred, members, built)
    BY <1>1, <2>1 DEF IInv, TextIInv
  <2>3. cred = LoadedCredential(cred.payload, cred.keys)
    BY <2>1, <2>2, ListFound
  <2>4. Loadable(cred.payload, cred.keys)
    BY <2>2 DEF Held, Layouted, Loadable
  <2>. QED  BY <2>3, <2>4
<1>. QED  BY <1>1, Inductive, PTL

\* Whatever position and length a prover names, what the circuit yields is a
\* member of the signed object.
THEOREM ReadingsShown == Spec => []ReadingsAreMembers
<1>1. ASSUME IInv PROVE ReadingsAreMembers
  <2> DEFINE c == cred
             text == c.payload
             keys == c.keys
             json == CircuitJson(text, keys)
             ms == members
  <2>1. SUFFICES ASSUME c # None, IsJson(ms), NEW i \in 1 .. Len(keys),
                        NEW x \in ClaimReadings(json, keys[i])
                 PROVE  x \in Shown(ms)
    BY DEF ReadingsAreMembers
  <2>2. Held(c, ms, built)
    BY <1>1, <2>1 DEF IInv, TextIInv
  <2>3. Layouted(keys, text) /\ Object(ms) /\ text = JsonText(ms) /\ keys[i] \in KeyByte
    BY <2>2 DEF Held, Layouted
  <2>4. Holding(json, text)
    BY <2>3, JsonHolds
  <2>5. PICK at : Placed(text, ms, at)
    BY <2>3, PayloadLaid
  <2> DEFINE k == keys[i]
  <2> HIDE DEF json
  <2>6. PICK start, l : /\ x = ClaimLeaf(json, k, start, l)
                        /\ KnownKeyClaim(json, k, MaxValueLen, start, l)
    BY <2>1 DEF ClaimReadings
  <2> HIDE DEF text, ms, k
  <2>7. /\ start \in Nat /\ Reads(text, k, start + 2, l)
        /\ x = AttributeOf(k, SubSeq(text, start + 7, start + 6 + l))
    BY <2>3, <2>4, <2>6, ClaimRead DEF k
  <2> DEFINE s == start + 2
             value == SubSeq(text, s + 5, s + 4 + l)
  <2>8. Reads(text, k, s, l) /\ x = AttributeOf(k, value)
    <3>1. l \in Nat
      BY <2>7 DEF Reads
    <3>2. s + 5 = start + 7 /\ s + 4 + l = start + 6 + l
      BY <2>7, <3>1
    <3>. QED  BY <2>7, <3>2
  <2> HIDE DEF s
  <2>9. PICK j \in 1 .. Len(ms) : ReadFrom(k, value, ms[j])
    BY <2>1, <2>3, <2>5, <2>8, ReadsMember DEF k
  <2>10. ms[j] \in ToSet(ms)
    BY <2>3 DEF Object, ToSet
  <2> HIDE DEF value
  <2>11. CASE ms[j].kind = "string" /\ ms[j].key = k /\ value = Cut(ms[j].val)
    BY <2>8, <2>10, <2>11 DEF Shown
  <2>12. CASE ms[j].kind = "cnf" /\ k \in {X, Y} /\ value = ms[j].val
    BY <2>8, <2>10, <2>12 DEF Shown
  <2>13. x \in Shown(ms)
    BY <2>9, <2>11, <2>12 DEF ReadFrom
  <2>. QED  BY <2>13
<1>. QED  BY <1>1, Inductive, PTL

==============================================================================
