--------------------------- MODULE CoBuildTheorems ---------------------------
(***************************************************************************)
(* The degree after blinding grows with the rows before it, and the binary *)
(* search that relies on it is exact, for all FRI parameters and every     *)
(* shape the co-build arrives at; and the co-build settles after a single  *)
(* iteration when there is room, whatever the gadgets cost.                *)
(***************************************************************************)
EXTENDS CoBuild, FiniteSetTheorems, WellFoundedInduction, TLAPS

LessThan == {ss \in Nat \X Nat : ss[1] < ss[2]}

\* A set of exponents that is not empty has a least element.
LEMMA LeastIsLeast ==
    ASSUME NEW T \in SUBSET Bits, T # {}
    PROVE  Least(T) \in T /\ \A c \in T : Least(T) <= c
<1>1. T \subseteq Nat
  BY BlindingAssumption DEF Bits
<1>2. PICK b \in T : \A c \in T : ~(<<c, b>> \in OpToRel(<, Nat))
  BY <1>1, WFMin, NatLessThanWellFounded
<1>3. OpToRel(<, Nat) = LessThan
  BY DEF OpToRel, LessThan
<1>4. \A c \in T : <<c, b>> \notin LessThan
  BY <1>2, <1>3
<1>5. \A c \in T : b <= c
  <2>1. SUFFICES ASSUME NEW c \in T, c < b PROVE FALSE
    BY <1>1
  <2>2. <<c, b>> \in Nat \X Nat /\ <<c, b>>[1] < <<c, b>>[2]
    BY <1>1, <2>1
  <2>3. <<c, b>> \in LessThan
    BY <2>2, Zenon DEF LessThan
  <2>. QED  BY <1>4, <2>3
<1>. QED  BY <1>5 DEF Least

LEMMA EstimateType ==
    ASSUME NEW n, Fits(n)
    PROVE  /\ EstimateBits[n] \in FittingBits(n)
           /\ \A c \in FittingBits(n) : EstimateBits[n] <= c
<1>1. MaxBits \in Bits /\ BlindingRows[MaxBits] \in Nat /\ Size[MaxBits] \in Nat
  BY BlindingAssumption DEF Bits
<1>2. MaxBits \in FittingBits(n)
  BY <1>1 DEF FittingBits, Fits
<1>3. FittingBits(n) \in SUBSET Bits
  BY DEF FittingBits
<1>4. EstimateBits[n] = Least(FittingBits(n))
  BY DEF EstimateBits, Fits
<1>. QED  BY <1>2, <1>3, <1>4, LeastIsLeast

\* "This works because the final degree is monotonic in the number of
\* pre-blinding gates" (num_dummy_noop_gates): although the rows that blind do
\* not grow with the degree, the degree grows with the rows before blinding.
THEOREM DegreeGrows ==
    ASSUME NEW m \in Nat, NEW n \in Nat, m <= n, Fits(n)
    PROVE  EstimateBits[m] <= EstimateBits[n]
<1>1. BlindingRows[MaxBits] \in Nat /\ Size[MaxBits] \in Nat
  BY BlindingAssumption DEF Bits
<1>2. Fits(m)
  BY <1>1 DEF Fits
<1>3. FittingBits(n) \subseteq FittingBits(m)
  BY BlindingAssumption DEF FittingBits
<1>. QED  BY <1>2, <1>3, EstimateType

\* What the search compares.
LEMMA DummyGrows ==
    ASSUME goal \in 0 .. GoalBits,
           NEW k \in 0 .. MaxNoops, NEW l \in 0 .. MaxNoops, k <= l
    PROVE  DummyBits(k) <= DummyBits(l) /\ DummyBits(k) \in Nat /\ DummyBits(l) \in Nat
<1>1. /\ Overhead \in Nat /\ MaxBits \in Nat
      /\ goal \in Bits /\ Size[goal] \in Nat
      /\ BlindingRows[MaxBits] \in Nat /\ Size[MaxBits] \in Nat
      /\ Size[goal] + Overhead + BlindingRows[MaxBits] <= Size[MaxBits]
  BY BlindingAssumption, DummyAssumption DEF Bits
<1>2. MaxNoops \in Nat /\ MaxNoops <= Size[goal]
  BY <1>1 DEF MaxNoops
<1>3. /\ Overhead + k \in Nat /\ Overhead + l \in Nat /\ Overhead + k <= Overhead + l
      /\ Fits(Overhead + l) /\ Fits(Overhead + k)
  BY <1>1, <1>2 DEF Fits
<1>4. EstimateBits[Overhead + k] <= EstimateBits[Overhead + l]
  BY <1>3, DegreeGrows
<1>5. EstimateBits[Overhead + k] \in Bits /\ EstimateBits[Overhead + l] \in Bits
  BY <1>3, EstimateType DEF FittingBits
<1>. QED  BY <1>1, <1>4, <1>5 DEF DummyBits, Bits

IInv ==
    /\ pc \in {"idle", "search", "noops", "built", "none", "mismatch"}
    /\ pc # "idle" => goal \in 0 .. GoalBits
    /\ pc = "search" /\ best # None => lo > 0
    /\ SearchIsExact

LEMMA MaxNoopsType ==
    ASSUME goal \in 0 .. GoalBits
    PROVE  MaxNoops \in Nat
<1>1. goal \in Bits /\ Overhead \in Nat
  BY DummyAssumption, BlindingAssumption DEF Bits
<1>. QED  BY <1>1, BlindingAssumption DEF MaxNoops

LEMMA StartIInv ==
    ASSUME NEW b, StartSearch(b)
    PROVE  IInv'
<1>1. goal' \in 0 .. GoalBits /\ lo' = 0 /\ hi' = MaxNoops' /\ best' = None /\ pc' = "search"
  BY DEF StartSearch
<1>2. MaxNoops' \in Nat
  <2>1. goal' \in Bits /\ Overhead \in Nat
    BY <1>1, DummyAssumption, BlindingAssumption DEF Bits
  <2>. QED  BY <2>1, BlindingAssumption DEF MaxNoops
<1>3. lo' \in 0 .. hi' + 1
  <2>1. hi' \in Nat
    BY <1>1, <1>2
  <2>2. lo' = 0
    BY <1>1
  <2>3. \A h \in Nat : 0 \in 0 .. h + 1
    OBVIOUS
  <2>. QED  BY <2>1, <2>2, <2>3
<1>4. hi' \in 0 .. MaxNoops'
  BY <1>1, <1>2
<1>5. ~(hi' < MaxNoops') /\ ~(lo' > 0)
  BY <1>1, <1>2
<1>. QED  BY <1>1, <1>3, <1>4, <1>5 DEF IInv, SearchIsExact

LEMMA SearchIInv ==
    ASSUME IInv, Search
    PROVE  IInv'
<1>1. pc \in {"search", "noops"} /\ goal' = goal /\ goal \in 0 .. GoalBits
  BY DEF Search, Raise, Lower, Stop, BuildDummy, IInv
<1>2. MaxNoops' = MaxNoops /\ MaxNoops \in Nat
  BY <1>1, MaxNoopsType DEF MaxNoops
<1>3. \A k : DummyBits(k)' = DummyBits(k)
  BY DEF DummyBits
<1>4. pc = "search" => /\ lo \in Nat /\ hi \in Nat /\ lo <= hi + 1 /\ hi <= MaxNoops
  BY <1>2 DEF IInv, SearchIsExact
<1>5. ASSUME pc = "search", lo <= hi
      PROVE  Mid \in 0 .. MaxNoops /\ lo <= Mid /\ Mid <= hi /\ Mid \in Nat
  BY <1>2, <1>4, <1>5 DEF Mid
<1>6. \A k, l \in 0 .. MaxNoops : k <= l =>
        DummyBits(k) <= DummyBits(l) /\ DummyBits(k) \in Nat /\ DummyBits(l) \in Nat
  BY <1>1, DummyGrows
<1>7. goal \in Int
  BY <1>1
<1>8. CASE Raise
  <2>1. /\ pc = "search" /\ pc' = pc /\ lo <= hi /\ hi' = hi /\ lo' = Mid + 1
        /\ DummyBits(Mid) <= goal
        /\ best' = IF DummyBits(Mid) = goal THEN Mid ELSE best
    BY <1>8 DEF Raise
  <2>2. Mid \in 0 .. MaxNoops /\ lo <= Mid /\ Mid <= hi /\ Mid \in Nat
    BY <1>5, <2>1
  <2>3. best' # None => best' = lo' - 1 /\ DummyBits(best') = goal
    <3>1. CASE DummyBits(Mid) = goal
      BY <2>1, <2>2, <3>1
    <3>2. CASE DummyBits(Mid) # goal
      <4>1. SUFFICES ASSUME best # None PROVE FALSE
        BY <2>1, <3>2
      <4>2. best = lo - 1 /\ DummyBits(best) = goal /\ lo > 0
        BY <2>1, <4>1 DEF IInv, SearchIsExact
      <4>3. best \in 0 .. MaxNoops /\ best <= Mid
        BY <1>2, <1>4, <2>1, <2>2, <4>2
      <4>. QED  BY <1>6, <1>7, <2>1, <2>2, <3>2, <4>2, <4>3
    <3>. QED  BY <3>1, <3>2
  <2>4. best' = None => DummyBits(lo' - 1) < goal
    <3>1. lo' - 1 = Mid
      BY <2>1, <2>2
    <3>2. Mid # None
      BY <2>2, DummyAssumption
    <3>. QED  BY <1>6, <1>7, <2>1, <2>2, <3>1, <3>2
  <2>5. lo' \in 0 .. hi' + 1 /\ hi' \in 0 .. MaxNoops /\ lo' > 0
    BY <1>2, <1>4, <2>1, <2>2
  <2>6. hi' < MaxNoops => DummyBits(hi' + 1) > goal
    BY <2>1 DEF IInv, SearchIsExact
  <2>. QED  BY <1>1, <1>2, <1>3, <2>1, <2>3, <2>4, <2>5, <2>6 DEF IInv, SearchIsExact, DummyBits
<1>9. CASE Lower
  <2>1. /\ pc = "search" /\ pc' = pc /\ lo <= hi /\ lo' = lo /\ best' = best /\ hi' = Mid - 1
        /\ Mid # 0 /\ DummyBits(Mid) > goal
    BY <1>9 DEF Lower
  <2>2. Mid \in 0 .. MaxNoops /\ lo <= Mid /\ Mid <= hi /\ Mid \in Nat
    BY <1>5, <2>1
  <2>3. lo' \in 0 .. hi' + 1 /\ hi' \in 0 .. MaxNoops /\ hi' + 1 = Mid
    BY <1>2, <1>4, <2>1, <2>2
  <2>4. hi' < MaxNoops => DummyBits(hi' + 1) > goal
    BY <2>1, <2>3
  <2>. QED  BY <1>1, <1>2, <2>1, <2>3, <2>4 DEF IInv, SearchIsExact, DummyBits
<1>10. CASE Stop
  <2>1. /\ pc = "search" /\ lo' = lo /\ hi' = hi /\ best' = best
        /\ pc' = IF best = None THEN "none" ELSE "noops"
        /\ lo > hi \/ (lo <= hi /\ Mid = 0 /\ DummyBits(Mid) > goal)
    BY <1>4, <1>10 DEF Stop
  <2>2. CASE best = None
    <3>1. \A k \in 0 .. MaxNoops : DummyBits(k) # goal
      <4> SUFFICES ASSUME NEW k \in 0 .. MaxNoops PROVE DummyBits(k) # goal
        OBVIOUS
      <4>1. CASE lo <= hi /\ Mid = 0 /\ DummyBits(Mid) > goal
        <5>1. 0 \in 0 .. MaxNoops /\ 0 <= k
          BY <1>2
        <5>. QED  BY <1>6, <1>7, <4>1, <5>1
      <4>2. CASE lo > hi /\ k < lo
        <5>1. lo > 0 /\ lo - 1 \in 0 .. MaxNoops /\ k <= lo - 1
          BY <1>2, <1>4, <2>1, <4>2
        <5>2. DummyBits(lo - 1) < goal
          BY <2>1, <2>2, <5>1 DEF IInv, SearchIsExact
        <5>. QED  BY <1>6, <1>7, <5>1, <5>2
      <4>3. CASE lo > hi /\ k >= lo
        <5>1. hi < MaxNoops /\ hi + 1 \in 0 .. MaxNoops /\ hi + 1 <= k
          BY <1>2, <1>4, <2>1, <4>3
        <5>2. DummyBits(hi + 1) > goal
          BY <2>1, <5>1 DEF IInv, SearchIsExact
        <5>. QED  BY <1>6, <1>7, <5>1, <5>2
      <4>4. k < lo \/ k >= lo
        BY <1>2, <1>4, <2>1
      <4>. QED  BY <2>1, <4>1, <4>2, <4>3, <4>4
    <3>. QED  BY <1>1, <1>2, <2>1, <2>2, <3>1 DEF IInv, SearchIsExact, DummyBits
  <2>3. CASE best # None
    <3>1. best = lo - 1 /\ DummyBits(best) = goal /\ lo > 0
      BY <2>1, <2>3 DEF IInv, SearchIsExact
    <3>2. lo > hi
      <4>1. lo <= hi => Mid > 0
        BY <1>2, <1>4, <1>5, <2>1, <3>1
      <4>. QED  BY <1>4, <2>1, <4>1
    <3>3. best = hi /\ best \in 0 .. MaxNoops
      BY <1>2, <1>4, <2>1, <3>1, <3>2
    <3>4. best < MaxNoops => DummyBits(best + 1) > goal
      BY <2>1, <3>3 DEF IInv, SearchIsExact
    <3>. QED  BY <1>1, <1>2, <2>1, <2>3, <3>1, <3>3, <3>4 DEF IInv, SearchIsExact, DummyBits
  <2>. QED  BY <2>2, <2>3
<1>11. CASE BuildDummy
  BY <1>1, <1>2, <1>11 DEF BuildDummy, IInv, SearchIsExact, DummyBits
<1>. QED  BY <1>8, <1>9, <1>10, <1>11 DEF Search

\* num_dummy_noop_gates finds the largest dummy of the degree it is given, and
\* panics only when no number of no-ops gives that degree.
THEOREM SearchIsRight == Spec => []SearchIsExact
<1>1. Init => IInv
  BY DEF Init, IInv, SearchIsExact
<1>2. IInv /\ [Next]_vars => IInv'
  <2> SUFFICES ASSUME IInv, [Next]_vars PROVE IInv'
    OBVIOUS
  <2>1. CASE UNCHANGED searchVars
    BY <2>1 DEF searchVars, IInv, SearchIsExact, DummyBits, MaxNoops
  <2>2. CASE BuildDummyProof
    BY <2>2, StartIInv DEF BuildDummyProof
  <2>3. CASE SearchStep
    BY <2>3, SearchIInv DEF SearchStep
  <2>4. CASE UNCHANGED vars
    BY <2>1, <2>4 DEF vars
  <2>. QED
    BY <2>1, <2>2, <2>3, <2>4
    DEF Next, Build, TrialBuild, FinalBuild, FirstWrapper, Attach
<1>3. IInv => SearchIsExact
  BY DEF IInv
<1>. QED  BY <1>1, <1>2, <1>3, PTL DEF Spec

ShapeIInv ==
    /\ stage \in {"wrap", "ready"} => DelShape(del, extra) = del
    /\ stage = "ready" => \A t \in attached : WrapShape(t, del) = del

LEMMA ShapesAgreeInv == Spec => []ShapeIInv
<1>1. Init => ShapeIInv
  BY DEF Init, ShapeIInv
<1>2. ShapeIInv /\ [Next]_vars => ShapeIInv'
  <2> SUFFICES ASSUME ShapeIInv, [Next]_vars PROVE ShapeIInv'
    OBVIOUS
  <2>1. facts' = facts
    BY DEF Next, Build, TrialBuild, FinalBuild, FirstWrapper, Attach, SearchStep,
           BuildDummyProof, vars, coVars
  <2>2. CASE TrialBuild
    BY <2>2 DEF TrialBuild, ShapeIInv
  <2>3. CASE FinalBuild
    <3>1. \/ stage' = "panic"
          \/ stage' = "wrap" /\ del' = inner /\ extra' = extra /\ DelShape(inner, extra) = inner
      BY <2>3 DEF FinalBuild
    <3>. QED  BY <2>1, <3>1 DEF ShapeIInv, DelShape
  <2>4. CASE FirstWrapper
    <3>1. stage = "wrap" /\ DelShape(del, extra) = del
      BY <2>4 DEF FirstWrapper, ShapeIInv
    <3>2. CASE WrapShape(first, del) = del
      <4>1. stage' = "ready" /\ attached' = {first} /\ del' = del /\ extra' = extra
        BY <2>4, <3>2 DEF FirstWrapper
      <4>. QED  BY <2>1, <3>1, <3>2, <4>1 DEF ShapeIInv, DelShape, WrapShape
    <3>3. CASE WrapShape(first, del) # del
      <4>1. stage' \in {"trial", "bail"}
        BY <2>4, <3>3 DEF FirstWrapper
      <4>. QED  BY <4>1 DEF ShapeIInv
    <3>. QED  BY <3>2, <3>3
  <2>5. ASSUME NEW t \in CredType, Attach(t)
        PROVE  ShapeIInv'
    <3>1. /\ stage = "ready" /\ WrapShape(t, del) = del /\ attached' = attached \cup {t}
          /\ del' = del /\ extra' = extra /\ stage' = stage
      BY <2>5 DEF Attach
    <3>. QED  BY <2>1, <3>1 DEF ShapeIInv, DelShape, WrapShape
  <2>6. CASE UNCHANGED coVars
    BY <2>1, <2>6 DEF coVars, ShapeIInv, DelShape, WrapShape
  <2>. QED
    BY <2>2, <2>3, <2>4, <2>5, <2>6 DEF Next, Build, BuildDummyProof, SearchStep, vars
<1>. QED  BY <1>1, <1>2, PTL DEF Spec

\* R_Del verifies proofs of its own shape and every attached wrapper has it:
\* whatever the gadgets cost, however many builds it took, and whichever
\* credential types are attached later.
THEOREM ShapesAgree == Spec => []OneShape
<1>1. ShapeIInv => OneShape
  BY DEF ShapeIInv, OneShape
<1>. QED  BY <1>1, ShapesAgreeInv, PTL

-----------------------------------------------------------------------------
(* Sums over finite sets of gate types.                                    *)

\* A set of numbers that is not empty has a least element.
LEMMA LeastNatural ==
    ASSUME NEW T \in SUBSET Nat, T # {}
    PROVE  \E b \in T : \A c \in T : b <= c
<1>1. PICK b \in T : \A c \in T : ~(<<c, b>> \in OpToRel(<, Nat))
  BY WFMin, NatLessThanWellFounded
<1>2. OpToRel(<, Nat) = LessThan
  BY DEF OpToRel, LessThan
<1>3. \A c \in T : <<c, b>> \notin LessThan
  BY <1>1, <1>2
<1>4. \A c \in T : ~(c < b)
  <2>1. SUFFICES ASSUME NEW c \in T, c < b PROVE FALSE
    OBVIOUS
  <2>2. <<c, b>> \in Nat \X Nat /\ <<c, b>>[1] < <<c, b>>[2]
    BY <2>1
  <2>. QED  BY <1>3, <2>2 DEF LessThan
<1>5. \A c \in T : c \in Nat /\ b \in Nat
  OBVIOUS
<1>. QED  BY <1>4, <1>5

\* Among finite sets of sets there is a smallest.
LEMMA SmallestSet ==
    ASSUME NEW X, X # {}, \A s \in X : IsFiniteSet(s)
    PROVE  \E s \in X : \A t \in X : Cardinality(s) <= Cardinality(t)
<1> DEFINE T == {Cardinality(s) : s \in X}
<1>1. T \in SUBSET Nat /\ T # {}
  BY FS_CardinalityType
<1>2. PICK b \in T : \A c \in T : b <= c
  <2> HIDE DEF T
  <2>. QED  BY <1>1, LeastNatural
<1>. QED  BY <1>2

\* The sum VerifyRows takes, and the function its fold defines by recursion.
SumOf(e, S) == MapThenSumSet(LAMBDA g : e[g], S)

IsSum(f, e, S) ==
    f = [s \in SUBSET S |-> IF s = {} THEN 0
                            ELSE LET x == CHOOSE x \in s : TRUE IN e[x] + f[s \ {x}]]

\* The element that the fold takes next leaves a smaller set.
LEMMA Removed ==
    ASSUME NEW s, IsFiniteSet(s), s # {}
    PROVE  LET x == CHOOSE x \in s : TRUE
           IN  /\ x \in s /\ IsFiniteSet(s \ {x}) 
               /\ Cardinality(s \ {x}) < Cardinality(s)
<1> DEFINE x == CHOOSE x \in s : TRUE
<1>1. x \in s
  OBVIOUS
<1> HIDE DEF x
<1>2. IsFiniteSet(s \ {x}) /\ Cardinality(s \ {x}) = Cardinality(s) - 1 /\ Cardinality(s) \in Nat
  BY <1>1, FS_RemoveElement, FS_CardinalityType
<1>3. QED BY <1>1, <1>2 DEF x

\* Two such functions agree where both are defined.
LEMMA SumAgrees ==
    ASSUME NEW e, NEW S, NEW T, IsFiniteSet(S), IsFiniteSet(T), NEW f, NEW g, IsSum(f, e, S), IsSum(g, e, T)
    PROVE  \A s \in SUBSET (S \cap T) : f[s] = g[s]
<1> DEFINE Off == {s \in SUBSET (S \cap T) : f[s] # g[s]}
<1>1. SUFFICES ASSUME Off # {} PROVE FALSE
  OBVIOUS
<1>2. \A s \in Off : IsFiniteSet(s)
  BY FS_Subset
<1>3. PICK s \in Off : \A t \in Off : Cardinality(s) <= Cardinality(t)
  <2> HIDE DEF Off
  <2>. QED  BY <1>1, <1>2, SmallestSet
<1>4. s \in SUBSET S /\ s \in SUBSET T
  OBVIOUS
<1>5. s # {}
  BY <1>4 DEF IsSum
<1> DEFINE x == CHOOSE x \in s : TRUE
<1>6. IsFiniteSet(s \ {x}) /\ Cardinality(s \ {x}) < Cardinality(s)
  BY <1>2, <1>5, Removed
<1>7. f[s] = e[x] + f[s \ {x}] /\ g[s] = e[x] + g[s \ {x}]
  BY <1>4, <1>5 DEF IsSum
<1>8. s \ {x} \notin Off
  BY <1>2, <1>3, <1>6, FS_CardinalityType
<1>9. s \ {x} \in SUBSET (S \cap T)
  BY <1>4
<1>. QED  BY <1>7, <1>8, <1>9

\* There is such a function over every finite set.
LEMMA SumExists ==
    ASSUME NEW e, NEW S, IsFiniteSet(S)
    PROVE  \E f : IsSum(f, e, S)
<1> DEFINE Off == {T \in SUBSET S : ~\E f : IsSum(f, e, T)}
<1>1. SUFFICES ASSUME Off # {} PROVE FALSE
  OBVIOUS
<1>2. \A T \in Off : IsFiniteSet(T)
  BY FS_Subset
<1>3. PICK T \in Off : \A U \in Off : Cardinality(T) <= Cardinality(U)
  <2> HIDE DEF Off
  <2>. QED  BY <1>1, <1>2, SmallestSet
<1> DEFINE F(U) == CHOOSE f : IsSum(f, e, U)
<1>4. ASSUME NEW U \in SUBSET T, U # T
      PROVE  IsSum(F(U), e, U) /\ IsFiniteSet(U)
  <2>1. IsFiniteSet(U) /\ Cardinality(U) <= Cardinality(T)
    BY <1>2, FS_Subset
  <2>2. Cardinality(U) # Cardinality(T)
    BY <1>2, <1>4, FS_Subset
  <2>3. Cardinality(U) \in Nat /\ Cardinality(T) \in Nat
    BY <1>2, <2>1, FS_CardinalityType
  <2>4. U \notin Off
    BY <1>3, <2>1, <2>2, <2>3
  <2>. QED  BY <2>1, <2>4
<1> DEFINE y == CHOOSE x \in T : TRUE
           g == [s \in SUBSET T |-> IF s # T THEN F(s)[s] ELSE IF T = {} THEN 0 ELSE e[y] + F(T \ {y})[T \ {y}]]
<1>5. ASSUME NEW s \in SUBSET T
      PROVE  g[s] = IF s = {} THEN 0
                    ELSE LET x == CHOOSE x \in s : TRUE IN e[x] + g[s \ {x}]
  <2>1. CASE s = {}
    <3>1. CASE T = {}
      BY <2>1, <3>1
    <3>2. CASE T # {}
      <4>1. IsSum(F(s), e, s)
        BY <1>4, <2>1, <3>2
      <4>2. F(s)[s] = 0
        <5> HIDE DEF F
        <5>. QED BY <2>1, <4>1 DEF IsSum
      <4>. QED  BY <2>1, <3>2, <4>2
    <3>. QED  BY <3>1, <3>2
  <2>2. CASE s # {}
    <3> DEFINE x == CHOOSE x \in s : TRUE
    <3>1. x \in s
      BY <2>2
    <3>2. s \ {x} \in SUBSET T /\ s \ {x} # T
      BY <3>1
    <3>3. g[s \ {x}] = F(s \ {x})[s \ {x}]
      BY <3>2
    <3>4. CASE s = T
      BY <2>2, <3>3, <3>4
    <3>5. CASE s # T
      <4>1. IsSum(F(s), e, s) /\ IsSum(F(s \ {x}), e, s \ {x}) /\ IsFiniteSet(s) /\ IsFiniteSet(s \ {x})
        BY <1>4, <3>2, <3>5
      <4>2. F(s)[s \ {x}] = F(s \ {x})[s \ {x}]
        <5>1. s \ {x} \in SUBSET (s \cap (s \ {x}))
          OBVIOUS
        <5> HIDE DEF F, x
        <5>. QED  BY <4>1, <5>1, SumAgrees
      <4>3. F(s)[s] = e[x] + F(s)[s \ {x}]
        <5> HIDE DEF F
        <5>. QED BY <4>1, <2>2 DEF IsSum
      <4>. QED  BY <2>2, <3>3, <3>5, <4>2, <4>3
    <3>. QED  BY <3>4, <3>5
  <2>. QED  BY <2>1, <2>2
<1>6. IsSum(g, e, T)
  <2>1. g = [s \in SUBSET T |-> g[s]]
    OBVIOUS
  <2> HIDE DEF g
  <2>. QED BY <1>5, <2>1 DEF IsSum
<1>. QED  BY <1>6

LEMMA SumIsSum ==
    ASSUME NEW e, NEW S, IsFiniteSet(S)
    PROVE  \E f : IsSum(f, e, S) /\ SumOf(e, S) = f[S]
<1> DEFINE f == CHOOSE f : IsSum(f, e, S)
<1>1. IsSum(f, e, S)
  BY SumExists
<1>2. SumOf(e, S) = f[S]
  BY SMT DEF SumOf, MapThenSumSet, MapThenFoldSet, IsSum
<1>. QED  BY <1>1, <1>2

LEMMA SumEmpty == \A e : SumOf(e, {}) = 0
<1> TAKE e
<1>1. PICK f : IsSum(f, e, {}) /\ SumOf(e, {}) = f[{}]
  BY SumIsSum, FS_EmptySet
<1>. QED  BY <1>1 DEF IsSum

LEMMA SumStep ==
    ASSUME NEW e, NEW S, IsFiniteSet(S), S # {}
    PROVE  LET x == CHOOSE x \in S : TRUE IN x \in S /\ SumOf(e, S) = e[x] + SumOf(e, S \ {x})
<1> DEFINE x == CHOOSE x \in S : TRUE
<1>1. x \in S /\ IsFiniteSet(S \ {x})
  BY Removed
<1>2. PICK f : IsSum(f, e, S) /\ SumOf(e, S) = f[S]
  BY SumIsSum
<1>3. PICK g : IsSum(g, e, S \ {x}) /\ SumOf(e, S \ {x}) = g[S \ {x}]
  <2> HIDE DEF x
  <2>. QED BY <1>1, SumIsSum
<1>4. f[S] = e[x] + f[S \ {x}]
  BY <1>2 DEF IsSum
<1>5. f[S \ {x}] = g[S \ {x}]
  <2>1. S \ {x} \in SUBSET (S \cap (S \ {x}))
    OBVIOUS
  <2> HIDE DEF x
  <2>. QED  BY <1>1, <1>2, <1>3, <2>1, SumAgrees
<1>. QED  BY <1>1, <1>2, <1>3, <1>4, <1>5

\* A sum does not depend on the order its terms are taken in.
LEMMA SumTakes ==
    ASSUME NEW G, IsFiniteSet(G), NEW e \in [G -> Nat]
    PROVE  \A S \in SUBSET G : SumOf(e, S) \in Nat /\ \A y \in S : SumOf(e, S) = e[y] + SumOf(e, S \ {y})
<1> DEFINE Fine(S) == SumOf(e, S) \in Nat /\ \A y \in S : SumOf(e, S) = e[y] + SumOf(e, S \ {y})
           Off == {S \in SUBSET G : ~Fine(S)}
<1>1. SUFFICES ASSUME Off # {} PROVE FALSE
  OBVIOUS
<1>2. \A S \in SUBSET G : IsFiniteSet(S)
  BY FS_Subset
<1>3. PICK S \in Off : \A U \in Off : Cardinality(S) <= Cardinality(U)
  <2>1. \A s \in Off : IsFiniteSet(s)
    BY <1>2
  <2> HIDE DEF Off
  <2>. QED  BY <1>1, <2>1, SmallestSet
<1>4. ASSUME NEW U \in SUBSET S, U # S
      PROVE  U \in SUBSET G /\ Fine(U)
  <2>1. IsFiniteSet(S) /\ IsFiniteSet(U) /\ Cardinality(U) <= Cardinality(S)
    BY <1>2, FS_Subset
  <2>2. Cardinality(U) # Cardinality(S) /\ Cardinality(U) \in Nat /\ Cardinality(S) \in Nat
    BY <1>4, <2>1, FS_Subset, FS_CardinalityType
  <2> HIDE DEF Fine
  <2>. QED  BY <1>3, <2>1, <2>2
<1>5. Fine({})
  BY SumEmpty
<1>6. S # {}
  <2> HIDE DEF Fine
  <2>. QED  BY <1>5
<1>7. PICK x \in S : SumOf(e, S) = e[x] + SumOf(e, S \ {x})
  BY <1>2, <1>6, SumStep
<1>8. ASSUME NEW y \in S, y # x
      PROVE  SumOf(e, S) = e[y] + SumOf(e, S \ {y})
  <2> DEFINE r == SumOf(e, (S \ {x}) \ {y})
  <2>1. (S \ {x}) \ {y} = (S \ {y}) \ {x}
    OBVIOUS
  <2>2. SumOf(e, S \ {x}) = e[y] + r
    BY <1>4, <1>8
  <2>3. SumOf(e, S \ {y}) = e[x] + r
    BY <1>4, <1>8, <2>1
  <2>4. e[x] \in Nat /\ e[y] \in Nat
    OBVIOUS
  <2>5. r \in Nat
    <3>1. (S \ {x}) \ {y} \in SUBSET S /\ (S \ {x}) \ {y} # S
      OBVIOUS
    <3>. QED  BY <1>4, <3>1
  <2> HIDE DEF r
  <2>6. SumOf(e, S) = e[x] + (e[y] + r) /\ SumOf(e, S \ {y}) = e[x] + r
    BY <1>7, <2>2, <2>3
  <2>. QED  BY <2>4, <2>5, <2>6
<1>9. SumOf(e, S) \in Nat
  BY <1>4, <1>7
<1>10. Fine(S)
  BY <1>7, <1>8, <1>9
<1> HIDE DEF Fine
<1>. QED  BY <1>10

\* A sum of numbers grows with the set.
LEMMA SumGrows ==
    ASSUME NEW G, IsFiniteSet(G), NEW e \in [G -> Nat], NEW S \in SUBSET G
    PROVE  \A T \in SUBSET S : SumOf(e, T) <= SumOf(e, S) /\ SumOf(e, T) \in Nat /\ SumOf(e, S) \in Nat
<1>1. \A T \in SUBSET G : IsFiniteSet(T) /\ SumOf(e, T) \in Nat
  BY FS_Subset, SumTakes
<1> DEFINE Off(T) == {U \in SUBSET S : T \subseteq U /\ ~(SumOf(e, T) <= SumOf(e, U))}
<1>2. SUFFICES ASSUME NEW T \in SUBSET S, Off(T) # {} PROVE FALSE
  BY <1>1
<1>3. PICK U \in Off(T) : \A V \in Off(T) : Cardinality(U) <= Cardinality(V)
  <2>1. \A s \in Off(T) : IsFiniteSet(s)
    BY <1>1
  <2> HIDE DEF Off
  <2>. QED  BY <1>2, <2>1, SmallestSet
<1>4. U # T
  BY <1>1
<1>5. PICK y \in U : y \notin T
  BY <1>4
<1>6. /\ IsFiniteSet(U) /\ U \ {y} \in SUBSET S /\ T \subseteq U \ {y}
      /\ Cardinality(U \ {y}) = Cardinality(U) - 1 /\ Cardinality(U) \in Nat
  BY <1>1, <1>5, FS_RemoveElement, FS_CardinalityType
<1>7. SumOf(e, T) <= SumOf(e, U \ {y})
  BY <1>3, <1>6
<1>8. SumOf(e, U) = e[y] + SumOf(e, U \ {y}) /\ e[y] \in Nat
  BY SumTakes
<1>9. SumOf(e, T) \in Nat /\ SumOf(e, U \ {y}) \in Nat /\ SumOf(e, U) \in Nat
  BY <1>1, <1>6
<1>. QED  BY <1>7, <1>8, <1>9

-----------------------------------------------------------------------------
(* Degrees that are built.                                                 *)

LEMMA RowsSum ==
    ASSUME NEW f, NEW s
    PROVE  VerifyRows(f, s) = f.verify[s.bits].rows + SumOf(f.eval, s.gates)
BY DEF VerifyRows, SumOf

\* The logarithm, for what some degree has room for.
LEMMA Log2Type ==
    ASSUME NEW n \in Nat, NEW b \in Bits, n <= Size[b]
    PROVE  /\ Log2Ceil[n] \in Bits /\ n <= Size[Log2Ceil[n]] /\ Log2Ceil[n] <= b
           /\ \A c \in Bits : n <= Size[c] => Log2Ceil[n] <= c
<1> DEFINE T == {c \in Bits : n <= Size[c]}
<1>1. T \in SUBSET Bits /\ b \in T
  OBVIOUS
<1>2. Log2Ceil[n] = Least(T)
  BY DEF Log2Ceil
<1> HIDE DEF T
<1>3. Least(T) \in T /\ \A c \in T : Least(T) <= c
  BY <1>1, LeastIsLeast
<1>. QED  BY <1>1, <1>2, <1>3 DEF T

\* What blind_and_pad arrives at.
LEMMA BuiltType ==
    ASSUME NEW n, Fits(n)
    PROVE  LET e == EstimateBits[n]
               t == n + BlindingRows[e]
           IN  /\ e \in Bits /\ t \in Nat /\ t <= Size[e]
               /\ BuiltBits[n] = Log2Ceil[t]
               /\ BuiltBits[n] \in Bits /\ BuiltBits[n] <= e /\ t <= Size[BuiltBits[n]]
               /\ \A c \in Bits : t <= Size[c] => BuiltBits[n] <= c
<1> DEFINE e == EstimateBits[n]
           t == n + BlindingRows[e]
<1>1. e \in Bits /\ t <= Size[e] /\ n \in Nat
  BY EstimateType DEF FittingBits, Fits
<1>2. t \in Nat
  BY <1>1, BlindingAssumption
<1>3. BuiltBits[n] = Log2Ceil[t]
  BY <1>1 DEF BuiltBits
<1> HIDE DEF e, t
<1>4. QED  BY <1>1, <1>2, <1>3, Log2Type DEF e, t

\* The counts at a degree.
LEMMA CountTypes ==
    ASSUME NEW b \in Bits
    PROVE  b \in Nat /\ b <= MaxBits /\ MaxBits \in Nat
           /\ Size[b] \in Nat /\ BlindingRows[b] \in Nat /\ RegularOpenings(b) \in Nat
<1>1. MaxBits \in Nat /\ RegularOpenings(b) \in Nat
  BY BlindingAssumption
<1>2. Size[b] \in Nat /\ BlindingRows[b] \in Nat
  <2>1. Size \in [Bits -> Nat \ {0}] /\ BlindingRows \in [Bits -> Nat]
    BY BlindingAssumption
  <2>. QED  BY <2>1
<1>3. b \in Nat /\ b <= MaxBits
  BY <1>1 DEF Bits
<1>. QED  BY <1>1, <1>2, <1>3

\* The degree a circuit ends up with grows with its rows, too.
THEOREM BuiltDegreeGrows ==
    ASSUME NEW m \in Nat, NEW n \in Nat, m <= n, Fits(n)
    PROVE  BuiltBits[m] <= BuiltBits[n]
<1> DEFINE d == EstimateBits[m]
           e == EstimateBits[n]
<1>1. BlindingRows[MaxBits] \in Nat /\ Size[MaxBits] \in Nat
  BY BlindingAssumption DEF Bits
<1>2. Fits(m)
  BY <1>1 DEF Fits
<1>3. d <= e
  BY DegreeGrows
<1>4. /\ d \in Bits /\ m + BlindingRows[d] <= Size[d] /\ BuiltBits[m] <= d /\ BuiltBits[m] \in Bits
      /\ \A c \in Bits : m + BlindingRows[d] <= Size[c] => BuiltBits[m] <= c
  BY <1>2, BuiltType
<1>5. /\ e \in Bits /\ n + BlindingRows[e] <= Size[BuiltBits[n]] /\ BuiltBits[n] \in Bits
  BY BuiltType
<1>6. d \notin FittingBits(n) \/ e <= d
  BY EstimateType
<1> HIDE DEF d, e
<1>7. /\ BlindingRows[d] \in Nat /\ BlindingRows[e] \in Nat /\ Size[d] \in Nat
      /\ \A c \in Bits : Size[c] \in Nat /\ c \in Nat /\ c <= MaxBits /\ MaxBits \in Nat
  BY <1>4, <1>5, CountTypes
<1>8. CASE d = e
  BY <1>4, <1>5, <1>7, <1>8
<1>9. CASE d # e
  <2>1. d < e /\ Size[d] < n + BlindingRows[d]
    <3>1. d \in Nat /\ e \in Nat
      BY <1>4, <1>5, <1>7
    <3>2. d < e
      BY <1>3, <1>9, <3>1
    <3>3. ~(n <= Size[d] /\ n + BlindingRows[d] <= Size[d])
      BY <1>4, <1>6, <3>1, <3>2 DEF FittingBits
    <3>. QED  BY <1>7, <3>2, <3>3
  <2>2. SUFFICES ASSUME BuiltBits[n] < d PROVE FALSE
    BY <1>4, <1>5, <1>7
  <2>3. d > 0 /\ d - 1 \in Bits /\ BuiltBits[n] <= d - 1 /\ BlindingRows[d] <= Size[d]
    <3>1. BuiltBits[n] \in Nat /\ d \in Nat /\ d <= MaxBits /\ MaxBits \in Nat
      BY <1>4, <1>5, <1>7
    <3>2. d > 0 /\ d - 1 \in 0 .. MaxBits /\ BuiltBits[n] <= d - 1
      BY <2>2, <3>1
    <3>3. BlindingRows[d] <= Size[d]
      BY <1>4, <1>7
    <3>. QED  BY <3>2, <3>3 DEF Bits
  <2>4. Size[BuiltBits[n]] <= Size[d - 1]
    BY <1>5, <2>3, BlindingAssumption
  <2>5. Size[d - 1] + BlindingRows[d] <= Size[d] + BlindingRows[e]
    BY <1>4, <1>5, <2>1, <2>3, DropAssumption
  <2>. QED  BY <1>5, <1>7, <2>1, <2>3, <2>4, <2>5
<1>. QED  BY <1>8, <1>9

-----------------------------------------------------------------------------
(* The co-build.                                                           *)

CoTypeOK ==
    /\ facts \in Facts /\ first \in CredType /\ round \in {1, 2}
    /\ stage \in {"trial", "final", "wrap", "ready", "bail", "panic"}
    /\ extra \subseteq GateType
    /\ stage \in {"trial", "final"} => inner \in Shape
    /\ stage \in {"wrap", "ready"} => del \in Shape

\* Verifying a shape takes a number of rows that grows with its gate types.
LEMMA RowsType ==
    ASSUME NEW f \in Facts, NEW b \in Bits, NEW gs \in SUBSET GateType
    PROVE  LET n == VerifyRows(f, [gates |-> gs, bits |-> b])
               m == VerifyRows(f, [gates |-> {}, bits |-> b])
               l == VerifyRows(f, [gates |-> GateType, bits |-> b])
           IN  /\ m \in Nat /\ n \in Nat /\ l \in Nat /\ m <= n /\ n <= l
               /\ Fits(2 * n) /\ Fits(3 * n) /\ Fits(f.own.rows + n) /\ Fits(f.own.rows + l)
               /\ f.own.rows \in Nat
<1> DEFINE n == VerifyRows(f, [gates |-> gs, bits |-> b])
           m == VerifyRows(f, [gates |-> {}, bits |-> b])
           l == VerifyRows(f, [gates |-> GateType, bits |-> b])
<1>1. f.eval \in [GateType -> Nat] /\ f.verify[b].rows \in Nat /\ f.own.rows \in Nat
  BY FactsAssumption DEF Cost
<1>2. /\ n = f.verify[b].rows + SumOf(f.eval, gs)
      /\ m = f.verify[b].rows + SumOf(f.eval, {})
      /\ l = f.verify[b].rows + SumOf(f.eval, GateType)
  BY RowsSum
<1>3. /\ SumOf(f.eval, gs) \in Nat /\ SumOf(f.eval, {}) \in Nat /\ SumOf(f.eval, GateType) \in Nat
      /\ SumOf(f.eval, {}) <= SumOf(f.eval, gs) /\ SumOf(f.eval, gs) <= SumOf(f.eval, GateType)
  <2>1. IsFiniteSet(GateType) /\ gs \in SUBSET GateType /\ {} \in SUBSET gs
        /\ GateType \in SUBSET GateType /\ gs \in SUBSET gs
    BY CapacityAssumption
  <2>. QED  BY <1>1, <2>1, SumGrows
<1>4. Fits(3 * l) /\ Fits(f.own.rows + l)
  BY CapacityAssumption
<1> HIDE DEF n, m, l
<1>5. m \in Nat /\ n \in Nat /\ l \in Nat /\ m <= n /\ n <= l
  BY <1>1, <1>2, <1>3
<1>6. Fits(2 * n) /\ Fits(3 * n) /\ Fits(f.own.rows + n)
  <2>1. BlindingRows[MaxBits] \in Nat /\ Size[MaxBits] \in Nat
    BY BlindingAssumption DEF Bits
  <2>. QED  BY <1>1, <1>4, <1>5, <2>1 DEF Fits
<1>. QED  BY <1>1, <1>4, <1>5, <1>6 DEF n, m, l

\* common_data_for_recursion is a shape.
LEMMA SeedType ==
    ASSUME facts \in Facts
    PROVE  Seed \in Shape
<1>1. \A s \in Shape : s = [gates |-> s.gates, bits |-> s.bits] /\ s.gates \in SUBSET GateType /\ s.bits \in Bits
  BY DEF Shape
<1>2. \A k : Fits(k) => BuiltBits[k] \in Bits
  BY BuiltType
<1>3. facts.common \in SUBSET GateType /\ \A b \in Bits : facts.verify[b].gates \in SUBSET GateType
  BY FactsAssumption DEF Cost
<1>4. \A s \in Shape : \A n \in {2, 3} : Verifiers(n, s) \in Shape
  <2> TAKE s \in Shape
  <2> TAKE n \in {2, 3}
  <2>1. Fits(n * VerifyRows(facts, s))
    BY <1>1, RowsType
  <2>. QED  BY <1>1, <1>2, <1>3, <2>1 DEF Verifiers, Shape
<1>5. [gates |-> facts.common, bits |-> BuiltBits[2]] \in Shape
  BY <1>2, <1>3, CapacityAssumption DEF Shape
<1>. QED  BY <1>4, <1>5 DEF Seed

LEMMA DelType ==
    ASSUME facts \in Facts, NEW s \in Shape, NEW more \in SUBSET GateType
    PROVE  DelShape(s, more) \in Shape
<1>1. s = [gates |-> s.gates, bits |-> s.bits] /\ s.gates \in SUBSET GateType /\ s.bits \in Bits
  BY DEF Shape
<1>2. Fits(facts.own.rows + VerifyRows(facts, s))
  BY <1>1, RowsType
<1>3. facts.own.gates \in SUBSET GateType /\ facts.verify[s.bits].gates \in SUBSET GateType
  BY <1>1, FactsAssumption DEF Cost
<1>. QED  BY <1>1, <1>2, <1>3, BuiltType DEF DelShape, Shape

\* When there is room, R_Del has the degree of the seed whatever is registered in it.
LEMMA RoomKeepsDegree ==
    ASSUME facts \in Facts, Room, NEW s \in Shape, s.bits = Seed.bits
    PROVE  \A more : DelShape(s, more).bits = Seed.bits
<1> DEFINE b == Seed.bits
           n == VerifyRows(facts, [gates |-> s.gates, bits |-> b])
           m == VerifyRows(facts, [gates |-> {}, bits |-> b])
           l == VerifyRows(facts, [gates |-> GateType, bits |-> b])
<1>1. s = [gates |-> s.gates, bits |-> b] /\ s.gates \in SUBSET GateType /\ b \in Bits
  BY SeedType DEF Shape
<1>2. BuiltBits[facts.own.rows + m] = b /\ BuiltBits[facts.own.rows + l] = b
  BY DEF Room
<1> HIDE DEF b
<1>3. /\ m \in Nat /\ n \in Nat /\ l \in Nat /\ m <= n /\ n <= l /\ facts.own.rows \in Nat
      /\ Fits(facts.own.rows + n) /\ Fits(facts.own.rows + l)
  BY <1>1, RowsType
<1>4. VerifyRows(facts, s) = n
  BY <1>1
<1> HIDE DEF n, m, l
<1>5. /\ BuiltBits[facts.own.rows + m] <= BuiltBits[facts.own.rows + n]
      /\ BuiltBits[facts.own.rows + n] <= BuiltBits[facts.own.rows + l]
      /\ BuiltBits[facts.own.rows + n] \in Bits
  BY <1>3, BuiltDegreeGrows, BuiltType
<1>6. BuiltBits[facts.own.rows + n] = b
  BY <1>1, <1>2, <1>5 DEF Bits
<1>. QED  BY <1>4, <1>6 DEF DelShape, b

\* The shapes the co-build goes through when there is room: R_Del is built on
\* the seed, again on the shape that gives, and the second time round with the
\* gate types the first credential type's wrapper misses.
Registered ==
    \/ extra = {} /\ round = 1
    \/ extra = facts.wrap[first].gates \ DelShape(Seed, {}).gates /\ round = 2

RoomIInv ==
    /\ stage \notin {"bail", "panic"}
    /\ stage \in {"trial", "final", "wrap"} => Registered
    /\ stage = "trial" => inner = Seed
    /\ stage = "final" => inner = DelShape(Seed, extra)
    /\ stage = "wrap" => del = DelShape(Seed, extra)

\* Registering the gate types that are missing makes R_Del's shape hold them.
LEMMA ShapeSettles ==
    ASSUME facts \in Facts, Room, NEW more \in SUBSET GateType
    PROVE  LET s == DelShape(Seed, more)
           IN  /\ DelShape(s, more) = s /\ s \in Shape /\ s.bits = Seed.bits
               /\ s.gates = more \cup DelShape(Seed, {}).gates
<1> DEFINE s == DelShape(Seed, more)
<1>1. s \in Shape /\ s.bits = Seed.bits
  BY SeedType, DelType, RoomKeepsDegree
<1>2. DelShape(s, more).bits = s.bits
  BY <1>1, RoomKeepsDegree
<1>3. s.gates = more \cup DelShape(Seed, {}).gates
  BY DEF DelShape
<1>4. DelShape(s, more).gates = s.gates
  <2>1. /\ s.gates = more \cup Seed.gates \cup facts.own.gates \cup facts.verify[Seed.bits].gates
        /\ DelShape(s, more).gates = more \cup s.gates \cup facts.own.gates \cup facts.verify[s.bits].gates
    BY DEF DelShape
  <2>. QED  BY <1>1, <2>1
<1>5. DelShape(s, more) = [gates |-> DelShape(s, more).gates, bits |-> DelShape(s, more).bits]
  BY DEF DelShape
<1>6. s = [gates |-> s.gates, bits |-> s.bits]
  BY DEF DelShape
<1>. QED  BY <1>1, <1>2, <1>3, <1>4, <1>5, <1>6

LEMMA InitCoType == Init => CoTypeOK
BY SeedType DEF Init, CoTypeOK

LEMMA NextCoType ==
    ASSUME CoTypeOK, [Next]_vars
    PROVE  CoTypeOK'
<1>1. CASE TrialBuild
  <2>1. inner \in Shape /\ extra \in SUBSET GateType /\ facts \in Facts
    BY <1>1 DEF TrialBuild, CoTypeOK
  <2>2. DelShape(inner, extra) \in Shape
    BY <2>1, DelType
  <2>. QED  BY <1>1, <2>1, <2>2 DEF TrialBuild, CoTypeOK
<1>2. CASE FinalBuild
  BY <1>2 DEF FinalBuild, CoTypeOK
<1>3. CASE FirstWrapper
  <2>1. facts \in Facts /\ first \in CredType /\ facts.wrap[first].gates \in SUBSET GateType
    BY FactsAssumption DEF CoTypeOK, Cost
  <2>2. del \in Shape /\ del.gates \in SUBSET GateType
    BY <1>3 DEF FirstWrapper, CoTypeOK, Shape
  <2>3. ExtraGates(WrapShape(first, del)) \in SUBSET GateType
    BY <2>1, <2>2 DEF ExtraGates, WrapShape
  <2>4. Seed' = Seed /\ Seed \in Shape
    <3>1. facts' = facts
      BY <1>3 DEF FirstWrapper
    <3>. QED  BY <2>1, <3>1, SeedType DEF Seed, Verifiers
  <2>. QED  BY <1>3, <2>1, <2>2, <2>3, <2>4 DEF FirstWrapper, CoTypeOK
<1>4. ASSUME NEW t \in CredType, Attach(t)
      PROVE  CoTypeOK'
  BY <1>4 DEF Attach, CoTypeOK
<1>5. CASE UNCHANGED coVars
  BY <1>5 DEF coVars, CoTypeOK
<1>. QED
  BY <1>1, <1>2, <1>3, <1>4, <1>5 DEF Next, Build, BuildDummyProof, SearchStep, vars

\* The state of the builds keeps its type, so every shape has a degree below the bound.
THEOREM CoTypeCorrect == Spec => []CoTypeOK
BY InitCoType, NextCoType, PTL DEF Spec

\* Every step of a co-build that has room.
LEMMA NextRoom ==
    ASSUME CoTypeOK, Room, RoomIInv, [Next]_vars
    PROVE  RoomIInv'
<1>1. facts \in Facts /\ first \in CredType /\ extra \in SUBSET GateType
      /\ facts.wrap[first].gates \in SUBSET GateType
  BY FactsAssumption DEF CoTypeOK, Cost
<1>2. /\ facts' = facts /\ first' = first /\ Seed' = Seed
      /\ \A s, more : DelShape(s, more)' = DelShape(s, more)
  <2>1. facts' = facts /\ first' = first
    BY DEF Next, Build, TrialBuild, FinalBuild, FirstWrapper, Attach, SearchStep,
           BuildDummyProof, vars, coVars
  <2>. QED  BY <2>1 DEF Seed, Verifiers, DelShape
<1>3. CASE TrialBuild
  BY <1>2, <1>3 DEF TrialBuild, RoomIInv, Registered
<1>4. CASE FinalBuild
  <2>1. stage = "final" /\ inner = DelShape(Seed, extra)
    BY <1>4 DEF FinalBuild, RoomIInv
  <2>2. DelShape(inner, extra) = inner
    BY <1>1, <2>1, ShapeSettles
  <2>3. stage' = "wrap" /\ del' = inner /\ extra' = extra /\ round' = round
    BY <1>4, <2>2 DEF FinalBuild
  <2>. QED  BY <1>2, <2>1, <2>3 DEF RoomIInv, Registered
<1>5. CASE FirstWrapper
  <2> DEFINE w == WrapShape(first, del)
  <2>1. stage = "wrap" /\ Registered /\ del = DelShape(Seed, extra)
    BY <1>5 DEF FirstWrapper, RoomIInv
  <2>2. del.bits = Seed.bits /\ del.gates = extra \cup DelShape(Seed, {}).gates
        /\ del = [gates |-> del.gates, bits |-> del.bits]
    <3>1. del \in Shape
      BY <1>1, <2>1, ShapeSettles
    <3>. QED  BY <1>1, <2>1, <3>1, ShapeSettles DEF Shape
  <2>3. w = [gates |-> del.gates \cup facts.wrap[first].gates, bits |-> Seed.bits]
    BY DEF WrapShape, Room
  <2>4. CASE w = del
    <3>1. stage' = "ready"
      BY <1>5, <2>4 DEF FirstWrapper
    <3>. QED  BY <3>1 DEF RoomIInv
  <2>5. CASE w # del
    <3>1. round = 1 /\ extra = {}
      <4>1. SUFFICES ASSUME extra = facts.wrap[first].gates \ DelShape(Seed, {}).gates PROVE FALSE
        BY <2>1 DEF Registered
      <4>2. del.gates \cup facts.wrap[first].gates = del.gates
        BY <2>2, <4>1
      <4>. QED  BY <2>2, <2>3, <2>5, <4>2
    <3>2. ExtraGates(w) = facts.wrap[first].gates \ DelShape(Seed, {}).gates
      <4>1. del.gates = DelShape(Seed, {}).gates
        BY <2>2, <3>1
      <4>. QED  BY <2>3, <4>1 DEF ExtraGates
    <3>3. stage' = "trial" /\ round' = 2 /\ extra' = ExtraGates(w) /\ inner' = Seed
      BY <1>5, <2>5, <3>1 DEF FirstWrapper
    <3>. QED  BY <1>2, <3>2, <3>3 DEF RoomIInv, Registered
  <2>. QED  BY <2>4, <2>5
<1>6. ASSUME NEW t \in CredType, Attach(t)
      PROVE  RoomIInv'
  BY <1>6 DEF Attach, RoomIInv
<1>7. CASE UNCHANGED coVars
  BY <1>2, <1>7 DEF coVars, RoomIInv, Registered
<1>. QED
  BY <1>3, <1>4, <1>5, <1>6, <1>7 DEF Next, Build, BuildDummyProof, SearchStep, vars

\* Whether there is room is settled by what the gadgets cost.
LEMMA RoomStays ==
    ASSUME [Next]_vars
    PROVE  Room' <=> Room
<1>1. facts' = facts /\ first' = first
  BY DEF Next, Build, TrialBuild, FinalBuild, FirstWrapper, Attach, SearchStep,
         BuildDummyProof, vars, coVars
<1>. QED  BY <1>1 DEF Room, Seed, Verifiers

\* build_delegation_and_wrapper, "A single iteration suffices": when R_Del has
\* the degree of the seed whatever is registered in it and the first wrapper
\* has that degree, neither the assertion on convergence nor the second
\* comparison can fail, whatever the gadgets cost and whichever gate types
\* they use.
THEOREM SingleIteration == Spec => []OneIterationSuffices
<1> DEFINE I == CoTypeOK /\ (Room => RoomIInv)
<1>1. Init => I
  <2>1. Init => RoomIInv
    <3> SUFFICES ASSUME Init PROVE RoomIInv
      OBVIOUS
    <3>1. stage = "trial" /\ extra = {} /\ round = 1 /\ inner = Seed
      BY DEF Init
    <3>. QED  BY <3>1 DEF RoomIInv, Registered
  <2>. QED  BY <2>1, InitCoType
<1>2. I /\ [Next]_vars => I'
  BY NextCoType, NextRoom, RoomStays
<1>3. I => OneIterationSuffices
  BY DEF RoomIInv, OneIterationSuffices
<1>. QED  BY <1>1, <1>2, <1>3, PTL DEF Spec

\* R_Del's blinding rows, counted for the degree that is estimated, cover the
\* openings at the degree it is padded to (blind_and_pad), whatever it verifies.
THEOREM BlindingSuffices == Spec => []BlindingCovers
<1> DEFINE I == CoTypeOK /\ ShapeIInv
<1>1. Spec => []ShapeIInv
  BY ShapesAgreeInv
<1>2. Spec => []CoTypeOK
  BY CoTypeCorrect
<1>3. CoTypeOK /\ ShapeIInv => BlindingCovers
  <2> SUFFICES ASSUME CoTypeOK, ShapeIInv, stage = "ready", del.bits < 17
               PROVE  LET e == EstimateBits[facts.own.rows + VerifyRows(facts, del)]
                      IN  RegularOpenings(e) >= RegularOpenings(del.bits)
    BY DEF BlindingCovers
  <2> DEFINE n == facts.own.rows + VerifyRows(facts, del)
             e == EstimateBits[n]
             b == del.bits
  <2>1. facts \in Facts /\ del \in Shape /\ DelShape(del, extra) = del
    BY DEF CoTypeOK, ShapeIInv
  <2>2. del = [gates |-> del.gates, bits |-> b] /\ del.gates \in SUBSET GateType /\ b \in Bits
    BY <2>1 DEF Shape
  <2>3. Fits(n)
    BY <2>1, <2>2, RowsType
  <2>4. BuiltBits[n] = b
    BY <2>1 DEF DelShape
  <2>5. b < 17
    OBVIOUS
  <2> HIDE DEF n, b
  <2>6. e \in Bits /\ b <= e /\ n + BlindingRows[e] <= Size[b] /\ n \in Nat
    BY <2>3, <2>4, BuiltType DEF Fits
  <2> HIDE DEF e
  <2>7. BlindingRows[e] \in Nat /\ Size[b] \in Nat /\ b \in Nat /\ e \in Nat
    BY <2>2, <2>6, CountTypes
  <2>8. RegularOpenings(e) \in Int /\ RegularOpenings(b) \in Int
    BY <2>2, <2>6, BlindingAssumption
  <2>9. ~(RegularOpenings(e) < RegularOpenings(b))
    <3>1. SUFFICES ASSUME RegularOpenings(e) < RegularOpenings(b) PROVE FALSE
      OBVIOUS
    <3>2. b < e
      <4>1. b # e
        BY <2>8, <3>1
      <4>. QED  BY <2>6, <2>7, <4>1
    <3>3. Size[b] < BlindingRows[e]
      BY <2>2, <2>5, <2>6, <3>1, <3>2, DropAssumption
    <3>. QED  BY <2>6, <2>7, <3>3
  <2>10. RegularOpenings(e) >= RegularOpenings(b)
    BY <2>8, <2>9
  <2>. QED  BY <2>10 DEF e, b, n
<1>. QED  BY <1>1, <1>2, <1>3, PTL

================================================================================
