--------------------------- MODULE WitnessTheorems ---------------------------
(***************************************************************************)
(* Witness generation loses no wake-up and what it returns satisfies every *)
(* generator, for every circuit, every field and every order of the queue; *)
(* the forest of copies is the relation they generate; and the loop's      *)
(* steps are steps of its abstraction, Solution.                           *)
(***************************************************************************)
EXTENDS WitnessGeneration, FiniteSetTheorems, TLAPS

\* What the values and the queue are before generation starts.
Untouched ==
    pc \in {"merge", "inputs"} => values = <<>> /\ expired = {} /\ pending = Queued

\* The strengthening under which both properties are inductive.
IInv ==
    /\ circuit \in Circuit
    /\ pc \in {"merge", "inputs", "run", "ok", "err"}
    /\ pending \in [Gens -> Nat] /\ next \in [Gens -> Nat]
    /\ expired \subseteq Gens
    /\ remaining = Cardinality(Gens \ expired)
    /\ Untouched
    /\ NoLostWakeup
    /\ FinishedHolds

LEMMA GensFinite ==
    ASSUME circuit \in Circuit
    PROVE  /\ Gens = 1 .. Len(circuit.gens)
           /\ IsFiniteSet(Gens) /\ Cardinality(Gens) = Len(circuit.gens)
<1>1. Gens = 1 .. Len(circuit.gens) /\ Len(circuit.gens) \in Nat
  BY CircuitAssumption DEF Gens
<1>. QED  BY <1>1, FS_Interval

\* The representatives a generator writes are finitely many.
LEMMA NewRepsFinite ==
    ASSUME circuit \in Circuit, NEW g \in Gens
    PROVE  IsFiniteSet(NewReps(circuit.gens[g].outs))
<1> DEFINE ts == circuit.gens[g].outs
<1>1. ts \in Seq(Target)
  BY CircuitAssumption DEF Gens
<1>2. IsFiniteSet(DOMAIN ts)
  BY <1>1, FS_Interval
<1>3. IsFiniteSet({parents[ts[i]] : i \in DOMAIN ts})
  <2> DEFINE reps == {parents[ts[i]] : i \in DOMAIN ts}
             rep == [i \in DOMAIN ts |-> parents[ts[i]]]
  <2>1. rep \in Surjection(DOMAIN ts, reps)
    BY DEF Surjection
  <2>. QED  BY <1>2, <2>1, FS_Surjection
<1>. QED  BY <1>3, FS_Difference DEF NewReps

\* Values are only added: what has a value keeps it.
LEMMA SetTargetsExtends ==
    ASSUME NEW ts, NEW vs
    PROVE  /\ DOMAIN SetTargets(ts, vs) = DOMAIN values \cup NewReps(ts)
           /\ \A r \in DOMAIN values : SetTargets(ts, vs)[r] = values[r]
BY DEF SetTargets

\* What was set is what the targets now have.
LEMMA SetTargetsSets ==
    ASSUME NEW ts, NEW vs, Agree(ts, vs), NEW i \in DOMAIN ts
    PROVE  /\ parents[ts[i]] \in DOMAIN SetTargets(ts, vs)
           /\ SetTargets(ts, vs)[parents[ts[i]]] = vs[i]
<1> DEFINE r == parents[ts[i]]
<1>1. r \in DOMAIN values \cup NewReps(ts)
  BY DEF NewReps
<1>2. CASE r \in DOMAIN values
  <2>1. values[r] = vs[i]
    BY <1>2 DEF Agree
  <2>. QED  BY <1>2, <2>1, SetTargetsExtends
<1>3. CASE r \notin DOMAIN values
  <2> DEFINE j == CHOOSE k \in DOMAIN ts : parents[ts[k]] = r
  <2>1. j \in DOMAIN ts /\ parents[ts[j]] = r
    OBVIOUS
  <2>2. vs[j] = vs[i]
    BY <2>1 DEF Agree
  <2>3. SetTargets(ts, vs)[r] = vs[j]
    BY <1>1, <1>3 DEF SetTargets
  <2>. QED  BY <1>1, <2>2, <2>3 DEF SetTargets
<1>. QED  BY <1>2, <1>3

\* A generator that was ready reads the same from an extended witness.
LEMMA ReadyStays ==
    ASSUME UNCHANGED <<circuit, parents>>,
           \A r \in DOMAIN values : r \in DOMAIN values' /\ values'[r] = values[r],
           NEW g, Ready(g)
    PROVE  Ready(g)' /\ Outputs(g)' = Outputs(g)
<1>1. Ready(g)'
  BY DEF Ready
<1>2. [i \in DOMAIN circuit.gens[g].deps |-> values[parents[circuit.gens[g].deps[i]]]]'
        = [i \in DOMAIN circuit.gens[g].deps |-> values[parents[circuit.gens[g].deps[i]]]]
  BY DEF Ready
<1>. QED  BY <1>1, <1>2 DEF Outputs

LEMMA HoldsStays ==
    ASSUME UNCHANGED <<circuit, parents>>,
           \A r \in DOMAIN values : r \in DOMAIN values' /\ values'[r] = values[r],
           NEW g, Holds(g)
    PROVE  Holds(g)'
<1>1. Ready(g)' /\ Outputs(g)' = Outputs(g)
  BY ReadyStays DEF Holds
<1>. QED  BY <1>1 DEF Holds

LEMMA InitIInv == Init => IInv
<1> SUFFICES ASSUME Init PROVE IInv
  OBVIOUS
<1>1. remaining = Cardinality(Gens \ expired)
  <2>1. Gens \ expired = Gens
    BY DEF Init
  <2>. QED  BY <2>1, GensFinite DEF Init
<1>. QED  BY <1>1 DEF Init, IInv, Untouched, NoLostWakeup, FinishedHolds, Queued, NoneQueued

LEMMA DropIInv ==
    ASSUME IInv, NEW g \in Gens, Drop(g)
    PROVE  IInv'
<1> USE DEF Drop, Dequeue
<1>1. Gens' = Gens
  BY DEF Gens
<1>2. pending' \in [Gens -> Nat] /\ \A h \in Gens \ {g} : pending'[h] = pending[h]
  BY DEF IInv
<1>3. \A h \in Gens : /\ MayFinish(h)' <=> MayFinish(h)
                      /\ Holds(h)' <=> Holds(h)
  BY SMTT(30) DEF MayFinish, Ready, Outputs, Holds
<1>4. NoLostWakeup'
  BY <1>1, <1>2, <1>3 DEF NoLostWakeup, IInv
<1>5. FinishedHolds'
  BY <1>1, <1>3 DEF FinishedHolds, IInv
<1>. QED  BY <1>1, <1>2, <1>4, <1>5 DEF IInv, Untouched

\* The one step that could lose a wake-up: whoever becomes ready watched one of
\* the representatives that g gave a value.
LEMMA FinishIInv ==
    ASSUME IInv, NEW g \in Gens, Finish(g)
    PROVE  IInv'
<1> DEFINE ts == circuit.gens[g].outs
<1>1. Gens' = Gens
  BY DEF Gens, Finish
<1>2. /\ circuit \in Circuit
      /\ pending' \in [Gens -> Nat] /\ \A h \in Gens \ {g} : pending'[h] = pending[h]
  BY DEF IInv, Finish, Dequeue
<1>3. PICK out \in Outputs(g) :
        IF Agree(ts, out)
        THEN /\ values' = SetTargets(ts, out)
             /\ expired' = expired \cup {g}
             /\ remaining' = remaining - 1
             /\ next' = Wake(NewReps(ts), expired \cup {g})
             /\ UNCHANGED pc
        ELSE pc' = "err" /\ UNCHANGED <<values, expired, remaining, next>>
  BY DEF Finish
<1>4. UNCHANGED <<circuit, parents, merged>> /\ pc = "run" /\ MayFinish(g)
  BY DEF Finish, Dequeue
<1>5. CASE ~Agree(ts, out)
  <2>1. \A h \in Gens : Holds(h)' <=> Holds(h)
    <3>1. circuit' = circuit /\ parents' = parents /\ values' = values
      BY <1>3, <1>4, <1>5
    <3>. QED  BY <3>1, SMTT(30) DEF Holds, Ready, Outputs
  <2>2. FinishedHolds'
    BY <1>1, <1>3, <1>5, <2>1 DEF FinishedHolds, IInv
  <2>3. Gens' \ expired' = Gens \ expired
    BY <1>1, <1>3, <1>5
  <2>. QED  BY <1>1, <1>2, <1>3, <1>4, <1>5, <2>2, <2>3 DEF IInv, Untouched, NoLostWakeup
<1>6. CASE Agree(ts, out)
  <2>1. /\ values' = SetTargets(ts, out)
        /\ expired' = expired \cup {g}
        /\ remaining' = remaining - 1
        /\ next' = Wake(NewReps(ts), expired \cup {g})
        /\ pc' = pc
    BY <1>3, <1>6
  <2>2. /\ DOMAIN values' = DOMAIN values \cup NewReps(ts)
        /\ \A r \in DOMAIN values : r \in DOMAIN values' /\ values'[r] = values[r]
    BY <2>1, SetTargetsExtends
  <2> DEFINE Woken(h) == {r \in NewReps(ts) : Watches(h, r)}
             Count(h) == Cardinality(Woken(h))
  <2>3. \A h \in Gens : Count(h) \in Nat /\ (Woken(h) # {} => Count(h) > 0)
    <3> SUFFICES ASSUME NEW h \in Gens
                 PROVE  Count(h) \in Nat /\ (Woken(h) # {} => Count(h) > 0)
      OBVIOUS
    <3>1. IsFiniteSet(NewReps(ts)) /\ Woken(h) \subseteq NewReps(ts)
      BY <1>2, NewRepsFinite
    <3>2. IsFiniteSet(Woken(h))
      BY <3>1, FS_Subset
    <3>3. Cardinality(Woken(h)) \in Nat
      BY <3>2, FS_CardinalityType
    <3>4. Cardinality(Woken(h)) = 0 <=> Woken(h) = {}
      BY <3>2, FS_EmptySet
    <3> HIDE DEF Woken
    <3>. QED  BY <3>3, <3>4
  <2>4. \A h \in Gens : next'[h] = next[h] + IF h \in expired \cup {g} THEN 0 ELSE Count(h)
    BY <2>1 DEF Wake
  <2> HIDE DEF Count
  <2>5. next' \in [Gens -> Nat] /\ \A h \in Gens : next'[h] >= next[h]
    <3>1. DOMAIN next' = Gens /\ next' = [h \in Gens |-> next'[h]]
      BY <2>1 DEF Wake
    <3>2. \A h \in Gens : next'[h] \in Nat /\ next'[h] >= next[h]
      BY <2>3, <2>4 DEF IInv
    <3>. QED  BY <3>1, <3>2
  <2>6. expired' \subseteq Gens /\ remaining' = Cardinality(Gens' \ expired')
    <3>1. Gens' \ expired' = (Gens \ expired) \ {g} /\ g \in Gens \ expired
      BY <1>1, <1>4, <2>1 DEF MayFinish
    <3>2. IsFiniteSet(Gens \ expired)
      BY <1>2, GensFinite, FS_Difference
    <3>3. Cardinality(Gens' \ expired') = Cardinality(Gens \ expired) - 1
      BY <3>1, <3>2, FS_RemoveElement
    <3>. QED  BY <2>1, <3>3 DEF IInv
  <2>7. NoLostWakeup'
    <3> SUFFICES ASSUME NEW h \in Gens, MayFinish(h)'
                 PROVE  pending'[h] + next'[h] > 0
      BY <1>1 DEF NoLostWakeup
    <3>1. h # g /\ h \notin expired
      BY <2>1 DEF MayFinish
    <3>2. CASE Ready(h)
      <4>1. MayFinish(h)
        BY <1>4, <2>2, <3>1, <3>2, ReadyStays DEF MayFinish
      <4>2. pending[h] + next[h] > 0
        BY <1>4, <4>1 DEF IInv, NoLostWakeup
      <4>. QED  BY <1>2, <2>5, <3>1, <4>2 DEF IInv
    <3>3. CASE ~Ready(h)
      <4>1. PICK i \in DOMAIN circuit.gens[h].deps :
              parents[circuit.gens[h].deps[i]] \notin DOMAIN values
        BY <3>3 DEF Ready
      <4>2. parents[circuit.gens[h].deps[i]] \in DOMAIN values'
        BY <1>4, <4>1 DEF MayFinish, Ready
      <4>3. parents[circuit.gens[h].deps[i]] \in Woken(h)
        BY <2>2, <4>1, <4>2 DEF Watches
      <4>4. Count(h) \in Nat /\ Count(h) > 0
        BY <2>3, <4>3
      <4>5. next'[h] = next[h] + Count(h) /\ next[h] \in Nat
        BY <2>4, <3>1 DEF IInv
      <4>6. pending'[h] \in Nat
        BY <1>2
      <4>. QED  BY <4>4, <4>5, <4>6
    <3>. QED  BY <3>2, <3>3
  <2>8. FinishedHolds'
    <3>1. \A h \in Gens : Holds(h) => Holds(h)'
      BY <1>4, <2>2, HoldsStays
    <3>2. Holds(g)'
      <4>1. Ready(g)' /\ Outputs(g)' = Outputs(g)
        BY <1>4, <2>2, ReadyStays DEF MayFinish
      <4>2. \A i \in DOMAIN ts : /\ parents[ts[i]] \in DOMAIN values'
                                 /\ values'[parents[ts[i]]] = out[i]
        BY <1>6, <2>1, SetTargetsSets
      <4>. QED  BY <1>3, <1>4, <4>1, <4>2 DEF Holds
    <3>. QED  BY <1>1, <1>4, <2>1, <3>1, <3>2 DEF FinishedHolds, IInv
  <2>. QED  BY <1>1, <1>2, <1>4, <2>1, <2>5, <2>6, <2>7, <2>8 DEF IInv, Untouched
<1>. QED  BY <1>5, <1>6

LEMMA EndPassIInv ==
    ASSUME IInv, EndPass
    PROVE  IInv'
<1>1. Gens' = Gens /\ pc = "run" /\ pending = NoneQueued
      /\ UNCHANGED <<circuit, parents, merged, values, expired, remaining>>
  BY DEF EndPass, Gens
<1>2. \A h \in Gens : /\ MayFinish(h)' <=> MayFinish(h)
                      /\ Holds(h)' <=> Holds(h)
  BY <1>1 DEF MayFinish, Ready, Outputs, Holds
<1>3. CASE next # NoneQueued
  <2>1. pending' = next /\ next' = NoneQueued /\ pc' = pc
    BY <1>3 DEF EndPass
  <2>2. next' \in [Gens -> Nat]
    BY <2>1 DEF NoneQueued
  <2>3. NoLostWakeup'
    BY <1>1, <1>2, <2>1 DEF NoLostWakeup, NoneQueued, IInv
  <2>4. FinishedHolds'
    BY <1>1, <1>2, <2>1 DEF FinishedHolds, IInv
  <2>. QED  BY <1>1, <2>1, <2>2, <2>3, <2>4 DEF IInv, Untouched
<1>4. CASE next = NoneQueued
  <2>1. pc' = (IF remaining = 0 THEN "ok" ELSE "err") /\ UNCHANGED <<pending, next>>
    BY <1>4 DEF EndPass
  <2>2. remaining = 0 => \A h \in Gens : h \in expired
    <3>1. IsFiniteSet(Gens \ expired)
      BY GensFinite, FS_Difference DEF IInv
    <3>. QED  BY <3>1, FS_EmptySet DEF IInv
  <2>3. FinishedHolds'
    BY <1>1, <1>2, <2>1, <2>2 DEF FinishedHolds, IInv
  <2>. QED  BY <1>1, <2>1, <2>3 DEF IInv, Untouched, NoLostWakeup
<1>. QED  BY <1>3, <1>4

LEMMA NextIInv == IInv /\ [Next]_vars => IInv'
<1> SUFFICES ASSUME IInv, [Next]_vars PROVE IInv'
  OBVIOUS
<1>1. CASE Merge
  BY <1>1 DEF Merge, IInv, Untouched, NoLostWakeup, FinishedHolds, Gens, Queued
<1>2. CASE CompressPaths
  BY <1>2 DEF CompressPaths, IInv, Untouched, NoLostWakeup, FinishedHolds, Gens, Queued
<1>3. CASE SetInputs
  <2>1. Gens' = Gens /\ pc = "inputs" /\ pc' \in {"run", "err"}
        /\ UNCHANGED <<circuit, pending, next, expired, remaining>>
    BY <1>3 DEF SetInputs, Gens
  <2>2. pending = [h \in Gens |-> 1] /\ expired = {}
    BY <2>1 DEF IInv, Untouched, Queued
  <2>3. NoLostWakeup'
    BY <2>1, <2>2 DEF NoLostWakeup, IInv
  <2>. QED  BY <2>1, <2>2, <2>3 DEF IInv, Untouched, FinishedHolds
<1>4. CASE EndPass
  BY <1>4, EndPassIInv
<1>5. CASE \E g \in Gens : Drop(g) \/ Finish(g)
  BY <1>5, DropIInv, FinishIInv
<1>6. CASE UNCHANGED vars
  <2>1. Gens' = Gens
    BY <1>6 DEF vars, Gens
  <2>2. \A h \in Gens : /\ MayFinish(h)' <=> MayFinish(h)
                        /\ Holds(h)' <=> Holds(h)
    BY <1>6 DEF vars, MayFinish, Ready, Outputs, Holds
  <2>. QED  BY <1>6, <2>1, <2>2 DEF vars, IInv, Untouched, NoLostWakeup, FinishedHolds, Queued
<1>. QED  BY <1>1, <1>2, <1>3, <1>4, <1>5, <1>6 DEF Next

\* generate_partial_witness never leaves a generator that could finish outside
\* both queues, whatever the circuit and the order it runs them in.
THEOREM WakeupsKept == Spec => []NoLostWakeup
<1>1. IInv => NoLostWakeup
  BY DEF IInv
<1>. QED  BY <1>1, InitIInv, NextIInv, PTL DEF Spec

\* What generate_partial_witness returns satisfies every generator, and each
\* generator that finished stays satisfied until then.
THEOREM WitnessHolds == Spec => []FinishedHolds
<1>1. IInv => FinishedHolds
  BY DEF IInv
<1>. QED  BY <1>1, InitIInv, NextIInv, PTL DEF Spec

-----------------------------------------------------------------------------
(* The forest.                                                             *)

LessThan == {ss \in Nat \X Nat : ss[1] < ss[2]}

\* The induction of these proofs: a set of numbers that is not empty has a least one.
LEMMA LeastNatural ==
    ASSUME NEW T \in SUBSET Nat, T # {}
    PROVE  \E b \in T : \A c \in T : b <= c
<1>1. PICK b \in T : \A c \in T : ~(<<c, b>> \in OpToRel(<, Nat))
  BY WFMin, NatLessThanWellFounded
<1>2. OpToRel(<, Nat) = LessThan
  BY DEF OpToRel, LessThan
<1>3. \A c \in T : <<c, b>> \notin LessThan
  BY <1>1, <1>2
<1>4. \A c \in T : ~(c < b)
  <2>1. SUFFICES ASSUME NEW c \in T, c < b PROVE FALSE
    OBVIOUS
  <2>2. <<c, b>> \in Nat \X Nat /\ <<c, b>>[1] < <<c, b>>[2]
    BY <2>1
  <2>. QED  BY <1>3, <2>2 DEF LessThan
<1>5. \A c \in T : c \in Nat /\ b \in Nat
  OBVIOUS
<1>. QED  BY <1>4, <1>5

\* Steps up from x: the function that Chain defines by recursion.
IsClimb(f, p, x, n) == f = [k \in 0 .. n |-> IF k = 0 THEN x ELSE p[f[k - 1]]]
Climb(p, x) == CHOOSE f : IsClimb(f, p, x, Cardinality(Target))

LEMMA ClimbExists ==
    ASSUME NEW p, NEW x, NEW n \in Nat
    PROVE  \E f : IsClimb(f, p, x, n)
<1> DEFINE Without == {m \in Nat : ~\E f : IsClimb(f, p, x, m)}
<1>1. SUFFICES ASSUME n \in Without PROVE FALSE
  OBVIOUS
<1>2. PICK m \in Without : \A c \in Without : m <= c
  <2>1. Without \in SUBSET Nat /\ Without # {}
    BY <1>1
  <2> HIDE DEF Without
  <2>. QED  BY <2>1, LeastNatural
<1>3. CASE m = 0
  <2>1. IsClimb([k \in 0 .. 0 |-> x], p, x, 0)
    BY DEF IsClimb
  <2>. QED  BY <1>2, <1>3, <2>1
<1>4. CASE m # 0
  <2>1. m - 1 \in Nat /\ m - 1 \notin Without
    BY <1>2, <1>4
  <2>2. PICK f : IsClimb(f, p, x, m - 1)
    BY <2>1
  <2> DEFINE g == [k \in 0 .. m |-> IF k < m THEN f[k] ELSE p[f[m - 1]]]
  <2>3. \A k \in 0 .. m : g[k] = IF k = 0 THEN x ELSE p[g[k - 1]]
    <3> TAKE k \in 0 .. m
    <3>1. m \in Nat /\ k \in Nat /\ \A j \in 0 .. m - 1 : f[j] = IF j = 0 THEN x ELSE p[f[j - 1]]
      BY <1>2, <2>2 DEF IsClimb
    <3>2. CASE k < m
      <4>1. k \in 0 .. m - 1 /\ (k # 0 => k - 1 \in 0 .. m /\ k - 1 < m)
        BY <3>1, <3>2
      <4>. QED  BY <3>1, <4>1
    <3>3. CASE k = m
      <4>1. m - 1 \in 0 .. m /\ m - 1 < m /\ k # 0
        BY <1>4, <3>1, <3>3
      <4>. QED  BY <3>1, <3>3, <4>1
    <3>. QED  BY <1>2, <3>2, <3>3
  <2>4. IsClimb(g, p, x, m)
    BY <2>3 DEF IsClimb
  <2>. QED  BY <1>2, <2>4
<1>. QED  BY <1>2, <1>3, <1>4

\* Chain(p, x) is what Climb passes.
LEMMA ChainIsClimb ==
    ASSUME NEW p, NEW x
    PROVE  LET n == Cardinality(Target)
               up == Climb(p, x)
           IN  /\ Chain(p, x) = {up[k] : k \in 0 .. n}
               /\ DOMAIN up = 0 .. n
               /\ \A k \in 0 .. n : up[k] = IF k = 0 THEN x ELSE p[up[k - 1]]
<1> DEFINE n == Cardinality(Target)
           up == Climb(p, x)
<1>1. n \in Nat
  BY TargetAssumption, FS_CardinalityType
<1>2. IsClimb(up, p, x, n)
  BY <1>1, ClimbExists DEF Climb
<1>3. DOMAIN up = 0 .. n /\ \A k \in 0 .. n : up[k] = IF k = 0 THEN x ELSE p[up[k - 1]]
  BY <1>2 DEF IsClimb
<1>4. Chain(p, x) = {up[k] : k \in DOMAIN up}
  BY DEF Chain, Climb, IsClimb
<1>. QED  BY <1>3, <1>4

\* r gives every target its representative, and d a height that falls on the way there.
Hangs(p, r, d) ==
    /\ p \in [Target -> Target] /\ r \in [Target -> Target] /\ d \in [Target -> Nat]
    /\ \A x \in Target : /\ r[p[x]] = r[x] /\ p[r[x]] = r[x]
                         /\ p[x] = x => r[x] = x
                         /\ p[x] # x => d[p[x]] < d[x]
                         /\ r[x] # x => d[r[x]] < d[x]

\* The chain stays among the targets with one representative, and is long enough to get there.
LEMMA ChainReaches ==
    ASSUME NEW p, NEW r, NEW d, Hangs(p, r, d), NEW x \in Target
    PROVE  /\ \A y \in Chain(p, x) : y \in Target /\ r[y] = r[x]
           /\ x \in Chain(p, x) /\ r[x] \in Chain(p, x)
           /\ Root(p, x) = r[x]
<1> DEFINE n == Cardinality(Target)
           up == Climb(p, x)
<1>1. n \in Nat
  BY TargetAssumption, FS_CardinalityType
<1>2. /\ Chain(p, x) = {up[k] : k \in 0 .. n}
      /\ DOMAIN up = 0 .. n
      /\ \A k \in 0 .. n : up[k] = IF k = 0 THEN x ELSE p[up[k - 1]]
  BY ChainIsClimb
<1> HIDE DEF n, up
<1>3. \A k \in 0 .. n : up[k] \in Target /\ r[up[k]] = r[x]
  <2> DEFINE Off == {k \in 0 .. n : ~(up[k] \in Target /\ r[up[k]] = r[x])}
  <2>1. SUFFICES ASSUME Off # {} PROVE FALSE
    OBVIOUS
  <2>2. PICK k \in Off : \A c \in Off : k <= c
    <3>1. Off \in SUBSET Nat
      BY <1>1
    <3> HIDE DEF Off
    <3>. QED  BY <2>1, <3>1, LeastNatural
  <2>3. k \in 0 .. n /\ k # 0
    BY <1>1, <1>2
  <2>4. k - 1 \in 0 .. n /\ k - 1 \notin Off
    BY <1>1, <2>2, <2>3
  <2>5. up[k - 1] \in Target /\ r[up[k - 1]] = r[x] /\ up[k] = p[up[k - 1]]
    BY <1>2, <2>3, <2>4
  <2>. QED  BY <2>2, <2>5 DEF Hangs
<1>4. \E k \in 0 .. n : p[up[k]] = up[k]
  <2>1. SUFFICES ASSUME \A k \in 0 .. n : p[up[k]] # up[k] PROVE FALSE
    OBVIOUS
  <2>2. \A k \in 0 .. n : k # 0 => d[up[k]] < d[up[k - 1]]
    <3> TAKE k \in 0 .. n
    <3> HAVE k # 0
    <3>1. k - 1 \in 0 .. n
      BY <1>1
    <3>2. up[k] = p[up[k - 1]] /\ p[up[k - 1]] # up[k - 1] /\ up[k - 1] \in Target
      BY <1>2, <1>3, <2>1, <3>1
    <3>. QED  BY <3>2 DEF Hangs
  <2>3. \A i, j \in 0 .. n : i < j => d[up[j]] < d[up[i]]
    <3> SUFFICES ASSUME NEW i \in 0 .. n
                 PROVE  \A j \in 0 .. n : i < j => d[up[j]] < d[up[i]]
      OBVIOUS
    <3> DEFINE Late == {j \in 0 .. n : i < j /\ ~(d[up[j]] < d[up[i]])}
    <3>1. SUFFICES ASSUME Late # {} PROVE FALSE
      OBVIOUS
    <3>2. PICK j \in Late : \A c \in Late : j <= c
      <4>1. Late \in SUBSET Nat
        BY <1>1
      <4> HIDE DEF Late
      <4>. QED  BY <3>1, <4>1, LeastNatural
    <3>3. j \in 0 .. n /\ i < j /\ j - 1 \in 0 .. n /\ j - 1 \notin Late /\ j # 0
      BY <1>1, <3>2
    <3>4. d[up[j]] < d[up[j - 1]]
      BY <2>2, <3>3
    <3>5. j - 1 = i \/ d[up[j - 1]] < d[up[i]]
      BY <1>1, <3>3
    <3>6. d[up[j]] \in Nat /\ d[up[j - 1]] \in Nat /\ d[up[i]] \in Nat
      BY <1>3, <3>3 DEF Hangs
    <3>7. d[up[j]] < d[up[i]]
      BY <3>4, <3>5, <3>6
    <3>. QED  BY <3>2, <3>7
  <2>4. \A i, j \in 0 .. n : up[i] = up[j] => i = j
    <3> TAKE i, j \in 0 .. n
    <3> HAVE up[i] = up[j]
    <3>1. d[up[i]] \in Nat
      BY <1>3 DEF Hangs
    <3>2. ~(i < j) /\ ~(j < i)
      BY <2>3, <3>1
    <3>. QED  BY <1>1, <3>2
  <2>5. up \in [0 .. n -> Target]
    <3>1. up = [k \in 0 .. n |-> up[k]]
      <4>1. IsClimb(up, p, x, n)
        BY <1>1, ClimbExists DEF Climb, n, up
      <4>. QED  BY <4>1 DEF IsClimb
    <3>. QED  BY <1>3, <3>1
  <2>6. IsFiniteSet(0 .. n) /\ Cardinality(0 .. n) = n + 1
    BY <1>1, FS_Interval
  <2>7. \E i, j \in 0 .. n : i # j /\ up[i] = up[j]
    <3>1. IsFiniteSet(Target) /\ Cardinality(Target) < Cardinality(0 .. n)
      BY <1>1, <2>6, TargetAssumption DEF n
    <3>. QED  BY <2>5, <2>6, <3>1, FS_PigeonHole
  <2>. QED  BY <2>4, <2>7
<1>5. x \in Chain(p, x)
  <2>1. 0 \in 0 .. n /\ up[0] = x
    BY <1>1, <1>2
  <2>. QED  BY <1>2, <2>1
<1>6. \A y \in Chain(p, x) : y \in Target /\ r[y] = r[x] /\ (p[y] = y => y = r[x])
  BY <1>2, <1>3 DEF Hangs
<1>7. PICK y \in Chain(p, x) : p[y] = y
  BY <1>2, <1>4
<1>8. Root(p, x) = r[x] /\ r[x] \in Chain(p, x)
  BY <1>6, <1>7 DEF Root
<1>. QED  BY <1>5, <1>6, <1>8

\* find shortens paths, and changes no representative.
LEMMA FindHangs ==
    ASSUME NEW p, NEW r, NEW d, Hangs(p, r, d), NEW x \in Target
    PROVE  Hangs(Find(p, x), r, d)
<1>1. \A y \in Target : Find(p, x)[y] = IF y \in Chain(p, x) THEN r[y] ELSE p[y]
  BY ChainReaches DEF Find, Hangs
<1>2. Find(p, x) \in [Target -> Target]
  <2>1. Find(p, x) = [y \in Target |-> Find(p, x)[y]]
    BY DEF Find, Hangs
  <2>2. \A y \in Target : Find(p, x)[y] \in Target
    BY <1>1 DEF Hangs
  <2>. QED  BY <2>1, <2>2
<1>3. \A y \in Target : r[r[y]] = r[y] /\ r[y] \in Target
  BY DEF Hangs
<1>. QED  BY <1>1, <1>2, <1>3 DEF Hangs

\* The representatives after x and y have been merged.
Joined(r, x, y) == [z \in Target |-> IF r[z] = r[y] THEN r[x] ELSE r[z]]

LEMMA MergeHangs ==
    ASSUME NEW p, NEW r, NEW d, Hangs(p, r, d), NEW x \in Target, NEW y \in Target
    PROVE  \E e : Hangs(MergeSets(p, x, y), Joined(r, x, y), e)
<1> DEFINE q == Find(Find(p, x), y)
           s == Joined(r, x, y)
           e == [z \in Target |-> IF r[z] = r[y] /\ r[x] # r[y] THEN d[z] + d[r[x]] + 1 ELSE d[z]]
<1>1. Hangs(q, r, d)
  BY FindHangs
<1>2. MergeSets(p, x, y) = [q EXCEPT ![r[y]] = r[x]]
  BY ChainReaches DEF MergeSets
<1> DEFINE m == [q EXCEPT ![r[y]] = r[x]]
<1> HIDE DEF q
<1>3. /\ m \in [Target -> Target]
      /\ \A z \in Target : m[z] = IF z = r[y] THEN r[x] ELSE q[z]
  BY <1>1 DEF Hangs
<1>4. s \in [Target -> Target] /\ \A z \in Target : s[z] = IF r[z] = r[y] THEN r[x] ELSE r[z]
  BY <1>1 DEF Joined, Hangs
<1>5. \A z \in Target : r[z] \in Target /\ q[z] \in Target /\ r[r[z]] = r[z] /\ d[z] \in Nat
  BY <1>1 DEF Hangs
<1>6. e \in [Target -> Nat]
  BY <1>5
<1>7. \A z \in Target : e[z] = IF r[z] = r[y] /\ r[x] # r[y] THEN d[z] + d[r[x]] + 1 ELSE d[z]
  OBVIOUS
<1> HIDE DEF m, s, e
<1>8. ASSUME NEW z \in Target
      PROVE  /\ s[m[z]] = s[z] /\ m[s[z]] = s[z]
             /\ m[z] = z => s[z] = z
             /\ m[z] # z => e[m[z]] < e[z]
             /\ s[z] # z => e[s[z]] < e[z]
  <2>1. /\ r[q[z]] = r[z] /\ q[r[z]] = r[z]
        /\ q[z] = z => r[z] = z
        /\ q[z] # z => d[q[z]] < d[z]
        /\ r[z] # z => d[r[z]] < d[z]
        /\ q[r[x]] = r[x]
    BY <1>1 DEF Hangs
  <2>2. CASE z = r[y]
    BY <1>3, <1>4, <1>5, <1>7, <2>1, <2>2
  <2>3. CASE z # r[y]
    <3>1. m[z] = q[z]
      BY <1>3, <2>3
    <3>2. s[m[z]] = s[z] /\ m[s[z]] = s[z]
      BY <1>3, <1>4, <1>5, <2>1, <3>1
    <3>3. m[z] = z => s[z] = z
      BY <1>3, <1>4, <1>5, <2>1, <2>3, <3>1
    <3>4. m[z] # z => e[m[z]] < e[z]
      BY <1>3, <1>4, <1>5, <1>7, <2>1, <3>1
    <3>5. s[z] # z => e[s[z]] < e[z]
      BY <1>3, <1>4, <1>5, <1>7, <2>1
    <3>. QED  BY <3>2, <3>3, <3>4, <3>5
  <2>. QED  BY <2>2, <2>3
<1>9. Hangs(m, s, e)
  BY <1>3, <1>4, <1>6, <1>8 DEF Hangs
<1>. QED  BY <1>2, <1>9 DEF m, s

-----------------------------------------------------------------------------
(* What the first k copy constraints connect.                              *)

Closed(c, k, S) == \A i \in 1 .. k : c.copies[i][1] \in S <=> c.copies[i][2] \in S
Joins(c, k, t, u) == \A S \in SUBSET Target : t \in S /\ Closed(c, k, S) => u \in S

\* While targets are merged, representatives are shared by what is connected so far; compressing
\* paths leaves the representatives themselves.
ForestInv ==
    /\ circuit \in Circuit
    /\ merged \in 0 .. Len(circuit.copies)
    /\ IF pc = "merge"
       THEN \E r, d : /\ Hangs(parents, r, d)
                      /\ \A t, u \in Target : r[t] = r[u] <=> Joins(circuit, merged, t, u)
       ELSE /\ merged = Len(circuit.copies)
            /\ parents \in [Target -> Target]
            /\ \A t, u \in Target : parents[t] = parents[u] <=> Joins(circuit, merged, t, u)

LEMMA CopyTargets ==
    ASSUME NEW c \in Circuit
    PROVE  /\ Len(c.copies) \in Nat /\ DOMAIN c.copies = 1 .. Len(c.copies)
           /\ \A i \in 1 .. Len(c.copies) : c.copies[i][1] \in Target /\ c.copies[i][2] \in Target
<1>1. c.copies \in Seq(Target \X Target)
  BY CircuitAssumption
<1>. QED  BY <1>1

\* One more constraint joins the classes of its two targets.
LEMMA JoinedIsJoins ==
    ASSUME NEW c \in Circuit, NEW k \in Nat, k < Len(c.copies), NEW p, NEW r, NEW d,
           Hangs(p, r, d), \A t, u \in Target : r[t] = r[u] <=> Joins(c, k, t, u)
    PROVE  LET s == Joined(r, c.copies[k + 1][1], c.copies[k + 1][2])
           IN  \A t, u \in Target : s[t] = s[u] <=> Joins(c, k + 1, t, u)
<1> DEFINE x == c.copies[k + 1][1]
           y == c.copies[k + 1][2]
           s == Joined(r, x, y)
<1>1. k + 1 \in 1 .. Len(c.copies) /\ Len(c.copies) \in Nat
  BY CopyTargets
<1>2. x \in Target /\ y \in Target
  BY <1>1, CopyTargets
<1>3. \A z \in Target : s[z] = IF r[z] = r[y] THEN r[x] ELSE r[z]
  BY DEF Joined
<1>4. 1 .. k + 1 = (1 .. k) \cup {k + 1}
  OBVIOUS
<1>5. \A S : Closed(c, k + 1, S) <=> Closed(c, k, S) /\ (x \in S <=> y \in S)
  BY <1>4 DEF Closed
<1> HIDE DEF x, y, s
<1>6. ASSUME NEW t \in Target, NEW u \in Target, s[t] = s[u]
      PROVE  Joins(c, k + 1, t, u)
  <2>1. SUFFICES ASSUME NEW S \in SUBSET Target, t \in S, Closed(c, k + 1, S)
                 PROVE  u \in S
    BY DEF Joins
  <2>2. Closed(c, k, S) /\ (x \in S <=> y \in S)
    BY <1>5, <2>1
  <2>3. \A v, w \in Target : r[v] = r[w] /\ v \in S => w \in S
    BY <2>2 DEF Joins
  <2>. QED  BY <1>2, <1>3, <1>6, <2>1, <2>2, <2>3
<1>7. ASSUME NEW t \in Target, NEW u \in Target, Joins(c, k + 1, t, u)
      PROVE  s[t] = s[u]
  <2> DEFINE S == {z \in Target : s[z] = s[t]}
  <2>1. \A i \in 1 .. k : r[c.copies[i][1]] = r[c.copies[i][2]]
    <3> TAKE i \in 1 .. k
    <3>1. i \in 1 .. Len(c.copies)
      BY <1>1
    <3>2. Joins(c, k, c.copies[i][1], c.copies[i][2])
      BY DEF Joins, Closed
    <3>. QED  BY <3>1, <3>2, CopyTargets
  <2>2. Closed(c, k, S)
    <3> SUFFICES ASSUME NEW i \in 1 .. k
                 PROVE  c.copies[i][1] \in S <=> c.copies[i][2] \in S
      BY DEF Closed
    <3>1. i \in 1 .. Len(c.copies)
      BY <1>1
    <3>2. c.copies[i][1] \in Target /\ c.copies[i][2] \in Target
      BY <3>1, CopyTargets
    <3>. QED  BY <1>3, <2>1, <3>2
  <2>3. s[x] = s[y]
    BY <1>2, <1>3
  <2>4. Closed(c, k + 1, S) /\ t \in S /\ S \in SUBSET Target
    BY <1>2, <1>5, <2>2, <2>3
  <2>. QED  BY <1>7, <2>4 DEF Joins
<1>. QED  BY <1>6, <1>7 DEF s, x, y

LEMMA InitForest == Init => ForestInv
<1> SUFFICES ASSUME Init PROVE ForestInv
  OBVIOUS
<1> DEFINE r == [t \in Target |-> t]
           d == [t \in Target |-> 0]
<1>1. Hangs(parents, r, d)
  BY DEF Init, Hangs
<1>2. \A t, u \in Target : r[t] = r[u] <=> Joins(circuit, 0, t, u)
  <2> TAKE t, u \in Target
  <2>1. Closed(circuit, 0, {t}) /\ {t} \in SUBSET Target
    BY DEF Closed
  <2>. QED  BY <2>1 DEF Joins
<1>3. circuit \in Circuit /\ merged = 0 /\ pc = "merge" /\ Len(circuit.copies) \in Nat
  BY CopyTargets DEF Init
<1>. QED  BY <1>1, <1>2, <1>3 DEF ForestInv

LEMMA MergeForest ==
    ASSUME ForestInv, Merge
    PROVE  ForestInv'
<1>1. /\ pc = "merge" /\ pc' = pc /\ circuit' = circuit /\ circuit \in Circuit
      /\ merged \in Nat /\ merged < Len(circuit.copies) /\ merged' = merged + 1
  BY CopyTargets DEF Merge, ForestInv
<1> DEFINE x == circuit.copies[merged + 1][1]
           y == circuit.copies[merged + 1][2]
<1>2. PICK r, d : /\ Hangs(parents, r, d)
                  /\ \A t, u \in Target : r[t] = r[u] <=> Joins(circuit, merged, t, u)
  BY <1>1 DEF ForestInv
<1>3. Len(circuit.copies) \in Nat /\ merged' \in 0 .. Len(circuit.copies)
  BY <1>1, CopyTargets
<1>4. x \in Target /\ y \in Target
  BY <1>1, <1>3, CopyTargets
<1>5. \E e : Hangs(parents', Joined(r, x, y), e)
  BY <1>2, <1>4, MergeHangs DEF Merge
<1>6. \A t, u \in Target :
        Joined(r, x, y)[t] = Joined(r, x, y)[u] <=> Joins(circuit, merged + 1, t, u)
  BY <1>1, <1>2, JoinedIsJoins
<1>. QED  BY <1>1, <1>3, <1>5, <1>6 DEF ForestInv

LEMMA CompressForest ==
    ASSUME ForestInv, CompressPaths
    PROVE  ForestInv'
<1>1. /\ pc = "merge" /\ pc' = "inputs" /\ UNCHANGED <<circuit, merged>>
      /\ merged = Len(circuit.copies) /\ parents' = Compressed(parents)
  BY DEF CompressPaths
<1>2. PICK r, d : /\ Hangs(parents, r, d)
                  /\ \A t, u \in Target : r[t] = r[u] <=> Joins(circuit, merged, t, u)
  BY <1>1 DEF ForestInv
<1>3. parents' = r
  <2>1. DOMAIN parents = Target /\ r = [t \in Target |-> r[t]]
    BY <1>2 DEF Hangs
  <2>2. \A t \in Target : Root(parents, t) = r[t]
    BY <1>2, ChainReaches
  <2>. QED  BY <1>1, <2>1, <2>2 DEF Compressed
<1>. QED  BY <1>1, <1>2, <1>3 DEF ForestInv, Hangs

LEMMA NextForest == ForestInv /\ [Next]_vars => ForestInv'
<1> SUFFICES ASSUME ForestInv, [Next]_vars PROVE ForestInv'
  OBVIOUS
<1>1. CASE Merge
  BY <1>1, MergeForest
<1>2. CASE CompressPaths
  BY <1>2, CompressForest
<1>3. ASSUME UNCHANGED <<circuit, parents, merged>>, pc # "merge", pc' # "merge"
      PROVE  ForestInv'
  BY <1>3 DEF ForestInv
<1>4. CASE SetInputs \/ EndPass
  BY <1>3, <1>4 DEF SetInputs, EndPass
<1>5. CASE \E g \in Gens : Drop(g) \/ Finish(g)
  <2>1. PICK g \in Gens : Drop(g) \/ Finish(g)
    BY <1>5
  <2>2. UNCHANGED <<circuit, parents, merged>> /\ pc = "run"
    BY <2>1 DEF Drop, Finish, Dequeue
  <2>3. pc' \in {"run", "err"}
    BY <2>1, <2>2 DEF Drop, Finish, Dequeue
  <2>. QED  BY <1>3, <2>2, <2>3
<1>6. CASE UNCHANGED vars
  BY <1>6 DEF vars, ForestInv
<1>. QED  BY <1>1, <1>2, <1>4, <1>5, <1>6 DEF Next

\* Forest keeps together exactly the targets the copies connect, in whatever
\* order add and merge were called and however compress_paths rewrote it.
THEOREM PartitionRight == Spec => []PartitionIsConnectivity
<1>1. ForestInv => PartitionIsConnectivity
  <2> SUFFICES ASSUME ForestInv, pc # "merge"
               PROVE  \A t, u \in Target : parents[t] = parents[u] <=> u \in Connected[circuit][t]
    BY DEF PartitionIsConnectivity
  <2>1. DOMAIN circuit.copies = 1 .. merged /\ circuit \in Circuit
    BY CopyTargets DEF ForestInv
  <2>2. \A t, u \in Target : Joins(circuit, merged, t, u) <=> u \in Connected[circuit][t]
    BY <2>1 DEF Joins, Closed, Connected
  <2>. QED  BY <2>2 DEF ForestInv
<1>. QED  BY <1>1, InitForest, NextForest, PTL DEF Spec
-----------------------------------------------------------------------------
(* The loop solves what its abstraction does.                              *)

RInv == IInv /\ ForestInv

\* Connected targets are those of one representative, once the forest is built.
LEMMA ConnectedShare ==
    ASSUME ForestInv, pc # "merge"
    PROVE  /\ parents \in [Target -> Target]
           /\ \A t, u \in Target : u \in Connected[circuit][t] <=> parents[t] = parents[u]
           /\ \A t \in Target : Connected[circuit][t] \subseteq Target
<1>1. DOMAIN circuit.copies = 1 .. merged /\ circuit \in Circuit
  BY CopyTargets DEF ForestInv
<1>2. \A t, u \in Target : Joins(circuit, merged, t, u) <=> u \in Connected[circuit][t]
  BY <1>1 DEF Joins, Closed, Connected
<1>3. \A t \in Target : Connected[circuit][t] \subseteq Target
  BY <1>1 DEF Connected
<1>. QED  BY <1>2, <1>3 DEF ForestInv

LEMMA KnownValues ==
    ASSUME ForestInv, pc # "merge"
    PROVE  /\ \A t : t \in DOMAIN TargetValues <=> t \in Target /\ parents[t] \in DOMAIN values
           /\ \A t \in DOMAIN TargetValues : TargetValues[t] = values[parents[t]]
BY DEF TargetValues

\* The abstraction is of the same circuits and generators.
LEMMA SameCircuits ==
    /\ Solution!Connected = Connected
    /\ \A s : Solution!Targets(s) = Targets(s)
    /\ \A g, a : Solution!RunOnce(g, a) = RunOnce(g, a)
<1>1. Solution!Connected = Connected
  BY DEF Solution!Connected, Connected
<1>2. \A s : Solution!Targets(s) = Targets(s)
  BY DEF Solution!Targets, Targets
<1>3. Solution!Field = Field /\ \A x : Solution!FieldInverse(x) = FieldInverse(x)
  BY DEF Solution!Field, Field, Solution!FieldInverse, FieldInverse
<1>4. \A g, a : Solution!RunOnce(g, a) = RunOnce(g, a)
  BY <1>3 DEF Solution!RunOnce, RunOnce
<1>. QED  BY <1>1, <1>2, <1>4

\* set_target_returning_rep succeeds when connected targets get one value.
LEMMA AgreeIsConsistent ==
    ASSUME ForestInv, pc # "merge", NEW ts, NEW vs, \A i \in DOMAIN ts : ts[i] \in Target
    PROVE  Agree(ts, vs) <=> Solution!Consistent(ts, vs)
<1>1. ASSUME Agree(ts, vs) PROVE Solution!Consistent(ts, vs)
  <2> SUFFICES ASSUME NEW i \in DOMAIN ts, NEW u \in Connected[circuit][ts[i]]
               PROVE  /\ u \in DOMAIN TargetValues => TargetValues[u] = vs[i]
                      /\ \A j \in DOMAIN ts : ts[j] = u => vs[j] = vs[i]
    BY SameCircuits DEF Solution!Consistent
  <2>1. u \in Target /\ parents[ts[i]] = parents[u]
    BY ConnectedShare
  <2>. QED  BY <1>1, <2>1, KnownValues DEF Agree
<1>2. ASSUME Solution!Consistent(ts, vs) PROVE Agree(ts, vs)
  <2> SUFFICES ASSUME NEW i \in DOMAIN ts
               PROVE  /\ parents[ts[i]] \in DOMAIN values => values[parents[ts[i]]] = vs[i]
                      /\ \A j \in DOMAIN ts : parents[ts[i]] = parents[ts[j]] => vs[i] = vs[j]
    BY DEF Agree
  <2>1. ts[i] \in Connected[circuit][ts[i]]
    BY ConnectedShare
  <2>2. parents[ts[i]] \in DOMAIN values => values[parents[ts[i]]] = vs[i]
    BY <1>2, <2>1, KnownValues, SameCircuits DEF Solution!Consistent
  <2>3. \A j \in DOMAIN ts : parents[ts[i]] = parents[ts[j]] => ts[j] \in Connected[circuit][ts[i]]
    BY ConnectedShare
  <2>4. \A j \in DOMAIN ts : parents[ts[i]] = parents[ts[j]] => vs[i] = vs[j]
    BY <1>2, <2>3, SameCircuits DEF Solution!Consistent
  <2>. QED  BY <2>2, <2>4
<1>. QED  BY <1>1, <1>2

\* The targets that have a value then are those connected to one that was set.
LEMMA SetTargetsLearns ==
    ASSUME ForestInv, pc # "merge", pc' # "merge", UNCHANGED <<circuit, parents>>,
           NEW ts, NEW vs, \A i \in DOMAIN ts : ts[i] \in Target, Agree(ts, vs),
           values' = SetTargets(ts, vs)
    PROVE  TargetValues' = Solution!Learnt(ts, vs)
<1> DEFINE D == DOMAIN TargetValues \cup UNION {Connected[circuit][ts[i]] : i \in DOMAIN ts}
           V(u) == IF u \in DOMAIN TargetValues THEN TargetValues[u]
                   ELSE vs[CHOOSE i \in DOMAIN ts : u \in Connected[circuit][ts[i]]]
<1>1. Solution!Learnt(ts, vs) = [u \in D |-> V(u)]
  BY SameCircuits DEF Solution!Learnt
<1>2. TargetValues' = [u \in {t \in Target : parents[t] \in DOMAIN values'} |-> values'[parents[u]]]
  BY DEF TargetValues
<1>3. DOMAIN values' = DOMAIN values \cup NewReps(ts)
      /\ \A q \in DOMAIN values : values'[q] = values[q]
  BY SetTargetsExtends
<1>4. {t \in Target : parents[t] \in DOMAIN values'} = D
  <2>1. ASSUME NEW t \in Target, parents[t] \in DOMAIN values' PROVE t \in D
    <3>1. CASE parents[t] \in DOMAIN values
      BY <3>1, KnownValues
    <3>2. CASE parents[t] \in NewReps(ts)
      <4>1. PICK i \in DOMAIN ts : parents[ts[i]] = parents[t]
        BY <3>2 DEF NewReps
      <4>. QED  BY <4>1, ConnectedShare
    <3>. QED  BY <1>3, <2>1, <3>1, <3>2
  <2>2. ASSUME NEW t \in D PROVE t \in Target /\ parents[t] \in DOMAIN values'
    <3>1. CASE t \in DOMAIN TargetValues
      BY <1>3, <3>1, KnownValues
    <3>2. CASE t \in UNION {Connected[circuit][ts[i]] : i \in DOMAIN ts}
      <4>1. PICK i \in DOMAIN ts : t \in Connected[circuit][ts[i]]
        BY <3>2
      <4>2. t \in Target /\ parents[ts[i]] = parents[t]
        BY <4>1, ConnectedShare
      <4>. QED  BY <4>2, SetTargetsSets
    <3>. QED  BY <3>1, <3>2
  <2>. QED  BY <2>1, <2>2
<1>5. \A u \in D : values'[parents[u]] = V(u)
  <2> TAKE u \in D
  <2>1. CASE u \in DOMAIN TargetValues
    BY <1>3, <2>1, KnownValues
  <2>2. CASE u \notin DOMAIN TargetValues
    <3> DEFINE i == CHOOSE i \in DOMAIN ts : u \in Connected[circuit][ts[i]]
    <3>1. i \in DOMAIN ts /\ u \in Connected[circuit][ts[i]]
      BY <2>2
    <3>2. parents[ts[i]] = parents[u]
      BY <3>1, ConnectedShare
    <3>3. values'[parents[ts[i]]] = vs[i]
      BY <3>1, SetTargetsSets
    <3>. QED  BY <2>2, <3>2, <3>3
  <2>. QED  BY <2>1, <2>2
<1> HIDE DEF D, V
<1>. QED  BY <1>1, <1>2, <1>4, <1>5

LEMMA GensTargets ==
    ASSUME circuit \in Circuit, NEW g \in Gens
    PROVE  /\ \A i \in DOMAIN circuit.gens[g].deps : circuit.gens[g].deps[i] \in Target
           /\ \A i \in DOMAIN circuit.gens[g].outs : circuit.gens[g].outs[i] \in Target
<1>1. circuit.gens[g].deps \in Seq(Target) /\ circuit.gens[g].outs \in Seq(Target)
  BY CircuitAssumption DEF Gens
<1>. QED  BY <1>1

\* A generator may fire in the abstraction when its dependencies have values here.
LEMMA SameOutputs ==
    ASSUME ForestInv, pc # "merge", NEW g \in Gens
    PROVE  Solution!Outputs(g) = IF Ready(g) THEN Outputs(g) ELSE {}
<1> DEFINE deps == circuit.gens[g].deps
<1>1. \A i \in DOMAIN deps : deps[i] \in Target
  BY GensTargets DEF ForestInv
<1>2. Targets(deps) \subseteq DOMAIN TargetValues <=> Ready(g)
  BY <1>1, KnownValues DEF Targets, Ready
<1>3. Ready(g) => [i \in DOMAIN deps |-> TargetValues[deps[i]]]
                    = [i \in DOMAIN deps |-> values[parents[deps[i]]]]
  <2> SUFFICES ASSUME Ready(g), NEW i \in DOMAIN deps
               PROVE  TargetValues[deps[i]] = values[parents[deps[i]]]
    OBVIOUS
  <2>. QED  BY <1>1, KnownValues DEF Ready
<1>. QED  BY <1>2, <1>3, SameCircuits DEF Solution!Outputs, Outputs

LEMMA InitSolves == Init => Solution!Init
<1> SUFFICES ASSUME Init PROVE Solution!Init
  OBVIOUS
<1>1. TargetValues = <<>>
  BY DEF Init, TargetValues
<1>. QED  BY <1>1 DEF Init, Solution!Init

LEMMA FinishSolves ==
    ASSUME RInv, NEW g \in Gens, Finish(g)
    PROVE  Solution!Fire(g) \/ Solution!Contradict(g)
<1> DEFINE ts == circuit.gens[g].outs
<1>1. PICK out \in Outputs(g) :
        IF Agree(ts, out)
        THEN values' = SetTargets(ts, out) /\ expired' = expired \cup {g} /\ UNCHANGED pc
        ELSE pc' = "err" /\ UNCHANGED <<values, expired>>
  BY DEF Finish
<1>2. UNCHANGED <<circuit, parents, merged>> /\ pc = "run" /\ MayFinish(g)
  BY DEF Finish, Dequeue
<1>3. ForestInv /\ \A i \in DOMAIN ts : ts[i] \in Target
  BY GensTargets DEF RInv, ForestInv
<1>4. out \in Solution!Outputs(g) /\ g \notin expired
  BY <1>2, <1>3, SameOutputs DEF MayFinish
<1>5. CASE Agree(ts, out)
  <2>1. Solution!Consistent(ts, out)
    BY <1>2, <1>3, <1>5, AgreeIsConsistent
  <2>2. TargetValues' = Solution!Learnt(ts, out)
    BY <1>1, <1>2, <1>3, <1>5, SetTargetsLearns
  <2>. QED  BY <1>1, <1>2, <1>4, <1>5, <2>1, <2>2 DEF Solution!Fire
<1>6. CASE ~Agree(ts, out)
  <2>1. ~Solution!Consistent(ts, out)
    BY <1>2, <1>3, <1>6, AgreeIsConsistent
  <2>2. TargetValues' = TargetValues
    BY <1>1, <1>2, <1>6 DEF TargetValues
  <2>. QED  BY <1>1, <1>2, <1>4, <1>6, <2>1, <2>2 DEF Solution!Contradict
<1>. QED  BY <1>5, <1>6

LEMMA SetInputsSolves ==
    ASSUME RInv, SetInputs
    PROVE  Solution!SetInputs
<1> DEFINE ts == [t \in DOMAIN circuit.inputs |-> t]
           vs == circuit.inputs
<1>1. /\ pc = "inputs" /\ UNCHANGED <<circuit, parents, expired>>
      /\ IF Agree(ts, vs) THEN pc' = "run" /\ values' = SetTargets(ts, vs)
         ELSE pc' = "err" /\ UNCHANGED values
  BY DEF SetInputs
<1>2. ForestInv /\ \A i \in DOMAIN ts : ts[i] \in Target
  BY CircuitAssumption DEF RInv, ForestInv
<1>3. Agree(ts, vs) <=> Solution!Consistent(ts, vs)
  BY <1>1, <1>2, AgreeIsConsistent
<1>4. CASE Agree(ts, vs)
  <2>1. TargetValues' = Solution!Learnt(ts, vs)
    BY <1>1, <1>2, <1>4, SetTargetsLearns
  <2>. QED  BY <1>1, <1>3, <1>4, <2>1 DEF Solution!SetInputs
<1>5. CASE ~Agree(ts, vs)
  <2>1. TargetValues' = TargetValues
    BY <1>1, <1>5 DEF TargetValues
  <2>. QED  BY <1>1, <1>3, <1>5, <2>1 DEF Solution!SetInputs
<1>. QED  BY <1>4, <1>5

\* The loop gives up only when nothing left can fire.
LEMMA EndPassSolves ==
    ASSUME RInv, EndPass
    PROVE  Solution!Finish \/ UNCHANGED Solution!vars
<1>1. /\ pc = "run" /\ pending = NoneQueued
      /\ UNCHANGED <<circuit, parents, values, expired, remaining>>
  BY DEF EndPass
<1>2. CASE next # NoneQueued
  <2>1. pc' = pc
    BY <1>2 DEF EndPass
  <2>2. TargetValues' = TargetValues
    BY <1>1, <2>1 DEF TargetValues
  <2>. QED  BY <1>1, <2>1, <2>2 DEF Solution!vars
<1>3. CASE next = NoneQueued
  <2>1. pc' = IF remaining = 0 THEN "ok" ELSE "err"
    BY <1>3 DEF EndPass
  <2>2. TargetValues' = TargetValues
    BY <1>1, <2>1 DEF TargetValues
  <2>3. \A g \in Gens : pending[g] + next[g] = 0
    BY <1>1, <1>3 DEF NoneQueued
  <2>4. \A g \in Gens \ expired : Solution!Outputs(g) = {}
    <3> TAKE g \in Gens \ expired
    <3>1. ~MayFinish(g)
      BY <1>1, <2>3 DEF RInv, IInv, NoLostWakeup
    <3>. QED  BY <1>1, <3>1, SameOutputs DEF MayFinish, RInv
  <2>5. remaining = 0 <=> expired = Gens
    <3>1. IsFiniteSet(Gens \ expired)
      BY GensFinite, FS_Difference DEF RInv, IInv
    <3>2. remaining = 0 <=> Gens \ expired = {}
      BY <3>1, FS_EmptySet DEF RInv, IInv
    <3>. QED  BY <3>2 DEF RInv, IInv
  <2>. QED  BY <1>1, <2>1, <2>2, <2>4, <2>5 DEF Solution!Finish, Solution!Gens, Gens
<1>. QED  BY <1>2, <1>3

LEMMA NextSolves == RInv /\ [Next]_vars => [Solution!Next]_(Solution!vars)
<1> SUFFICES ASSUME RInv, [Next]_vars
             PROVE  Solution!Next \/ UNCHANGED Solution!vars
  OBVIOUS
<1>1. CASE Merge \/ CompressPaths
  <2>1. pc = "merge" /\ pc' \in {"merge", "inputs"} /\ UNCHANGED <<circuit, values, expired>>
    BY <1>1 DEF Merge, CompressPaths
  <2>2. values = <<>>
    BY <2>1 DEF RInv, IInv, Untouched
  <2>3. TargetValues = <<>> /\ TargetValues' = <<>>
    BY <2>1, <2>2 DEF TargetValues
  <2>. QED  BY <2>1, <2>3 DEF Solution!vars
<1>2. CASE SetInputs
  BY <1>2, SetInputsSolves DEF Solution!Next
<1>3. CASE EndPass
  BY <1>3, EndPassSolves DEF Solution!Next
<1>4. ASSUME NEW g \in Gens, Drop(g)
      PROVE  UNCHANGED Solution!vars
  <2>1. UNCHANGED <<circuit, parents, pc, values, expired>>
    BY <1>4 DEF Drop
  <2>. QED  BY <2>1 DEF Solution!vars, TargetValues
<1>5. ASSUME NEW g \in Gens, Finish(g)
      PROVE  Solution!Next
  BY <1>5, FinishSolves DEF Solution!Next, Solution!Gens, Gens
<1>6. CASE UNCHANGED vars
  BY <1>6 DEF vars, Solution!vars, TargetValues
<1>. QED  BY <1>1, <1>2, <1>3, <1>4, <1>5, <1>6 DEF Next

\* generate_partial_witness takes the steps its abstraction allows: a generator
\* it finishes could fire, a contradiction is one between values, and it gives
\* up only when no generator that is left can fire.
THEOREM LoopSolves == Spec => Solution!Init /\ [][Solution!Next]_(Solution!vars)
<1>1. Init => RInv
  BY InitIInv, InitForest DEF RInv
<1>2. RInv /\ [Next]_vars => RInv'
  BY NextIInv, NextForest DEF RInv
<1>. QED  BY <1>1, <1>2, InitSolves, NextSolves, PTL DEF Spec
===============================================================================
