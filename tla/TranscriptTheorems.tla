-------------------------- MODULE TranscriptTheorems --------------------------
(***************************************************************************)
(* Proofs about Transcript.  Two runs are taken side by side, part by part *)
(* and step by step, and a relation of their states is shown to be kept:   *)
(*                                                                         *)
(*   - of one verifier in a circuit and one outside, that the circuit's    *)
(*     sponge is what it will be once it absorbs its buffer in chunks;     *)
(*   - of two proofs of the same lengths, that their challengers are at    *)
(*     the same place of a block, and that challengers that are equal have *)
(*     taken equal parts, because a sponge is the blocks it absorbed;      *)
(*   - of the prover and the verifier, that they differ at most in what    *)
(*     the search for a proof-of-work witness found.                       *)
(*                                                                         *)
(* A proof with more caps than there are reductions has a transcript of    *)
(* another length.  Up to the first cap that is too many it is compared as *)
(* above with that of the proof without them; after that a sponge has been *)
(* fed more elements than the prover's ever is, which its blocks show.     *)
(*                                                                         *)
(* What remains is about shapes: which lengths a verifier has made sure    *)
(* of, and that openings of known lengths are told by their batches.       *)
(***************************************************************************)
EXTENDS Transcript, SequenceTheorems, WellFoundedInduction, TLAPS

-----------------------------------------------------------------------------
(* Recursion over steps and parts.                                         *)

LessThan == {ss \in Nat \X Nat : ss[1] < ss[2]}

\* A set of numbers that is not empty has a least one.
LEMMA LeastNatural ==
    ASSUME NEW T \in SUBSET Nat, T # {}
    PROVE  \E b \in T : \A c \in T : b <= c
<1>1. PICK b \in T : \A c \in T : ~(<<c, b>> \in OpToRel(<, Nat))
  BY WFMin, NatLessThanWellFounded
<1>2. OpToRel(<, Nat) = LessThan
  BY DEF OpToRel, LessThan
<1>3. \A c \in T : <<c, b>> \notin LessThan
  BY <1>1, <1>2
<1>4. \A c \in T : ~(c < b)
  <2>1. SUFFICES ASSUME NEW c \in T, c < b PROVE FALSE
    OBVIOUS
  <2>2. <<c, b>> \in Nat \X Nat /\ <<c, b>>[1] < <<c, b>>[2]
    BY <2>1
  <2>. QED  BY <1>3, <2>2 DEF LessThan
<1>5. \A c \in T : c \in Nat /\ b \in Nat
  OBVIOUS
<1>. QED  BY <1>4, <1>5

\* What holds at zero and is handed on holds up to the end.
LEMMA Counting ==
    ASSUME NEW n \in Nat, NEW T, 0 \in T, \A i \in 1 .. n : i - 1 \in T => i \in T
    PROVE  \A i \in 0 .. n : i \in T
<1> DEFINE Off == {i \in 0 .. n : i \notin T}
<1>1. SUFFICES ASSUME Off # {} PROVE FALSE
  OBVIOUS
<1>2. Off \in SUBSET Nat
  OBVIOUS
<1> HIDE DEF Off
<1>3. PICK i \in Off : \A k \in Off : i <= k
  BY <1>1, <1>2, LeastNatural
<1> USE DEF Off
<1>4. i \in 1 .. n /\ i - 1 \in 0 .. n
  BY <1>3
<1>5. i - 1 \notin Off
  BY <1>3, <1>4
<1>. QED  BY <1>3, <1>4, <1>5

-----------------------------------------------------------------------------

\* The function that Steps defines, up to n.
IsSteps(f, who, s, ops, n) ==
    f = [i \in 0 .. n |-> IF i = 0 THEN s ELSE Step(who, f[i - 1], ops[i])]

\* Steps is defined by such a function.
LEMMA StepsExist ==
    ASSUME NEW who, NEW s, NEW ops, NEW n \in Nat
    PROVE  \E f : IsSteps(f, who, s, ops, n)
<1> DEFINE With == {m \in Nat : \E f : IsSteps(f, who, s, ops, m)}
<1>1. 0 \in With
  <2> DEFINE g == [i \in 0 .. 0 |-> s]
  <2>1. g = [i \in 0 .. 0 |-> IF i = 0 THEN s ELSE Step(who, g[i - 1], ops[i])]
    OBVIOUS
  <2> HIDE DEF g
  <2>. QED  BY <2>1 DEF IsSteps
<1>2. ASSUME NEW m \in 1 .. n, m - 1 \in With PROVE m \in With
  <2>1. PICK f : IsSteps(f, who, s, ops, m - 1)
    BY <1>2
  <2> DEFINE step(h, k) == IF k = 0 THEN s ELSE Step(who, h[k - 1], ops[k])
             g == [k \in 0 .. m |-> IF k < m THEN f[k] ELSE step(f, m)]
  <2>2. \A k \in 0 .. m - 1 : f[k] = step(f, k)
    BY <2>1 DEF IsSteps
  <2>3. \A k \in 0 .. m : g[k] = step(g, k)
    <3> TAKE k \in 0 .. m
    <3>1. k = 0 \/ (k - 1 \in 0 .. m /\ k - 1 < m /\ k # 0)
      OBVIOUS
    <3>2. CASE k < m
      <4>1. k \in 0 .. m - 1
        BY <3>2
      <4>. QED  BY <2>2, <3>1, <3>2, <4>1
    <3>3. CASE k = m
      BY <3>1, <3>3
    <3>. QED  BY <3>2, <3>3
  <2>4. g = [k \in 0 .. m |-> g[k]]
    OBVIOUS
  <2> HIDE DEF g
  <2>5. IsSteps(g, who, s, ops, m)
    BY <2>3, <2>4 DEF IsSteps
  <2>. QED  BY <2>5
<1> HIDE DEF With
<1>3. n \in With
  BY <1>1, <1>2, Counting
<1>. QED  BY <1>3 DEF With

\* The states that steps, and parts, go through.
StepsTo(f, who, s, ops, n) ==
    /\ f[0] = s /\ Steps(who, s, ops) = f[n]
    /\ \A i \in 1 .. n : f[i] = Step(who, f[i - 1], ops[i])

LEMMA StepsAre ==
    ASSUME NEW who, NEW s, NEW ops, NEW n \in Nat, Len(ops) = n
    PROVE  \E f : StepsTo(f, who, s, ops, n)
<1> DEFINE f == CHOOSE g : IsSteps(g, who, s, ops, n)
<1>1. IsSteps(f, who, s, ops, n)
  BY StepsExist
<1>2. Steps(who, s, ops) = f[n]
  BY DEF Steps, IsSteps
<1> HIDE DEF f
<1>. QED  BY <1>1, <1>2 DEF IsSteps, StepsTo

\* The function that Run defines, up to n.
IsRun(f, who, parts, n) ==
    f = [i \in 0 .. n |->
           IF i = 0
           THEN [state |-> Start]
           ELSE [f[i - 1] EXCEPT !.state = Steps(who, @, parts[i])]]

\* Run is defined by such a function.
LEMMA RunExists ==
    ASSUME NEW who, NEW parts, NEW n \in Nat
    PROVE  \E f : IsRun(f, who, parts, n)
<1> DEFINE With == {m \in Nat : \E f : IsRun(f, who, parts, m)}
<1>1. 0 \in With
  <2> DEFINE g == [i \in 0 .. 0 |-> [state |-> Start]]
             after(h, i) == [h[i - 1] EXCEPT !.state = Steps(who, @, parts[i])]
  <2> HIDE DEF after
  <2>1. g = [i \in 0 .. 0 |-> IF i = 0 THEN [state |-> Start] ELSE after(g, i)]
    OBVIOUS
  <2> HIDE DEF g
  <2>. QED  BY <2>1 DEF IsRun, after
<1>2. ASSUME NEW m \in 1 .. n, m - 1 \in With PROVE m \in With
  <2>1. PICK f : IsRun(f, who, parts, m - 1)
    BY <1>2
  <2> DEFINE after(x, k) == [x EXCEPT !.state = Steps(who, @, parts[k])]
             step(h, k) == IF k = 0 THEN [state |-> Start] ELSE after(h[k - 1], k)
             g == [k \in 0 .. m |-> IF k < m THEN f[k] ELSE step(f, m)]
  <2>2. \A k \in 0 .. m - 1 : f[k] = step(f, k)
    BY <2>1 DEF IsRun
  <2> HIDE DEF after
  <2>3. \A k \in 0 .. m : g[k] = step(g, k)
    <3> TAKE k \in 0 .. m
    <3>1. k = 0 \/ (k - 1 \in 0 .. m /\ k - 1 < m /\ k # 0)
      OBVIOUS
    <3>2. CASE k < m
      <4>1. k \in 0 .. m - 1
        BY <3>2
      <4>. QED  BY <2>2, <3>1, <3>2, <4>1
    <3>3. CASE k = m
      BY <3>1, <3>3
    <3>. QED  BY <3>2, <3>3
  <2>4. g = [k \in 0 .. m |-> g[k]]
    OBVIOUS
  <2> HIDE DEF g
  <2>5. IsRun(g, who, parts, m)
    BY <2>3, <2>4 DEF IsRun, after
  <2>. QED  BY <2>5
<1> HIDE DEF With
<1>3. n \in With
  BY <1>1, <1>2, Counting
<1>. QED  BY <1>3 DEF With

RunTo(f, who, parts, n) ==
    /\ f[0] = Start /\ Run(who, parts) = f[n]
    /\ \A i \in 1 .. n : f[i] = Steps(who, f[i - 1], parts[i])

LEMMA RunIs ==
    ASSUME NEW who, NEW parts, NEW n \in Nat, Len(parts) = n
    PROVE  \E f : RunTo(f, who, parts, n)
<1> DEFINE h == CHOOSE g : IsRun(g, who, parts, n)
           f == [i \in 0 .. n |-> h[i].state]
           after(x, i) == [x EXCEPT !.state = Steps(who, @, parts[i])]
           Wrapped == {i \in 0 .. n : h[i] = [state |-> h[i].state]}
<1>1. IsRun(h, who, parts, n)
  BY RunExists
<1>2. Run(who, parts) = h[n].state
  BY DEF Run, IsRun
<1> HIDE DEF h
<1>3. h = [i \in 0 .. n |-> IF i = 0 THEN [state |-> Start] ELSE after(h[i - 1], i)]
  BY <1>1 DEF IsRun
<1> HIDE DEF after
<1>4. h[0] = [state |-> Start] /\ \A i \in 1 .. n : h[i] = after(h[i - 1], i)
  BY <1>3
<1>5. 0 \in Wrapped
  BY <1>4
<1>6. ASSUME NEW i \in 1 .. n, i - 1 \in Wrapped
      PROVE  i \in Wrapped /\ h[i].state = Steps(who, h[i - 1].state, parts[i])
  <2> DEFINE s == h[i - 1].state
             t == Steps(who, s, parts[i])
  <2>1. h[i - 1] = [state |-> s]
    BY <1>6
  <2>2. h[i] = [h[i - 1] EXCEPT !.state = t]
    BY <1>4 DEF after
  <2> HIDE DEF s, t
  <2>3. h[i] = [state |-> t]
    BY <2>1, <2>2
  <2>4. i \in 0 .. n
    OBVIOUS
  <2>. QED  BY <2>3, <2>4 DEF t, s
<1> HIDE DEF Wrapped
<1>7. \A i \in 0 .. n : i \in Wrapped
  BY <1>5, <1>6, Counting
<1>8. \A i \in 1 .. n : f[i] = Steps(who, f[i - 1], parts[i])
  BY <1>6, <1>7
<1>9. f[0] = Start /\ f[n] = h[n].state
  BY <1>4
<1> HIDE DEF f
<1>. QED  BY <1>2, <1>8, <1>9 DEF RunTo

\* Two runs side by side keep what every step keeps.
LEMMA StepsKeep ==
    ASSUME NEW R, NEW v, NEW w, NEW s, NEW t, NEW a, NEW b, NEW n \in Nat,
           Len(a) = n, Len(b) = n, <<s, t>> \in R[0],
           \A i \in 1 .. n : \A x, y : <<x, y>> \in R[i - 1]
               => <<Step(v, x, a[i]), Step(w, y, b[i])>> \in R[i]
    PROVE  <<Steps(v, s, a), Steps(w, t, b)>> \in R[n]
<1>1. PICK f : StepsTo(f, v, s, a, n)
  BY StepsAre
<1>2. PICK g : StepsTo(g, w, t, b, n)
  BY StepsAre
<1> DEFINE T == {i \in 0 .. n : <<f[i], g[i]>> \in R[i]}
<1>3. 0 \in T
  BY <1>1, <1>2 DEF StepsTo
<1>4. \A i \in 1 .. n : i - 1 \in T => i \in T
  BY <1>1, <1>2 DEF StepsTo
<1> HIDE DEF T
<1>5. \A i \in 0 .. n : i \in T
  BY <1>3, <1>4, Counting
<1>6. n \in 0 .. n
  OBVIOUS
<1>. QED  BY <1>1, <1>2, <1>5, <1>6 DEF T, StepsTo

\* And runs keep what every part keeps.
LEMMA RunKeeps ==
    ASSUME NEW R, NEW v, NEW w, NEW a, NEW b, NEW n \in Nat,
           Len(a) = n, Len(b) = n, <<Start, Start>> \in R[0],
           \A i \in 1 .. n : \A x, y : <<x, y>> \in R[i - 1]
               => <<Steps(v, x, a[i]), Steps(w, y, b[i])>> \in R[i]
    PROVE  <<Run(v, a), Run(w, b)>> \in R[n]
<1>1. PICK f : RunTo(f, v, a, n)
  BY RunIs
<1>2. PICK g : RunTo(g, w, b, n)
  BY RunIs
<1> DEFINE T == {i \in 0 .. n : <<f[i], g[i]>> \in R[i]}
<1>3. 0 \in T
  BY <1>1, <1>2 DEF RunTo
<1>4. \A i \in 1 .. n : i - 1 \in T => i \in T
  BY <1>1, <1>2 DEF RunTo
<1> HIDE DEF T
<1>5. \A i \in 0 .. n : i \in T
  BY <1>3, <1>4, Counting
<1>6. n \in 0 .. n
  OBVIOUS
<1>. QED  BY <1>1, <1>2, <1>5, <1>6 DEF T, RunTo

-----------------------------------------------------------------------------
(* Challengers.                                                            *)

ChallengerState == [sponge : Seq(Seq(Observed)), input : Seq(Observed), output : 0 .. RATE]

\* Outside a circuit the input never fills a block.
Duplexed == {c \in ChallengerState : Len(c.input) < RATE}

State == [c : ChallengerState, drawn : [Challenge -> Seq(Output)], lucky : Output \cup {None}]
NativeState == {s \in State : s.c \in Duplexed}

ObserveOp == [do : {"observe"}, what : Observed]
DrawOp == [do : {"draw"}, what : Challenge]
GrindOp == [do : {"grind"}, what : Observed]

LEMMA Sizes ==
    /\ RATE \in Nat /\ RATE > 0 /\ D \in Nat /\ D > 0 /\ HashLen \in Nat /\ HashLen > 0
    /\ NumChallenges \in Nat /\ NumChallenges > 0 /\ NumQueries \in Nat /\ NumQueries > 0
BY SizeAssumption

\* A sequence that one element is appended to.
LEMMA Grown1 ==
    ASSUME NEW S, NEW s \in Seq(S), NEW e \in S
    PROVE  /\ Append(s, e) \in Seq(S) /\ Len(Append(s, e)) = Len(s) + 1
           /\ \A i \in 1 .. Len(s) : Append(s, e)[i] = s[i]
           /\ Append(s, e)[Len(s) + 1] = e
BY AppendProperties

\* A challenge is added to its name, and nothing else changes.
LEMMA TakingIs ==
    ASSUME NEW s, NEW x, NEW y, NEW z, NEW r, NEW n, s = [c |-> x, drawn |-> y, lucky |-> z]
    PROVE  Take(s, r, n) = [c |-> Pop(r), drawn |-> [y EXCEPT ![n] = Append(@, Popped(r))], lucky |-> z]
<1> DEFINE t == [s EXCEPT !.c = Pop(r)]
<1>1. t = [c |-> Pop(r), drawn |-> y, lucky |-> z]
  OBVIOUS
<1>2. Take(s, r, n) = [t EXCEPT !.drawn[n] = Append(@, Popped(r))]
  BY DEF Take
<1> HIDE DEF t
<1>3. [t EXCEPT !.drawn[n] = Append(@, Popped(r))] = [t EXCEPT !.drawn = [y EXCEPT ![n] = Append(@, Popped(r))]]
  BY <1>1
<1>. QED  BY <1>1, <1>2, <1>3

\* An element is written to the input, and a full block is absorbed.
LEMMA Observing ==
    ASSUME NEW c \in Duplexed, NEW e \in Observed
    PROVE  /\ ObserveElement(c, e) \in Duplexed
           /\ Len(c.input) + 1 = RATE =>
                ObserveElement(c, e) = [ sponge |-> Append(c.sponge, Append(c.input, e)),
                                         input |-> <<>>, output |-> RATE ]
           /\ Len(c.input) + 1 # RATE =>
                ObserveElement(c, e) = [sponge |-> c.sponge, input |-> Append(c.input, e), output |-> 0]
<1> DEFINE in == Append(c.input, e)
           d == [sponge |-> c.sponge, input |-> in, output |-> 0]
<1>1. /\ c = [sponge |-> c.sponge, input |-> c.input, output |-> c.output]
      /\ c.sponge \in Seq(Seq(Observed)) /\ c.input \in Seq(Observed) /\ c.output \in 0 .. RATE
      /\ Len(c.input) \in Nat /\ Len(c.input) < RATE
  BY DEF Duplexed, ChallengerState
<1>2. in \in Seq(Observed) /\ Len(in) = Len(c.input) + 1
  BY <1>1, Grown1
<1>3. d = [sponge |-> c.sponge, input |-> in, output |-> 0]
  OBVIOUS
<1> HIDE DEF in, d
<1>4. ObserveElement(c, e) = IF Len(in) = RATE THEN Duplexing(d) ELSE d
  BY <1>3 DEF ObserveElement, d, in
<1>5. Duplexing(d) = [sponge |-> Append(c.sponge, in), input |-> <<>>, output |-> RATE]
  BY <1>3 DEF Duplexing, Permute
<1>6. Append(c.sponge, in) \in Seq(Seq(Observed))
  BY <1>1, <1>2, Grown1
<1>7. Len(in) = RATE => Duplexing(d) \in Duplexed
  BY <1>5, <1>6, Sizes DEF Duplexed, ChallengerState
<1>8. Len(in) # RATE => d \in Duplexed
  BY <1>1, <1>2, <1>3, Sizes DEF Duplexed, ChallengerState
<1>. QED  BY <1>2, <1>3, <1>4, <1>5, <1>7, <1>8 DEF in

\* Refilling leaves nothing in the input and something to pop.
LEMMA Refilling ==
    ASSUME NEW c \in Duplexed
    PROVE  /\ Refilled(c) \in Duplexed /\ Refilled(c).input = <<>> /\ Refilled(c).output \in 1 .. RATE
           /\ (c.input # <<>> \/ c.output = 0) =>
                Refilled(c) = [sponge |-> Append(c.sponge, c.input), input |-> <<>>, output |-> RATE]
           /\ ~(c.input # <<>> \/ c.output = 0) => Refilled(c) = c
<1>1. /\ c.sponge \in Seq(Seq(Observed)) /\ c.input \in Seq(Observed) /\ c.output \in 0 .. RATE
      /\ Len(c.input) \in Nat /\ Len(c.input) < RATE
  BY DEF Duplexed, ChallengerState
<1>2. Duplexing(c) = [sponge |-> Append(c.sponge, c.input), input |-> <<>>, output |-> RATE]
  BY DEF Duplexing, Permute
<1>3. Append(c.sponge, c.input) \in Seq(Seq(Observed))
  BY <1>1, Grown1
<1>4. Duplexing(c) \in Duplexed
  BY <1>2, <1>3, Sizes DEF Duplexed, ChallengerState
<1>5. Duplexing(c).input = <<>> /\ Duplexing(c).output \in 1 .. RATE
  BY <1>2, Sizes
<1>. QED  BY <1>1, <1>2, <1>4, <1>5 DEF Refilled

\* What is popped from a refilled buffer, and what is left.
LEMMA Popping ==
    ASSUME NEW r \in ChallengerState, r.output \in 1 .. RATE
    PROVE  /\ Pop(r) = [sponge |-> r.sponge, input |-> r.input, output |-> r.output - 1]
           /\ Pop(r) \in ChallengerState /\ Popped(r) = <<r.sponge, r.output>> /\ Popped(r) \in Output
<1>1. /\ r = [sponge |-> r.sponge, input |-> r.input, output |-> r.output]
      /\ r.sponge \in Seq(Seq(Observed)) /\ r.input \in Seq(Observed)
  BY DEF ChallengerState
<1>2. r.output - 1 \in 0 .. RATE /\ r.output \in 0 .. RATE
  BY Sizes
<1>3. Pop(r) = [sponge |-> r.sponge, input |-> r.input, output |-> r.output - 1]
  BY <1>1 DEF Pop
<1>4. Pop(r) \in ChallengerState
  BY <1>1, <1>2, <1>3 DEF ChallengerState
<1>. QED  BY <1>1, <1>2, <1>3, <1>4 DEF Popped, OutputAt, Output

LEMMA Taking ==
    ASSUME NEW s \in State, NEW r \in ChallengerState, NEW n \in Challenge, r.output \in 1 .. RATE
    PROVE  /\ Take(s, r, n) \in State
           /\ Take(s, r, n).c = Pop(r) /\ Take(s, r, n).lucky = s.lucky
           /\ Take(s, r, n).drawn = [s.drawn EXCEPT ![n] = Append(@, Popped(r))]
<1>1. s.drawn \in [Challenge -> Seq(Output)] /\ s.lucky \in Output \cup {None}
      /\ s = [c |-> s.c, drawn |-> s.drawn, lucky |-> s.lucky]
  BY DEF State
<1>2. Append(s.drawn[n], Popped(r)) \in Seq(Output)
  BY <1>1, Popping, Grown1
<1>3. [s.drawn EXCEPT ![n] = Append(@, Popped(r))] \in [Challenge -> Seq(Output)]
  BY <1>1, <1>2
<1>4. Take(s, r, n) = [c |-> Pop(r), drawn |-> [s.drawn EXCEPT ![n] = Append(@, Popped(r))],
                       lucky |-> s.lucky]
  BY <1>1, TakingIs
<1>. QED  BY <1>1, <1>3, <1>4, Popping DEF State

\* The steps of a challenger outside a circuit.
LEMMA NativeObserves ==
    ASSUME NEW s \in NativeState, NEW op \in ObserveOp
    PROVE  /\ Step("native", s, op) \in NativeState
           /\ Step("native", s, op).c = ObserveElement(s.c, op.what)
           /\ Step("native", s, op).drawn = s.drawn /\ Step("native", s, op).lucky = s.lucky
<1>1. op.do = "observe" /\ op.what \in Observed
  BY DEF ObserveOp
<1>2. s \in State /\ s.c \in Duplexed /\ s = [c |-> s.c, drawn |-> s.drawn, lucky |-> s.lucky]
  BY DEF NativeState, State
<1>3. Step("native", s, op) = [s EXCEPT !.c = ObserveElement(@, op.what)]
  BY <1>1 DEF Step
<1>4. Step("native", s, op) = [c |-> ObserveElement(s.c, op.what), drawn |-> s.drawn, lucky |-> s.lucky]
  BY <1>2, <1>3
<1>5. ObserveElement(s.c, op.what) \in Duplexed
  BY <1>1, <1>2, Observing
<1>. QED  BY <1>2, <1>4, <1>5 DEF NativeState, State, Duplexed

LEMMA NativeDraws ==
    ASSUME NEW s \in NativeState, NEW op \in DrawOp
    PROVE  /\ Step("native", s, op) \in NativeState
           /\ Step("native", s, op).c = Pop(Refilled(s.c))
           /\ Step("native", s, op).drawn = [s.drawn EXCEPT ![op.what] = Append(@, Popped(Refilled(s.c)))]
           /\ Step("native", s, op).lucky = s.lucky
<1> DEFINE r == Refilled(s.c)
<1>1. op.do = "draw" /\ op.what \in Challenge
  BY DEF DrawOp
<1>2. s \in State /\ s.c \in Duplexed
  BY DEF NativeState
<1>3. Step("native", s, op) = Take(s, r, op.what)
  BY <1>1 DEF Step
<1>4. r \in Duplexed /\ r.output \in 1 .. RATE /\ r.input = <<>>
  BY <1>2, Refilling
<1> HIDE DEF r
<1>5. r \in ChallengerState
  BY <1>4 DEF Duplexed
<1>6. /\ Take(s, r, op.what) \in State
      /\ Take(s, r, op.what).c = Pop(r) /\ Take(s, r, op.what).lucky = s.lucky
      /\ Take(s, r, op.what).drawn = [s.drawn EXCEPT ![op.what] = Append(@, Popped(r))]
  BY <1>1, <1>2, <1>4, <1>5, Taking
<1>7. Pop(r) \in Duplexed
  BY <1>4, <1>5, Popping, Sizes DEF Duplexed
<1>. QED  BY <1>3, <1>6, <1>7 DEF NativeState, r

LEMMA NativeGrinds ==
    ASSUME NEW s \in NativeState, NEW op \in GrindOp
    PROVE  /\ Step("native", s, op) \in NativeState
           /\ Step("native", s, op).c = s.c /\ Step("native", s, op).drawn = s.drawn
           /\ Step("native", s, op).lucky = GrindingOutput(s.c, op.what)
<1>1. op.do = "grind" /\ op.what \in Observed
  BY DEF GrindOp
<1>2. s \in State /\ s.c \in Duplexed /\ s = [c |-> s.c, drawn |-> s.drawn, lucky |-> s.lucky]
  BY DEF NativeState, State
<1>3. Step("native", s, op) = [s EXCEPT !.lucky = GrindingOutput(s.c, op.what)]
  BY <1>1 DEF Step
<1>4. Step("native", s, op) = [c |-> s.c, drawn |-> s.drawn, lucky |-> GrindingOutput(s.c, op.what)]
  BY <1>2, <1>3
<1>5. GrindingOutput(s.c, op.what) \in Output
  <2>1. s.c.sponge \in Seq(Seq(Observed)) /\ s.c.input \in Seq(Observed)
    BY <1>2 DEF Duplexed, ChallengerState
  <2>2. Append(s.c.input, op.what) \in Seq(Observed)
    BY <1>1, <2>1, Grown1
  <2>3. Append(s.c.sponge, Append(s.c.input, op.what)) \in Seq(Seq(Observed))
    BY <2>1, <2>2, Grown1
  <2>4. RATE \in 0 .. RATE
    BY Sizes
  <2> DEFINE b == Append(s.c.sponge, Append(s.c.input, op.what))
  <2>5. GrindingOutput(s.c, op.what) = <<b, RATE>>
    BY DEF GrindingOutput, OutputAt, Permute
  <2> HIDE DEF b
  <2>6. b \in Seq(Seq(Observed))
    BY <2>3 DEF b
  <2>. QED  BY <2>4, <2>5, <2>6 DEF Output
<1>. QED  BY <1>2, <1>4, <1>5 DEF NativeState, State

Op == ObserveOp \cup DrawOp \cup GrindOp

\* A set of states that no step leaves holds the state after any part, and
\* after any transcript.
LEMMA StepsStay ==
    ASSUME NEW Q, NEW s \in Q, NEW T, NEW ops \in Seq(T),
           \A x \in Q : \A op \in T : Step("native", x, op) \in Q
    PROVE  Steps("native", s, ops) \in Q
<1> DEFINE n == Len(ops)
           P == {z \in Q \X Q : z[1] = z[2]}
           R == [i \in 0 .. n |-> P]
           e == Steps("native", s, ops)
<1>1. n \in Nat /\ \A i \in 1 .. n : ops[i] \in T
  OBVIOUS
<1>2. \A i \in 0 .. n : R[i] = P
  OBVIOUS
<1>3. 0 \in 0 .. n /\ n \in 0 .. n /\ \A i \in 1 .. n : i \in 0 .. n /\ i - 1 \in 0 .. n
  BY <1>1
<1>4. <<s, s>> \in P
  OBVIOUS
<1>5. ASSUME NEW x, NEW y, <<x, y>> \in P, NEW i \in 1 .. n
      PROVE  <<Step("native", x, ops[i]), Step("native", y, ops[i])>> \in P
  <2>1. x \in Q /\ y = x
    BY <1>5
  <2>2. Step("native", x, ops[i]) \in Q
    BY <1>1, <2>1
  <2>. QED  BY <2>1, <2>2
<1> HIDE DEF P
<1>6. <<s, s>> \in R[0] /\ \A i \in 1 .. n : \A x, y : <<x, y>> \in R[i - 1]
          => <<Step("native", x, ops[i]), Step("native", y, ops[i])>> \in R[i]
  BY <1>2, <1>3, <1>4, <1>5
<1> HIDE DEF R, n
<1>7. <<e, e>> \in R[n]
  BY <1>1, <1>6, StepsKeep DEF n
<1>8. <<e, e>> \in P
  BY <1>2, <1>3, <1>7
<1> HIDE DEF e
<1>9. e \in Q
  BY <1>8 DEF P
<1>. QED  BY <1>9 DEF e

LEMMA RunStays ==
    ASSUME NEW Q, Start \in Q, NEW T, NEW parts \in Seq(Seq(T)),
           \A x \in Q : \A op \in T : Step("native", x, op) \in Q
    PROVE  Run("native", parts) \in Q
<1> DEFINE n == Len(parts)
           P == {z \in Q \X Q : z[1] = z[2]}
           R == [i \in 0 .. n |-> P]
           e == Run("native", parts)
<1>1. n \in Nat /\ \A i \in 1 .. n : parts[i] \in Seq(T)
  OBVIOUS
<1>2. \A i \in 0 .. n : R[i] = P
  OBVIOUS
<1>3. 0 \in 0 .. n /\ n \in 0 .. n /\ \A i \in 1 .. n : i \in 0 .. n /\ i - 1 \in 0 .. n
  BY <1>1
<1>4. <<Start, Start>> \in P
  OBVIOUS
<1>5. ASSUME NEW x, NEW y, <<x, y>> \in P, NEW i \in 1 .. n
      PROVE  <<Steps("native", x, parts[i]), Steps("native", y, parts[i])>> \in P
  <2>1. x \in Q /\ y = x
    BY <1>5
  <2>2. Steps("native", x, parts[i]) \in Q
    BY <1>1, <2>1, StepsStay
  <2>. QED  BY <2>1, <2>2
<1> HIDE DEF P
<1>6. <<Start, Start>> \in R[0] /\ \A i \in 1 .. n : \A x, y : <<x, y>> \in R[i - 1]
          => <<Steps("native", x, parts[i]), Steps("native", y, parts[i])>> \in R[i]
  BY <1>2, <1>3, <1>4, <1>5
<1> HIDE DEF R, n
<1>7. <<e, e>> \in R[n]
  BY <1>1, <1>6, RunKeeps DEF n
<1>8. <<e, e>> \in P
  BY <1>2, <1>3, <1>7
<1> HIDE DEF e
<1>9. e \in Q
  BY <1>8 DEF P
<1>. QED  BY <1>9 DEF e

LEMMA StartTyped ==
    Start \in NativeState
<1>1. NewChallenger \in Duplexed
  BY Sizes DEF NewChallenger, Duplexed, ChallengerState
<1>2. [n \in Challenge |-> <<>>] \in [Challenge -> Seq(Output)]
  OBVIOUS
<1>. QED  BY <1>1, <1>2 DEF Start, NativeState, State, Duplexed

\* Every step leads to a state.
LEMMA StepTyped ==
    \A s \in NativeState : \A op \in Op : Step("native", s, op) \in NativeState
BY NativeObserves, NativeDraws, NativeGrinds DEF Op

-----------------------------------------------------------------------------
(* No output is drawn twice.                                               *)

\* An output the challenger will not yield again: of a sponge before its own,
\* or popped already.
Older(o, c) ==
    \/ Len(o[1]) < Len(c.sponge)
    \/ Len(o[1]) = Len(c.sponge) /\ o[2] > c.output

FreshState ==
    {s \in NativeState :
        /\ \A n \in Challenge : \A i \in 1 .. Len(s.drawn[n]) : Older(s.drawn[n][i], s.c)
        /\ \A n, m \in Challenge : \A i \in 1 .. Len(s.drawn[n]), j \in 1 .. Len(s.drawn[m]) :
              s.drawn[n][i] = s.drawn[m][j] => n = m /\ i = j}

\* An output that is spent stays spent.
LEMMA ObservedOlder ==
    ASSUME NEW c \in Duplexed, NEW e \in Observed, NEW o \in Output, Older(o, c)
    PROVE  Older(o, ObserveElement(c, e))
<1> DEFINE d == ObserveElement(c, e)
<1>1. /\ c.sponge \in Seq(Seq(Observed)) /\ c.input \in Seq(Observed) /\ c.output \in 0 .. RATE
      /\ Len(c.sponge) \in Nat /\ Len(o[1]) \in Nat /\ o[2] \in 0 .. RATE
  BY DEF Duplexed, ChallengerState, Output
<1>2. d \in Duplexed
  BY Observing
<1>3. CASE Len(c.input) + 1 = RATE
  <2>1. d.sponge = Append(c.sponge, Append(c.input, e))
    BY <1>3, Observing
  <2>2. Len(d.sponge) = Len(c.sponge) + 1
    BY <1>1, <2>1, Grown1
  <2> HIDE DEF d
  <2>3. Len(o[1]) < Len(d.sponge)
    BY <1>1, <2>2 DEF Older
  <2>. QED  BY <2>3 DEF Older, d
<1>4. CASE Len(c.input) + 1 # RATE
  <2>1. d.sponge = c.sponge /\ d.output = 0
    BY <1>4, Observing
  <2> HIDE DEF d
  <2>2. Older(o, d)
    BY <1>1, <2>1, Sizes DEF Older
  <2>. QED  BY <2>2 DEF d
<1>. QED  BY <1>3, <1>4

\* What a draw yields is none of the older outputs, and is one of them after it.
LEMMA DrawnOlder ==
    ASSUME NEW c \in Duplexed
    PROVE  /\ \A o \in Output : Older(o, c) => Older(o, Pop(Refilled(c))) /\ o # Popped(Refilled(c))
           /\ Popped(Refilled(c)) \in Output /\ Older(Popped(Refilled(c)), Pop(Refilled(c)))
<1> DEFINE r == Refilled(c)
           d == Pop(r)
           p == Popped(r)
<1>1. /\ c.sponge \in Seq(Seq(Observed)) /\ c.input \in Seq(Observed) /\ c.output \in 0 .. RATE
      /\ Len(c.sponge) \in Nat
  BY DEF Duplexed, ChallengerState
<1>2. r \in ChallengerState /\ r.output \in 1 .. RATE
  BY Refilling DEF Duplexed
<1>3. /\ Len(r.sponge) = Len(c.sponge) + 1 \/ (Len(r.sponge) = Len(c.sponge) /\ r.output = c.output)
  <2>1. CASE c.input # <<>> \/ c.output = 0
    <3>1. r.sponge = Append(c.sponge, c.input)
      BY <2>1, Refilling
    <3>. QED  BY <1>1, <3>1, Grown1
  <2>2. CASE ~(c.input # <<>> \/ c.output = 0)
    BY <2>2, Refilling
  <2>. QED  BY <2>1, <2>2
<1> HIDE DEF r
<1>4. d.sponge = r.sponge /\ d.output = r.output - 1 /\ p = <<r.sponge, r.output>> /\ p \in Output
  BY <1>2, Popping
<1>5. p[1] = r.sponge /\ p[2] = r.output
  BY <1>4
<1> HIDE DEF d, p
<1>6. Len(r.sponge) \in Nat /\ r.output \in Nat
  BY <1>2 DEF ChallengerState
<1>7. Older(p, d)
  BY <1>4, <1>5, <1>6 DEF Older
<1>8. ASSUME NEW o \in Output, Older(o, c)
      PROVE  Older(o, d) /\ o # p
  <2>1. Len(o[1]) \in Nat /\ o[2] \in Nat
    BY DEF Output
  <2>2. Older(o, r)
    BY <1>1, <1>3, <1>6, <1>8, <2>1 DEF Older
  <2>. QED  BY <1>4, <1>5, <1>6, <2>1, <2>2 DEF Older
<1>. QED  BY <1>4, <1>7, <1>8 DEF d, p, r

\* A step draws what was not drawn before.
LEMMA StepFresh ==
    ASSUME NEW s \in FreshState, NEW op \in Op
    PROVE  Step("native", s, op) \in FreshState
<1> DEFINE t == Step("native", s, op)
<1>1. s \in NativeState /\ s.c \in Duplexed /\ s.drawn \in [Challenge -> Seq(Output)]
  BY DEF FreshState, NativeState, State
<1>2. t \in NativeState
  BY <1>1, StepTyped
<1>3. \A n \in Challenge : \A i \in 1 .. Len(s.drawn[n]) : s.drawn[n][i] \in Output /\ Older(s.drawn[n][i], s.c)
  BY <1>1 DEF FreshState
<1>4. CASE op \in ObserveOp
  <2>1. t.drawn = s.drawn /\ t.c = ObserveElement(s.c, op.what) /\ op.what \in Observed
    BY <1>1, <1>4, NativeObserves DEF ObserveOp
  <2> HIDE DEF t
  <2>2. \A n \in Challenge : \A i \in 1 .. Len(t.drawn[n]) : Older(t.drawn[n][i], t.c)
    BY <1>1, <1>3, <2>1, ObservedOlder
  <2>3. t \in FreshState
    BY <1>2, <2>1, <2>2 DEF FreshState
  <2>. QED  BY <2>3 DEF t
<1>5. CASE op \in GrindOp
  <2>1. t.drawn = s.drawn /\ t.c = s.c
    BY <1>1, <1>5, NativeGrinds
  <2> HIDE DEF t
  <2>2. t \in FreshState
    BY <1>2, <2>1 DEF FreshState
  <2>. QED  BY <2>2 DEF t
<1>6. CASE op \in DrawOp
  <2> DEFINE p == Popped(Refilled(s.c))
             d == Pop(Refilled(s.c))
             m == op.what
             k == Len(s.drawn[m]) + 1
  <2>1. t.drawn = [s.drawn EXCEPT ![m] = Append(@, p)] /\ t.c = d /\ m \in Challenge
    BY <1>1, <1>6, NativeDraws DEF DrawOp
  <2>2. p \in Output /\ Older(p, d) /\ \A o \in Output : Older(o, s.c) => Older(o, d) /\ o # p
    BY <1>1, DrawnOlder
  <2> HIDE DEF t, p, d, m
  <2>3. /\ Len(t.drawn[m]) = k /\ k \in Nat /\ t.drawn[m][k] = p
        /\ \A i \in 1 .. Len(s.drawn[m]) : t.drawn[m][i] = s.drawn[m][i]
    <3>1. t.drawn[m] = Append(s.drawn[m], p) /\ s.drawn[m] \in Seq(Output)
      BY <1>1, <2>1
    <3>. QED  BY <2>2, <3>1, Grown1
  <2>4. \A n \in Challenge : n # m => t.drawn[n] = s.drawn[n]
    BY <1>1, <2>1
  <2>5. ASSUME NEW n \in Challenge, NEW i \in 1 .. Len(t.drawn[n])
        PROVE  \/ n = m /\ i = k /\ t.drawn[n][i] = p
               \/ /\ i \in 1 .. Len(s.drawn[n]) /\ t.drawn[n][i] = s.drawn[n][i]
                  /\ s.drawn[n][i] \in Output /\ Older(s.drawn[n][i], s.c) /\ t.drawn[n][i] # p
    <3>1. CASE n = m
      <4>1. Len(s.drawn[m]) \in Nat
        BY <1>1, <2>1
      <4>2. i = k \/ i \in 1 .. Len(s.drawn[m])
        BY <2>3, <3>1, <4>1
      <4>. QED  BY <1>3, <2>2, <2>3, <3>1, <4>2
    <3>2. CASE n # m
      BY <1>3, <2>2, <2>4, <3>2
    <3>. QED  BY <3>1, <3>2
  <2>6. \A n \in Challenge : \A i \in 1 .. Len(t.drawn[n]) : Older(t.drawn[n][i], t.c)
    BY <2>1, <2>2, <2>5
  <2>7. ASSUME NEW n \in Challenge, NEW q \in Challenge, NEW i \in 1 .. Len(t.drawn[n]),
               NEW j \in 1 .. Len(t.drawn[q]), t.drawn[n][i] = t.drawn[q][j]
        PROVE  n = q /\ i = j
    BY <2>5, <2>7 DEF FreshState
  <2>8. t \in FreshState
    BY <1>2, <2>6, <2>7 DEF FreshState
  <2>. QED  BY <2>8 DEF t
<1>. QED  BY <1>4, <1>5, <1>6 DEF Op

\* So does a run.
LEMMA RunFresh ==
    ASSUME NEW parts \in Seq(Seq(Op))
    PROVE  Run("native", parts) \in FreshState
<1>1. Start \in FreshState
  <2>1. \A n \in Challenge : Start.drawn[n] = <<>>
    BY DEF Start
  <2>. QED  BY <2>1, StartTyped DEF FreshState
<1>. QED  BY <1>1, StepFresh, RunStays

-----------------------------------------------------------------------------
(* A challenger that buffers what it observes, and one that does not.      *)

IsAbsorbing(f, sponge, chunks, n) ==
    f = [k \in 0 .. n |-> IF k = 0 THEN sponge ELSE Permute(f[k - 1], chunks[k])]

\* Absorbed is defined by such a function.
LEMMA AbsorbingExists ==
    ASSUME NEW sponge, NEW chunks, NEW n \in Nat
    PROVE  \E f : IsAbsorbing(f, sponge, chunks, n)
<1> DEFINE With == {m \in Nat : \E f : IsAbsorbing(f, sponge, chunks, m)}
<1>1. 0 \in With
  <2> DEFINE g == [i \in 0 .. 0 |-> sponge]
  <2>1. g = [i \in 0 .. 0 |-> IF i = 0 THEN sponge ELSE Permute(g[i - 1], chunks[i])]
    OBVIOUS
  <2> HIDE DEF g
  <2>. QED  BY <2>1 DEF IsAbsorbing
<1>2. ASSUME NEW m \in 1 .. n, m - 1 \in With PROVE m \in With
  <2>1. PICK f : IsAbsorbing(f, sponge, chunks, m - 1)
    BY <1>2
  <2> DEFINE step(h, k) == IF k = 0 THEN sponge ELSE Permute(h[k - 1], chunks[k])
             g == [k \in 0 .. m |-> IF k < m THEN f[k] ELSE step(f, m)]
  <2>2. \A k \in 0 .. m - 1 : f[k] = step(f, k)
    BY <2>1 DEF IsAbsorbing
  <2>3. \A k \in 0 .. m : g[k] = step(g, k)
    <3> TAKE k \in 0 .. m
    <3>1. k = 0 \/ (k - 1 \in 0 .. m /\ k - 1 < m /\ k # 0)
      OBVIOUS
    <3>2. CASE k < m
      <4>1. k \in 0 .. m - 1
        BY <3>2
      <4>. QED  BY <2>2, <3>1, <3>2, <4>1
    <3>3. CASE k = m
      BY <3>1, <3>3
    <3>. QED  BY <3>2, <3>3
  <2>4. g = [k \in 0 .. m |-> g[k]]
    OBVIOUS
  <2> HIDE DEF g
  <2>5. IsAbsorbing(g, sponge, chunks, m)
    BY <2>3, <2>4 DEF IsAbsorbing
  <2>. QED  BY <2>5
<1> HIDE DEF With
<1>3. n \in With
  BY <1>1, <1>2, Counting
<1>. QED  BY <1>3 DEF With

\* Absorbing blocks appends them to the sponge.
AppendedUpTo(t, sponge, chunks, k) ==
    /\ t \in Seq(Seq(Observed)) /\ Len(t) = Len(sponge) + k
    /\ \A j \in 1 .. Len(sponge) : t[j] = sponge[j]
    /\ \A j \in 1 .. k : t[Len(sponge) + j] = chunks[j]

LEMMA Appending ==
    ASSUME NEW sponge \in Seq(Seq(Observed)), NEW chunks \in Seq(Seq(Observed)), NEW k \in Nat,
           k + 1 \in 1 .. Len(chunks), NEW t, AppendedUpTo(t, sponge, chunks, k)
    PROVE  AppendedUpTo(Append(t, chunks[k + 1]), sponge, chunks, k + 1)
<1> DEFINE l == Len(sponge)
           b == chunks[k + 1]
           u == Append(t, b)
<1>1. l \in Nat /\ t \in Seq(Seq(Observed)) /\ Len(t) = l + k /\ b \in Seq(Observed)
  BY DEF AppendedUpTo
<1> HIDE DEF b
<1>2. /\ u \in Seq(Seq(Observed)) /\ Len(u) = Len(t) + 1 /\ u[Len(t) + 1] = b
      /\ \A i \in 1 .. Len(t) : u[i] = t[i]
  BY <1>1, Grown1
<1> HIDE DEF u
<1>3. \A j \in 1 .. l : u[j] = sponge[j]
  BY <1>1, <1>2 DEF AppendedUpTo
<1>4. ASSUME NEW j \in 1 .. k + 1 PROVE u[l + j] = chunks[j]
  <2>1. CASE j = k + 1
    BY <1>1, <1>2, <2>1 DEF b
  <2>2. CASE j # k + 1
    <3>1. j \in 1 .. k /\ l + j \in 1 .. l + k
      BY <1>1, <2>2
    <3>. QED  BY <1>1, <1>2, <3>1 DEF AppendedUpTo
  <2>. QED  BY <2>1, <2>2
<1>5. Len(u) = l + (k + 1)
  BY <1>1, <1>2
<1>6. AppendedUpTo(u, sponge, chunks, k + 1)
  BY <1>2, <1>3, <1>4, <1>5 DEF AppendedUpTo
<1>. QED  BY <1>6 DEF u, b

\* Absorbing one chunk more is one permutation more.
LEMMA Absorbing ==
    ASSUME NEW sponge \in Seq(Seq(Observed)), NEW chunks \in Seq(Seq(Observed))
    PROVE  AppendedUpTo(Absorbed(sponge, chunks), sponge, chunks, Len(chunks))
<1> DEFINE n == Len(chunks)
           f == CHOOSE g : IsAbsorbing(g, sponge, chunks, n)
<1>1. n \in Nat
  OBVIOUS
<1>2. IsAbsorbing(f, sponge, chunks, n)
  BY <1>1, AbsorbingExists
<1>3. Absorbed(sponge, chunks) = f[n]
  BY DEF Absorbed, IsAbsorbing
<1> HIDE DEF f
<1>4. f[0] = sponge /\ \A k \in 1 .. n : f[k] = Append(f[k - 1], chunks[k])
  <2>1. \A k \in 0 .. n : f[k] = IF k = 0 THEN sponge ELSE Permute(f[k - 1], chunks[k])
    BY <1>2 DEF IsAbsorbing
  <2>2. 0 \in 0 .. n /\ \A k \in 1 .. n : k \in 0 .. n /\ k # 0
    BY <1>1
  <2>. QED  BY <2>1, <2>2 DEF Permute
<1> DEFINE T == {k \in 0 .. n : AppendedUpTo(f[k], sponge, chunks, k)}
<1>5. 0 \in T
  BY <1>1, <1>4 DEF AppendedUpTo
<1>6. ASSUME NEW k \in 1 .. n, k - 1 \in T PROVE k \in T
  <2> DEFINE j == k - 1
  <2>1. j \in Nat /\ j + 1 \in 1 .. n /\ k = j + 1 /\ AppendedUpTo(f[j], sponge, chunks, j)
    BY <1>1, <1>6
  <2> HIDE DEF j
  <2>2. AppendedUpTo(Append(f[j], chunks[j + 1]), sponge, chunks, j + 1)
    BY <2>1, Appending
  <2>3. f[k] = Append(f[j], chunks[j + 1])
    BY <1>4, <2>1 DEF j
  <2>4. AppendedUpTo(f[k], sponge, chunks, k)
    BY <2>1, <2>2, <2>3
  <2>. QED  BY <1>1, <2>4
<1> HIDE DEF T
<1>7. \A k \in 0 .. n : k \in T
  BY <1>1, <1>5, <1>6, Counting
<1>8. n \in T
  BY <1>1, <1>7
<1>. QED  BY <1>3, <1>8 DEF T

\* The number of chunks, as the input grows.
LEMMA Quotient ==
    ASSUME NEW k \in Nat, NEW T \in Nat, T > 0, NEW r \in Nat, r < T, NEW a \in Nat, a = k * T + r
    PROVE  a \div T = k
<1>1. a = T * (a \div T) + (a % T) /\ a % T \in 0 .. T - 1 /\ a \div T \in Nat
  OBVIOUS
<1> DEFINE x == a \div T
           y == a % T
<1>2. T * x + y = k * T + r /\ y \in 0 .. T - 1 /\ x \in Nat
  BY <1>1
<1> HIDE DEF x, y
<1>3. T * (x - k) = r - y
  BY <1>2
<1>4. x - k < 1
  <2>1. SUFFICES ASSUME x - k >= 1 PROVE FALSE
    BY <1>2
  <2>2. T * (x - k) >= T
    BY <1>2, <2>1
  <2>. QED  BY <1>2, <1>3, <2>2
<1>5. x - k > -1
  <2>1. SUFFICES ASSUME x - k <= -1 PROVE FALSE
    BY <1>2
  <2>2. T * (x - k) <= -T
    BY <1>2, <2>1
  <2>. QED  BY <1>2, <1>3, <2>2
<1>6. x = k
  BY <1>2, <1>4, <1>5
<1>. QED  BY <1>6 DEF x

\* A part of what was observed, behind an offset.
IsPart(b, in, o, l) ==
    b \in Seq(Observed) /\ Len(b) = l /\ \A i \in 1 .. l : b[i] = in[o + i]

\* A part of a sequence.
LEMMA Part ==
    ASSUME NEW in \in Seq(Observed), NEW o \in Nat, NEW l \in Nat, o + l <= Len(in)
    PROVE  IsPart(SubSeq(in, o + 1, o + l), in, o, l)
<1> DEFINE m == o + 1
           n == o + l
           u == SubSeq(in, m, n)
<1>1. m \in Int /\ n \in Int /\ n - m + 1 = l /\ (m <= n <=> l # 0)
  OBVIOUS
<1>2. \A i \in m .. n : in[i] \in Observed
  <2>1. \A i \in m .. n : i \in 1 .. Len(in)
    OBVIOUS
  <2>. QED  BY <2>1
<1>3. \A j \in 1 .. l : m + j - 1 = o + j
  OBVIOUS
<1> HIDE DEF m, n
<1>4. /\ u \in Seq(Observed) /\ Len(u) = IF m <= n THEN n - m + 1 ELSE 0
      /\ \A i \in 1 .. n - m + 1 : u[i] = in[m + i - 1]
  BY <1>1, <1>2, SubSeqProperties
<1> HIDE DEF u
<1>5. u \in Seq(Observed) /\ Len(u) = l /\ \A j \in 1 .. l : u[j] = in[o + j]
  BY <1>1, <1>3, <1>4
<1>. QED  BY <1>5 DEF u, m, n, IsPart

LEMMA SameParts ==
    ASSUME NEW b, NEW c, NEW in, NEW o, NEW l, IsPart(b, in, o, l), IsPart(c, in, o, l)
    PROVE  b = c
<1>1. b \in Seq(Observed) /\ c \in Seq(Observed) /\ Len(b) = Len(c) /\ \A i \in 1 .. Len(b) : b[i] = c[i]
  BY DEF IsPart
<1>. QED  BY <1>1, SeqEqual

\* The chunks of an input of k full blocks and a rest.
LEMMA ChunksAre ==
    ASSUME NEW in \in Seq(Observed), NEW k \in Nat, NEW l \in Nat, l < RATE, Len(in) = k * RATE + l
    PROVE  LET n == IF l = 0 THEN k ELSE k + 1
           IN  /\ Chunks(in) \in Seq(Seq(Observed)) /\ Len(Chunks(in)) = n
               /\ \A j \in 1 .. k : IsPart(Chunks(in)[j], in, (j - 1) * RATE, RATE)
               /\ l # 0 => IsPart(Chunks(in)[k + 1], in, k * RATE, l)
<1> DEFINE n == IF l = 0 THEN k ELSE k + 1
           len == Len(in)
           end(j) == IF RATE * j < len THEN RATE * j ELSE len
           chunk(j) == SubSeq(in, RATE * (j - 1) + 1, end(j))
<1>1. RATE \in Nat /\ RATE > 0 /\ len \in Nat /\ k * RATE \in Nat
  BY Sizes
<1>2. (len + RATE - 1) \div RATE = n
  <2>1. CASE l = 0
    <3> DEFINE a == len + RATE - 1
    <3>1. a = k * RATE + (RATE - 1) /\ a \in Nat /\ RATE - 1 \in Nat /\ RATE - 1 < RATE
      BY <1>1, <2>1
    <3> HIDE DEF a
    <3>2. a \div RATE = k
      BY <1>1, <3>1, Quotient
    <3>. QED  BY <2>1, <3>2 DEF a
  <2>2. CASE l # 0
    <3> DEFINE a == len + RATE - 1
    <3>1. a = (k + 1) * RATE + (l - 1) /\ a \in Nat /\ l - 1 \in Nat /\ l - 1 < RATE /\ k + 1 \in Nat
      BY <1>1, <2>2
    <3> HIDE DEF a
    <3>2. a \div RATE = k + 1
      BY <1>1, <3>1, Quotient
    <3>. QED  BY <2>2, <3>2 DEF a
  <2>. QED  BY <2>1, <2>2
<1>3. Chunks(in) = [j \in 1 .. n |-> chunk(j)]
  BY <1>2 DEF Chunks
<1>4. ASSUME NEW j \in 1 .. k PROVE IsPart(chunk(j), in, (j - 1) * RATE, RATE)
  <2> DEFINE o == (j - 1) * RATE
             s == RATE * j
  <2>1. o \in Nat /\ s = o + RATE
    BY <1>1
  <2>2. s <= k * RATE
    <3>1. k - j \in Nat
      OBVIOUS
    <3>2. (k - j) * RATE >= 0
      BY <1>1, <3>1
    <3>. QED  BY <1>1, <3>2
  <2>3. RATE * (j - 1) + 1 = o + 1
    BY <1>1
  <2> HIDE DEF o, s
  <2>4. s <= len
    BY <1>1, <2>1, <2>2
  <2>5. (IF s < len THEN s ELSE len) = o + RATE
    BY <1>1, <2>1, <2>4
  <2>6. IsPart(SubSeq(in, o + 1, o + RATE), in, o, RATE)
    BY <1>1, <2>1, <2>4, Part
  <2>7. chunk(j) = SubSeq(in, o + 1, o + RATE)
    BY <2>3, <2>5 DEF s
  <2>. QED  BY <2>6, <2>7 DEF o
<1>5. ASSUME l # 0 PROVE IsPart(chunk(k + 1), in, k * RATE, l)
  <2> DEFINE o == k * RATE
             s == RATE * (k + 1)
  <2>1. o \in Nat /\ s = o + RATE /\ RATE * ((k + 1) - 1) + 1 = o + 1
    BY <1>1
  <2> HIDE DEF o, s
  <2>2. (IF s < len THEN s ELSE len) = o + l
    BY <1>1, <2>1 DEF o
  <2>3. IsPart(SubSeq(in, o + 1, o + l), in, o, l)
    BY <1>1, <2>1, Part DEF o
  <2>4. chunk(k + 1) = SubSeq(in, o + 1, o + l)
    BY <2>1, <2>2 DEF s
  <2>. QED  BY <2>3, <2>4 DEF o
<1>6. \A j \in 1 .. n : chunk(j) \in Seq(Observed)
  <2>1. \A j \in 1 .. n : j \in 1 .. k \/ (j = k + 1 /\ l # 0)
    OBVIOUS
  <2> HIDE DEF chunk
  <2>. QED  BY <1>4, <1>5, <2>1 DEF IsPart
<1> HIDE DEF chunk
<1>7. n \in Nat /\ \A j \in 1 .. k : j \in 1 .. n
  OBVIOUS
<1>8. l # 0 => k + 1 \in 1 .. n
  OBVIOUS
<1> HIDE DEF n
<1>9. Chunks(in) \in Seq(Seq(Observed)) /\ Len(Chunks(in)) = n /\ \A j \in 1 .. n : Chunks(in)[j] = chunk(j)
  BY <1>3, <1>6, <1>7
<1>10. \A j \in 1 .. k : IsPart(Chunks(in)[j], in, (j - 1) * RATE, RATE)
  BY <1>4, <1>7, <1>9
<1>11. l # 0 => IsPart(Chunks(in)[k + 1], in, k * RATE, l)
  BY <1>5, <1>8, <1>9
<1>. QED  BY <1>9, <1>10, <1>11 DEF n

\* A part of a sequence is not changed by what is appended.
LEMMA PartOfMore ==
    ASSUME NEW in \in Seq(Observed), NEW o \in Nat, NEW l \in Nat, o + l <= Len(in), NEW b,
           IsPart(b, in, o, l), NEW e \in Observed
    PROVE  /\ IsPart(b, Append(in, e), o, l)
           /\ Len(in) = o + l => IsPart(Append(b, e), Append(in, e), o, l + 1)
<1> DEFINE in2 == Append(in, e)
           b2 == Append(b, e)
<1>1. in2 \in Seq(Observed) /\ (\A i \in 1 .. Len(in) : in2[i] = in[i]) /\ in2[Len(in) + 1] = e
  BY Grown1
<1>2. b \in Seq(Observed) /\ Len(b) = l /\ \A i \in 1 .. l : b[i] = in[o + i]
  BY DEF IsPart
<1>3. b2 \in Seq(Observed) /\ Len(b2) = l + 1 /\ (\A i \in 1 .. l : b2[i] = b[i]) /\ b2[l + 1] = e
  BY <1>2, Grown1
<1> HIDE DEF in2, b2
<1>4. Len(in) \in Nat /\ \A i \in 1 .. l : o + i \in 1 .. Len(in)
  OBVIOUS
<1>5. \A i \in 1 .. l : in2[o + i] = b[i]
  BY <1>1, <1>2, <1>4
<1>6. IsPart(b, in2, o, l)
  BY <1>2, <1>5 DEF IsPart
<1>7. ASSUME Len(in) = o + l PROVE IsPart(b2, in2, o, l + 1)
  <2>1. in2[o + (l + 1)] = e
    BY <1>1, <1>7
  <2>2. \A i \in 1 .. l + 1 : i = l + 1 \/ i \in 1 .. l
    OBVIOUS
  <2>3. \A i \in 1 .. l + 1 : b2[i] = in2[o + i]
    BY <1>3, <1>5, <2>1, <2>2
  <2>. QED  BY <1>3, <2>3 DEF IsPart
<1>. QED  BY <1>6, <1>7 DEF in2, b2

\* c has permuted k blocks of what r still buffers.
BufferedAt(c, r, k) ==
    /\ c \in Duplexed /\ r \in ChallengerState /\ k \in Nat
    /\ Len(c.sponge) = Len(r.sponge) + k
    /\ \A i \in 1 .. Len(r.sponge) : c.sponge[i] = r.sponge[i]
    /\ \A j \in 1 .. k : IsPart(c.sponge[Len(r.sponge) + j], r.input, (j - 1) * RATE, RATE)
    /\ Len(r.input) = k * RATE + Len(c.input)
    /\ IsPart(c.input, r.input, k * RATE, Len(c.input))
    /\ r.input = <<>> => c.output = r.output
    /\ r.input # <<>> => r.output = 0 /\ c.output = IF c.input = <<>> THEN RATE ELSE 0

Buffered(c, r) == \E k \in Nat : BufferedAt(c, r, k)

\* A circuit that buffers one element more stays equal to the challenger
\* outside, whether or not the element fills a block.
LEMMA ObservedBuffered ==
    ASSUME NEW c, NEW r, Buffered(c, r), NEW e \in Observed
    PROVE  Buffered(ObserveElement(c, e), ObserveTarget(r, e))
<1>1. PICK k \in Nat : BufferedAt(c, r, k)
  BY DEF Buffered
<1> DEFINE c2 == ObserveElement(c, e)
           r2 == ObserveTarget(r, e)
           l == Len(c.input)
           o == k * RATE
           m == Len(r.sponge)
<1>2. /\ c \in Duplexed /\ c.sponge \in Seq(Seq(Observed)) /\ c.input \in Seq(Observed)
      /\ l \in Nat /\ l < RATE
      /\ r.sponge \in Seq(Seq(Observed)) /\ r.input \in Seq(Observed) /\ m \in Nat
      /\ RATE \in Nat /\ RATE > 0 /\ o \in Nat
  BY <1>1, Sizes DEF BufferedAt, Duplexed, ChallengerState
<1>3. /\ Len(c.sponge) = m + k /\ Len(r.input) = o + l /\ IsPart(c.input, r.input, o, l)
      /\ \A i \in 1 .. m : c.sponge[i] = r.sponge[i]
  BY <1>1 DEF BufferedAt
<1>4. ASSUME NEW j \in 1 .. k
      PROVE  (j - 1) * RATE \in Nat /\ (j - 1) * RATE + RATE <= o
  <2>1. k - j \in Nat /\ j - 1 \in Nat
    OBVIOUS
  <2>2. (k - j) * RATE >= 0 /\ (j - 1) * RATE \in Nat
    BY <1>2, <2>1
  <2>. QED  BY <1>2, <2>2
<1>5. r2 = [sponge |-> r.sponge, input |-> Append(r.input, e), output |-> 0]
  BY DEF ObserveTarget
<1> DEFINE in2 == Append(r.input, e)
           b2 == Append(c.input, e)
<1> HIDE DEF o
<1>6. in2 \in Seq(Observed) /\ Len(in2) = o + l + 1 /\ in2 # <<>>
  <2>1. in2 \in Seq(Observed) /\ Len(in2) = Len(r.input) + 1
    BY <1>2, Grown1
  <2> HIDE DEF in2
  <2>. QED  BY <1>2, <1>3, <2>1
<1>7. b2 \in Seq(Observed) /\ Len(b2) = l + 1 /\ b2 # <<>>
  <2>1. b2 \in Seq(Observed) /\ Len(b2) = Len(c.input) + 1
    BY <1>2, Grown1
  <2> HIDE DEF b2
  <2>. QED  BY <1>2, <2>1
<1>8. r2 \in ChallengerState
  BY <1>2, <1>5, <1>6 DEF ChallengerState
<1>9. c2 \in Duplexed
  BY <1>2, Observing
<1>10. IsPart(b2, in2, o, l + 1)
  <2>1. o + l <= Len(r.input)
    BY <1>2, <1>3
  <2> HIDE DEF l
  <2>. QED  BY <1>2, <1>3, <2>1, PartOfMore
<1>11. \A j \in 1 .. k : IsPart(c.sponge[m + j], in2, (j - 1) * RATE, RATE)
  <2> TAKE j \in 1 .. k
  <2> DEFINE p == (j - 1) * RATE
             b == c.sponge[m + j]
  <2>1. p \in Nat /\ p + RATE <= Len(r.input)
    <3>1. p \in Nat /\ p + RATE <= o
      BY <1>4
    <3> HIDE DEF p, l
    <3>. QED  BY <1>2, <1>3, <3>1
  <2>2. IsPart(b, r.input, p, RATE)
    BY <1>1 DEF BufferedAt
  <2> HIDE DEF p, b
  <2>3. IsPart(b, in2, p, RATE)
    BY <1>2, <2>1, <2>2, PartOfMore
  <2>. QED  BY <2>3 DEF p, b
<1>12. CASE l + 1 = RATE
  <2>1. c2 = [sponge |-> Append(c.sponge, b2), input |-> <<>>, output |-> RATE]
    BY <1>2, <1>12, Observing
  <2> DEFINE s2 == Append(c.sponge, b2)
             k2 == k + 1
  <2>2. s2 \in Seq(Seq(Observed)) /\ Len(s2) = m + k + 1 /\ s2[m + k + 1] = b2
        /\ \A i \in 1 .. m + k : s2[i] = c.sponge[i]
    <3> HIDE DEF b2, m
    <3>1. s2 \in Seq(Seq(Observed)) /\ Len(s2) = Len(c.sponge) + 1 /\ s2[Len(c.sponge) + 1] = b2
          /\ \A i \in 1 .. Len(c.sponge) : s2[i] = c.sponge[i]
      BY <1>2, <1>7, Grown1
    <3> HIDE DEF s2
    <3>. QED  BY <1>2, <1>3, <3>1
  <2>3. k2 \in Nat /\ k2 * RATE = o + RATE /\ k2 - 1 = k
    BY <1>2 DEF o
  <2>4. IsPart(<<>>, in2, k2 * RATE, 0)
    BY DEF IsPart
  <2> HIDE DEF s2, in2, b2, c2, r2, l, m
  <2>5. \A i \in 1 .. m : s2[i] = r.sponge[i]
    <3>1. \A i \in 1 .. m : i \in 1 .. m + k
      BY <1>2
    <3>. QED  BY <1>3, <2>2, <3>1
  <2>6. \A j \in 1 .. k2 : IsPart(s2[m + j], in2, (j - 1) * RATE, RATE)
    <3> TAKE j \in 1 .. k2
    <3>1. CASE j = k2
      <4>1. s2[m + j] = b2
        BY <1>2, <2>2, <3>1
      <4>2. (j - 1) * RATE = o
        BY <2>3, <3>1 DEF o
      <4>. QED  BY <1>10, <1>12, <4>1, <4>2
    <3>2. CASE j # k2
      <4>1. j \in 1 .. k /\ m + j \in 1 .. m + k
        BY <1>2, <3>2
      <4>2. s2[m + j] = c.sponge[m + j]
        BY <2>2, <4>1
      <4>. QED  BY <1>11, <4>1, <4>2
    <3>. QED  BY <3>1, <3>2
  <2>8. Len(s2) = m + k2
    BY <1>2, <2>2
  <2> HIDE DEF k2
  <2>7. Len(in2) = k2 * RATE + 0
    BY <1>2, <1>6, <1>12, <2>3
  <2>9. BufferedAt(c2, r2, k2)
    BY <1>5, <1>6, <1>8, <1>9, <2>1, <2>3, <2>4, <2>5, <2>6, <2>7, <2>8 DEF BufferedAt, s2, in2, b2, m
  <2>. QED  BY <2>3, <2>9 DEF Buffered, c2, r2
<1>13. CASE l + 1 # RATE
  <2>1. c2 = [sponge |-> c.sponge, input |-> b2, output |-> 0]
    BY <1>2, <1>13, Observing
  <2> HIDE DEF in2, b2, c2, r2, l
  <2>2. Len(in2) = o + Len(b2) /\ IsPart(b2, in2, o, Len(b2))
    BY <1>2, <1>6, <1>7, <1>10
  <2>3. BufferedAt(c2, r2, k)
    BY <1>3, <1>5, <1>6, <1>7, <1>8, <1>9, <1>11, <2>1, <2>2 DEF BufferedAt, in2, o, m
  <2>. QED  BY <2>3 DEF Buffered, c2, r2
<1>. QED  BY <1>12, <1>13

\* When a challenge is asked for, both have absorbed the same blocks.
LEMMA SameRefilled ==
    ASSUME NEW c, NEW r, Buffered(c, r)
    PROVE  RefilledTarget(r) = Refilled(c)
<1>1. PICK k \in Nat : BufferedAt(c, r, k)
  BY DEF Buffered
<1> DEFINE l == Len(c.input)
           m == Len(r.sponge)
<1>2. /\ c \in Duplexed /\ c.sponge \in Seq(Seq(Observed)) /\ c.input \in Seq(Observed)
      /\ l \in Nat /\ l < RATE /\ c.output \in 0 .. RATE
      /\ r.sponge \in Seq(Seq(Observed)) /\ r.input \in Seq(Observed) /\ m \in Nat
      /\ RATE \in Nat /\ RATE > 0 /\ k * RATE \in Nat
      /\ c = [sponge |-> c.sponge, input |-> c.input, output |-> c.output]
      /\ r = [sponge |-> r.sponge, input |-> r.input, output |-> r.output]
  BY <1>1, Sizes DEF BufferedAt, Duplexed, ChallengerState
<1>3. /\ Len(c.sponge) = m + k /\ Len(r.input) = k * RATE + l
      /\ \A i \in 1 .. m : c.sponge[i] = r.sponge[i]
      /\ \A j \in 1 .. k : IsPart(c.sponge[m + j], r.input, (j - 1) * RATE, RATE)
      /\ IsPart(c.input, r.input, k * RATE, l)
  BY <1>1 DEF BufferedAt
<1>4. CASE r.input = <<>>
  <2>1. k = 0 /\ l = 0
    <3>1. k * RATE = 0 /\ l = 0
      BY <1>2, <1>3, <1>4
    <3>2. k > 0 => k * RATE > 0
      BY <1>2
    <3>. QED  BY <3>1, <3>2
  <2>2. c.sponge = r.sponge
    <3>1. Len(c.sponge) = Len(r.sponge) /\ \A i \in 1 .. Len(c.sponge) : c.sponge[i] = r.sponge[i]
      BY <1>2, <1>3, <2>1
    <3>. QED  BY <1>2, <3>1, SeqEqual
  <2>3. c.input = <<>> /\ c.output = r.output
    BY <1>1, <1>2, <1>4, <2>1 DEF BufferedAt
  <2>4. c = r
    BY <1>2, <1>4, <2>2, <2>3
  <2>5. Absorb(r) = r
    BY <1>4 DEF Absorb
  <2>6. CASE r.output = 0
    <3>1. RefilledTarget(r) = [r EXCEPT !.sponge = Permute(@, <<>>), !.output = RATE]
      BY <2>5, <2>6 DEF RefilledTarget
    <3> DEFINE u == [r EXCEPT !.sponge = Append(r.sponge, <<>>)]
    <3>2. u = [sponge |-> Append(r.sponge, <<>>), input |-> <<>>, output |-> r.output]
      <4> DEFINE x == Append(r.sponge, <<>>)
      <4> HIDE DEF x
      <4>1. u = [r EXCEPT !.sponge = x]
        BY DEF x
      <4>2. [r EXCEPT !.sponge = x] = [sponge |-> x, input |-> r.input, output |-> r.output]
        <5> DEFINE a == r.sponge
                   i == r.input
                   n == r.output
        <5> HIDE DEF a, i, n
        <5>1. r = [sponge |-> a, input |-> i, output |-> n]
          BY <1>2 DEF a, i, n
        <5>2. [r EXCEPT !.sponge = x] = [sponge |-> x, input |-> i, output |-> n]
          BY <5>1
        <5>. QED  BY <5>2 DEF i, n
      <4>. QED  BY <1>4, <4>1, <4>2 DEF x
    <3>3. RefilledTarget(r) = [u EXCEPT !.output = RATE]
      BY <3>1 DEF Permute
    <3> HIDE DEF u
    <3>4. RefilledTarget(r) = [sponge |-> Append(r.sponge, <<>>), input |-> <<>>, output |-> RATE]
      BY <3>2, <3>3
    <3>. QED  BY <1>2, <1>4, <2>4, <2>6, <3>4, Refilling
  <2>7. CASE r.output # 0
    <3>1. RefilledTarget(r) = r
      BY <2>5, <2>7 DEF RefilledTarget
    <3>. QED  BY <1>2, <1>4, <2>4, <2>7, <3>1, Refilling
  <2>. QED  BY <2>6, <2>7
<1>5. CASE r.input # <<>>
  <2> DEFINE ch == Chunks(r.input)
             n == IF l = 0 THEN k ELSE k + 1
             t == Absorbed(r.sponge, ch)
             q == Refilled(c).sponge
  <2>1. Absorb(r) = [sponge |-> t, input |-> <<>>, output |-> RATE]
    BY <1>5 DEF Absorb
  <2>2. RefilledTarget(r) = [sponge |-> t, input |-> <<>>, output |-> RATE]
    BY <1>2, <2>1 DEF RefilledTarget
  <2>3. /\ ch \in Seq(Seq(Observed)) /\ Len(ch) = n /\ n \in Nat
        /\ \A j \in 1 .. k : IsPart(ch[j], r.input, (j - 1) * RATE, RATE)
        /\ l # 0 => IsPart(ch[k + 1], r.input, k * RATE, l)
    <3> HIDE DEF l
    <3>. QED  BY <1>2, <1>3, ChunksAre, SMTT(30)
  <2> HIDE DEF ch, n
  <2>4. AppendedUpTo(t, r.sponge, ch, n)
    BY <1>2, <2>3, Absorbing
  <2>5. c.output = IF c.input = <<>> THEN RATE ELSE 0
    BY <1>1, <1>5 DEF BufferedAt
  <2>6. /\ Refilled(c) = [sponge |-> q, input |-> <<>>, output |-> RATE]
        /\ q \in Seq(Seq(Observed)) /\ Len(q) = m + n
        /\ \A i \in 1 .. m + k : q[i] = c.sponge[i]
        /\ l # 0 => q[m + k + 1] = c.input
    <3>1. CASE c.input = <<>>
      <4>1. l = 0 /\ n = k /\ Refilled(c) = c
        BY <1>2, <2>5, <3>1, Refilling, SMTT(30) DEF n
      <4>. QED  BY <1>2, <1>3, <2>5, <3>1, <4>1
    <3>2. CASE c.input # <<>>
      <4>1. l # 0 /\ n = k + 1
        BY <1>2, <3>2 DEF n
      <4>2. Refilled(c) = [sponge |-> Append(c.sponge, c.input), input |-> <<>>, output |-> RATE]
        BY <1>2, <3>2, Refilling
      <4>3. q = Append(c.sponge, c.input)
        BY <4>2
      <4> HIDE DEF q
      <4>4. q \in Seq(Seq(Observed)) /\ Len(q) = Len(c.sponge) + 1 /\ q[Len(c.sponge) + 1] = c.input
            /\ \A i \in 1 .. Len(c.sponge) : q[i] = c.sponge[i]
        BY <1>2, <4>3, Grown1
      <4>. QED  BY <1>2, <1>3, <4>1, <4>2, <4>3, <4>4, SMTT(30) DEF q
    <3>. QED  BY <3>1, <3>2
  <2> HIDE DEF q, t
  <2>7. t \in Seq(Seq(Observed)) /\ Len(t) = m + n
        /\ (\A i \in 1 .. m : t[i] = r.sponge[i]) /\ \A j \in 1 .. n : t[m + j] = ch[j]
    BY <2>4 DEF AppendedUpTo
  <2>8. \A j \in 1 .. k : j \in 1 .. n /\ m + j \in 1 .. m + k
    BY <1>2 DEF n
  <2>9. ASSUME NEW i \in 1 .. m + n PROVE t[i] = q[i]
    <3>1. CASE i \in 1 .. m
      <4>1. i \in 1 .. m + k
        BY <1>2, <3>1
      <4>. QED  BY <1>3, <2>6, <2>7, <3>1, <4>1
    <3>2. CASE i \notin 1 .. m
      <4> DEFINE j == i - m
      <4>1. j \in 1 .. n /\ i = m + j
        BY <1>2, <2>3, <3>2, SMTT(30)
      <4> HIDE DEF j
      <4>2. CASE j \in 1 .. k
        <5>1. IsPart(ch[j], r.input, (j - 1) * RATE, RATE) /\ IsPart(c.sponge[m + j], r.input, (j - 1) * RATE, RATE)
          BY <1>3, <2>3, <4>2
        <5> DEFINE a == ch[j]
                   b == c.sponge[m + j]
                   o == (j - 1) * RATE
        <5> HIDE DEF a, b, o
        <5>2. a = b
          BY <5>1, SameParts DEF a, b, o
        <5>. QED  BY <2>6, <2>7, <2>8, <4>1, <4>2, <5>2 DEF a, b
      <4>3. CASE j \notin 1 .. k
        <5>1. j = k + 1 /\ l # 0
          BY <4>1, <4>3 DEF n
        <5> DEFINE a == ch[k + 1]
                   o == k * RATE
        <5>2. IsPart(a, r.input, o, l)
          BY <2>3, <5>1
        <5>3. IsPart(c.input, r.input, o, l)
          BY <1>3
        <5> HIDE DEF a, o
        <5>4. a = c.input
          BY <5>2, <5>3, SameParts
        <5>5. m + j = m + k + 1
          BY <1>2, <5>1
        <5>6. t[m + j] = ch[j]
          BY <2>7, <4>1
        <5>. QED  BY <2>6, <4>1, <5>1, <5>4, <5>5, <5>6 DEF a
      <4>. QED  BY <4>2, <4>3
    <3>. QED  BY <3>1, <3>2
  <2>10. t = q
    BY <2>6, <2>7, <2>9, SeqEqual
  <2>. QED  BY <2>2, <2>6, <2>10
<1>. QED  BY <1>4, <1>5

\* Challengers that are equal are buffered alike.
LEMMA EqualBuffered ==
    ASSUME NEW c \in Duplexed, c.input = <<>>
    PROVE  Buffered(c, c)
<1>1. c \in ChallengerState /\ c.sponge \in Seq(Seq(Observed)) /\ Len(c.input) = 0 /\ 0 * RATE = 0
  BY Sizes DEF Duplexed, ChallengerState
<1>2. IsPart(c.input, c.input, 0 * RATE, Len(c.input))
  BY <1>1 DEF IsPart
<1>3. BufferedAt(c, c, 0)
  BY <1>1, <1>2 DEF BufferedAt
<1>. QED  BY <1>3 DEF Buffered

\* The step of a challenger in a circuit that observes.
LEMMA CircuitObserves ==
    ASSUME NEW s \in State, NEW op \in ObserveOp
    PROVE  /\ Step("circuit", s, op).c = ObserveTarget(s.c, op.what)
           /\ Step("circuit", s, op).drawn = s.drawn /\ Step("circuit", s, op).lucky = s.lucky
           /\ s.c.sponge \in Seq(Seq(Observed)) => Step("circuit", s, op) \in State
<1>1. op.do = "observe" /\ op.what \in Observed
  BY DEF ObserveOp
<1>2. s = [c |-> s.c, drawn |-> s.drawn, lucky |-> s.lucky] /\ s.c \in ChallengerState
  BY DEF State
<1>3. Step("circuit", s, op) = [s EXCEPT !.c = ObserveTarget(@, op.what)]
  BY <1>1 DEF Step
<1> DEFINE d == ObserveTarget(s.c, op.what)
<1>4. d \in ChallengerState
  <2>1. d = [sponge |-> s.c.sponge, input |-> Append(s.c.input, op.what), output |-> 0]
    BY DEF ObserveTarget
  <2>2. Append(s.c.input, op.what) \in Seq(Observed)
    BY <1>1, <1>2, Grown1 DEF ChallengerState
  <2>. QED  BY <1>2, <2>1, <2>2, Sizes DEF ChallengerState
<1> HIDE DEF d
<1>5. Step("circuit", s, op) = [c |-> d, drawn |-> s.drawn, lucky |-> s.lucky]
  BY <1>2, <1>3 DEF d
<1>. QED  BY <1>4, <1>5 DEF State, d

\* States of the two verifiers after the same steps.
Alike == {z \in NativeState \X State : Buffered(z[1].c, z[2].c) /\ z[1].drawn = z[2].drawn}

\* A step of both keeps them alike.
LEMMA StepAlike ==
    ASSUME NEW s, NEW t, <<s, t>> \in Alike, NEW op \in ObserveOp \cup DrawOp
    PROVE  <<Step("native", s, op), Step("circuit", t, op)>> \in Alike
<1> DEFINE x == Step("native", s, op)
           y == Step("circuit", t, op)
<1>1. s \in NativeState /\ t \in State /\ Buffered(s.c, t.c) /\ s.drawn = t.drawn /\ s.c \in Duplexed
  BY DEF Alike, NativeState
<1>2. CASE op \in ObserveOp
  <2>1. x \in NativeState /\ x.c = ObserveElement(s.c, op.what) /\ x.drawn = s.drawn /\ op.what \in Observed
    BY <1>1, <1>2, NativeObserves DEF ObserveOp
  <2>2. y \in State /\ y.c = ObserveTarget(t.c, op.what) /\ y.drawn = t.drawn
    BY <1>1, <1>2, CircuitObserves DEF State, ChallengerState
  <2> HIDE DEF x, y
  <2>3. Buffered(x.c, y.c)
    BY <1>1, <2>1, <2>2, ObservedBuffered
  <2>4. <<x, y>> \in Alike
    BY <1>1, <2>1, <2>2, <2>3 DEF Alike
  <2>. QED  BY <2>4 DEF x, y
<1>3. CASE op \in DrawOp
  <2> DEFINE r == Refilled(s.c)
             n == op.what
  <2>1. op.do = "draw" /\ n \in Challenge
    BY <1>3 DEF DrawOp
  <2>2. x \in NativeState /\ x.c = Pop(r) /\ x.drawn = [s.drawn EXCEPT ![n] = Append(@, Popped(r))]
    BY <1>1, <1>3, NativeDraws
  <2>3. y = Take(t, r, n)
    BY <1>1, <2>1, SameRefilled DEF Step
  <2>4. r \in ChallengerState /\ r.output \in 1 .. RATE /\ r.input = <<>>
    BY <1>1, Refilling DEF Duplexed
  <2> HIDE DEF r, n
  <2>5. y \in State /\ y.c = Pop(r) /\ y.drawn = [t.drawn EXCEPT ![n] = Append(@, Popped(r))]
    BY <1>1, <2>1, <2>3, <2>4, Taking, SMTT(30)
  <2>6. x.c.input = <<>> /\ x.c \in Duplexed
    <3>1. x.c.input = r.input
      BY <2>2, <2>4, Popping
    <3>. QED  BY <2>2, <2>4, <3>1 DEF NativeState
  <2> HIDE DEF x, y
  <2>7. Buffered(x.c, y.c)
    BY <2>2, <2>5, <2>6, EqualBuffered
  <2>8. <<x, y>> \in Alike
    BY <1>1, <2>2, <2>5, <2>7 DEF Alike
  <2>. QED  BY <2>8 DEF x, y
<1>. QED  BY <1>2, <1>3

\* The buffering challenger draws what the other one draws.
LEMMA RunsAlike ==
    ASSUME NEW parts \in Seq(Seq(ObserveOp \cup DrawOp))
    PROVE  Run("circuit", parts).drawn = Run("native", parts).drawn
<1> DEFINE T == ObserveOp \cup DrawOp
           n == Len(parts)
           R == [i \in 0 .. n |-> Alike]
           x == Run("native", parts)
           y == Run("circuit", parts)
<1>1. n \in Nat /\ \A i \in 1 .. n : parts[i] \in Seq(T)
  OBVIOUS
<1>2. \A i \in 0 .. n : R[i] = Alike
  OBVIOUS
<1>3. 0 \in 0 .. n /\ n \in 0 .. n /\ \A i \in 1 .. n : i \in 0 .. n /\ i - 1 \in 0 .. n
  BY <1>1
<1>4. <<Start, Start>> \in Alike
  <2>1. Start \in NativeState /\ Start.c \in Duplexed /\ Start.c.input = <<>>
    BY StartTyped DEF NativeState, Start, NewChallenger
  <2>2. Start \in State /\ Buffered(Start.c, Start.c)
    BY <2>1, EqualBuffered DEF NativeState
  <2>. QED  BY <2>1, <2>2 DEF Alike
<1> HIDE DEF T, R
<1>5. ASSUME NEW a, NEW b, <<a, b>> \in Alike, NEW i \in 1 .. n
      PROVE  <<Steps("native", a, parts[i]), Steps("circuit", b, parts[i])>> \in Alike
  <2> DEFINE ops == parts[i]
             l == Len(ops)
             P == [j \in 0 .. l |-> Alike]
  <2>1. ops \in Seq(T)
    BY <1>1
  <2> HIDE DEF ops
  <2>2. l \in Nat /\ \A j \in 1 .. l : ops[j] \in T
    BY <2>1
  <2>3. 0 \in 0 .. l /\ l \in 0 .. l /\ \A j \in 1 .. l : j \in 0 .. l /\ j - 1 \in 0 .. l
    BY <2>2
  <2>4. \A j \in 0 .. l : P[j] = Alike
    OBVIOUS
  <2> HIDE DEF P
  <2>5. <<a, b>> \in P[0]
    BY <1>5, <2>3, <2>4
  <2>6. ASSUME NEW j \in 1 .. l, NEW u, NEW w, <<u, w>> \in P[j - 1]
        PROVE  <<Step("native", u, ops[j]), Step("circuit", w, ops[j])>> \in P[j]
    BY <2>2, <2>3, <2>4, <2>6, StepAlike DEF T
  <2> HIDE DEF l
  <2>7. <<Steps("native", a, ops), Steps("circuit", b, ops)>> \in P[l]
    BY <2>2, <2>5, <2>6, StepsKeep DEF l
  <2>. QED  BY <2>3, <2>4, <2>7 DEF ops
<1>6. <<Start, Start>> \in R[0]
  BY <1>2, <1>3, <1>4 DEF R
<1>7. \A i \in 1 .. n : \A a, b : <<a, b>> \in R[i - 1]
         => <<Steps("native", a, parts[i]), Steps("circuit", b, parts[i])>> \in R[i]
  BY <1>2, <1>3, <1>5 DEF R
<1> HIDE DEF n
<1>8. <<x, y>> \in R[n]
  BY <1>1, <1>6, <1>7, RunKeeps DEF n
<1> HIDE DEF x, y
<1>9. <<x, y>> \in Alike
  BY <1>3, <1>8 DEF R
<1>10. x.drawn = y.drawn
  BY <1>9 DEF Alike
<1>. QED  BY <1>10 DEF x, y

-----------------------------------------------------------------------------
(* Two transcripts that draw the same challenge.                           *)

\* Challengers that were fed as much.
Even(c, d) ==
    c \in Duplexed /\ d \in Duplexed /\ Len(c.input) = Len(d.input) /\ c.output = d.output

\* Observing keeps challengers at the same place of a block, and they are
\* equal afterwards only if they were before and observed the same.
LEMMA EvenObserved ==
    ASSUME NEW c, NEW d, Even(c, d), NEW e \in Observed, NEW f \in Observed
    PROVE  /\ Even(ObserveElement(c, e), ObserveElement(d, f))
           /\ ObserveElement(c, e) = ObserveElement(d, f) => c = d /\ e = f
<1> DEFINE x == ObserveElement(c, e)
           y == ObserveElement(d, f)
<1>1. /\ c \in Duplexed /\ d \in Duplexed /\ Len(c.input) = Len(d.input) /\ c.output = d.output
      /\ c.input \in Seq(Observed) /\ d.input \in Seq(Observed)
      /\ c.sponge \in Seq(Seq(Observed)) /\ d.sponge \in Seq(Seq(Observed))
      /\ c = [sponge |-> c.sponge, input |-> c.input, output |-> c.output]
      /\ d = [sponge |-> d.sponge, input |-> d.input, output |-> d.output]
  BY DEF Even, Duplexed, ChallengerState
<1> DEFINE a == Append(c.input, e)
           b == Append(d.input, f)
<1>2. /\ a \in Seq(Observed) /\ Len(a) = Len(c.input) + 1
      /\ b \in Seq(Observed) /\ Len(b) = Len(d.input) + 1
  BY <1>1, Grown1
<1>3. a = b => c.input = d.input /\ e = f
  BY <1>1, AppendInjective
<1>4. x \in Duplexed /\ y \in Duplexed
  BY <1>1, Observing
<1>5. CASE Len(c.input) + 1 = RATE
  <2>1. /\ x = [sponge |-> Append(c.sponge, a), input |-> <<>>, output |-> RATE]
        /\ y = [sponge |-> Append(d.sponge, b), input |-> <<>>, output |-> RATE]
    BY <1>1, <1>5, Observing
  <2> HIDE DEF a, b
  <2>2. Append(c.sponge, a) = Append(d.sponge, b) => c.sponge = d.sponge /\ a = b
    BY <1>1, <1>2, AppendInjective
  <2> HIDE DEF x, y
  <2>3. Even(x, y)
    BY <1>4, <2>1 DEF Even
  <2>4. x = y => Append(c.sponge, a) = Append(d.sponge, b)
    BY <2>1
  <2>5. x = y => c = d /\ e = f
    BY <1>1, <1>3, <2>2, <2>4
  <2>. QED  BY <2>3, <2>5 DEF x, y
<1>6. CASE Len(c.input) + 1 # RATE
  <2>1. /\ x = [sponge |-> c.sponge, input |-> a, output |-> 0]
        /\ y = [sponge |-> d.sponge, input |-> b, output |-> 0]
    BY <1>1, <1>6, Observing
  <2> HIDE DEF a, b
  <2> HIDE DEF x, y
  <2>2. Even(x, y)
    BY <1>1, <1>2, <1>4, <2>1 DEF Even
  <2>3. x = y => c.sponge = d.sponge /\ a = b
    BY <2>1
  <2>4. x = y => c = d /\ e = f
    BY <1>1, <1>3, <2>3
  <2>. QED  BY <2>2, <2>4 DEF x, y
<1>. QED  BY <1>5, <1>6

\* A sponge that yields the same output holds the same blocks.
LEMMA EvenDrawn ==
    ASSUME NEW c, NEW d, Even(c, d)
    PROVE  /\ Even(Pop(Refilled(c)), Pop(Refilled(d)))
           /\ Pop(Refilled(c)) = Pop(Refilled(d)) => c = d
           /\ Popped(Refilled(c)) = Popped(Refilled(d)) => c = d
           /\ Popped(Refilled(c)) \in Output /\ Popped(Refilled(d)) \in Output
<1> DEFINE r == Refilled(c)
           q == Refilled(d)
<1>1. /\ c \in Duplexed /\ d \in Duplexed /\ Len(c.input) = Len(d.input) /\ c.output = d.output
      /\ c.input \in Seq(Observed) /\ d.input \in Seq(Observed)
      /\ c.sponge \in Seq(Seq(Observed)) /\ d.sponge \in Seq(Seq(Observed))
      /\ c = [sponge |-> c.sponge, input |-> c.input, output |-> c.output]
      /\ d = [sponge |-> d.sponge, input |-> d.input, output |-> d.output]
  BY DEF Even, Duplexed, ChallengerState
<1>2. /\ r \in ChallengerState /\ r.output \in 1 .. RATE /\ r.input = <<>> /\ r \in Duplexed
      /\ q \in ChallengerState /\ q.output \in 1 .. RATE /\ q.input = <<>> /\ q \in Duplexed
  BY <1>1, Refilling DEF Duplexed
<1>3. r.output = q.output /\ (r.sponge = q.sponge => c = d)
  <2>1. CASE c.input # <<>> \/ c.output = 0
    <3>1. d.input # <<>> \/ d.output = 0
      BY <1>1, <2>1
    <3>2. /\ r.sponge = Append(c.sponge, c.input) /\ r.output = RATE
          /\ q.sponge = Append(d.sponge, d.input) /\ q.output = RATE
      BY <1>1, <2>1, <3>1, Refilling
    <3>3. Append(c.sponge, c.input) = Append(d.sponge, d.input) => c.sponge = d.sponge /\ c.input = d.input
      BY <1>1, AppendInjective
    <3> HIDE DEF r, q
    <3>. QED  BY <1>1, <3>2, <3>3
  <2>2. CASE ~(c.input # <<>> \/ c.output = 0)
    <3>1. ~(d.input # <<>> \/ d.output = 0) /\ c.input = d.input
      BY <1>1, <2>2
    <3>2. r = c /\ q = d
      BY <1>1, <2>2, <3>1, Refilling
    <3> HIDE DEF r, q
    <3>. QED  BY <1>1, <3>1, <3>2
  <2>. QED  BY <2>1, <2>2
<1> HIDE DEF r, q
<1> DEFINE x == Pop(r)
           y == Pop(q)
<1>4. /\ x = [sponge |-> r.sponge, input |-> r.input, output |-> r.output - 1]
      /\ y = [sponge |-> q.sponge, input |-> q.input, output |-> q.output - 1]
      /\ x \in ChallengerState /\ y \in ChallengerState
      /\ Popped(r) = <<r.sponge, r.output>> /\ Popped(q) = <<q.sponge, q.output>>
      /\ Popped(r) \in Output /\ Popped(q) \in Output
  BY <1>2, Popping
<1> HIDE DEF x, y
<1>5. Even(x, y)
  BY <1>2, <1>3, <1>4, Sizes DEF Even, Duplexed
<1>6. (x = y => r.sponge = q.sponge) /\ (Popped(r) = Popped(q) => r.sponge = q.sponge)
  BY <1>4
<1>. QED  BY <1>3, <1>4, <1>5, <1>6 DEF x, y, r, q

Draws(part, name) == \E h \in 1 .. Len(part) : part[h].what = name

\* So does a part of observations.
LEMMA PartObserved ==
    ASSUME NEW s \in NativeState, NEW t \in NativeState, Even(s.c, t.c),
           NEW a \in Seq(ObserveOp), NEW b \in Seq(ObserveOp), Len(a) = Len(b)
    PROVE  LET x == Steps("native", s, a)
               y == Steps("native", t, b)
           IN  /\ x \in NativeState /\ y \in NativeState /\ Even(x.c, y.c)
               /\ x.drawn = s.drawn /\ y.drawn = t.drawn
               /\ x.c = y.c => s.c = t.c /\ a = b
<1> DEFINE n == Len(a)
           R == [j \in 0 .. n |->
                   {z \in NativeState \X NativeState :
                      /\ Even(z[1].c, z[2].c) /\ z[1].drawn = s.drawn /\ z[2].drawn = t.drawn
                      /\ z[1].c = z[2].c => s.c = t.c /\ \A h \in 1 .. j : a[h] = b[h]}]
           x == Steps("native", s, a)
           y == Steps("native", t, b)
<1>1. n \in Nat /\ \A i \in 1 .. n : a[i] \in ObserveOp /\ b[i] \in ObserveOp
  OBVIOUS
<1>2. 0 \in 0 .. n /\ n \in 0 .. n /\ \A i \in 1 .. n : i \in 0 .. n /\ i - 1 \in 0 .. n
  BY <1>1
<1>3. \A j \in 0 .. n : R[j] = {z \in NativeState \X NativeState :
                      /\ Even(z[1].c, z[2].c) /\ z[1].drawn = s.drawn /\ z[2].drawn = t.drawn
                      /\ z[1].c = z[2].c => s.c = t.c /\ \A h \in 1 .. j : a[h] = b[h]}
  OBVIOUS
<1> HIDE DEF R, n
<1>4. <<s, t>> \in R[0]
  <2>1. \A h \in 1 .. 0 : a[h] = b[h]
    OBVIOUS
  <2>. QED  BY <1>2, <1>3, <2>1
<1>5. ASSUME NEW i \in 1 .. n, NEW u, NEW w, <<u, w>> \in R[i - 1]
      PROVE  <<Step("native", u, a[i]), Step("native", w, b[i])>> \in R[i]
  <2> DEFINE u2 == Step("native", u, a[i])
             w2 == Step("native", w, b[i])
             e == a[i].what
             f == b[i].what
  <2>1. /\ u \in NativeState /\ w \in NativeState
        /\ Even(u.c, w.c) /\ u.drawn = s.drawn /\ w.drawn = t.drawn
        /\ u.c = w.c => s.c = t.c /\ \A h \in 1 .. i - 1 : a[h] = b[h]
    BY <1>2, <1>3, <1>5
  <2>2. a[i] = [do |-> "observe", what |-> e] /\ b[i] = [do |-> "observe", what |-> f]
        /\ e \in Observed /\ f \in Observed
    BY <1>1 DEF ObserveOp
  <2>3. /\ u2 \in NativeState /\ u2.c = ObserveElement(u.c, e) /\ u2.drawn = u.drawn
        /\ w2 \in NativeState /\ w2.c = ObserveElement(w.c, f) /\ w2.drawn = w.drawn
    BY <1>1, <2>1, NativeObserves
  <2> HIDE DEF u2, w2, e, f
  <2>4. Even(u2.c, w2.c) /\ (u2.c = w2.c => u.c = w.c /\ e = f)
    BY <2>1, <2>2, <2>3, EvenObserved
  <2>5. ASSUME u2.c = w2.c PROVE \A h \in 1 .. i : a[h] = b[h]
    <3>1. \A h \in 1 .. i : h = i \/ h \in 1 .. i - 1
      BY <1>1
    <3>. QED  BY <2>1, <2>2, <2>4, <2>5, <3>1
  <2>6. <<u2, w2>> \in R[i]
    BY <1>2, <1>3, <2>1, <2>3, <2>4, <2>5
  <2>. QED  BY <2>6 DEF u2, w2
<1>6. Len(a) = n /\ Len(b) = n
  BY DEF n
<1>7. <<x, y>> \in R[n]
  BY <1>1, <1>4, <1>5, <1>6, StepsKeep
<1> HIDE DEF x, y
<1>8. /\ x \in NativeState /\ y \in NativeState /\ Even(x.c, y.c)
      /\ x.drawn = s.drawn /\ y.drawn = t.drawn
      /\ x.c = y.c => s.c = t.c /\ \A h \in 1 .. n : a[h] = b[h]
  BY <1>2, <1>3, <1>7
<1>9. (\A h \in 1 .. n : a[h] = b[h]) => a = b
  BY <1>6, SeqEqual
<1>. QED  BY <1>8, <1>9 DEF x, y

\* A part of draws that yields the same challenges was made by equal challengers.
LEMMA PartDrawn ==
    ASSUME NEW s \in NativeState, NEW t \in NativeState, Even(s.c, t.c), NEW a \in Seq(DrawOp)
    PROVE  LET x == Steps("native", s, a)
               y == Steps("native", t, a)
           IN  /\ x \in NativeState /\ y \in NativeState /\ Even(x.c, y.c)
               /\ x.c = y.c => s.c = t.c
               /\ \A m \in Challenge :
                    /\ x.drawn[m] = y.drawn[m] => s.drawn[m] = t.drawn[m] /\ (Draws(a, m) => s.c = t.c)
                    /\ x.drawn[m] # <<>> => s.drawn[m] # <<>> \/ Draws(a, m)
<1> DEFINE n == Len(a)
           upto(j, m) == \E h \in 1 .. j : a[h].what = m
           S(j) == {z \in NativeState \X NativeState :
                      /\ Even(z[1].c, z[2].c) /\ (z[1].c = z[2].c => s.c = t.c)
                      /\ \A m \in Challenge :
                           /\ z[1].drawn[m] = z[2].drawn[m]
                                => s.drawn[m] = t.drawn[m] /\ (upto(j, m) => s.c = t.c)
                           /\ z[1].drawn[m] # <<>> => s.drawn[m] # <<>> \/ upto(j, m)}
           R == [j \in 0 .. n |-> S(j)]
           x == Steps("native", s, a)
           y == Steps("native", t, a)
<1>1. n \in Nat /\ \A i \in 1 .. n : a[i] \in DrawOp
  OBVIOUS
<1>2. 0 \in 0 .. n /\ n \in 0 .. n /\ \A i \in 1 .. n : i \in 0 .. n /\ i - 1 \in 0 .. n
  BY <1>1
<1>3. \A j \in 0 .. n : R[j] = S(j)
  OBVIOUS
<1>6. Len(a) = n
  OBVIOUS
<1> HIDE DEF R, n
<1>4. <<s, t>> \in R[0]
  <2>1. \A m : ~upto(0, m)
    OBVIOUS
  <2> HIDE DEF upto
  <2>2. <<s, t>> \in S(0)
    BY <2>1
  <2>. QED  BY <1>2, <1>3, <2>2
<1>5. ASSUME NEW i \in 1 .. n, NEW u, NEW w, <<u, w>> \in R[i - 1]
      PROVE  <<Step("native", u, a[i]), Step("native", w, a[i])>> \in R[i]
  <2> DEFINE u2 == Step("native", u, a[i])
             w2 == Step("native", w, a[i])
             e == a[i].what
             p == Popped(Refilled(u.c))
             q == Popped(Refilled(w.c))
  <2>1. \A m \in Challenge : upto(i, m) => upto(i - 1, m) \/ m = e
    <3>1. \A h \in 1 .. i : h = i \/ h \in 1 .. i - 1
      BY <1>1
    <3>. QED  BY <3>1
  <2>2. \A m \in Challenge : upto(i - 1, m) => upto(i, m)
    <3>1. \A h \in 1 .. i - 1 : h \in 1 .. i
      BY <1>1
    <3>. QED  BY <3>1
  <2>3. upto(i, e)
    <3>1. i \in 1 .. i
      BY <1>1
    <3>. QED  BY <3>1
  <2> HIDE DEF upto
  <2>4. <<u, w>> \in S(i - 1)
    BY <1>2, <1>3, <1>5
  <2>5. /\ u \in NativeState /\ w \in NativeState
        /\ Even(u.c, w.c) /\ (u.c = w.c => s.c = t.c)
        /\ \A m \in Challenge :
                           /\ u.drawn[m] = w.drawn[m]
                                => s.drawn[m] = t.drawn[m] /\ (upto(i - 1, m) => s.c = t.c)
                           /\ u.drawn[m] # <<>> => s.drawn[m] # <<>> \/ upto(i - 1, m)
    BY <2>4
  <2>6. e \in Challenge /\ a[i] \in DrawOp
    BY <1>1 DEF DrawOp
  <2>7. /\ u2 \in NativeState /\ u2.c = Pop(Refilled(u.c))
        /\ u2.drawn = [u.drawn EXCEPT ![e] = Append(@, p)]
        /\ w2 \in NativeState /\ w2.c = Pop(Refilled(w.c))
        /\ w2.drawn = [w.drawn EXCEPT ![e] = Append(@, q)]
    BY <2>5, <2>6, NativeDraws
  <2>8. /\ Even(u2.c, w2.c) /\ (u2.c = w2.c => u.c = w.c) /\ (p = q => u.c = w.c)
        /\ p \in Output /\ q \in Output
    BY <2>5, <2>7, EvenDrawn
  <2> HIDE DEF u2, w2, e, p, q
  <2>9. u.drawn \in [Challenge -> Seq(Output)] /\ w.drawn \in [Challenge -> Seq(Output)]
    BY <2>5 DEF NativeState, State
  <2>10. u2.drawn[e] = w2.drawn[e] => u.drawn[e] = w.drawn[e] /\ p = q
    <3>1. u2.drawn[e] = Append(u.drawn[e], p) /\ w2.drawn[e] = Append(w.drawn[e], q)
      BY <2>6, <2>7, <2>9
    <3>2. u.drawn[e] \in Seq(Output) /\ w.drawn[e] \in Seq(Output)
      BY <2>6, <2>9
    <3> DEFINE f == u.drawn[e]
               g == w.drawn[e]
    <3> HIDE DEF f, g
    <3>3. f \in Seq(Output) /\ g \in Seq(Output)
      BY <3>2 DEF f, g
    <3>4. Append(f, p) = Append(g, q) => f = g /\ p = q
      BY <2>8, <3>3, AppendInjective
    <3>. QED  BY <3>1, <3>4 DEF f, g
  <2>11. \A m \in Challenge : m # e => u2.drawn[m] = u.drawn[m] /\ w2.drawn[m] = w.drawn[m]
    BY <2>7, <2>9
  <2>12. ASSUME NEW m \in Challenge
         PROVE  /\ u2.drawn[m] = w2.drawn[m]
                     => s.drawn[m] = t.drawn[m] /\ (upto(i, m) => s.c = t.c)
                /\ u2.drawn[m] # <<>> => s.drawn[m] # <<>> \/ upto(i, m)
    <3>1. CASE m = e
      BY <2>3, <2>5, <2>6, <2>8, <2>10, <3>1
    <3>2. CASE m # e
      BY <2>1, <2>2, <2>5, <2>11, <3>2
    <3>. QED  BY <3>1, <3>2
  <2>13. <<u2, w2>> \in S(i)
    BY <2>5, <2>7, <2>8, <2>12
  <2>14. <<u2, w2>> \in R[i]
    BY <1>2, <1>3, <2>13
  <2>. QED  BY <2>14 DEF u2, w2
<1>7. <<x, y>> \in R[n]
  BY <1>1, <1>4, <1>5, <1>6, StepsKeep
<1> HIDE DEF x, y
<1>8. <<x, y>> \in S(n)
  BY <1>2, <1>3, <1>7
<1>9. \A m : upto(n, m) <=> Draws(a, m)
  BY <1>6 DEF Draws
<1> HIDE DEF upto
<1>. QED  BY <1>8, <1>9 DEF x, y

\* Parts that a verifier takes alike: both of as many elements, or the same draws.
Aligned(a, b) ==
    \/ a \in Seq(ObserveOp) /\ b \in Seq(ObserveOp) /\ Len(a) = Len(b)
    \/ a \in Seq(DrawOp) /\ b = a

\* What two runs over the first i parts have told apart.
Apart(P, Q, i) ==
    {z \in NativeState \X NativeState :
        /\ Even(z[1].c, z[2].c)
        /\ z[1].c = z[2].c => \A j \in 1 .. i : P[j] = Q[j]
        /\ \A m \in Challenge :
             /\ \A j \in 1 .. i : Draws(P[j], m) /\ P[j] \in Seq(DrawOp) /\ z[1].drawn[m] = z[2].drawn[m]
                  => \A h \in 1 .. j : P[h] = Q[h]
             /\ z[1].drawn[m] # <<>> => \E j \in 1 .. i : Draws(P[j], m) /\ P[j] \in Seq(DrawOp)}

\* One part more tells no less.
LEMMA PartsApart ==
    ASSUME NEW P, NEW Q, NEW i \in Nat, i # 0, Aligned(P[i], Q[i]),
           NEW s, NEW t, <<s, t>> \in Apart(P, Q, i - 1)
    PROVE  <<Steps("native", s, P[i]), Steps("native", t, Q[i])>> \in Apart(P, Q, i)
<1> DEFINE a == P[i]
           b == Q[i]
           x == Steps("native", s, a)
           y == Steps("native", t, b)
           l == i - 1
           drew(m, j) == Draws(P[j], m) /\ P[j] \in Seq(DrawOp)
           same(j) == \A h \in 1 .. j : P[h] = Q[h]
<1>1. /\ s \in NativeState /\ t \in NativeState /\ Even(s.c, t.c)
      /\ s.c = t.c => same(l)
      /\ \A m \in Challenge :
             /\ \A j \in 1 .. l : drew(m, j) /\ s.drawn[m] = t.drawn[m] => same(j)
             /\ s.drawn[m] # <<>> => \E j \in 1 .. l : drew(m, j)
  BY DEF Apart
<1>2. i \in 1 .. i /\ \A j \in 1 .. i : j = i \/ j \in 1 .. l
  OBVIOUS
<1>3. \A j \in 1 .. l : j \in 1 .. i
  OBVIOUS
<1>4. same(l) /\ a = b => same(i)
  BY <1>2
<1>5. \A m \in Challenge : drew(m, i) <=> Draws(a, m) /\ a \in Seq(DrawOp)
  OBVIOUS
<1>6. Aligned(a, b)
  OBVIOUS
<1> HIDE DEF a, b, l
<1>7. CASE a \in Seq(ObserveOp) /\ b \in Seq(ObserveOp) /\ Len(a) = Len(b)
  <2>1. /\ x \in NativeState /\ y \in NativeState /\ Even(x.c, y.c)
        /\ x.drawn = s.drawn /\ y.drawn = t.drawn
        /\ x.c = y.c => s.c = t.c /\ a = b
    BY <1>1, <1>7, PartObserved
  <2>2. \A m \in Challenge : ~drew(m, i)
    <3>1. SUFFICES ASSUME NEW m \in Challenge, Draws(a, m), a \in Seq(DrawOp) PROVE FALSE
      BY <1>5
    <3>2. PICK h \in 1 .. Len(a) : TRUE
      BY <3>1 DEF Draws
    <3>3. a[h] \in ObserveOp /\ a[h] \in DrawOp
      BY <1>7, <3>1, <3>2
    <3>. QED  BY <3>3 DEF ObserveOp, DrawOp
  <2> HIDE DEF x, y, drew, same
  <2>3. \A m \in Challenge :
             /\ \A j \in 1 .. i : drew(m, j) /\ x.drawn[m] = y.drawn[m] => same(j)
             /\ x.drawn[m] # <<>> => \E j \in 1 .. i : drew(m, j)
    BY <1>1, <1>2, <1>3, <2>1, <2>2
  <2>4. x.c = y.c => same(i)
    BY <1>1, <1>4, <2>1
  <2>5. <<x, y>> \in Apart(P, Q, i)
    BY <2>1, <2>3, <2>4 DEF Apart, drew, same
  <2>. QED  BY <2>5 DEF x, y, a, b
<1>8. CASE a \in Seq(DrawOp) /\ b = a
  <2>1. /\ x \in NativeState /\ y \in NativeState /\ Even(x.c, y.c)
        /\ x.c = y.c => s.c = t.c
        /\ \A m \in Challenge :
             /\ x.drawn[m] = y.drawn[m] => s.drawn[m] = t.drawn[m] /\ (Draws(a, m) => s.c = t.c)
             /\ x.drawn[m] # <<>> => s.drawn[m] # <<>> \/ Draws(a, m)
    BY <1>1, <1>8, PartDrawn
  <2> HIDE DEF x, y, drew, same
  <2>2. ASSUME NEW m \in Challenge
        PROVE  /\ \A j \in 1 .. i : drew(m, j) /\ x.drawn[m] = y.drawn[m] => same(j)
               /\ x.drawn[m] # <<>> => \E j \in 1 .. i : drew(m, j)
    <3>1. ASSUME NEW j \in 1 .. i, drew(m, j), x.drawn[m] = y.drawn[m] PROVE same(j)
      <4>1. s.drawn[m] = t.drawn[m] /\ (Draws(a, m) => s.c = t.c)
        BY <2>1, <3>1
      <4>2. CASE j = i
        BY <1>1, <1>4, <1>5, <1>8, <3>1, <4>1, <4>2
      <4>3. CASE j \in 1 .. l
        BY <1>1, <3>1, <4>1, <4>3
      <4>. QED  BY <1>2, <4>2, <4>3
    <3>2. ASSUME x.drawn[m] # <<>> PROVE \E j \in 1 .. i : drew(m, j)
      <4>1. CASE Draws(a, m)
        BY <1>2, <1>5, <1>8, <4>1
      <4>2. CASE s.drawn[m] # <<>>
        BY <1>1, <1>3, <4>2
      <4>. QED  BY <2>1, <3>2, <4>1, <4>2
    <3>. QED  BY <3>1, <3>2
  <2>3. x.c = y.c => same(i)
    BY <1>1, <1>4, <1>8, <2>1
  <2>4. <<x, y>> \in Apart(P, Q, i)
    BY <2>1, <2>2, <2>3 DEF Apart, drew, same
  <2>. QED  BY <2>4 DEF x, y, a, b
<1>. QED  BY <1>6, <1>7, <1>8 DEF Aligned

\* Runs of aligned transcripts tell them apart.
LEMMA RunsApart ==
    ASSUME NEW n \in Nat, NEW P, NEW Q, Len(P) = n, Len(Q) = n, \A i \in 1 .. n : Aligned(P[i], Q[i])
    PROVE  <<Run("native", P), Run("native", Q)>> \in Apart(P, Q, n)
<1> DEFINE R == [i \in 0 .. n |-> Apart(P, Q, i)]
<1>1. 0 \in 0 .. n /\ n \in 0 .. n /\ \A i \in 1 .. n : i \in 0 .. n /\ i - 1 \in 0 .. n /\ i \in Nat /\ i # 0
  OBVIOUS
<1>2. \A i \in 0 .. n : R[i] = Apart(P, Q, i)
  OBVIOUS
<1> HIDE DEF R
<1>3. <<Start, Start>> \in R[0]
  <2>1. \A m \in Challenge : Start.drawn[m] = <<>>
    BY DEF Start
  <2>2. Start \in NativeState /\ Start.c \in Duplexed
    BY StartTyped DEF NativeState
  <2>3. <<Start, Start>> \in Apart(P, Q, 0)
    BY <2>1, <2>2 DEF Apart, Even
  <2>. QED  BY <1>1, <1>2, <2>3
<1>4. ASSUME NEW i \in 1 .. n, NEW x, NEW y, <<x, y>> \in R[i - 1]
      PROVE  <<Steps("native", x, P[i]), Steps("native", y, Q[i])>> \in R[i]
  <2>1. <<x, y>> \in Apart(P, Q, i - 1) /\ i \in Nat /\ i # 0
    BY <1>1, <1>2, <1>4
  <2>2. Aligned(P[i], Q[i])
    OBVIOUS
  <2>3. <<Steps("native", x, P[i]), Steps("native", y, Q[i])>> \in Apart(P, Q, i)
    BY <2>1, <2>2, PartsApart
  <2>. QED  BY <1>1, <1>2, <2>3
<1>5. <<Run("native", P), Run("native", Q)>> \in R[n]
  BY <1>3, <1>4, RunKeeps
<1>. QED  BY <1>1, <1>2, <1>5

-----------------------------------------------------------------------------
(* The parts of a transcript.                                              *)

\* What joining sequences does.
LEMMA Joined ==
    ASSUME NEW S, NEW a \in Seq(S), NEW b \in Seq(S)
    PROVE  /\ a \o b \in Seq(S) /\ Len(a \o b) = Len(a) + Len(b)
           /\ \A i \in 1 .. Len(a) : (a \o b)[i] = a[i]
           /\ \A i \in 1 .. Len(b) : (a \o b)[Len(a) + i] = b[i]
<1>1. /\ a \o b \in Seq(S) /\ Len(a \o b) = Len(a) + Len(b)
      /\ \A i \in 1 .. Len(a) + Len(b) : (a \o b)[i] = IF i <= Len(a) THEN a[i] ELSE b[i - Len(a)]
  BY ConcatProperties
<1> DEFINE c == a \o b
           m == Len(a)
           n == Len(b)
<1>2. m \in Nat /\ n \in Nat
  OBVIOUS
<1> HIDE DEF c, m, n
<1>3. \A i \in 1 .. m + n : c[i] = IF i <= m THEN a[i] ELSE b[i - m]
  BY <1>1 DEF c, m, n
<1>4. \A i \in 1 .. m : c[i] = a[i]
  BY <1>2, <1>3
<1>5. ASSUME NEW i \in 1 .. n PROVE c[m + i] = b[i]
  <2>1. m + i \in 1 .. m + n /\ ~(m + i <= m) /\ (m + i) - m = i
    BY <1>2
  <2>. QED  BY <1>3, <2>1
<1>. QED  BY <1>1, <1>4, <1>5 DEF c, m, n

\* Sequences that are as long pairwise are told by what they are joined to.
LEMMA Parted ==
    ASSUME NEW S, NEW a \in Seq(S), NEW b \in Seq(S), NEW c \in Seq(S), NEW d \in Seq(S),
           Len(a) = Len(c), Len(b) = Len(d), a \o b = c \o d
    PROVE  a = c /\ b = d
<1> DEFINE e == a \o b
           m == Len(a)
           n == Len(b)
<1>1. /\ \A i \in 1 .. Len(a) : (a \o b)[i] = a[i]
      /\ \A i \in 1 .. Len(b) : (a \o b)[Len(a) + i] = b[i]
  <2> DEFINE x == a
             y == b
  <2>1. x \in Seq(S) /\ y \in Seq(S)
    OBVIOUS
  <2> HIDE DEF x, y
  <2>2. /\ \A i \in 1 .. Len(x) : (x \o y)[i] = x[i]
        /\ \A i \in 1 .. Len(y) : (x \o y)[Len(x) + i] = y[i]
    BY <2>1, Joined
  <2>. QED  BY <2>2 DEF x, y
<1>2. /\ \A i \in 1 .. Len(c) : (c \o d)[i] = c[i]
      /\ \A i \in 1 .. Len(d) : (c \o d)[Len(c) + i] = d[i]
  <2> DEFINE x == c
             y == d
  <2>1. x \in Seq(S) /\ y \in Seq(S)
    OBVIOUS
  <2> HIDE DEF x, y
  <2>2. /\ \A i \in 1 .. Len(x) : (x \o y)[i] = x[i]
        /\ \A i \in 1 .. Len(y) : (x \o y)[Len(x) + i] = y[i]
    BY <2>1, Joined
  <2>. QED  BY <2>2 DEF x, y
<1> HIDE DEF e
<1>3. \A i \in 1 .. m : a[i] = c[i]
  BY <1>1, <1>2
<1>4. \A i \in 1 .. n : b[i] = d[i]
  BY <1>1, <1>2
<1>. QED  BY <1>3, <1>4, SeqEqual

\* A part of observations, and of draws.
LEMMA ObservingPart ==
    ASSUME NEW a \in Seq(Observed)
    PROVE  /\ Observe(a) \in Seq(ObserveOp) /\ Len(Observe(a)) = Len(a)
           /\ \A i \in 1 .. Len(a) : Observe(a)[i] = [do |-> "observe", what |-> a[i]]
<1> DEFINE n == Len(a)
           f(i) == [do |-> "observe", what |-> a[i]]
<1>1. n \in Nat /\ \A i \in 1 .. n : f(i) \in ObserveOp
  BY DEF ObserveOp
<1>2. Observe(a) = [i \in 1 .. n |-> f(i)]
  BY DEF Observe
<1> HIDE DEF n, f
<1>3. [i \in 1 .. n |-> f(i)] \in Seq(ObserveOp) /\ Len([i \in 1 .. n |-> f(i)]) = n
  BY <1>1
<1>. QED  BY <1>2, <1>3 DEF f, n

\* Parts of observations are told by what they observe.
LEMMA ObservedSame ==
    ASSUME NEW a \in Seq(Observed), NEW b \in Seq(Observed), Observe(a) = Observe(b)
    PROVE  a = b
<1>1. Len(a) = Len(b)
  BY ObservingPart
<1>2. ASSUME NEW i \in 1 .. Len(a) PROVE a[i] = b[i]
  <2> DEFINE x == a[i]
             y == b[i]
  <2>1. [do |-> "observe", what |-> x] = [do |-> "observe", what |-> y]
    BY <1>1, ObservingPart
  <2> HIDE DEF x, y
  <2>2. x = y
    BY <2>1
  <2>. QED  BY <2>2 DEF x, y
<1>. QED  BY <1>1, <1>2, SeqEqual

LEMMA DrawingPart ==
    ASSUME NEW m \in Challenge, NEW n \in Nat
    PROVE  /\ Draw(m, n) \in Seq(DrawOp) /\ Len(Draw(m, n)) = n
           /\ \A i \in 1 .. n : Draw(m, n)[i] = [do |-> "draw", what |-> m]
           /\ \A k : Draws(Draw(m, n), k) => k = m
           /\ n > 0 => Draws(Draw(m, n), m)
<1> DEFINE e == [do |-> "draw", what |-> m]
           q == Draw(m, n)
<1>1. e \in DrawOp /\ e.what = m
  BY DEF DrawOp
<1>2. q = [i \in 1 .. n |-> e]
  BY DEF Draw
<1> HIDE DEF e, q
<1>3. q \in Seq(DrawOp) /\ Len(q) = n /\ \A i \in 1 .. n : q[i] = e
  BY <1>1, <1>2
<1>4. \A k : Draws(q, k) => k = m
  BY <1>1, <1>3 DEF Draws
<1>5. n > 0 => Draws(q, m)
  <2>1. n > 0 => 1 \in 1 .. n
    OBVIOUS
  <2>. QED  BY <1>1, <1>3, <2>1 DEF Draws
<1>. QED  BY <1>3, <1>4, <1>5 DEF e, q

\* What the layout of a transcript depends on is how many reductions it has,
\* those of its circuit's or those that a proof has caps for.
Stepped(p) == p.steps \in 0 .. Len(CommitCap)

\* The names of parts and challenges.
LEMMA Named ==
    /\ PlonkChallenges \subseteq Challenge /\ \A k \in 1 .. Len(FriBeta) : FriBeta[k] \in Challenge
    /\ \A k \in 1 .. Len(CommitCap) : CommitCap[k] \in Message /\ CommitCap[k] \in Caps
    /\ TraceCaps \cup Openings \cup Data \cup {"public_inputs", "final_poly", "pow_witness"} \subseteq Message
    /\ Len(CommitCap) = Len(FriBeta) /\ Len(FriBeta) \in Nat
    /\ \A p \in Params : Stepped(p) /\ p.steps \in 0 .. Len(FriBeta) /\ p.steps \in Nat
<1>1. CommitCap \in Seq(STRING) /\ FriBeta \in Seq(STRING) /\ Len(CommitCap) = Len(FriBeta)
  BY NameAssumption
<1>2. \A k \in 1 .. Len(CommitCap) : CommitCap[k] \in ToSet(CommitCap)
  BY <1>1 DEF ToSet
<1>3. \A k \in 1 .. Len(FriBeta) : FriBeta[k] \in ToSet(FriBeta)
  BY <1>1 DEF ToSet
<1>. QED  BY <1>1, <1>2, <1>3, ParamsAssumption DEF Challenge, Message, Caps, Stepped

\* What is given to a transcript.
Given(v, b) ==
    v \in [Message -> Seq(Element)] /\ b \in Seq(Seq(Element)) /\ Len(b) = 2

LEMMA ElementsObserved ==
    Seq(Element) \subseteq Seq(Observed)
<1>1. Element \subseteq Observed
  BY DEF Observed
<1>. QED  BY <1>1

\* The first part of a transcript.
Stated(v) == v["fri_params"] \o v["circuit_digest"] \o InputsHash(v["public_inputs"])

\* It is the three data and inputs, observed.
LEMMA StatedIs ==
    ASSUME NEW v \in [Message -> Seq(Element)]
    PROVE  /\ Stated(v) \in Seq(Observed) /\ Instance(v) = Observe(Stated(v))
           /\ Len(Stated(v)) = Len(v["fri_params"]) + Len(v["circuit_digest"]) + HashLen
<1> DEFINE a == v["fri_params"]
           b == v["circuit_digest"]
           c == InputsHash(v["public_inputs"])
<1>1. /\ a \in Seq(Element) /\ b \in Seq(Element) /\ v["public_inputs"] \in Seq(Element)
  BY Named DEF Data
<1>2. a \in Seq(Observed) /\ b \in Seq(Observed)
  BY <1>1, ElementsObserved
<1>3. c \in Seq(Observed) /\ Len(c) = HashLen
  <2> DEFINE f(i) == <<v["public_inputs"], i>>
  <2>1. \A i \in 1 .. HashLen : f(i) \in Observed
    BY <1>1 DEF Observed
  <2>2. c = [i \in 1 .. HashLen |-> f(i)]
    BY DEF InputsHash
  <2> HIDE DEF c, f
  <2>. QED  BY <2>1, <2>2, Sizes
<1>4. Instance(v) = Observe(Stated(v))
  BY DEF Instance, Stated
<1>5. Stated(v) = (a \o b) \o c
  BY DEF Stated
<1> HIDE DEF a, b, c
<1> DEFINE d == a \o b
<1>6. d \in Seq(Observed) /\ Len(d) = Len(a) + Len(b)
  BY <1>2, Joined
<1> HIDE DEF d
<1>7. d \o c \in Seq(Observed) /\ Len(d \o c) = Len(d) + Len(c)
  BY <1>3, <1>6, Joined
<1>8. Stated(v) \in Seq(Observed) /\ Len(Stated(v)) = Len(a) + Len(b) + HashLen
  BY <1>3, <1>5, <1>6, <1>7 DEF d
<1>. QED  BY <1>4, <1>8 DEF a, b, c

\* The hash stands for the public inputs.
LEMMA StatedSame ==
    ASSUME NEW v \in [Message -> Seq(Element)], NEW w \in [Message -> Seq(Element)],
           Len(v["fri_params"]) = Len(w["fri_params"]),
           Len(v["circuit_digest"]) = Len(w["circuit_digest"]), Stated(v) = Stated(w)
    PROVE  Statement(v) = Statement(w)
<1> DEFINE a == v["fri_params"]
           b == v["circuit_digest"]
           c == InputsHash(v["public_inputs"])
           x == w["fri_params"]
           y == w["circuit_digest"]
           z == InputsHash(w["public_inputs"])
<1>1. /\ a \in Seq(Observed) /\ b \in Seq(Observed) /\ x \in Seq(Observed) /\ y \in Seq(Observed)
      /\ v["public_inputs"] \in Seq(Element) /\ w["public_inputs"] \in Seq(Element)
  BY Named, ElementsObserved DEF Data
<1>2. /\ c \in Seq(Observed) /\ Len(c) = HashLen /\ c[1] = <<v["public_inputs"], 1>>
      /\ z \in Seq(Observed) /\ Len(z) = HashLen /\ z[1] = <<w["public_inputs"], 1>>
  <2> DEFINE f(i) == <<v["public_inputs"], i>>
             g(i) == <<w["public_inputs"], i>>
  <2>1. \A i \in 1 .. HashLen : f(i) \in Observed /\ g(i) \in Observed
    BY <1>1 DEF Observed
  <2>2. c = [i \in 1 .. HashLen |-> f(i)] /\ z = [i \in 1 .. HashLen |-> g(i)]
    BY DEF InputsHash
  <2>3. f(1) = <<v["public_inputs"], 1>> /\ g(1) = <<w["public_inputs"], 1>>
    OBVIOUS
  <2> HIDE DEF c, z, f, g
  <2>. QED  BY <2>1, <2>2, <2>3, Sizes
<1>3. Stated(v) = (a \o b) \o c /\ Stated(w) = (x \o y) \o z
  BY DEF Stated
<1>4. Len(a) = Len(x) /\ Len(b) = Len(y)
  OBVIOUS
<1> HIDE DEF a, b, c, x, y, z
<1> DEFINE d == a \o b
           e == x \o y
<1>5. d \in Seq(Observed) /\ e \in Seq(Observed) /\ Len(d) = Len(a) + Len(b) /\ Len(e) = Len(x) + Len(y)
  BY <1>1, Joined
<1> HIDE DEF d, e
<1>9. d \o c = e \o z
  BY <1>3 DEF d, e
<1>10. Len(d) = Len(e) /\ Len(c) = Len(z)
  BY <1>2, <1>4, <1>5
<1>6. d = e /\ c = z
  BY <1>2, <1>5, <1>9, <1>10, Parted
<1>7. a = x /\ b = y
  <2>1. a \o b = x \o y
    BY <1>6 DEF d, e
  <2>. QED  BY <1>1, <1>4, <2>1, Parted, ZenonT(30)
<1>8. v["public_inputs"] = w["public_inputs"]
  BY <1>2, <1>6
<1>. QED  BY <1>7, <1>8 DEF Statement, a, b, x, y

VerifierOp == ObserveOp \cup DrawOp

\* Where the parts of a transcript stand; what the proof-of-work witness
\* takes is a part of its own.
LaidOutOf(t, S, p, v, b, grinding) ==
    /\ t \in Seq(S) /\ Len(t) = 16 + 2 * p.steps
    /\ t[1] = Observe(Stated(v)) /\ t[2] = Observe(v["wires_cap"])
    /\ t[3] = Draw("betas", NumChallenges) /\ t[4] = Draw("gammas", NumChallenges)
    /\ t[5] = Draw("deltas", IF p.lookup THEN 2 * NumChallenges ELSE 0)
    /\ t[6] = Observe(v["zs_cap"]) /\ t[7] = Draw("alphas", NumChallenges)
    /\ t[8] = Observe(v["quotient_cap"]) /\ t[9] = Draw("zeta", D)
    /\ t[10] = Observe(b[1]) /\ t[11] = Observe(b[2]) /\ t[12] = Draw("fri_alpha", D)
    /\ \A k \in 1 .. p.steps :
          t[11 + 2 * k] = Observe(v[CommitCap[k]]) /\ t[12 + 2 * k] = Draw(FriBeta[k], D)
    /\ t[13 + 2 * p.steps] = Observe(v["final_poly"])
    /\ t[14 + 2 * p.steps] = grinding
    /\ t[15 + 2 * p.steps] = Draw("pow_response", 1)
    /\ t[16 + 2 * p.steps] = Draw("query_indices", NumQueries)

LaidOut(t, p, v, b) == LaidOutOf(t, Seq(VerifierOp), p, v, b, Observe(v["pow_witness"]))

Written(p, v, b, grinding) ==
    << Instance(v), Observe(v["wires_cap"]),
       Draw("betas", NumChallenges), Draw("gammas", NumChallenges),
       Draw("deltas", IF p.lookup THEN 2 * NumChallenges ELSE 0),
       Observe(v["zs_cap"]), Draw("alphas", NumChallenges),
       Observe(v["quotient_cap"]), Draw("zeta", D),
       Observe(b[1]), Observe(b[2]), Draw("fri_alpha", D) >>
      \o Reductions(p.steps, v)
      \o << Observe(v["final_poly"]), grinding,
            Draw("pow_response", 1), Draw("query_indices", NumQueries) >>

\* The parts that a transcript is made of.
LEMMA Parts ==
    ASSUME NEW v, NEW b, Given(v, b)
    PROVE  /\ Stated(v) \in Seq(Observed) /\ \A m \in Message : v[m] \in Seq(Observed)
           /\ b[1] \in Seq(Observed) /\ b[2] \in Seq(Observed)
           /\ \A a \in Seq(Observed) : Observe(a) \in Seq(VerifierOp)
           /\ \A m \in Challenge : \A n \in Nat : Draw(m, n) \in Seq(VerifierOp)
<1>1. v \in [Message -> Seq(Element)] /\ b \in Seq(Seq(Element)) /\ Len(b) = 2
  BY DEF Given
<1>2. /\ \A m \in Message : v[m] \in Seq(Element)
      /\ b[1] \in Seq(Element) /\ b[2] \in Seq(Element)
  <2> DEFINE S == Seq(Element)
  <2>3. b \in Seq(S)
    BY <1>1
  <2> HIDE DEF S
  <2>4. \A i \in 1 .. Len(b) : b[i] \in S
    BY <2>3
  <2>1. \A i \in 1 .. Len(b) : b[i] \in Seq(Element)
    BY <2>4 DEF S
  <2>2. 1 \in 1 .. Len(b) /\ 2 \in 1 .. Len(b)
    BY <1>1
  <2>. QED  BY <1>1, <2>1, <2>2
<1>3. Seq(ObserveOp) \subseteq Seq(VerifierOp) /\ Seq(DrawOp) \subseteq Seq(VerifierOp)
  BY DEF VerifierOp
<1>. QED  BY <1>1, <1>2, <1>3, StatedIs, ElementsObserved, ObservingPart, DrawingPart

\* The parts of a reduction.
LEMMA ReductionParts ==
    ASSUME NEW p, Stepped(p), NEW v, NEW b, Given(v, b)
    PROVE  /\ Reductions(p.steps, v) \in Seq(Seq(VerifierOp)) /\ Len(Reductions(p.steps, v)) = 2 * p.steps
           /\ \A k \in 1 .. p.steps : /\ Reductions(p.steps, v)[2 * k - 1] = Observe(v[CommitCap[k]])
                                      /\ Reductions(p.steps, v)[2 * k] = Draw(FriBeta[k], D)
<1> DEFINE n == 2 * p.steps
           k(i) == (i + 1) \div 2
           f(i) == IF i % 2 = 1 THEN Observe(v[CommitCap[k(i)]]) ELSE Draw(FriBeta[k(i)], D)
           r == Reductions(p.steps, v)
<1>1. p.steps \in Nat /\ p.steps \in 0 .. Len(CommitCap) /\ Len(CommitCap) \in Nat /\ D \in Nat
  BY Named, Sizes DEF Stepped
<1>2. n \in Nat /\ \A i \in 1 .. n : k(i) \in 1 .. p.steps
  BY <1>1
<1>3. r = [i \in 1 .. n |-> f(i)]
  BY DEF Reductions
<1>4. \A i \in 1 .. n : f(i) \in Seq(VerifierOp)
  <2> TAKE i \in 1 .. n
  <2>1. k(i) \in 1 .. Len(CommitCap) /\ k(i) \in 1 .. Len(FriBeta)
    BY <1>1, <1>2, Named
  <2> HIDE DEF k
  <2>. QED  BY <1>1, <2>1, Parts, Named
<1>5. ASSUME NEW j \in 1 .. p.steps
      PROVE  /\ 2 * j - 1 \in 1 .. n /\ f(2 * j - 1) = Observe(v[CommitCap[j]])
             /\ 2 * j \in 1 .. n /\ f(2 * j) = Draw(FriBeta[j], D)
  <2>1. 2 * j - 1 \in 1 .. n /\ 2 * j \in 1 .. n
    BY <1>1
  <2>2. (2 * j - 1) % 2 = 1 /\ k(2 * j - 1) = j /\ (2 * j) % 2 = 0 /\ k(2 * j) = j
    BY <1>1
  <2> HIDE DEF k
  <2>. QED  BY <2>1, <2>2
<1> HIDE DEF n, f, r
<1>6. r \in Seq(Seq(VerifierOp)) /\ Len(r) = n /\ \A i \in 1 .. n : r[i] = f(i)
  BY <1>2, <1>3, <1>4
<1>. QED  BY <1>5, <1>6 DEF n, r

\* A transcript that is written so is laid out so.
LEMMA WrittenIs ==
    ASSUME NEW p, Stepped(p), NEW v, NEW b, Given(v, b),
           NEW S, Seq(VerifierOp) \subseteq S, NEW grinding \in S
    PROVE  LaidOutOf(Written(p, v, b, grinding), S, p, v, b, grinding)
<1> DEFINE x1 == Observe(Stated(v))
           x2 == Observe(v["wires_cap"])
           x3 == Draw("betas", NumChallenges)
           x4 == Draw("gammas", NumChallenges)
           x5 == Draw("deltas", IF p.lookup THEN 2 * NumChallenges ELSE 0)
           x6 == Observe(v["zs_cap"])
           x7 == Draw("alphas", NumChallenges)
           x8 == Observe(v["quotient_cap"])
           x9 == Draw("zeta", D)
           x10 == Observe(b[1])
           x11 == Observe(b[2])
           x12 == Draw("fri_alpha", D)
           y1 == Observe(v["final_poly"])
           y2 == grinding
           y3 == Draw("pow_response", 1)
           y4 == Draw("query_indices", NumQueries)
           x == <<x1, x2, x3, x4, x5, x6, x7, x8, x9, x10, x11, x12>>
           y == <<y1, y2, y3, y4>>
           r == Reductions(p.steps, v)
           n == 2 * p.steps
           t == Written(p, v, b, grinding)
<1>1. /\ D \in Nat /\ NumQueries \in Nat /\ NumChallenges \in Nat
      /\ (IF p.lookup THEN 2 * NumChallenges ELSE 0) \in Nat /\ p.steps \in Nat
  BY Sizes, Named DEF Stepped
<1>2. /\ {"wires_cap", "zs_cap", "quotient_cap", "final_poly"} \subseteq Message
      /\ {"betas", "gammas", "deltas", "alphas", "zeta", "fri_alpha", "pow_response", "query_indices"}
            \subseteq Challenge
  BY Named DEF TraceCaps, PlonkChallenges
<1>3. /\ x1 \in S /\ x2 \in S /\ x3 \in S /\ x4 \in S /\ x5 \in S /\ x6 \in S /\ x7 \in S /\ x8 \in S
      /\ x9 \in S /\ x10 \in S /\ x11 \in S /\ x12 \in S /\ y1 \in S /\ y2 \in S /\ y3 \in S /\ y4 \in S
  <2>1. /\ \A m \in Message : Observe(v[m]) \in S
        /\ \A m \in Challenge : \A k \in Nat : Draw(m, k) \in S
        /\ x1 \in S /\ x10 \in S /\ x11 \in S
    BY Parts
  <2>2. x2 \in S /\ x6 \in S /\ x8 \in S /\ y1 \in S
    BY <1>2, <2>1
  <2>3. x3 \in S /\ x4 \in S /\ x5 \in S /\ x7 \in S /\ x9 \in S /\ x12 \in S /\ y3 \in S /\ y4 \in S
    BY <1>1, <1>2, <2>1
  <2>. QED  BY <2>1, <2>2, <2>3
<1>4. t = (x \o r) \o y
  BY StatedIs DEF Written, Given
<1>5. r \in Seq(S) /\ Len(r) = n /\ \A k \in 1 .. p.steps : /\ r[2 * k - 1] = Observe(v[CommitCap[k]])
                                                           /\ r[2 * k] = Draw(FriBeta[k], D)
  <2>1. Seq(Seq(VerifierOp)) \subseteq Seq(S)
    OBVIOUS
  <2>. QED  BY <2>1, ReductionParts
<1> HIDE DEF x1, x2, x3, x4, x5, x6, x7, x8, x9, x10, x11, x12, y1, y2, y3, y4, r, t
<1>6. /\ x \in Seq(S) /\ Len(x) = 12
      /\ x[1] = x1 /\ x[2] = x2 /\ x[3] = x3 /\ x[4] = x4 /\ x[5] = x5 /\ x[6] = x6
      /\ x[7] = x7 /\ x[8] = x8 /\ x[9] = x9 /\ x[10] = x10 /\ x[11] = x11 /\ x[12] = x12
  BY <1>3
<1>7. y \in Seq(S) /\ Len(y) = 4 /\ y[1] = y1 /\ y[2] = y2 /\ y[3] = y3 /\ y[4] = y4
  BY <1>3
<1> HIDE DEF x, y
<1> DEFINE z == x \o r
<1>8. z \in Seq(S) /\ Len(z) = 12 + n /\ (\A i \in 1 .. 12 : z[i] = x[i]) /\ \A i \in 1 .. n : z[12 + i] = r[i]
  <2>2. x \in Seq(S) /\ r \in Seq(S)
    BY <1>5, <1>6
  <2>1. /\ z \in Seq(S) /\ Len(z) = Len(x) + Len(r)
        /\ \A i \in 1 .. Len(x) : z[i] = x[i]
        /\ \A i \in 1 .. Len(r) : z[Len(x) + i] = r[i]
    BY <2>2, Joined
  <2> HIDE DEF z, n
  <2>. QED  BY <1>5, <1>6, <2>1
<1> HIDE DEF z
<1>9. /\ t \in Seq(S) /\ Len(t) = 16 + n /\ (\A i \in 1 .. 12 + n : t[i] = z[i])
      /\ t[13 + n] = y1 /\ t[14 + n] = y2 /\ t[15 + n] = y3 /\ t[16 + n] = y4
  <2>5. z \in Seq(S) /\ y \in Seq(S)
    BY <1>7, <1>8
  <2>6. /\ z \o y \in Seq(S) /\ Len(z \o y) = Len(z) + Len(y)
        /\ \A i \in 1 .. Len(z) : (z \o y)[i] = z[i]
        /\ \A i \in 1 .. Len(y) : (z \o y)[Len(z) + i] = y[i]
    BY <2>5, Joined
  <2>1. /\ t \in Seq(S) /\ Len(t) = Len(z) + Len(y)
        /\ (\A i \in 1 .. Len(z) : t[i] = z[i]) /\ \A i \in 1 .. Len(y) : t[Len(z) + i] = y[i]
    BY <1>4, <2>6 DEF z
  <2>2. n \in Nat
    BY <1>1
  <2> HIDE DEF n
  <2>3. \A i \in 1 .. 4 : t[(12 + n) + i] = y[i]
    BY <1>7, <1>8, <2>1
  <2>4. t[(12 + n) + 1] = y1 /\ t[(12 + n) + 2] = y2 /\ t[(12 + n) + 3] = y3 /\ t[(12 + n) + 4] = y4
    BY <1>7, <2>3
  <2>. QED  BY <1>7, <1>8, <2>1, <2>2, <2>4
<1>10. /\ t[1] = x1 /\ t[2] = x2 /\ t[3] = x3 /\ t[4] = x4 /\ t[5] = x5 /\ t[6] = x6
       /\ t[7] = x7 /\ t[8] = x8 /\ t[9] = x9 /\ t[10] = x10 /\ t[11] = x11 /\ t[12] = x12
  <2>2. \A i \in 1 .. 12 : i \in 1 .. 12 + n
    BY <1>1
  <2>1. \A i \in 1 .. 12 : t[i] = x[i]
    BY <1>8, <1>9, <2>2
  <2>. QED  BY <1>6, <2>1
<1>11. ASSUME NEW k \in 1 .. p.steps
       PROVE  t[11 + 2 * k] = Observe(v[CommitCap[k]]) /\ t[12 + 2 * k] = Draw(FriBeta[k], D)
  <2>1. /\ 2 * k - 1 \in 1 .. n /\ 12 + (2 * k - 1) = 11 + 2 * k /\ 11 + 2 * k \in 1 .. 12 + n
        /\ 2 * k \in 1 .. n /\ 12 + 2 * k \in 1 .. 12 + n
    BY <1>1
  <2>. QED  BY <1>5, <1>8, <1>9, <2>1, SMTT(30)
<1>. QED  BY <1>9, <1>10, <1>11
          DEF LaidOutOf, x1, x2, x3, x4, x5, x6, x7, x8, x9, x10, x11, x12, y1, y2, y3, y4, t

\* The verifier in a circuit has that layout.
LEMMA Layout ==
    ASSUME NEW p, Stepped(p), NEW v, NEW b, Given(v, b)
    PROVE  LaidOut(CircuitTranscript(p, v, b), p, v, b)
<1> DEFINE g == Observe(v["pow_witness"])
<1>1. g \in Seq(VerifierOp)
  BY Parts, Named
<1>2. CircuitTranscript(p, v, b) = Written(p, v, b, g)
  BY DEF CircuitTranscript, Written
<1> HIDE DEF g
<1>3. LaidOutOf(Written(p, v, b, g), Seq(VerifierOp), p, v, b, g)
  BY <1>1, WrittenIs
<1>. QED  BY <1>2, <1>3 DEF LaidOut, g

\* Transcripts of the same lengths.
AsLong(p, v, b, w, d) ==
    /\ Given(v, b) /\ Given(w, d)
    /\ \A m \in Message \ Openings : Len(v[m]) = Len(w[m])
    /\ Len(b[1]) = Len(d[1]) /\ Len(b[2]) = Len(d[2])
    /\ \A k \in p.steps + 1 .. Len(CommitCap) : Len(v[CommitCap[k]]) = 0

\* Parts that are no openings are not run together in batches.
LEMMA NotOpenings ==
    /\ "fri_params" \in Message \ Openings /\ "circuit_digest" \in Message \ Openings
    /\ "wires_cap" \in Message \ Openings /\ "zs_cap" \in Message \ Openings
    /\ "quotient_cap" \in Message \ Openings /\ "public_inputs" \in Message \ Openings
    /\ "final_poly" \in Message \ Openings /\ "pow_witness" \in Message \ Openings
    /\ \A k \in 1 .. Len(CommitCap) : CommitCap[k] \in Message \ Openings
<1>1. Openings = {"constants", "sigmas", "wires", "zs", "partial_products", "quotient_polys",
                  "lookup_zs", "zs_next", "lookup_zs_next"}
  <2>1. ToSet(ZetaOpenings) = {"constants", "sigmas", "wires", "zs", "partial_products",
                               "quotient_polys", "lookup_zs"}
    BY DEF ToSet, ZetaOpenings
  <2>2. ToSet(NextOpenings) = {"zs_next", "lookup_zs_next"}
    BY DEF ToSet, NextOpenings
  <2>. QED  BY <2>1, <2>2 DEF Openings
<1>2. \A k \in 1 .. Len(CommitCap) : CommitCap[k] \in Message \ Openings
  <2>1. \A k \in 1 .. Len(CommitCap) : CommitCap[k] \in ToSet(CommitCap)
    BY NameAssumption DEF ToSet
  <2>. QED  BY <2>1, NameAssumption, Named
<1>. QED  BY <1>1, <1>2, Named DEF Data, TraceCaps

LEMMA ObservedAligned ==
    ASSUME NEW a \in Seq(Observed), NEW b \in Seq(Observed), Len(a) = Len(b)
    PROVE  Aligned(Observe(a), Observe(b))
BY ObservingPart DEF Aligned

LEMMA DrawnAligned ==
    ASSUME NEW m \in Challenge, NEW n \in Nat
    PROVE  Aligned(Draw(m, n), Draw(m, n))
BY DrawingPart DEF Aligned

\* The places of a transcript with s reductions.
LEMMA Places ==
    ASSUME NEW s \in Nat, NEW i \in 1 .. 16 + 2 * s
    PROVE  \/ i \in {1, 2, 3, 4, 5, 6, 7, 8, 9, 10, 11, 12}
           \/ \E k \in 1 .. s : i = 11 + 2 * k \/ i = 12 + 2 * k
           \/ i \in {13 + 2 * s, 14 + 2 * s, 15 + 2 * s, 16 + 2 * s}
<1>1. CASE i <= 12
  BY <1>1
<1>2. CASE i > 12 /\ i <= 12 + 2 * s
  <2> DEFINE k == (i - 11) \div 2
  <2>1. k \in 1 .. s /\ (i = 11 + 2 * k \/ i = 12 + 2 * k)
    BY <1>2
  <2>. QED  BY <2>1
<1>3. CASE i > 12 + 2 * s
  BY <1>3
<1>. QED  BY <1>1, <1>2, <1>3

\* The parts of transcripts of the same lengths are aligned.
LEMMA AllAligned ==
    ASSUME NEW p, Stepped(p), NEW v, NEW b, NEW w, NEW d, AsLong(p, v, b, w, d),
           NEW P, NEW Q, LaidOut(P, p, v, b), LaidOut(Q, p, w, d), NEW i \in 1 .. 16 + 2 * p.steps
    PROVE  Aligned(P[i], Q[i])
<1> DEFINE s == p.steps
<1>1. /\ D \in Nat /\ NumQueries \in Nat /\ NumChallenges \in Nat /\ 1 \in Nat
      /\ (IF p.lookup THEN 2 * NumChallenges ELSE 0) \in Nat /\ s \in Nat
      /\ s \in 0 .. Len(CommitCap)
  BY Sizes, Named DEF Stepped
<1>2. /\ \A m \in Message : v[m] \in Seq(Observed) /\ w[m] \in Seq(Observed)
      /\ b[1] \in Seq(Observed) /\ b[2] \in Seq(Observed)
      /\ d[1] \in Seq(Observed) /\ d[2] \in Seq(Observed)
      /\ Stated(v) \in Seq(Observed) /\ Stated(w) \in Seq(Observed)
  BY Parts DEF AsLong
<1>3. \A m \in Message \ Openings : Aligned(Observe(v[m]), Observe(w[m]))
  BY <1>2, ObservedAligned DEF AsLong
<1>4. Aligned(Observe(b[1]), Observe(d[1])) /\ Aligned(Observe(b[2]), Observe(d[2]))
  BY <1>2, ObservedAligned DEF AsLong
<1>5. Aligned(Observe(Stated(v)), Observe(Stated(w)))
  <2>1. v \in [Message -> Seq(Element)] /\ w \in [Message -> Seq(Element)]
    BY DEF AsLong, Given
  <2>2. Len(Stated(v)) = Len(Stated(w))
    BY <2>1, StatedIs, NotOpenings DEF AsLong
  <2>. QED  BY <1>2, <2>2, ObservedAligned
<1>6. \A m \in Challenge : \A n \in Nat : Aligned(Draw(m, n), Draw(m, n))
  BY DrawnAligned
<1>7. {"betas", "gammas", "deltas", "alphas", "zeta", "fri_alpha", "pow_response", "query_indices"}
            \subseteq Challenge
  BY Named DEF PlonkChallenges
<1>8. CASE i \in {1, 2, 6, 8, 10, 11}
  <2>1. Aligned(P[1], Q[1]) /\ Aligned(P[10], Q[10]) /\ Aligned(P[11], Q[11])
    BY <1>4, <1>5 DEF LaidOut, LaidOutOf
  <2>2. /\ Aligned(Observe(v["wires_cap"]), Observe(w["wires_cap"]))
        /\ Aligned(Observe(v["zs_cap"]), Observe(w["zs_cap"]))
        /\ Aligned(Observe(v["quotient_cap"]), Observe(w["quotient_cap"]))
    BY <1>3, NotOpenings
  <2>3. Aligned(P[2], Q[2]) /\ Aligned(P[6], Q[6]) /\ Aligned(P[8], Q[8])
    BY <2>2 DEF LaidOut, LaidOutOf
  <2>. QED  BY <1>8, <2>1, <2>3
<1>9. CASE i \in {3, 4, 5, 7, 9, 12}
  <2>1. /\ P[3] = Draw("betas", NumChallenges) /\ Q[3] = P[3]
        /\ P[4] = Draw("gammas", NumChallenges) /\ Q[4] = P[4]
        /\ P[5] = Draw("deltas", IF p.lookup THEN 2 * NumChallenges ELSE 0) /\ Q[5] = P[5]
        /\ P[7] = Draw("alphas", NumChallenges) /\ Q[7] = P[7]
        /\ P[9] = Draw("zeta", D) /\ Q[9] = P[9]
        /\ P[12] = Draw("fri_alpha", D) /\ Q[12] = P[12]
    BY DEF LaidOut, LaidOutOf
  <2>2. Aligned(P[3], Q[3]) /\ Aligned(P[4], Q[4]) /\ Aligned(P[7], Q[7])
    BY <1>1, <1>6, <1>7, <2>1
  <2>3. Aligned(P[5], Q[5])
    BY <1>1, <1>6, <1>7, <2>1
  <2>4. Aligned(P[9], Q[9]) /\ Aligned(P[12], Q[12])
    BY <1>1, <1>6, <1>7, <2>1
  <2>. QED  BY <1>9, <2>2, <2>3, <2>4
<1>10. ASSUME NEW k \in 1 .. s, i = 11 + 2 * k PROVE Aligned(P[i], Q[i])
  <2>1. k \in 1 .. Len(CommitCap)
    BY <1>1
  <2>2. P[i] = Observe(v[CommitCap[k]]) /\ Q[i] = Observe(w[CommitCap[k]])
    BY <1>10 DEF LaidOut, LaidOutOf
  <2>. QED  BY <1>3, <2>1, <2>2, NotOpenings
<1>11. ASSUME NEW k \in 1 .. s, i = 12 + 2 * k PROVE Aligned(P[i], Q[i])
  <2>1. k \in 1 .. Len(FriBeta)
    BY <1>1, Named
  <2>2. P[i] = Draw(FriBeta[k], D) /\ Q[i] = Draw(FriBeta[k], D)
    BY <1>11 DEF LaidOut, LaidOutOf
  <2>. QED  BY <1>1, <1>6, <2>1, <2>2, Named
<1>12. CASE i \in {13 + 2 * s, 14 + 2 * s}
  BY <1>3, <1>12, NotOpenings DEF LaidOut, LaidOutOf
<1>13. CASE i \in {15 + 2 * s, 16 + 2 * s}
  BY <1>1, <1>6, <1>7, <1>13 DEF LaidOut, LaidOutOf
<1>. QED  BY <1>1, <1>8, <1>9, <1>10, <1>11, <1>12, <1>13, Places

\* What is committed to, stage by stage.
ToWires(v) == Append(Statement(v), v["wires_cap"])
ToProducts(v) == Append(ToWires(v), v["zs_cap"])
ToQuotient(v) == Append(ToProducts(v), v["quotient_cap"])
ToOpenings(v, b) == ToQuotient(v) \o b
ToCaps(v, b, k) == ToOpenings(v, b) \o [j \in 1 .. k |-> v[CommitCap[j]]]
ToAll(v, b) == ToCaps(v, b, Len(CommitCap)) \o <<v["final_poly"], v["pow_witness"]>>

\* What Committed is, by challenge.
LEMMA CommittedIs ==
    ASSUME NEW v, NEW b
    PROVE  LET c == Committed(v, b)
           IN  /\ \A m \in {"betas", "gammas", "deltas"} : c[m] = ToWires(v)
               /\ c["alphas"] = ToProducts(v) /\ c["zeta"] = ToQuotient(v)
               /\ c["fri_alpha"] = ToOpenings(v, b)
               /\ \A k \in 1 .. Len(FriBeta) : c[FriBeta[k]] = ToCaps(v, b, k)
               /\ \A m \in {"pow_response", "query_indices"} : c[m] = ToAll(v, b)
<1> DEFINE value(m) ==
             CASE m \in {"betas", "gammas", "deltas"} -> ToWires(v)
               [] m = "alphas"      -> ToProducts(v)
               [] m = "zeta"        -> ToQuotient(v)
               [] m = "fri_alpha"   -> ToOpenings(v, b)
               [] m \in ToSet(FriBeta) ->
                     ToCaps(v, b, CHOOSE k \in 1 .. Len(FriBeta) : FriBeta[k] = m)
               [] m \in {"pow_response", "query_indices"} -> ToAll(v, b)
           c == Committed(v, b)
<1>1. c = [m \in Challenge |-> value(m)]
  BY DEF Committed, ToWires, ToProducts, ToQuotient, ToOpenings, ToCaps, ToAll
<1>2. \A m \in Challenge : c[m] = value(m)
  BY <1>1
<1>3. PlonkChallenges \subseteq Challenge /\ ToSet(FriBeta) \cap PlonkChallenges = {}
  BY NameAssumption, Named
<1>4. \A m \in PlonkChallenges : m \notin ToSet(FriBeta) /\ c[m] = value(m)
  BY <1>2, <1>3
<1>5. ASSUME NEW k \in 1 .. Len(FriBeta) PROVE c[FriBeta[k]] = ToCaps(v, b, k)
  <2> DEFINE m == FriBeta[k]
  <2>1. FriBeta \in Seq(STRING) /\ IsInjective(FriBeta)
    BY NameAssumption
  <2>2. m \in ToSet(FriBeta) /\ m \in Challenge
    BY <2>1, Named DEF ToSet
  <2>3. \A j \in 1 .. Len(FriBeta) : FriBeta[j] = m => j = k
    BY <2>1 DEF IsInjective
  <2>4. (CHOOSE j \in 1 .. Len(FriBeta) : FriBeta[j] = m) = k
    BY <2>3
  <2>5. m \notin PlonkChallenges
    BY <1>3, <2>2
  <2>6. value(m) = ToCaps(v, b, CHOOSE j \in 1 .. Len(FriBeta) : FriBeta[j] = m)
    <3> HIDE DEF m
    <3>. QED  BY <2>2, <2>5 DEF PlonkChallenges
  <2>. QED  BY <1>2, <2>2, <2>4, <2>6
<1>6. /\ \A m \in {"betas", "gammas", "deltas"} : c[m] = ToWires(v)
      /\ c["alphas"] = ToProducts(v) /\ c["zeta"] = ToQuotient(v)
      /\ c["fri_alpha"] = ToOpenings(v, b)
      /\ \A m \in {"pow_response", "query_indices"} : c[m] = ToAll(v, b)
  BY <1>4 DEF PlonkChallenges
<1>. QED  BY <1>5, <1>6

\* Transcripts that begin alike are of the same messages so far.
LEMMA SameSoFar ==
    ASSUME NEW p \in Params, NEW v, NEW b, NEW w, NEW d, AsLong(p, v, b, w, d),
           NEW P, NEW Q, LaidOut(P, p, v, b), LaidOut(Q, p, w, d),
           NEW j \in 1 .. 16 + 2 * p.steps, \A h \in 1 .. j : P[h] = Q[h]
    PROVE  /\ j >= 2 => Statement(v) = Statement(w) /\ v["wires_cap"] = w["wires_cap"]
           /\ j >= 6 => v["zs_cap"] = w["zs_cap"]
           /\ j >= 8 => v["quotient_cap"] = w["quotient_cap"]
           /\ j >= 11 => b = d
           /\ \A k \in 1 .. p.steps : j >= 11 + 2 * k => v[CommitCap[k]] = w[CommitCap[k]]
           /\ j >= 14 + 2 * p.steps => v["final_poly"] = w["final_poly"] /\ v["pow_witness"] = w["pow_witness"]
<1> DEFINE s == p.steps
<1>1. s \in Nat /\ s \in 0 .. Len(CommitCap)
  BY Named
<1>2. /\ \A m \in Message : v[m] \in Seq(Observed) /\ w[m] \in Seq(Observed)
      /\ b[1] \in Seq(Observed) /\ b[2] \in Seq(Observed)
      /\ d[1] \in Seq(Observed) /\ d[2] \in Seq(Observed)
      /\ Stated(v) \in Seq(Observed) /\ Stated(w) \in Seq(Observed)
  BY Parts DEF AsLong
<1>3. \A m \in Message : Observe(v[m]) = Observe(w[m]) => v[m] = w[m]
  BY <1>2, ObservedSame
<1>4. j >= 2 => Statement(v) = Statement(w) /\ v["wires_cap"] = w["wires_cap"]
  <2>1. SUFFICES ASSUME j >= 2 PROVE Statement(v) = Statement(w) /\ v["wires_cap"] = w["wires_cap"]
    OBVIOUS
  <2>2. P[1] = Q[1] /\ P[2] = Q[2]
    BY <2>1
  <2>3. Observe(Stated(v)) = Observe(Stated(w)) /\ Observe(v["wires_cap"]) = Observe(w["wires_cap"])
    BY <2>2 DEF LaidOut, LaidOutOf
  <2>4. Stated(v) = Stated(w)
    BY <1>2, <2>3, ObservedSame
  <2>5. v \in [Message -> Seq(Element)] /\ w \in [Message -> Seq(Element)]
    BY DEF AsLong, Given
  <2>6. Statement(v) = Statement(w)
    BY <2>4, <2>5, StatedSame, NotOpenings DEF AsLong
  <2>. QED  BY <1>3, <2>3, <2>6, NotOpenings
<1>5. j >= 6 => v["zs_cap"] = w["zs_cap"]
  <2>1. j >= 6 => P[6] = Q[6]
    OBVIOUS
  <2>2. P[6] = Observe(v["zs_cap"]) /\ Q[6] = Observe(w["zs_cap"])
    BY DEF LaidOut, LaidOutOf
  <2>. QED  BY <1>3, <2>1, <2>2, NotOpenings
<1>6. j >= 8 => v["quotient_cap"] = w["quotient_cap"]
  <2>1. j >= 8 => P[8] = Q[8]
    OBVIOUS
  <2>2. P[8] = Observe(v["quotient_cap"]) /\ Q[8] = Observe(w["quotient_cap"])
    BY DEF LaidOut, LaidOutOf
  <2>. QED  BY <1>3, <2>1, <2>2, NotOpenings
<1>7. j >= 11 => b = d
  <2>1. j >= 11 => P[10] = Q[10] /\ P[11] = Q[11]
    OBVIOUS
  <2>2. P[10] = Observe(b[1]) /\ Q[10] = Observe(d[1]) /\ P[11] = Observe(b[2]) /\ Q[11] = Observe(d[2])
    BY DEF LaidOut, LaidOutOf
  <2>3. j >= 11 => b[1] = d[1] /\ b[2] = d[2]
    BY <1>2, <2>1, <2>2, ObservedSame
  <2>4. b[1] = d[1] /\ b[2] = d[2] => b = d
    <3> DEFINE S == Seq(Element)
    <3>1. b \in Seq(S) /\ d \in Seq(S) /\ Len(b) = 2 /\ Len(d) = 2
      BY DEF AsLong, Given
    <3> HIDE DEF S
    <3>2. SUFFICES ASSUME b[1] = d[1], b[2] = d[2] PROVE b = d
      OBVIOUS
    <3>3. \A i \in 1 .. Len(b) : i = 1 \/ i = 2
      BY <3>1
    <3>4. \A i \in 1 .. Len(b) : b[i] = d[i]
      BY <3>2, <3>3
    <3>. QED  BY <3>1, <3>4, SeqEqual
  <2>. QED  BY <2>3, <2>4
<1>8. ASSUME NEW k \in 1 .. s, j >= 11 + 2 * k PROVE v[CommitCap[k]] = w[CommitCap[k]]
  <2>1. P[11 + 2 * k] = Q[11 + 2 * k]
    BY <1>1, <1>8
  <2>2. P[11 + 2 * k] = Observe(v[CommitCap[k]]) /\ Q[11 + 2 * k] = Observe(w[CommitCap[k]])
    BY DEF LaidOut, LaidOutOf
  <2>3. CommitCap[k] \in Message
    BY <1>1, NotOpenings
  <2>. QED  BY <1>3, <2>1, <2>2, <2>3
<1>9. j >= 14 + 2 * s => v["final_poly"] = w["final_poly"] /\ v["pow_witness"] = w["pow_witness"]
  <2>1. j >= 14 + 2 * s => P[13 + 2 * s] = Q[13 + 2 * s] /\ P[14 + 2 * s] = Q[14 + 2 * s]
    BY <1>1
  <2>2. /\ P[13 + 2 * s] = Observe(v["final_poly"]) /\ Q[13 + 2 * s] = Observe(w["final_poly"])
        /\ P[14 + 2 * s] = Observe(v["pow_witness"]) /\ Q[14 + 2 * s] = Observe(w["pow_witness"])
    BY DEF LaidOut, LaidOutOf
  <2>. QED  BY <1>3, <2>1, <2>2, NotOpenings
<1>. QED  BY <1>4, <1>5, <1>6, <1>7, <1>8, <1>9

\* Parts that are the same so far commit to the same.
LEMMA CommittedSoFar ==
    ASSUME NEW p \in Params, NEW v, NEW b, NEW w, NEW d, AsLong(p, v, b, w, d),
           NEW P, NEW Q, LaidOut(P, p, v, b), LaidOut(Q, p, w, d),
           NEW j \in 1 .. 16 + 2 * p.steps, \A h \in 1 .. j : P[h] = Q[h]
    PROVE  /\ j >= 2 => ToWires(v) = ToWires(w)
           /\ j >= 6 => ToProducts(v) = ToProducts(w)
           /\ j >= 8 => ToQuotient(v) = ToQuotient(w)
           /\ j >= 11 => ToOpenings(v, b) = ToOpenings(w, d)
           /\ \A k \in 1 .. p.steps : j >= 11 + 2 * k => ToCaps(v, b, k) = ToCaps(w, d, k)
           /\ j >= 14 + 2 * p.steps => ToAll(v, b) = ToAll(w, d)
<1> DEFINE s == p.steps
<1>1. s \in Nat /\ s \in 0 .. Len(CommitCap) /\ Len(CommitCap) \in Nat
  BY Named
<1>2. /\ j >= 2 => Statement(v) = Statement(w) /\ v["wires_cap"] = w["wires_cap"]
      /\ j >= 6 => v["zs_cap"] = w["zs_cap"]
      /\ j >= 8 => v["quotient_cap"] = w["quotient_cap"]
      /\ j >= 11 => b = d
      /\ \A k \in 1 .. s : j >= 11 + 2 * k => v[CommitCap[k]] = w[CommitCap[k]]
      /\ j >= 14 + 2 * s => v["final_poly"] = w["final_poly"] /\ v["pow_witness"] = w["pow_witness"]
  BY SameSoFar
<1>3. j >= 2 => ToWires(v) = ToWires(w)
  BY <1>2 DEF ToWires
<1>4. j >= 6 => ToProducts(v) = ToProducts(w)
  <2>1. j >= 6 => j >= 2
    OBVIOUS
  <2>. QED  BY <1>2, <1>3, <2>1 DEF ToProducts
<1>5. j >= 8 => ToQuotient(v) = ToQuotient(w)
  <2>1. j >= 8 => j >= 6
    OBVIOUS
  <2>. QED  BY <1>2, <1>4, <2>1 DEF ToQuotient
<1>6. j >= 11 => ToOpenings(v, b) = ToOpenings(w, d)
  <2>1. j >= 11 => j >= 8
    OBVIOUS
  <2>. QED  BY <1>2, <1>5, <2>1 DEF ToOpenings
<1>7. ASSUME NEW k \in 1 .. s, j >= 11 + 2 * k PROVE ToCaps(v, b, k) = ToCaps(w, d, k)
  <2>1. \A i \in 1 .. k : i \in 1 .. s /\ j >= 11 + 2 * i
    BY <1>1, <1>7
  <2>2. \A i \in 1 .. k : v[CommitCap[i]] = w[CommitCap[i]]
    BY <1>2, <2>1
  <2>3. [i \in 1 .. k |-> v[CommitCap[i]]] = [i \in 1 .. k |-> w[CommitCap[i]]]
    BY <2>2
  <2>4. j >= 11
    BY <1>7
  <2>. QED  BY <1>6, <2>3, <2>4 DEF ToCaps
<1>8. ASSUME j >= 14 + 2 * s PROVE ToAll(v, b) = ToAll(w, d)
  <2> DEFINE n == Len(CommitCap)
  <2>1. ASSUME NEW i \in 1 .. n PROVE v[CommitCap[i]] = w[CommitCap[i]]
    <3>1. CASE i \in 1 .. s
      <4>1. j >= 11 + 2 * i
        BY <1>1, <1>8, <3>1
      <4>. QED  BY <1>2, <3>1, <4>1
    <3>2. CASE i \notin 1 .. s
      <4>1. i \in s + 1 .. n
        BY <1>1, <3>2
      <4>2. CommitCap[i] \in Message \ Openings
        BY NotOpenings
      <4>3. Len(v[CommitCap[i]]) = 0 /\ Len(w[CommitCap[i]]) = 0
        BY <4>1, <4>2 DEF AsLong
      <4>4. v[CommitCap[i]] \in Seq(Observed) /\ w[CommitCap[i]] \in Seq(Observed)
        BY <4>2, Parts DEF AsLong
      <4>. QED  BY <4>3, <4>4
    <3>. QED  BY <3>1, <3>2
  <2>2. [i \in 1 .. n |-> v[CommitCap[i]]] = [i \in 1 .. n |-> w[CommitCap[i]]]
    BY <2>1
  <2>3. j >= 11
    BY <1>1, <1>8
  <2>4. ToCaps(v, b, n) = ToCaps(w, d, n)
    BY <1>6, <2>2, <2>3 DEF ToCaps
  <2>. QED  BY <1>2, <1>8, <2>4 DEF ToAll
<1>. QED  BY <1>3, <1>4, <1>5, <1>6, <1>7, <1>8

\* Which challenge a part draws.
LEMMA DrawnAt ==
    ASSUME NEW p, Stepped(p), NEW v, NEW b, Given(v, b), NEW P, LaidOut(P, p, v, b),
           NEW j \in 1 .. 16 + 2 * p.steps, NEW m \in Challenge, Draws(P[j], m), P[j] \in Seq(DrawOp)
    PROVE  \/ j \in {3, 4, 5} /\ m \in {"betas", "gammas", "deltas"}
           \/ j = 7 /\ m = "alphas"
           \/ j = 9 /\ m = "zeta"
           \/ j = 12 /\ m = "fri_alpha"
           \/ \E k \in 1 .. p.steps : j = 12 + 2 * k /\ m = FriBeta[k]
           \/ j = 15 + 2 * p.steps /\ m = "pow_response"
           \/ j = 16 + 2 * p.steps /\ m = "query_indices"
<1> DEFINE s == p.steps
<1>1. /\ D \in Nat /\ NumQueries \in Nat /\ NumChallenges \in Nat /\ 1 \in Nat
      /\ (IF p.lookup THEN 2 * NumChallenges ELSE 0) \in Nat /\ s \in Nat
      /\ s \in 0 .. Len(CommitCap)
  BY Sizes, Named DEF Stepped
<1>2. /\ \A k \in Message : v[k] \in Seq(Observed)
      /\ b[1] \in Seq(Observed) /\ b[2] \in Seq(Observed) /\ Stated(v) \in Seq(Observed)
  BY Parts
<1>3. ASSUME NEW a \in Seq(Observed), P[j] = Observe(a) PROVE FALSE
  <2>1. P[j] \in Seq(ObserveOp)
    BY <1>3, ObservingPart
  <2>2. PICK h \in 1 .. Len(P[j]) : TRUE
    BY DEF Draws
  <2> DEFINE q == P[j]
  <2>3. q \in Seq(ObserveOp) /\ q \in Seq(DrawOp) /\ h \in 1 .. Len(q)
    BY <2>1, <2>2
  <2> HIDE DEF q
  <2>4. q[h] \in ObserveOp /\ q[h] \in DrawOp
    BY <2>3
  <2>5. q[h].do = "observe" /\ q[h].do = "draw"
    BY <2>4 DEF ObserveOp, DrawOp
  <2>. QED  BY <2>5
<1>4. \A k \in Challenge : \A n \in Nat : P[j] = Draw(k, n) => m = k
  BY DrawingPart
<1>5. {"betas", "gammas", "deltas", "alphas", "zeta", "fri_alpha", "pow_response", "query_indices"}
            \subseteq Challenge
  BY Named DEF PlonkChallenges
<1>6. j \notin {1, 2, 6, 8, 10, 11}
  <2>1. /\ P[1] = Observe(Stated(v)) /\ P[2] = Observe(v["wires_cap"]) /\ P[6] = Observe(v["zs_cap"])
        /\ P[8] = Observe(v["quotient_cap"]) /\ P[10] = Observe(b[1]) /\ P[11] = Observe(b[2])
    BY DEF LaidOut, LaidOutOf
  <2>2. v["wires_cap"] \in Seq(Observed) /\ v["zs_cap"] \in Seq(Observed) /\ v["quotient_cap"] \in Seq(Observed)
    BY <1>2, NotOpenings
  <2>. QED  BY <1>2, <1>3, <2>1, <2>2
<1>7. \A k \in 1 .. s : j # 11 + 2 * k
  <2>1. \A k \in 1 .. s : P[11 + 2 * k] = Observe(v[CommitCap[k]])
    BY DEF LaidOut, LaidOutOf
  <2>2. \A k \in 1 .. s : v[CommitCap[k]] \in Seq(Observed)
    <3>1. \A k \in 1 .. s : k \in 1 .. Len(CommitCap)
      BY <1>1, Named
    <3>. QED  BY <1>2, <3>1, Named
  <2>. QED  BY <1>3, <2>1, <2>2
<1>8. j # 13 + 2 * s /\ j # 14 + 2 * s
  <2>1. P[13 + 2 * s] = Observe(v["final_poly"]) /\ P[14 + 2 * s] = Observe(v["pow_witness"])
    BY DEF LaidOut, LaidOutOf
  <2>2. v["final_poly"] \in Seq(Observed) /\ v["pow_witness"] \in Seq(Observed)
    BY <1>2, NotOpenings
  <2>. QED  BY <1>3, <2>1, <2>2
<1>9. /\ j = 3 => m = "betas"
      /\ j = 4 => m = "gammas"
      /\ j = 5 => m = "deltas"
      /\ j = 7 => m = "alphas"
      /\ j = 9 => m = "zeta"
      /\ j = 12 => m = "fri_alpha"
  <2>1. /\ P[3] = Draw("betas", NumChallenges) /\ P[4] = Draw("gammas", NumChallenges)
        /\ P[5] = Draw("deltas", IF p.lookup THEN 2 * NumChallenges ELSE 0)
        /\ P[7] = Draw("alphas", NumChallenges) /\ P[9] = Draw("zeta", D) /\ P[12] = Draw("fri_alpha", D)
    BY DEF LaidOut, LaidOutOf
  <2>. QED  BY <1>1, <1>4, <1>5, <2>1
<1>10. \A k \in 1 .. s : j = 12 + 2 * k => m = FriBeta[k]
  <2>1. \A k \in 1 .. s : P[12 + 2 * k] = Draw(FriBeta[k], D) /\ FriBeta[k] \in Challenge
    BY <1>1, Named, SMTT(30) DEF LaidOut, LaidOutOf
  <2>. QED  BY <1>1, <1>4, <2>1
<1>11. (j = 15 + 2 * s => m = "pow_response") /\ (j = 16 + 2 * s => m = "query_indices")
  <2>1. P[15 + 2 * s] = Draw("pow_response", 1) /\ P[16 + 2 * s] = Draw("query_indices", NumQueries)
    BY DEF LaidOut, LaidOutOf
  <2>. QED  BY <1>1, <1>4, <1>5, <2>1
<1>12. \/ j \in {1, 2, 3, 4, 5, 6, 7, 8, 9, 10, 11, 12}
       \/ \E k \in 1 .. s : j = 11 + 2 * k \/ j = 12 + 2 * k
       \/ j \in {13 + 2 * s, 14 + 2 * s, 15 + 2 * s, 16 + 2 * s}
  BY <1>1, Places
<1>13. CASE j \in {1, 2, 3, 4, 5, 6, 7, 8, 9, 10, 11, 12}
  BY <1>6, <1>9, <1>13
<1>14. CASE \E k \in 1 .. s : j = 11 + 2 * k \/ j = 12 + 2 * k
  BY <1>7, <1>10, <1>14
<1>15. CASE j \in {13 + 2 * s, 14 + 2 * s, 15 + 2 * s, 16 + 2 * s}
  BY <1>8, <1>11, <1>15
<1>. QED  BY <1>12, <1>13, <1>14, <1>15

\* The draws of two transcripts that agree in a challenge: all parts up to
\* one that draws it are the same.
LEMMA SameUpTo ==
    ASSUME NEW p \in Params, NEW v, NEW b, NEW w, NEW d, AsLong(p, v, b, w, d),
           NEW P, NEW Q, LaidOut(P, p, v, b), LaidOut(Q, p, w, d), NEW m \in Challenge,
           Run("native", P).drawn[m] = Run("native", Q).drawn[m], Run("native", P).drawn[m] # <<>>
    PROVE  \E j \in 1 .. 16 + 2 * p.steps :
              Draws(P[j], m) /\ P[j] \in Seq(DrawOp) /\ \A h \in 1 .. j : P[h] = Q[h]
<1> DEFINE n == 16 + 2 * p.steps
           x == Run("native", P)
           y == Run("native", Q)
<1>1. n \in Nat /\ Len(P) = n /\ Len(Q) = n
  BY Named DEF LaidOut, LaidOutOf
<1>2. \A i \in 1 .. n : Aligned(P[i], Q[i])
  BY AllAligned, Named
<1> HIDE DEF n, x, y
<1>3. <<x, y>> \in Apart(P, Q, n)
  BY <1>1, <1>2, RunsApart DEF x, y
<1>4. x.drawn[m] = y.drawn[m] /\ x.drawn[m] # <<>>
  BY DEF x, y
<1>5. PICK j \in 1 .. n : Draws(P[j], m) /\ P[j] \in Seq(DrawOp)
  BY <1>3, <1>4 DEF Apart
<1>6. \A h \in 1 .. j : P[h] = Q[h]
  BY <1>3, <1>4, <1>5 DEF Apart
<1>. QED  BY <1>5, <1>6 DEF n

\* A challenge tells all that was committed to before it.
LEMMA TranscriptsBind ==
    ASSUME NEW p \in Params, NEW v, NEW b, NEW w, NEW d, AsLong(p, v, b, w, d),
           NEW m \in Challenge,
           Run("native", CircuitTranscript(p, v, b)).drawn[m]
             = Run("native", CircuitTranscript(p, w, d)).drawn[m],
           Run("native", CircuitTranscript(p, v, b)).drawn[m] # <<>>
    PROVE  Committed(v, b)[m] = Committed(w, d)[m]
<1> DEFINE P == CircuitTranscript(p, v, b)
           Q == CircuitTranscript(p, w, d)
           s == p.steps
<1>1. Given(v, b) /\ Given(w, d)
  BY DEF AsLong
<1>2. LaidOut(P, p, v, b) /\ LaidOut(Q, p, w, d)
  BY <1>1, Layout, Named
<1>3. Run("native", P).drawn[m] = Run("native", Q).drawn[m] /\ Run("native", P).drawn[m] # <<>>
  OBVIOUS
<1> HIDE DEF P, Q
<1>4. PICK j \in 1 .. 16 + 2 * s :
              Draws(P[j], m) /\ P[j] \in Seq(DrawOp) /\ \A h \in 1 .. j : P[h] = Q[h]
  BY <1>2, <1>3, SameUpTo
<1>5. s \in Nat /\ s \in 0 .. Len(FriBeta) /\ Len(CommitCap) = Len(FriBeta) /\ Len(FriBeta) \in Nat
  BY Named
<1>6. /\ j >= 2 => ToWires(v) = ToWires(w)
      /\ j >= 6 => ToProducts(v) = ToProducts(w)
      /\ j >= 8 => ToQuotient(v) = ToQuotient(w)
      /\ j >= 11 => ToOpenings(v, b) = ToOpenings(w, d)
      /\ \A k \in 1 .. s : j >= 11 + 2 * k => ToCaps(v, b, k) = ToCaps(w, d, k)
      /\ j >= 14 + 2 * s => ToAll(v, b) = ToAll(w, d)
  BY <1>2, <1>4, CommittedSoFar
<1> DEFINE c == Committed(v, b)
           e == Committed(w, d)
<1>7. /\ \A k \in {"betas", "gammas", "deltas"} : c[k] = ToWires(v)
      /\ c["alphas"] = ToProducts(v) /\ c["zeta"] = ToQuotient(v)
      /\ c["fri_alpha"] = ToOpenings(v, b)
      /\ \A k \in 1 .. Len(FriBeta) : c[FriBeta[k]] = ToCaps(v, b, k)
      /\ \A k \in {"pow_response", "query_indices"} : c[k] = ToAll(v, b)
  BY CommittedIs
<1>8. /\ \A k \in {"betas", "gammas", "deltas"} : e[k] = ToWires(w)
      /\ e["alphas"] = ToProducts(w) /\ e["zeta"] = ToQuotient(w)
      /\ e["fri_alpha"] = ToOpenings(w, d)
      /\ \A k \in 1 .. Len(FriBeta) : e[FriBeta[k]] = ToCaps(w, d, k)
      /\ \A k \in {"pow_response", "query_indices"} : e[k] = ToAll(w, d)
  BY CommittedIs
<1> HIDE DEF c, e
<1>9. \/ j \in {3, 4, 5} /\ m \in {"betas", "gammas", "deltas"}
      \/ j = 7 /\ m = "alphas"
      \/ j = 9 /\ m = "zeta"
      \/ j = 12 /\ m = "fri_alpha"
      \/ \E k \in 1 .. s : j = 12 + 2 * k /\ m = FriBeta[k]
      \/ j >= 14 + 2 * s /\ m \in {"pow_response", "query_indices"}
  <2>1. 15 + 2 * s >= 14 + 2 * s /\ 16 + 2 * s >= 14 + 2 * s
    BY <1>5
  <2>. QED  BY <1>1, <1>2, <1>4, <2>1, DrawnAt, Named
<1>10. CASE j \in {3, 4, 5} /\ m \in {"betas", "gammas", "deltas"}
  <2>1. j >= 2
    BY <1>10
  <2>. QED  BY <1>6, <1>7, <1>8, <1>10, <2>1 DEF c, e
<1>11. CASE j = 7 /\ m = "alphas"
  <2>1. j >= 6
    BY <1>11
  <2>. QED  BY <1>6, <1>7, <1>8, <1>11, <2>1 DEF c, e
<1>12. CASE j = 9 /\ m = "zeta"
  <2>1. j >= 8
    BY <1>12
  <2>. QED  BY <1>6, <1>7, <1>8, <1>12, <2>1 DEF c, e
<1>13. CASE j = 12 /\ m = "fri_alpha"
  <2>1. j >= 11
    BY <1>13
  <2>. QED  BY <1>6, <1>7, <1>8, <1>13, <2>1 DEF c, e
<1>14. ASSUME NEW k \in 1 .. s, j = 12 + 2 * k, m = FriBeta[k] PROVE c[m] = e[m]
  <2>1. j >= 11 + 2 * k /\ k \in 1 .. Len(FriBeta)
    BY <1>5, <1>14
  <2>. QED  BY <1>6, <1>7, <1>8, <1>14, <2>1
<1>15. CASE j >= 14 + 2 * s /\ m \in {"pow_response", "query_indices"}
  BY <1>6, <1>7, <1>8, <1>15 DEF c, e
<1>16. c[m] = e[m]
  BY <1>9, <1>10, <1>11, <1>12, <1>13, <1>14, <1>15 DEF c, e
<1>. QED  BY <1>16 DEF c, e

\* The query indices tell every message, and the openings in their batches.
LEMMA QueriesTell ==
    ASSUME NEW p \in Params, NEW v, NEW b, NEW w, NEW d, AsLong(p, v, b, w, d),
           Run("native", CircuitTranscript(p, v, b)).drawn["query_indices"]
             = Run("native", CircuitTranscript(p, w, d)).drawn["query_indices"],
           Run("native", CircuitTranscript(p, v, b)).drawn["query_indices"] # <<>>
    PROVE  b = d /\ \A m \in Message \ Openings : v[m] = w[m]
<1> DEFINE P == CircuitTranscript(p, v, b)
           Q == CircuitTranscript(p, w, d)
           s == p.steps
           q == "query_indices"
<1>1. Given(v, b) /\ Given(w, d)
  BY DEF AsLong
<1>2. LaidOut(P, p, v, b) /\ LaidOut(Q, p, w, d)
  BY <1>1, Layout, Named
<1>3. Run("native", P).drawn[q] = Run("native", Q).drawn[q] /\ Run("native", P).drawn[q] # <<>>
  OBVIOUS
<1> HIDE DEF P, Q
<1>4. q \in Challenge /\ q \in PlonkChallenges /\ q \notin ToSet(FriBeta)
  BY Named, NameAssumption DEF PlonkChallenges
<1>5. PICK j \in 1 .. 16 + 2 * s :
              Draws(P[j], q) /\ P[j] \in Seq(DrawOp) /\ \A h \in 1 .. j : P[h] = Q[h]
  <2> HIDE DEF q
  <2>. QED  BY <1>2, <1>3, <1>4, SameUpTo
<1>6. s \in Nat /\ s \in 0 .. Len(FriBeta) /\ Len(CommitCap) = Len(FriBeta) /\ Len(FriBeta) \in Nat
  BY Named
<1>7. j >= 14 + 2 * s
  <2>1. \/ j \in {3, 4, 5} /\ q \in {"betas", "gammas", "deltas"}
        \/ j = 7 /\ q = "alphas"
        \/ j = 9 /\ q = "zeta"
        \/ j = 12 /\ q = "fri_alpha"
        \/ \E k \in 1 .. s : j = 12 + 2 * k /\ q = FriBeta[k]
        \/ j >= 14 + 2 * s /\ q \in {"pow_response", "query_indices"}
    <3>1. 15 + 2 * s >= 14 + 2 * s /\ 16 + 2 * s >= 14 + 2 * s
      BY <1>6
    <3> HIDE DEF q
    <3>. QED  BY <1>1, <1>2, <1>4, <1>5, <3>1, DrawnAt, Named
  <2>2. \A k \in 1 .. s : FriBeta[k] \in ToSet(FriBeta)
    BY <1>6, NameAssumption DEF ToSet
  <2>3. \A k \in 1 .. s : q # FriBeta[k]
    BY <1>4, <2>2
  <2>. QED  BY <2>1, <2>3
<1>8. /\ j >= 2 => Statement(v) = Statement(w) /\ v["wires_cap"] = w["wires_cap"]
      /\ j >= 6 => v["zs_cap"] = w["zs_cap"]
      /\ j >= 8 => v["quotient_cap"] = w["quotient_cap"]
      /\ j >= 11 => b = d
      /\ \A k \in 1 .. s : j >= 11 + 2 * k => v[CommitCap[k]] = w[CommitCap[k]]
      /\ j >= 14 + 2 * s => v["final_poly"] = w["final_poly"] /\ v["pow_witness"] = w["pow_witness"]
  BY <1>2, <1>5, SameSoFar
<1>9. j >= 2 /\ j >= 6 /\ j >= 8 /\ j >= 11 /\ \A k \in 1 .. s : j >= 11 + 2 * k
  BY <1>6, <1>7
<1>10. /\ v["fri_params"] = w["fri_params"] /\ v["circuit_digest"] = w["circuit_digest"]
       /\ v["public_inputs"] = w["public_inputs"]
  BY <1>8, <1>9 DEF Statement
<1>11. ASSUME NEW k \in 1 .. Len(CommitCap) PROVE v[CommitCap[k]] = w[CommitCap[k]]
  <2>1. CASE k \in 1 .. s
    BY <1>8, <1>9, <2>1
  <2>2. CASE k \notin 1 .. s
    <3>1. k \in s + 1 .. Len(CommitCap)
      BY <1>6, <2>2
    <3>2. CommitCap[k] \in Message \ Openings
      BY NotOpenings
    <3>3. Len(v[CommitCap[k]]) = 0 /\ Len(w[CommitCap[k]]) = 0
      BY <3>1, <3>2 DEF AsLong
    <3>4. v[CommitCap[k]] \in Seq(Observed) /\ w[CommitCap[k]] \in Seq(Observed)
      BY <3>2, Parts DEF AsLong
    <3>. QED  BY <3>3, <3>4
  <2>. QED  BY <2>1, <2>2
<1>12. \A m \in ToSet(CommitCap) : v[m] = w[m]
  BY <1>11, NameAssumption DEF ToSet
<1>13. \A m \in Message \ Openings : \/ m \in ToSet(CommitCap) \/ m \in TraceCaps \/ m \in Data
                                     \/ m \in {"public_inputs", "final_poly", "pow_witness"}
  BY DEF Message, Caps
<1>14. \A m \in TraceCaps \cup Data \cup {"public_inputs", "final_poly", "pow_witness"} : v[m] = w[m]
  BY <1>7, <1>8, <1>9, <1>10 DEF TraceCaps, Data
<1>. QED  BY <1>8, <1>9, <1>12, <1>13, <1>14

-----------------------------------------------------------------------------
(* What the prover's search predicts.                                      *)

\* Runs that differ at most in what a search found.
Same(x, y) == x \in NativeState /\ y \in NativeState /\ x.c = y.c /\ x.drawn = y.drawn

LEMMA PartSame ==
    ASSUME NEW s, NEW t, Same(s, t), NEW m \in Challenge, NEW a \in Seq(VerifierOp)
    PROVE  LET x == Steps("native", s, a)
               y == Steps("native", t, a)
           IN  /\ Same(x, y) /\ x.lucky = s.lucky
               /\ ~(Draws(a, m) /\ a \in Seq(DrawOp)) /\ (a \in Seq(ObserveOp) \/ a \in Seq(DrawOp))
                    => x.drawn[m] = s.drawn[m]
<1> DEFINE n == Len(a)
           upto(j) == \E h \in 1 .. j : a[h] \in DrawOp /\ a[h].what = m
           S(j) == {z \in NativeState \X NativeState :
                      /\ Same(z[1], z[2]) /\ z[1].lucky = s.lucky
                      /\ ~upto(j) => z[1].drawn[m] = s.drawn[m]}
           R == [j \in 0 .. n |-> S(j)]
           x == Steps("native", s, a)
           y == Steps("native", t, a)
<1>1. n \in Nat /\ \A i \in 1 .. n : a[i] \in VerifierOp
  OBVIOUS
<1>2. 0 \in 0 .. n /\ n \in 0 .. n /\ \A i \in 1 .. n : i \in 0 .. n /\ i - 1 \in 0 .. n
  BY <1>1
<1>3. \A j \in 0 .. n : R[j] = S(j)
  OBVIOUS
<1>4. Len(a) = n
  OBVIOUS
<1> HIDE DEF R, n, upto
<1>5. <<s, t>> \in R[0]
  <2>1. <<s, t>> \in S(0)
    BY DEF Same
  <2>. QED  BY <1>2, <1>3, <2>1
<1>6. ASSUME NEW i \in 1 .. n, NEW u, NEW w, <<u, w>> \in R[i - 1]
      PROVE  <<Step("native", u, a[i]), Step("native", w, a[i])>> \in R[i]
  <2> DEFINE u2 == Step("native", u, a[i])
             w2 == Step("native", w, a[i])
             e == a[i].what
             p == Popped(Refilled(u.c))
  <2>1. upto(i - 1) => upto(i)
    <3>1. \A h \in 1 .. i - 1 : h \in 1 .. i
      BY <1>1
    <3>. QED  BY <3>1 DEF upto
  <2>2. e = m /\ a[i] \in DrawOp => upto(i)
    <3>1. i \in 1 .. i
      BY <1>1
    <3>. QED  BY <3>1 DEF upto
  <2>3. <<u, w>> \in S(i - 1)
    BY <1>2, <1>3, <1>6
  <2>4. /\ u \in NativeState /\ w \in NativeState /\ u.c = w.c /\ u.drawn = w.drawn
        /\ u.lucky = s.lucky /\ (~upto(i - 1) => u.drawn[m] = s.drawn[m])
    BY <2>3 DEF Same
  <2>5. a[i] \in ObserveOp \/ a[i] \in DrawOp
    BY <1>1 DEF VerifierOp
  <2>6. CASE a[i] \in ObserveOp
    <3>1. /\ u2 \in NativeState /\ u2.c = ObserveElement(u.c, e) /\ u2.drawn = u.drawn /\ u2.lucky = u.lucky
          /\ w2 \in NativeState /\ w2.c = ObserveElement(w.c, e) /\ w2.drawn = w.drawn
      BY <2>4, <2>6, NativeObserves
    <3> HIDE DEF u2, w2
    <3>2. <<u2, w2>> \in S(i)
      BY <2>1, <2>4, <3>1 DEF Same
    <3>3. <<u2, w2>> \in R[i]
      BY <1>2, <1>3, <3>2, SMTT(30)
    <3>. QED  BY <3>3 DEF u2, w2
  <2>7. CASE a[i] \in DrawOp
    <3>1. /\ u2 \in NativeState /\ u2.c = Pop(Refilled(u.c)) /\ u2.lucky = u.lucky
          /\ u2.drawn = [u.drawn EXCEPT ![e] = Append(@, p)]
      BY <2>4, <2>7, NativeDraws
    <3>2. /\ w2 \in NativeState /\ w2.c = Pop(Refilled(u.c))
          /\ w2.drawn = [u.drawn EXCEPT ![e] = Append(@, p)]
      BY <2>4, <2>7, NativeDraws
    <3> HIDE DEF u2, w2, e, p
    <3>3. u.drawn \in [Challenge -> Seq(Output)]
      BY <2>4 DEF NativeState, State
    <3>4. e # m => u2.drawn[m] = u.drawn[m]
      BY <3>1, <3>3
    <3>5. <<u2, w2>> \in S(i)
      BY <2>1, <2>2, <2>4, <2>7, <3>1, <3>2, <3>4 DEF Same, e
    <3>6. <<u2, w2>> \in R[i]
      BY <1>2, <1>3, <3>5
    <3>. QED  BY <3>6 DEF u2, w2
  <2>. QED  BY <2>5, <2>6, <2>7
<1>7. <<x, y>> \in R[n]
  BY <1>1, <1>4, <1>5, <1>6, StepsKeep
<1> HIDE DEF x, y
<1>8. <<x, y>> \in S(n)
  BY <1>2, <1>3, <1>7
<1>9. ~(Draws(a, m) /\ a \in Seq(DrawOp)) /\ (a \in Seq(ObserveOp) \/ a \in Seq(DrawOp)) => ~upto(n)
  <2>1. CASE a \in Seq(ObserveOp)
    <3>1. \A h \in 1 .. Len(a) : a[h] \in ObserveOp
      BY <2>1
    <3>. QED  BY <1>4, <3>1 DEF upto, ObserveOp, DrawOp
  <2>2. CASE ~Draws(a, m)
    BY <1>4, <2>2 DEF Draws, upto
  <2>. QED  BY <2>1, <2>2
<1>. QED  BY <1>8, <1>9 DEF x, y

\* A part that is one draw.
LEMMA OneDraw ==
    ASSUME NEW s \in NativeState, NEW m \in Challenge
    PROVE  LET x == Steps("native", s, Draw(m, 1))
           IN  x.lucky = s.lucky /\ x.drawn[m] = Append(s.drawn[m], Popped(Refilled(s.c)))
<1> DEFINE a == Draw(m, 1)
           p == Popped(Refilled(s.c))
<1>1. a \in Seq(DrawOp) /\ Len(a) = 1 /\ a[1] = [do |-> "draw", what |-> m]
  <2>1. 1 \in Nat /\ 1 \in 1 .. 1
    OBVIOUS
  <2>2. a \in Seq(DrawOp) /\ Len(a) = 1 /\ \A i \in 1 .. 1 : a[i] = [do |-> "draw", what |-> m]
    BY <2>1, DrawingPart
  <2> HIDE DEF a
  <2>. QED  BY <2>1, <2>2
<1> HIDE DEF a, p
<1>2. PICK f : StepsTo(f, "native", s, a, 1)
  BY <1>1, StepsAre
<1>3. Steps("native", s, a) = Step("native", s, a[1])
  <2>1. 1 \in 1 .. 1 /\ 1 - 1 = 0
    OBVIOUS
  <2>. QED  BY <1>2, <2>1 DEF StepsTo
<1>4. a[1] \in DrawOp /\ a[1].what = m
  BY <1>1
<1>5. /\ Step("native", s, a[1]).lucky = s.lucky
      /\ Step("native", s, a[1]).drawn = [s.drawn EXCEPT ![m] = Append(@, p)]
  BY <1>4, NativeDraws DEF p
<1>6. s.drawn \in [Challenge -> Seq(Output)]
  BY DEF NativeState, State
<1>. QED  BY <1>3, <1>5, <1>6 DEF a, p

\* What the search takes for the response is what the challenger yields once
\* the witness is observed.
LEMMA GrindingPredicts ==
    ASSUME NEW c \in Duplexed, NEW e \in Observed
    PROVE  GrindingOutput(c, e) = Popped(Refilled(ObserveElement(c, e)))
<1> DEFINE d == ObserveElement(c, e)
           b == Append(c.input, e)
<1>1. d \in Duplexed /\ c.input \in Seq(Observed)
  BY Observing DEF Duplexed, ChallengerState
<1>2. b \in Seq(Observed) /\ b # <<>>
  <2>1. b \in Seq(Observed) /\ Len(b) = Len(c.input) + 1
    BY <1>1, Grown1
  <2> HIDE DEF b
  <2>. QED  BY <1>1, <2>1
<1>3. GrindingOutput(c, e) = <<Append(c.sponge, b), RATE>>
  BY DEF GrindingOutput, OutputAt, Permute
<1>4. Refilled(d).sponge = Append(c.sponge, b) /\ Refilled(d).output = RATE
  <2>1. CASE Len(c.input) + 1 = RATE
    <3>1. d = [sponge |-> Append(c.sponge, b), input |-> <<>>, output |-> RATE]
      BY <2>1, Observing
    <3> HIDE DEF d
    <3>2. ~(d.input # <<>> \/ d.output = 0)
      BY <3>1, Sizes
    <3>3. Refilled(d) = d
      BY <1>1, <3>2, Refilling
    <3>4. d.sponge = Append(c.sponge, b) /\ d.output = RATE
      BY <3>1
    <3> HIDE DEF b
    <3>5. \A r : r = d => r.sponge = Append(c.sponge, b) /\ r.output = RATE
      BY <3>4
    <3>. QED  BY ONLY <3>3, <3>5
  <2>2. CASE Len(c.input) + 1 # RATE
    <3>1. d = [sponge |-> c.sponge, input |-> b, output |-> 0]
      BY <2>2, Observing
    <3> HIDE DEF d, b
    <3>2. Refilled(d) = [sponge |-> Append(d.sponge, d.input), input |-> <<>>, output |-> RATE]
      BY <1>1, <1>2, <3>1, Refilling
    <3>. QED  BY <3>1, <3>2
  <2>. QED  BY <2>1, <2>2
<1> HIDE DEF d, b
<1>5. Popped(Refilled(d)) = <<Refilled(d).sponge, Refilled(d).output>>
  BY DEF Popped, OutputAt
<1>. QED  BY <1>3, <1>4, <1>5 DEF d

\* The part of the search, and of the witness for a verifier.
LEMMA GrindingPart ==
    ASSUME NEW e \in Element
    PROVE  /\ Grind(<<e>>) \in Seq(Op) /\ Len(Grind(<<e>>)) = 2
           /\ Grind(<<e>>)[1] = [do |-> "grind", what |-> e]
           /\ Grind(<<e>>)[2] = [do |-> "observe", what |-> e]
           /\ Len(Observe(<<e>>)) = 1 /\ Observe(<<e>>)[1] = [do |-> "observe", what |-> e]
<1> DEFINE w == <<e>>
           g == [do |-> "grind", what |-> e]
           a == <<g>>
           b == Observe(w)
<1>1. e \in Observed
  BY DEF Observed
<1>2. w \in Seq(Observed) /\ Len(w) = 1 /\ w[1] = e /\ Head(w) = e
  BY <1>1
<1>3. b \in Seq(ObserveOp) /\ Len(b) = 1 /\ b[1] = [do |-> "observe", what |-> e]
  <2> HIDE DEF w
  <2>. QED  BY <1>2, ObservingPart
<1>4. g \in Op /\ Seq(ObserveOp) \subseteq Seq(Op)
  BY <1>1 DEF Op, GrindOp
<1>5. a \in Seq(Op) /\ Len(a) = 1 /\ a[1] = g
  BY <1>4
<1>6. Grind(w) = a \o b
  BY <1>2 DEF Grind
<1> HIDE DEF a, b, g
<1>7. b \in Seq(Op)
  BY <1>3, <1>4
<1>8. /\ a \o b \in Seq(Op) /\ Len(a \o b) = Len(a) + Len(b)
      /\ \A i \in 1 .. Len(a) : (a \o b)[i] = a[i]
      /\ \A i \in 1 .. Len(b) : (a \o b)[Len(a) + i] = b[i]
  BY <1>5, <1>7, Joined
<1>9. (a \o b)[1] = g /\ (a \o b)[2] = b[1]
  <2>1. 1 \in 1 .. Len(a) /\ 1 \in 1 .. Len(b) /\ Len(a) + 1 = 2
    BY <1>3, <1>5
  <2>. QED  BY <1>5, <1>8, <2>1
<1>10. Len(Grind(w)) = 2
  <2>1. Len(a) + Len(b) = 2
    BY <1>3, <1>5
  <2>. QED  BY <1>6, <1>8, <2>1
<1>11. Grind(w) \in Seq(Op) /\ Grind(w)[1] = g /\ Grind(w)[2] = b[1]
  BY <1>6, <1>8, <1>9
<1>. QED  BY <1>3, <1>10, <1>11 DEF b, g

\* The search leaves the challenger as the verifiers have it.
LEMMA PartGround ==
    ASSUME NEW s, NEW t, Same(s, t), NEW e \in Element
    PROVE  LET x == Steps("native", s, Grind(<<e>>))
               y == Steps("native", t, Observe(<<e>>))
           IN  /\ Same(x, y) /\ x.drawn = s.drawn /\ x.lucky = Popped(Refilled(x.c))
<1> DEFINE a == Grind(<<e>>)
           b == Observe(<<e>>)
<1>1. /\ Len(a) = 2 /\ a[1] = [do |-> "grind", what |-> e] /\ a[2] = [do |-> "observe", what |-> e]
      /\ Len(b) = 1 /\ b[1] = [do |-> "observe", what |-> e]
  BY GrindingPart
<1> HIDE DEF a, b
<1>2. PICK f : StepsTo(f, "native", s, a, 2)
  BY <1>1, StepsAre
<1>3. PICK g : StepsTo(g, "native", t, b, 1)
  BY <1>1, StepsAre
<1>4. /\ f[1] = Step("native", s, a[1]) /\ Steps("native", s, a) = Step("native", f[1], a[2])
      /\ Steps("native", t, b) = Step("native", t, b[1])
  <2>1. 1 \in 1 .. 1 /\ 1 \in 1 .. 2 /\ 2 \in 1 .. 2 /\ 1 - 1 = 0 /\ 2 - 1 = 1
    OBVIOUS
  <2>. QED  BY <1>2, <1>3, <2>1 DEF StepsTo
<1>5. e \in Observed /\ s \in NativeState /\ t \in NativeState /\ s.c = t.c /\ s.drawn = t.drawn
      /\ s.c \in Duplexed
  BY DEF Observed, Same, NativeState
<1>6. a[1] \in GrindOp /\ a[1].what = e /\ a[2] \in ObserveOp /\ a[2].what = e
      /\ b[1] \in ObserveOp /\ b[1].what = e
  BY <1>1, <1>5 DEF GrindOp, ObserveOp
<1> DEFINE u == f[1]
           x == Step("native", u, a[2])
           y == Step("native", t, b[1])
<1>7. u \in NativeState /\ u.c = s.c /\ u.drawn = s.drawn /\ u.lucky = GrindingOutput(s.c, e)
  BY <1>4, <1>5, <1>6, NativeGrinds
<1> HIDE DEF u
<1>8. x \in NativeState /\ x.c = ObserveElement(s.c, e) /\ x.drawn = s.drawn /\ x.lucky = u.lucky
  BY <1>6, <1>7, NativeObserves
<1>9. y \in NativeState /\ y.c = ObserveElement(s.c, e) /\ y.drawn = s.drawn
  BY <1>5, <1>6, NativeObserves
<1> HIDE DEF x, y
<1>10. Same(x, y) /\ x.drawn = s.drawn /\ x.lucky = Popped(Refilled(x.c))
  BY <1>5, <1>7, <1>8, <1>9, GrindingPredicts DEF Same
<1>. QED  BY <1>4, <1>10 DEF a, b, u, x, y

\* The prover draws what the verifier of its proof draws, and the response
\* that its search took for the witness's.
LEMMA ProverPredicts ==
    ASSUME NEW p \in Params, NEW v, NEW b, AsLong(p, v, b, v, b), Len(v["pow_witness"]) = 1
    PROVE  LET x == Run("native", Written(p, v, b, Grind(v["pow_witness"])))
               y == Run("native", CircuitTranscript(p, v, b))
           IN  Same(x, y) /\ x.drawn["pow_response"] = <<x.lucky>>
<1> DEFINE w == v["pow_witness"]
           s == p.steps
           n == 16 + 2 * s
           m == "pow_response"
           P == Written(p, v, b, Grind(w))
           Q == CircuitTranscript(p, v, b)
           S(j) == {z \in NativeState \X NativeState :
                      /\ Same(z[1], z[2])
                      /\ j <= 14 + 2 * s => z[1].drawn[m] = <<>>
                      /\ j = 14 + 2 * s => z[1].lucky = Popped(Refilled(z[1].c))
                      /\ j >= 15 + 2 * s => z[1].drawn[m] = <<z[1].lucky>>}
           R == [j \in 0 .. n |-> S(j)]
           x == Run("native", P)
           y == Run("native", Q)
<1>1. s \in Nat /\ n \in Nat /\ 0 \in 0 .. n /\ n \in 0 .. n /\ n = 16 + 2 * s
  BY Named
<1>2. Given(v, b) /\ w \in Seq(Element)
  BY Named DEF AsLong, Given
<1>3. PICK e \in Element : w = <<e>>
  <2> DEFINE u == w
  <2>1. u \in Seq(Element) /\ Len(u) = 1
    BY <1>2
  <2> HIDE DEF u
  <2>2. u[1] \in Element /\ u = <<u[1]>>
    BY <2>1
  <2>. QED  BY <2>2 DEF u
<1>4. /\ Grind(w) \in Seq(Op) /\ Observe(w) \in Seq(VerifierOp) /\ Seq(VerifierOp) \subseteq Seq(Op)
  <2>1. VerifierOp \subseteq Op
    BY DEF VerifierOp, Op
  <2>2. Grind(w) \in Seq(Op)
    BY <1>3, GrindingPart
  <2>3. w \in Seq(Observed)
    BY <1>2, ElementsObserved
  <2> HIDE DEF w
  <2>4. Observe(w) \in Seq(VerifierOp)
    BY <1>2, <2>3, Parts
  <2>5. Seq(VerifierOp) \subseteq Seq(Op)
    BY <2>1
  <2>. QED  BY <2>2, <2>4, <2>5
<1>5. LaidOut(Q, p, v, b)
  BY <1>2, Layout, Named
<1>6. LaidOutOf(P, Seq(Op), p, v, b, Grind(w))
  <2> DEFINE g == Grind(w)
             T == Seq(Op)
  <2>1. g \in T /\ Seq(VerifierOp) \subseteq T
    BY <1>4
  <2> HIDE DEF g, T
  <2>2. LaidOutOf(Written(p, v, b, g), T, p, v, b, g)
    BY <1>2, <2>1, WrittenIs, Named
  <2>. QED  BY <2>2 DEF g, T
<1>7. Len(P) = n /\ Len(Q) = n
  BY <1>5, <1>6 DEF LaidOut, LaidOutOf
<1> HIDE DEF P, Q
<1>8. \A i \in 1 .. n : i # 14 + 2 * s => P[i] = Q[i]
  <2>1. /\ \A i \in {1, 2, 3, 4, 5, 6, 7, 8, 9, 10, 11, 12} : P[i] = Q[i]
        /\ \A k \in 1 .. s : P[11 + 2 * k] = Q[11 + 2 * k] /\ P[12 + 2 * k] = Q[12 + 2 * k]
        /\ P[13 + 2 * s] = Q[13 + 2 * s] /\ P[15 + 2 * s] = Q[15 + 2 * s]
        /\ P[16 + 2 * s] = Q[16 + 2 * s]
    BY <1>5, <1>6, ZenonT(30) DEF LaidOut, LaidOutOf
  <2>2. ASSUME NEW i \in 1 .. n, i # 14 + 2 * s PROVE P[i] = Q[i]
    <3>1. \/ i \in {1, 2, 3, 4, 5, 6, 7, 8, 9, 10, 11, 12}
          \/ \E k \in 1 .. s : i = 11 + 2 * k \/ i = 12 + 2 * k
          \/ i \in {13 + 2 * s, 14 + 2 * s, 15 + 2 * s, 16 + 2 * s}
      BY <1>1, Places
    <3>. QED  BY <2>1, <2>2, <3>1
  <2>. QED  BY <2>2
<1>9. P[14 + 2 * s] = Grind(w) /\ Q[14 + 2 * s] = Observe(w) /\ P[15 + 2 * s] = Draw(m, 1)
  BY <1>5, <1>6 DEF LaidOut, LaidOutOf
<1>10. ASSUME NEW i \in 1 .. n
       PROVE  /\ Q[i] \in Seq(VerifierOp)
              /\ Q[i] \in Seq(ObserveOp) \/ Q[i] \in Seq(DrawOp)
              /\ Draws(Q[i], m) /\ Q[i] \in Seq(DrawOp) => i = 15 + 2 * s
  <2>1. Aligned(Q[i], Q[i])
    BY <1>1, <1>5, AllAligned, Named
  <2>2. Q[i] \in Seq(ObserveOp) \/ Q[i] \in Seq(DrawOp)
    BY <2>1 DEF Aligned
  <2>3. Seq(ObserveOp) \subseteq Seq(VerifierOp) /\ Seq(DrawOp) \subseteq Seq(VerifierOp)
    BY DEF VerifierOp
  <2>4. ASSUME Draws(Q[i], m), Q[i] \in Seq(DrawOp) PROVE i = 15 + 2 * s
    <3>1. m \in PlonkChallenges /\ m \in Challenge
      BY Named DEF PlonkChallenges
    <3>2. \A k \in 1 .. s : m # FriBeta[k]
      <4>1. \A k \in 1 .. s : FriBeta[k] \in ToSet(FriBeta)
        BY Named, NameAssumption DEF ToSet
      <4>. QED  BY <3>1, <4>1, NameAssumption
    <3>3. \/ i \in {3, 4, 5} /\ m \in {"betas", "gammas", "deltas"}
          \/ i = 7 /\ m = "alphas"
          \/ i = 9 /\ m = "zeta"
          \/ i = 12 /\ m = "fri_alpha"
          \/ \E k \in 1 .. s : i = 12 + 2 * k /\ m = FriBeta[k]
          \/ i = 15 + 2 * s /\ m = "pow_response"
          \/ i = 16 + 2 * s /\ m = "query_indices"
      <4> HIDE DEF m
      <4>. QED  BY <1>1, <1>2, <1>5, <2>4, <3>1, DrawnAt, Named
    <3>. QED  BY <3>2, <3>3
  <2>. QED  BY <2>2, <2>3, <2>4
<1>11. \A j \in 0 .. n : R[j] = S(j)
  OBVIOUS
<1>12. m \in Challenge
  BY Named DEF PlonkChallenges
<1> HIDE DEF R, n, m, w
<1>13. <<Start, Start>> \in R[0]
  <2>1. Start \in NativeState /\ Start.drawn[m] = <<>>
    BY <1>12, StartTyped DEF Start
  <2>2. 0 <= 14 + 2 * s /\ ~(0 = 14 + 2 * s) /\ ~(0 >= 15 + 2 * s)
    BY <1>1
  <2>3. <<Start, Start>> \in S(0)
    BY <2>1, <2>2 DEF Same
  <2>. QED  BY <1>1, <1>11, <2>3
<1>14. ASSUME NEW i \in 1 .. n, NEW t, NEW u, <<t, u>> \in R[i - 1]
       PROVE  <<Steps("native", t, P[i]), Steps("native", u, Q[i])>> \in R[i]
  <2> DEFINE a == Steps("native", t, P[i])
             c == Steps("native", u, Q[i])
  <2>1. i \in 0 .. n /\ i - 1 \in 0 .. n /\ i \in Nat
    BY <1>1
  <2>2. <<t, u>> \in S(i - 1)
    BY <1>11, <1>14, <2>1
  <2>3. /\ Same(t, u) /\ t \in NativeState
        /\ i - 1 <= 14 + 2 * s => t.drawn[m] = <<>>
        /\ i - 1 = 14 + 2 * s => t.lucky = Popped(Refilled(t.c))
        /\ i - 1 >= 15 + 2 * s => t.drawn[m] = <<t.lucky>>
    BY <2>2
  <2>4. <<a, c>> \in S(i)
    <3>1. CASE i = 14 + 2 * s
      <4>1. P[i] = Grind(<<e>>) /\ Q[i] = Observe(<<e>>)
        BY <1>3, <1>9, <3>1
      <4>2. Same(a, c) /\ a.drawn = t.drawn /\ a.lucky = Popped(Refilled(a.c))
        BY <2>3, <4>1, PartGround
      <4> HIDE DEF a, c
      <4>3. a.drawn[m] = <<>> /\ ~(i >= 15 + 2 * s)
        BY <1>1, <2>1, <2>3, <3>1, <4>2
      <4>. QED  BY <4>2, <4>3 DEF Same
    <3>2. CASE i = 15 + 2 * s
      <4>1. P[i] = Draw(m, 1) /\ Q[i] = P[i] /\ Q[i] \in Seq(VerifierOp)
        BY <1>1, <1>8, <1>9, <1>10, <3>2
      <4> DEFINE q == Q[i]
      <4>2. q \in Seq(VerifierOp)
        BY <4>1
      <4> HIDE DEF q
      <4>3. Same(Steps("native", t, q), Steps("native", u, q))
        BY <1>12, <2>3, <4>2, PartSame
      <4>4. a.lucky = t.lucky /\ a.drawn[m] = Append(t.drawn[m], Popped(Refilled(t.c)))
        BY <1>12, <2>3, <4>1, OneDraw
      <4>5. Same(a, c)
        BY <4>1, <4>3 DEF q
      <4> HIDE DEF a, c
      <4>6. t.drawn[m] = <<>> /\ t.lucky = Popped(Refilled(t.c)) /\ ~(i <= 14 + 2 * s)
        BY <1>1, <2>1, <2>3, <3>2
      <4>7. a.drawn[m] = <<a.lucky>>
        BY <4>4, <4>6
      <4>. QED  BY <3>2, <4>5, <4>6, <4>7 DEF Same
    <3>3. CASE i # 14 + 2 * s /\ i # 15 + 2 * s
      <4> DEFINE q == Q[i]
      <4>1. P[i] = q /\ q \in Seq(VerifierOp)
            /\ ~(Draws(q, m) /\ q \in Seq(DrawOp)) /\ (q \in Seq(ObserveOp) \/ q \in Seq(DrawOp))
        BY <1>8, <1>10, <3>3
      <4> HIDE DEF q
      <4>2. LET g == Steps("native", t, q)
                h == Steps("native", u, q)
            IN  Same(g, h) /\ g.lucky = t.lucky /\ g.drawn[m] = t.drawn[m]
        BY <1>12, <2>3, <4>1, PartSame
      <4>3. Same(a, c) /\ a.lucky = t.lucky /\ a.drawn[m] = t.drawn[m]
        BY <4>1, <4>2 DEF q
      <4> HIDE DEF a, c
      <4>4. /\ i <= 14 + 2 * s => i - 1 <= 14 + 2 * s
            /\ i >= 15 + 2 * s => i - 1 >= 15 + 2 * s
        BY <1>1, <2>1, <3>3
      <4>5. /\ i <= 14 + 2 * s => a.drawn[m] = <<>>
            /\ i >= 15 + 2 * s => a.drawn[m] = <<a.lucky>>
        BY <2>3, <4>3, <4>4
      <4>. QED  BY <3>3, <4>3, <4>5 DEF Same
    <3>. QED  BY <3>1, <3>2, <3>3
  <2>. QED  BY <1>11, <2>1, <2>4
<1>15. <<x, y>> \in R[n]
  BY <1>1, <1>7, <1>13, <1>14, RunKeeps
<1> HIDE DEF x, y
<1>16. <<x, y>> \in S(n)
  BY <1>1, <1>11, <1>15
<1>17. n >= 15 + 2 * s
  BY <1>1
<1>18. Same(x, y) /\ x.drawn[m] = <<x.lucky>>
  BY <1>16, <1>17
<1>. QED  BY <1>18 DEF x, y, P, Q, m, w

\* What a transcript draws last it has drawn.
LEMMA DrawsSome ==
    ASSUME NEW s \in NativeState, NEW m \in Challenge, NEW k \in Nat, k # 0
    PROVE  Steps("native", s, Draw(m, k)).drawn[m] # <<>>
<1> DEFINE a == Draw(m, k)
           S(j) == {z \in NativeState \X NativeState : j = k => z[1].drawn[m] # <<>>}
           R == [j \in 0 .. k |-> S(j)]
           x == Steps("native", s, a)
<1>1. 0 \in 0 .. k /\ k \in 0 .. k /\ \A i \in 1 .. k : i \in 0 .. k /\ i - 1 \in 0 .. k
  OBVIOUS
<1>2. Len(a) = k /\ \A i \in 1 .. k : a[i] \in DrawOp /\ a[i].what = m
  <2>1. Len(a) = k /\ \A i \in 1 .. k : a[i] = [do |-> "draw", what |-> m]
    BY DrawingPart
  <2> HIDE DEF a
  <2>. QED  BY <2>1 DEF DrawOp
<1>3. \A j \in 0 .. k : R[j] = S(j)
  OBVIOUS
<1> HIDE DEF R, a
<1>4. <<s, s>> \in R[0]
  <2>1. <<s, s>> \in S(0)
    OBVIOUS
  <2>. QED  BY <1>1, <1>3, <2>1
<1>5. ASSUME NEW i \in 1 .. k, NEW u, NEW w, <<u, w>> \in R[i - 1]
      PROVE  <<Step("native", u, a[i]), Step("native", w, a[i])>> \in R[i]
  <2> DEFINE u2 == Step("native", u, a[i])
             w2 == Step("native", w, a[i])
             o == Popped(Refilled(u.c))
             old == u.drawn[m]
  <2>1. u \in NativeState /\ w \in NativeState
    BY <1>1, <1>3, <1>5
  <2>2. /\ u2 \in NativeState /\ w2 \in NativeState
        /\ u2.drawn = [u.drawn EXCEPT ![m] = Append(@, o)]
    <3> DEFINE op == a[i]
    <3>1. op \in DrawOp /\ op.what = m
      BY <1>2
    <3> HIDE DEF op
    <3>2. /\ Step("native", u, op) \in NativeState /\ Step("native", w, op) \in NativeState
          /\ Step("native", u, op).drawn = [u.drawn EXCEPT ![op.what] = Append(@, o)]
      BY <2>1, <3>1, NativeDraws
    <3>. QED  BY <3>1, <3>2 DEF op
  <2>3. u.drawn \in [Challenge -> Seq(Output)] /\ old \in Seq(Output)
    BY <2>1 DEF NativeState, State
  <2>4. o \in Output
    <3>1. u.c \in Duplexed
      BY <2>1 DEF NativeState
    <3>. QED  BY <3>1, DrawnOlder
  <2> HIDE DEF u2, w2, o
  <2>5. u2.drawn[m] = Append(old, o)
    BY <2>2, <2>3
  <2> HIDE DEF old
  <2>6. Append(old, o) # <<>>
    <3>1. Len(Append(old, o)) = Len(old) + 1
      BY <2>3, <2>4, Grown1
    <3>2. Len(old) \in Nat
      BY <2>3
    <3>. QED  BY <3>1, <3>2
  <2>7. <<u2, w2>> \in S(i)
    BY <2>2, <2>5, <2>6
  <2>8. <<u2, w2>> \in R[i]
    BY <1>1, <1>3, <2>7
  <2>. QED  BY <2>8 DEF u2, w2
<1>6. <<x, x>> \in R[k]
  BY <1>2, <1>4, <1>5, StepsKeep
<1> HIDE DEF x
<1>7. <<x, x>> \in S(k)
  BY <1>1, <1>3, <1>6
<1>. QED  BY <1>7 DEF x, a

\* A transcript draws query indices.
LEMMA QueriesDrawn ==
    ASSUME NEW p, Stepped(p), NEW v, NEW b, Given(v, b)
    PROVE  /\ CircuitTranscript(p, v, b) \in Seq(Seq(VerifierOp))
           /\ Run("native", CircuitTranscript(p, v, b)) \in NativeState
           /\ Run("native", CircuitTranscript(p, v, b)).drawn["query_indices"] # <<>>
<1> DEFINE s == p.steps
           n == 16 + 2 * s
           m == "query_indices"
           P == CircuitTranscript(p, v, b)
           S(j) == {z \in NativeState \X NativeState : j = n => z[1].drawn[m] # <<>>}
           R == [j \in 0 .. n |-> S(j)]
           x == Run("native", P)
<1>1. /\ s \in Nat /\ n \in Nat /\ n # 0 /\ 0 \in 0 .. n /\ n \in 0 .. n
      /\ \A i \in 1 .. n : i \in 0 .. n /\ i - 1 \in 0 .. n
  BY Named DEF Stepped
<1>2. LaidOut(P, p, v, b)
  BY Layout
<1>3. P \in Seq(Seq(VerifierOp)) /\ Len(P) = n /\ P[n] = Draw(m, NumQueries)
  BY <1>2 DEF LaidOut, LaidOutOf
<1>4. \A i \in 1 .. n : P[i] \in Seq(VerifierOp)
  <2> DEFINE T == Seq(VerifierOp)
  <2>1. P \in Seq(T)
    BY <1>3
  <2> HIDE DEF T, P
  <2>2. \A i \in 1 .. n : P[i] \in T
    BY <1>3, <2>1
  <2>. QED  BY <2>2 DEF T
<1>5. \A j \in 0 .. n : R[j] = S(j)
  OBVIOUS
<1>6. m \in Challenge /\ NumQueries \in Nat /\ NumQueries # 0
  BY Named, Sizes DEF PlonkChallenges
<1> HIDE DEF R, P, m, n
<1>7. <<Start, Start>> \in R[0]
  <2>1. <<Start, Start>> \in S(0)
    BY <1>1, StartTyped
  <2>. QED  BY <1>1, <1>5, <2>1
<1>8. ASSUME NEW i \in 1 .. n, NEW u, NEW w, <<u, w>> \in R[i - 1]
      PROVE  <<Steps("native", u, P[i]), Steps("native", w, P[i])>> \in R[i]
  <2> DEFINE a == P[i]
             u2 == Steps("native", u, a)
             w2 == Steps("native", w, a)
  <2>1. u \in NativeState /\ w \in NativeState
    BY <1>1, <1>5, <1>8
  <2>2. a \in Seq(VerifierOp) /\ (i = n => a = Draw(m, NumQueries))
    BY <1>3, <1>4
  <2> HIDE DEF a
  <2>3. u2 \in NativeState /\ w2 \in NativeState
    <3>1. \A y \in NativeState : \A op \in VerifierOp : Step("native", y, op) \in NativeState
      BY StepTyped DEF Op, VerifierOp
    <3>. QED  BY <2>1, <2>2, <3>1, StepsStay
  <2>4. i = n => u2.drawn[m] # <<>>
    BY <1>6, <2>1, <2>2, DrawsSome
  <2> HIDE DEF u2, w2
  <2>5. <<u2, w2>> \in S(i)
    BY <2>3, <2>4
  <2>6. <<u2, w2>> \in R[i]
    BY <1>1, <1>5, <2>5
  <2>. QED  BY <2>6 DEF u2, w2, a
<1>9. <<x, x>> \in R[n]
  BY <1>1, <1>3, <1>7, <1>8, RunKeeps
<1> HIDE DEF x
<1>10. <<x, x>> \in S(n)
  BY <1>1, <1>5, <1>9
<1>. QED  BY <1>3, <1>10 DEF x, P, m

-----------------------------------------------------------------------------
(* How much a challenger was fed.                                          *)

\* The elements of the blocks of a sponge.
Weight(q) ==
    LET w[k \in 0 .. Len(q)] == IF k = 0 THEN 0 ELSE w[k - 1] + Len(q[k])
    IN  w[Len(q)]

IsWeighing(f, q, n) ==
    f = [k \in 0 .. n |-> IF k = 0 THEN 0 ELSE f[k - 1] + Len(q[k])]

\* Weight is defined by such a function.
LEMMA WeighingExists ==
    ASSUME NEW q, NEW n \in Nat
    PROVE  \E f : IsWeighing(f, q, n)
<1> DEFINE With == {m \in Nat : \E f : IsWeighing(f, q, m)}
<1>1. 0 \in With
  <2> DEFINE g == [i \in 0 .. 0 |-> 0]
  <2>1. g = [i \in 0 .. 0 |-> IF i = 0 THEN 0 ELSE g[i - 1] + Len(q[i])]
    OBVIOUS
  <2> HIDE DEF g
  <2>. QED  BY <2>1 DEF IsWeighing
<1>2. ASSUME NEW m \in 1 .. n, m - 1 \in With PROVE m \in With
  <2>1. PICK f : IsWeighing(f, q, m - 1)
    BY <1>2
  <2> DEFINE step(h, k) == IF k = 0 THEN 0 ELSE h[k - 1] + Len(q[k])
             g == [k \in 0 .. m |-> IF k < m THEN f[k] ELSE step(f, m)]
  <2>2. \A k \in 0 .. m - 1 : f[k] = step(f, k)
    BY <2>1 DEF IsWeighing
  <2>3. \A k \in 0 .. m : g[k] = step(g, k)
    <3> TAKE k \in 0 .. m
    <3>1. k = 0 \/ (k - 1 \in 0 .. m /\ k - 1 < m /\ k # 0)
      OBVIOUS
    <3>2. CASE k < m
      <4>1. k \in 0 .. m - 1
        BY <3>2
      <4>. QED  BY <2>2, <3>1, <3>2, <4>1
    <3>3. CASE k = m
      BY <3>1, <3>3
    <3>. QED  BY <3>2, <3>3
  <2>4. g = [k \in 0 .. m |-> g[k]]
    OBVIOUS
  <2> HIDE DEF g
  <2>5. IsWeighing(g, q, m)
    BY <2>3, <2>4 DEF IsWeighing
  <2>. QED  BY <2>5
<1> HIDE DEF With
<1>3. n \in With
  BY <1>1, <1>2, Counting
<1>. QED  BY <1>3 DEF With

\* The weights of the beginnings of a sponge.
Weighed(f, q, n) ==
    /\ f[0] = 0 /\ Weight(q) = f[n] /\ \A k \in 0 .. n : f[k] \in Nat
    /\ \A k \in 1 .. n : f[k] = f[k - 1] + Len(q[k])

LEMMA Weighing ==
    ASSUME NEW q \in Seq(Seq(Observed))
    PROVE  \E f : Weighed(f, q, Len(q))
<1> DEFINE n == Len(q)
           f == CHOOSE g : IsWeighing(g, q, n)
           T == {k \in 0 .. n : f[k] \in Nat}
<1>1. n \in Nat /\ \A k \in 1 .. n : Len(q[k]) \in Nat
  <2> DEFINE S == Seq(Observed)
  <2>1. q \in Seq(S)
    OBVIOUS
  <2> HIDE DEF S
  <2>2. \A k \in 1 .. n : q[k] \in S
    BY <2>1
  <2>3. \A x \in S : Len(x) \in Nat
    BY DEF S
  <2>. QED  BY <2>1, <2>2, <2>3
<1>2. IsWeighing(f, q, n)
  BY <1>1, WeighingExists
<1>3. Weight(q) = f[n]
  BY DEF Weight, IsWeighing
<1> HIDE DEF f, n
<1>4. f[0] = 0 /\ \A k \in 1 .. n : f[k] = f[k - 1] + Len(q[k])
  BY <1>1, <1>2 DEF IsWeighing
<1>5. 0 \in T
  BY <1>1, <1>4
<1>6. \A k \in 1 .. n : k - 1 \in T => k \in T
  BY <1>1, <1>4
<1> HIDE DEF T
<1>7. \A k \in 0 .. n : k \in T
  BY <1>1, <1>5, <1>6, Counting
<1>. QED  BY <1>3, <1>4, <1>7 DEF Weighed, T, n

\* A block more adds its elements.
LEMMA Weighs ==
    ASSUME NEW q \in Seq(Seq(Observed)), NEW b \in Seq(Observed)
    PROVE  Weight(q) \in Nat /\ Len(b) \in Nat /\ Weight(Append(q, b)) = Weight(q) + Len(b)
<1> DEFINE n == Len(q)
           r == Append(q, b)
<1>1. n \in Nat /\ Len(b) \in Nat
  OBVIOUS
<1>2. r \in Seq(Seq(Observed)) /\ Len(r) = n + 1 /\ r[n + 1] = b /\ \A k \in 1 .. n : r[k] = q[k]
  <2> DEFINE S == Seq(Observed)
  <2>1. q \in Seq(S) /\ b \in S
    OBVIOUS
  <2> HIDE DEF S
  <2>2. r \in Seq(S) /\ Len(r) = n + 1 /\ r[n + 1] = b /\ \A k \in 1 .. n : r[k] = q[k]
    BY <2>1, Grown1
  <2>. QED  BY <2>2 DEF S
<1> HIDE DEF n, r
<1>3. PICK f : Weighed(f, q, n)
  BY Weighing DEF n
<1>4. PICK g : Weighed(g, r, n + 1)
  BY <1>2, Weighing
<1> DEFINE T == {k \in 0 .. n : f[k] = g[k]}
<1>5. 0 \in T
  BY <1>1, <1>3, <1>4 DEF Weighed
<1>6. \A k \in 1 .. n : k - 1 \in T => k \in T
  <2>1. \A k \in 1 .. n : k \in 1 .. n + 1
    BY <1>1
  <2>2. \A k \in 1 .. n : f[k] = f[k - 1] + Len(q[k]) /\ g[k] = g[k - 1] + Len(r[k])
    BY <1>3, <1>4, <2>1 DEF Weighed
  <2>. QED  BY <1>2, <2>2
<1> HIDE DEF T
<1>7. n \in T
  <2>1. \A k \in 0 .. n : k \in T
    BY <1>1, <1>5, <1>6, Counting
  <2>2. n \in 0 .. n
    BY <1>1
  <2>. QED  BY <2>1, <2>2
<1>8. g[n + 1] = g[n] + Len(b)
  <2>1. n + 1 \in 1 .. n + 1 /\ (n + 1) - 1 = n
    BY <1>1
  <2>2. g[n + 1] = g[(n + 1) - 1] + Len(r[n + 1])
    BY <1>4, <2>1 DEF Weighed
  <2>. QED  BY <1>2, <2>1, <2>2
<1>9. n \in 0 .. n
  BY <1>1
<1>. QED  BY <1>1, <1>3, <1>4, <1>7, <1>8, <1>9 DEF Weighed, T, r

\* The elements that a challenger was fed: those it absorbed, and its input.
Fed(c) == Weight(c.sponge) + Len(c.input)

\* Observing feeds one element.
LEMMA FedObserving ==
    ASSUME NEW c \in Duplexed, NEW e \in Observed
    PROVE  Fed(c) \in Nat /\ Fed(ObserveElement(c, e)) = Fed(c) + 1
<1> DEFINE b == Append(c.input, e)
           d == ObserveElement(c, e)
<1>1. c.sponge \in Seq(Seq(Observed)) /\ c.input \in Seq(Observed)
  BY DEF Duplexed, ChallengerState
<1>2. b \in Seq(Observed) /\ Len(b) = Len(c.input) + 1
  BY <1>1, Grown1
<1> HIDE DEF b
<1>3. /\ Weight(c.sponge) \in Nat /\ Len(c.input) \in Nat
      /\ Weight(Append(c.sponge, b)) = Weight(c.sponge) + Len(b)
  BY <1>1, <1>2, Weighs
<1>4. CASE Len(c.input) + 1 = RATE
  <2>1. d = [sponge |-> Append(c.sponge, b), input |-> <<>>, output |-> RATE]
    BY <1>4, Observing DEF b
  <2> HIDE DEF d
  <2>2. Fed(d) = Weight(Append(c.sponge, b))
    <3>1. d.sponge = Append(c.sponge, b) /\ Len(d.input) = 0
      BY <2>1
    <3>2. Weight(Append(c.sponge, b)) \in Nat
      BY <1>2, <1>3
    <3>. QED  BY <3>1, <3>2 DEF Fed
  <2>. QED  BY <1>2, <1>3, <2>2 DEF Fed, d
<1>5. CASE Len(c.input) + 1 # RATE
  <2>1. d = [sponge |-> c.sponge, input |-> b, output |-> 0]
    BY <1>5, Observing DEF b
  <2> HIDE DEF d
  <2>2. Fed(d) = Weight(c.sponge) + Len(b)
    BY <2>1 DEF Fed
  <2>. QED  BY <1>2, <1>3, <2>2 DEF Fed, d
<1>. QED  BY <1>3, <1>4, <1>5 DEF Fed

\* Drawing feeds none, and yields an output of all that was fed.
LEMMA FedDrawing ==
    ASSUME NEW c \in Duplexed
    PROVE  /\ Fed(c) \in Nat /\ Fed(Pop(Refilled(c))) = Fed(c)
           /\ Weight(Popped(Refilled(c))[1]) = Fed(c)
<1> DEFINE r == Refilled(c)
<1>1. c.sponge \in Seq(Seq(Observed)) /\ c.input \in Seq(Observed)
  BY DEF Duplexed, ChallengerState
<1>2. /\ Weight(c.sponge) \in Nat /\ Len(c.input) \in Nat
      /\ Weight(Append(c.sponge, c.input)) = Weight(c.sponge) + Len(c.input)
  BY <1>1, Weighs
<1>3. r \in Duplexed /\ r.input = <<>> /\ r.output \in 1 .. RATE
  BY Refilling
<1>4. Weight(r.sponge) = Fed(c)
  <2>1. CASE c.input # <<>> \/ c.output = 0
    <3>1. r = [sponge |-> Append(c.sponge, c.input), input |-> <<>>, output |-> RATE]
      BY <2>1, Refilling
    <3> HIDE DEF r
    <3>2. r.sponge = Append(c.sponge, c.input)
      BY <3>1
    <3>. QED  BY <1>2, <3>2 DEF Fed
  <2>2. CASE ~(c.input # <<>> \/ c.output = 0)
    <3>1. r = c
      BY <2>2, Refilling
    <3> HIDE DEF r
    <3>2. Len(c.input) = 0
      BY <2>2
    <3>. QED  BY <1>2, <3>1, <3>2 DEF Fed
  <2>. QED  BY <2>1, <2>2
<1> HIDE DEF r
<1>5. r \in ChallengerState
  BY <1>3 DEF Duplexed
<1>6. /\ Pop(r) = [sponge |-> r.sponge, input |-> r.input, output |-> r.output - 1]
      /\ Popped(r) = <<r.sponge, r.output>>
  BY <1>3, <1>5, Popping
<1>7. Popped(r)[1] = r.sponge
  BY <1>6
<1>8. Fed(Pop(r)) = Weight(r.sponge) + Len(<<>>)
  BY <1>3, <1>6 DEF Fed
<1>9. Fed(c) \in Nat
  BY <1>2 DEF Fed
<1>. QED  BY <1>4, <1>7, <1>8, <1>9 DEF r

\* What a part feeds: as much as it observes.
LEMMA PartFeeds ==
    ASSUME NEW s \in NativeState, NEW a \in Seq(ObserveOp)
    PROVE  /\ Steps("native", s, a) \in NativeState
           /\ Fed(s.c) \in Nat /\ Fed(Steps("native", s, a).c) = Fed(s.c) + Len(a)
<1> DEFINE n == Len(a)
           S(j) == {z \in NativeState \X NativeState : Fed(z[1].c) = Fed(s.c) + j}
           R == [j \in 0 .. n |-> S(j)]
           x == Steps("native", s, a)
<1>1. n \in Nat /\ \A i \in 1 .. n : a[i] \in ObserveOp
  OBVIOUS
<1>2. 0 \in 0 .. n /\ n \in 0 .. n /\ \A i \in 1 .. n : i \in 0 .. n /\ i - 1 \in 0 .. n
  BY <1>1
<1>3. \A j \in 0 .. n : R[j] = S(j)
  OBVIOUS
<1>4. Len(a) = n
  OBVIOUS
<1>5. \A u \in NativeState : u.c \in Duplexed /\ Fed(u.c) \in Nat
  BY FedDrawing DEF NativeState
<1> HIDE DEF R, n
<1>6. <<s, s>> \in R[0]
  <2>1. <<s, s>> \in S(0)
    BY <1>5
  <2>. QED  BY <1>2, <1>3, <2>1
<1>7. ASSUME NEW i \in 1 .. n, NEW u, NEW w, <<u, w>> \in R[i - 1]
      PROVE  <<Step("native", u, a[i]), Step("native", w, a[i])>> \in R[i]
  <2> DEFINE u2 == Step("native", u, a[i])
             w2 == Step("native", w, a[i])
             e == a[i].what
  <2>1. <<u, w>> \in S(i - 1)
    BY <1>2, <1>3, <1>7
  <2>2. u \in NativeState /\ w \in NativeState /\ Fed(u.c) = Fed(s.c) + (i - 1)
    BY <2>1
  <2>3. e \in Observed /\ a[i] \in ObserveOp
    BY <1>1 DEF ObserveOp
  <2>4. u2 \in NativeState /\ w2 \in NativeState /\ u2.c = ObserveElement(u.c, e)
    BY <2>2, <2>3, NativeObserves
  <2>5. Fed(ObserveElement(u.c, e)) = Fed(u.c) + 1
    BY <1>5, <2>2, <2>3, FedObserving
  <2> HIDE DEF u2, w2, e
  <2>6. Fed(u2.c) = Fed(s.c) + i
    <3>1. Fed(s.c) \in Nat /\ i \in Nat
      BY <1>1, <1>5
    <3>. QED  BY <2>2, <2>4, <2>5, <3>1
  <2>7. <<u2, w2>> \in S(i)
    BY <2>4, <2>6
  <2>. QED  BY <1>2, <1>3, <2>7 DEF u2, w2
<1>8. <<x, x>> \in R[n]
  BY <1>1, <1>4, <1>6, <1>7, StepsKeep
<1> HIDE DEF x
<1>9. <<x, x>> \in S(n)
  BY <1>2, <1>3, <1>8
<1>. QED  BY <1>4, <1>5, <1>9 DEF x

\* States that were fed n elements, and have drawn m from no other sponge.
FedWhenDrawn(m, n) ==
    {x \in NativeState :
        Fed(x.c) = n /\ \A i \in 1 .. Len(x.drawn[m]) : Weight(x.drawn[m][i][1]) = n}

\* Draws stay among these, and feed nothing.
LEMMA PartWeighs ==
    ASSUME NEW s \in NativeState, NEW a \in Seq(DrawOp), NEW m \in Challenge
    PROVE  /\ Steps("native", s, a) \in NativeState
           /\ Fed(Steps("native", s, a).c) = Fed(s.c)
           /\ s \in FedWhenDrawn(m, Fed(s.c)) => Steps("native", s, a) \in FedWhenDrawn(m, Fed(s.c))
<1> DEFINE n == Fed(s.c)
           A == {x \in NativeState : Fed(x.c) = n}
           B == FedWhenDrawn(m, n)
           x == Steps("native", s, a)
<1>1. ASSUME NEW u \in A, NEW op \in DrawOp
      PROVE  LET w == Step("native", u, op)
             IN  /\ w \in A
                 /\ u \in B => w \in B
  <2> DEFINE w == Step("native", u, op)
             e == op.what
             o == Popped(Refilled(u.c))
  <2>1. u \in NativeState /\ u.c \in Duplexed /\ Fed(u.c) = n
    BY DEF NativeState
  <2>2. /\ w \in NativeState /\ w.c = Pop(Refilled(u.c))
        /\ w.drawn = [u.drawn EXCEPT ![e] = Append(@, o)]
    BY <2>1, NativeDraws
  <2>3. Fed(Pop(Refilled(u.c))) = n /\ Weight(o[1]) = n
    BY <2>1, FedDrawing
  <2>4. o \in Output
    BY <2>1, DrawnOlder
  <2> HIDE DEF w, o
  <2>5. w \in A
    BY <2>2, <2>3
  <2>6. u.drawn \in [Challenge -> Seq(Output)] /\ e \in Challenge
    BY <2>1 DEF NativeState, State, DrawOp
  <2>7. ASSUME u \in B PROVE w \in B
    <3>1. \A i \in 1 .. Len(u.drawn[m]) : Weight(u.drawn[m][i][1]) = n
      BY <2>7 DEF FedWhenDrawn
    <3>2. CASE e # m
      <4>1. w.drawn[m] = u.drawn[m]
        BY <2>2, <2>6, <3>2
      <4>. QED  BY <2>5, <3>1, <4>1 DEF FedWhenDrawn
    <3>3. CASE e = m
      <4> DEFINE old == u.drawn[m]
      <4>1. w.drawn[m] = Append(old, o) /\ old \in Seq(Output)
        BY <2>2, <2>6, <3>3
      <4> HIDE DEF old
      <4> DEFINE new == Append(old, o)
      <4>2. /\ Len(new) = Len(old) + 1 /\ new[Len(old) + 1] = o /\ Len(old) \in Nat
            /\ \A i \in 1 .. Len(old) : new[i] = old[i]
        BY <2>4, <4>1, Grown1
      <4> HIDE DEF new
      <4>3. \A i \in 1 .. Len(new) : i \in 1 .. Len(old) \/ i = Len(old) + 1
        BY <4>2
      <4>4. \A i \in 1 .. Len(new) : Weight(new[i][1]) = n
        BY <2>3, <3>1, <4>2, <4>3 DEF old
      <4>. QED  BY <2>5, <4>1, <4>4 DEF FedWhenDrawn, new
    <3>. QED  BY <3>2, <3>3
  <2>. QED  BY <2>5, <2>7 DEF w
<1>2. s \in A
  OBVIOUS
<1>3. B \subseteq A
  BY DEF FedWhenDrawn
<1> HIDE DEF A, B
<1>4. \A u \in A : \A op \in DrawOp : Step("native", u, op) \in A
  BY <1>1
<1>5. x \in A
  BY <1>2, <1>4, StepsStay
<1>6. ASSUME s \in B PROVE x \in B
  <2>1. \A u \in B : \A op \in DrawOp : Step("native", u, op) \in B
    BY <1>1, <1>3
  <2>. QED  BY <1>6, <2>1, StepsStay
<1>. QED  BY <1>5, <1>6 DEF A, B, x

\* Transcripts of observations and draws, and the states that they go through.
Plain(P, n) == \A i \in 1 .. n : P[i] \in Seq(ObserveOp) \/ P[i] \in Seq(DrawOp)

LEMMA PlainRun ==
    ASSUME NEW n \in Nat, NEW P, Plain(P, n), NEW f, RunTo(f, "native", P, n)
    PROVE  /\ \A i \in 0 .. n : f[i] \in NativeState /\ Fed(f[i].c) \in Nat
           /\ \A i \in 1 .. n :
                 /\ P[i] \in Seq(ObserveOp) => Fed(f[i].c) = Fed(f[i - 1].c) + Len(P[i])
                 /\ P[i] \in Seq(DrawOp) => Fed(f[i].c) = Fed(f[i - 1].c)
<1> DEFINE T == {i \in 0 .. n : f[i] \in NativeState}
<1>1. f[0] = Start /\ \A i \in 1 .. n : f[i] = Steps("native", f[i - 1], P[i])
  BY DEF RunTo
<1>2. 0 \in T
  BY <1>1, StartTyped
<1>3. \E m : m \in Challenge
  BY Named DEF PlonkChallenges
<1>4. ASSUME NEW i \in 1 .. n, i - 1 \in T
      PROVE  /\ i \in T
             /\ P[i] \in Seq(ObserveOp) => Fed(f[i].c) = Fed(f[i - 1].c) + Len(P[i])
             /\ P[i] \in Seq(DrawOp) => Fed(f[i].c) = Fed(f[i - 1].c)
  <2> DEFINE s == f[i - 1]
             a == P[i]
  <2>1. s \in NativeState /\ f[i] = Steps("native", s, a)
    BY <1>1, <1>4
  <2>2. a \in Seq(ObserveOp) \/ a \in Seq(DrawOp)
    BY DEF Plain
  <2> HIDE DEF s, a
  <2>3. ASSUME a \in Seq(ObserveOp)
        PROVE  f[i] \in NativeState /\ Fed(f[i].c) = Fed(s.c) + Len(a)
    BY <2>1, <2>3, PartFeeds
  <2>4. ASSUME a \in Seq(DrawOp)
        PROVE  f[i] \in NativeState /\ Fed(f[i].c) = Fed(s.c)
    BY <1>3, <2>1, <2>4, PartWeighs
  <2>5. i \in 0 .. n
    OBVIOUS
  <2>. QED  BY <2>2, <2>3, <2>4, <2>5 DEF s, a
<1>5. \A i \in 0 .. n : i \in T
  <2> HIDE DEF T
  <2>. QED  BY <1>2, <1>4, Counting
<1>6. \A i \in 0 .. n : f[i] \in NativeState
  BY <1>5
<1>7. \A i \in 0 .. n : Fed(f[i].c) \in Nat
  BY <1>6, FedDrawing DEF NativeState
<1>8. \A i \in 1 .. n : i - 1 \in 0 .. n
  OBVIOUS
<1> HIDE DEF T
<1>. QED  BY <1>4, <1>5, <1>6, <1>7, <1>8

\* What no part after the first l draws stays as it is.
LEMMA Untouched ==
    ASSUME NEW n \in Nat, NEW P, Plain(P, n), NEW f, RunTo(f, "native", P, n),
           NEW m \in Challenge, NEW l \in 0 .. n, NEW k \in l .. n,
           \A i \in l + 1 .. k : ~(Draws(P[i], m) /\ P[i] \in Seq(DrawOp))
    PROVE  f[k].drawn[m] = f[l].drawn[m]
<1> DEFINE T == {i \in 0 .. k : i >= l => f[i].drawn[m] = f[l].drawn[m]}
<1>1. \A i \in 1 .. n : f[i] = Steps("native", f[i - 1], P[i])
  BY DEF RunTo
<1>2. \A i \in 0 .. n : f[i] \in NativeState
  BY PlainRun
<1>3. k \in Nat /\ l \in Nat /\ k >= l
  OBVIOUS
<1>4. 0 \in T
  BY <1>3
<1>5. ASSUME NEW i \in 1 .. k, i - 1 \in T PROVE i \in T
  <2>1. CASE i <= l
    BY <1>3, <2>1
  <2>2. CASE i > l
    <3>1. i \in l + 1 .. k /\ i - 1 >= l /\ i \in 1 .. n /\ i - 1 \in 0 .. n /\ i \in 0 .. k
      BY <1>3, <2>2
    <3> DEFINE s == f[i - 1]
               a == P[i]
    <3>2. /\ s \in NativeState /\ s.drawn[m] = f[l].drawn[m] /\ f[i] = Steps("native", s, a)
          /\ a \in Seq(ObserveOp) \/ a \in Seq(DrawOp)
          /\ ~(Draws(a, m) /\ a \in Seq(DrawOp))
      BY <1>1, <1>2, <1>5, <3>1 DEF Plain
    <3> HIDE DEF s, a
    <3>3. Seq(ObserveOp) \subseteq Seq(VerifierOp) /\ Seq(DrawOp) \subseteq Seq(VerifierOp)
      BY DEF VerifierOp
    <3>4. a \in Seq(VerifierOp)
      BY <3>2, <3>3
    <3>5. Same(s, s)
      BY <3>2 DEF Same
    <3>6. Steps("native", s, a).drawn[m] = s.drawn[m]
      BY <3>2, <3>4, <3>5, PartSame
    <3>. QED  BY <3>1, <3>2, <3>6
  <2>. QED  BY <1>3, <2>1, <2>2
<1> HIDE DEF T
<1>6. k \in T
  <2>1. \A i \in 0 .. k : i \in T
    BY <1>3, <1>4, <1>5, Counting
  <2>2. k \in 0 .. k
    BY <1>3
  <2>. QED  BY <2>1, <2>2
<1>. QED  BY <1>3, <1>6 DEF T

\* The transcript of a verifier is one of these.
LEMMA PlainLayout ==
    ASSUME NEW p, Stepped(p), NEW v, NEW b, AsLong(p, v, b, v, b), NEW P, LaidOut(P, p, v, b)
    PROVE  /\ p.steps \in Nat /\ 16 + 2 * p.steps \in Nat /\ Len(P) = 16 + 2 * p.steps
           /\ Plain(P, 16 + 2 * p.steps)
<1>1. p.steps \in Nat
  BY Named DEF Stepped
<1>2. \A i \in 1 .. 16 + 2 * p.steps : Aligned(P[i], P[i])
  BY AllAligned
<1>. QED  BY <1>1, <1>2 DEF Plain, Aligned, LaidOut, LaidOutOf

\* What is drawn last is drawn from a sponge that was fed everything.
LEMMA DrawnLast ==
    ASSUME NEW p, Stepped(p), NEW v, NEW b, AsLong(p, v, b, v, b), NEW P, LaidOut(P, p, v, b),
           NEW f, RunTo(f, "native", P, 16 + 2 * p.steps),
           NEW m \in {"pow_response", "query_indices"}
    PROVE  f[16 + 2 * p.steps] \in FedWhenDrawn(m, Fed(f[14 + 2 * p.steps].c))
<1> DEFINE s == p.steps
           n == 16 + 2 * s
           l == 14 + 2 * s
           x == Fed(f[l].c)
<1>1. s \in Nat /\ n \in Nat /\ l \in 0 .. n /\ l \in l .. n /\ 0 \in 0 .. n /\ l \in 0 .. n /\ Plain(P, n)
  BY PlainLayout
<1>2. m \in Challenge /\ m \in PlonkChallenges /\ m \notin ToSet(FriBeta)
  BY Named, NameAssumption DEF PlonkChallenges
<1>3. ASSUME NEW i \in 1 .. n, Draws(P[i], m), P[i] \in Seq(DrawOp) PROVE i > l
  <2>1. Given(v, b)
    BY DEF AsLong
  <2>2. \/ i \in {3, 4, 5} /\ m \in {"betas", "gammas", "deltas"}
        \/ i = 7 /\ m = "alphas"
        \/ i = 9 /\ m = "zeta"
        \/ i = 12 /\ m = "fri_alpha"
        \/ \E k \in 1 .. s : i = 12 + 2 * k /\ m = FriBeta[k]
        \/ i = 15 + 2 * s /\ m = "pow_response"
        \/ i = 16 + 2 * s /\ m = "query_indices"
    BY <1>2, <1>3, <2>1, DrawnAt
  <2>3. \A k \in 1 .. s : FriBeta[k] \in ToSet(FriBeta)
    <3>1. \A k \in 1 .. s : k \in 1 .. Len(FriBeta)
      BY <1>1, Named DEF Stepped
    <3>. QED  BY <3>1, NameAssumption DEF ToSet
  <2>4. i = 15 + 2 * s \/ i = 16 + 2 * s
    BY <1>2, <2>2, <2>3
  <2>. QED  BY <1>1, <2>4
<1>4. f[0] = Start /\ \A i \in 1 .. n : f[i] = Steps("native", f[i - 1], P[i])
  BY DEF RunTo
<1>5. \A i \in 0 .. n : f[i] \in NativeState
  BY <1>1, PlainRun
<1>6. f[l].drawn[m] = <<>>
  <2>1. \A i \in 0 + 1 .. l : ~(Draws(P[i], m) /\ P[i] \in Seq(DrawOp))
    BY <1>1, <1>3
  <2>2. l \in 0 .. n /\ 0 \in 0 .. n
    BY <1>1
  <2> HIDE DEF l, n
  <2>3. f[l].drawn[m] = f[0].drawn[m]
    BY <1>1, <1>2, <2>1, <2>2, Untouched DEF n
  <2>. QED  BY <1>2, <1>4, <2>3 DEF Start
<1>7. /\ P[l + 1] = Draw("pow_response", 1) /\ P[l + 2] = Draw("query_indices", NumQueries)
      /\ l + 1 \in 1 .. n /\ l + 2 \in 1 .. n /\ (l + 1) - 1 = l /\ (l + 2) - 1 = l + 1 /\ l + 2 = n
  <2>1. P[15 + 2 * s] = Draw("pow_response", 1) /\ P[16 + 2 * s] = Draw("query_indices", NumQueries)
    BY DEF LaidOut, LaidOutOf
  <2>2. l + 1 = 15 + 2 * s /\ l + 2 = 16 + 2 * s
    BY <1>1
  <2>. QED  BY <1>1, <2>1, <2>2
<1>8. P[l + 1] \in Seq(DrawOp) /\ P[l + 2] \in Seq(DrawOp)
  <2>1. /\ 1 \in Nat /\ NumQueries \in Nat
        /\ "pow_response" \in Challenge /\ "query_indices" \in Challenge
    BY Sizes, Named DEF PlonkChallenges
  <2>2. Draw("pow_response", 1) \in Seq(DrawOp) /\ Draw("query_indices", NumQueries) \in Seq(DrawOp)
    BY <2>1, DrawingPart
  <2> HIDE DEF l
  <2>. QED  BY <1>7, <2>2
<1> DEFINE a == f[l]
           y == f[l + 1]
           z == f[l + 2]
<1>9. /\ a \in NativeState /\ y = Steps("native", a, P[l + 1]) /\ z = Steps("native", y, P[l + 2])
      /\ a.drawn[m] = <<>>
  BY <1>1, <1>4, <1>5, <1>6, <1>7
<1> HIDE DEF a, y, z, n, l
<1>10. a \in FedWhenDrawn(m, Fed(a.c))
  BY <1>9 DEF FedWhenDrawn
<1>11. y \in NativeState /\ Fed(y.c) = Fed(a.c) /\ y \in FedWhenDrawn(m, Fed(a.c))
  BY <1>2, <1>8, <1>9, <1>10, PartWeighs
<1>12. z \in FedWhenDrawn(m, Fed(a.c))
  BY <1>2, <1>8, <1>9, <1>11, PartWeighs
<1>. QED  BY <1>7, <1>12 DEF z, a, n, l

\* What a transcript observes is what it feeds.
LEMMA LayoutFeeds ==
    ASSUME NEW p, Stepped(p), NEW v, NEW b, AsLong(p, v, b, v, b), NEW P, LaidOut(P, p, v, b),
           NEW f, RunTo(f, "native", P, 16 + 2 * p.steps)
    PROVE  /\ \A i \in 0 .. 16 + 2 * p.steps : Fed(f[i].c) \in Nat
           /\ \A i \in 1 .. 16 + 2 * p.steps : Fed(f[i].c) >= Fed(f[i - 1].c)
           /\ \A i \in 1 .. 16 + 2 * p.steps : \A m \in Message :
                 P[i] = Observe(v[m]) => Fed(f[i].c) = Fed(f[i - 1].c) + Len(v[m])
           /\ \A m \in Message : Len(v[m]) \in Nat
<1> DEFINE n == 16 + 2 * p.steps
<1>1. n \in Nat /\ Plain(P, n) /\ RunTo(f, "native", P, n)
  BY PlainLayout
<1> HIDE DEF n
<1>2. /\ \A i \in 0 .. n : Fed(f[i].c) \in Nat
      /\ \A i \in 1 .. n : /\ P[i] \in Seq(ObserveOp) => Fed(f[i].c) = Fed(f[i - 1].c) + Len(P[i])
                           /\ P[i] \in Seq(DrawOp) => Fed(f[i].c) = Fed(f[i - 1].c)
  BY <1>1, PlainRun
<1>3. ASSUME NEW i \in 1 .. n PROVE Fed(f[i].c) >= Fed(f[i - 1].c)
  <2>1. P[i] \in Seq(ObserveOp) \/ P[i] \in Seq(DrawOp)
    BY <1>1 DEF Plain
  <2>2. P[i] \in Seq(ObserveOp) => Len(P[i]) \in Nat
    OBVIOUS
  <2>3. Fed(f[i].c) \in Nat /\ Fed(f[i - 1].c) \in Nat
    <3>1. i \in 0 .. n /\ i - 1 \in 0 .. n
      BY <1>1
    <3>. QED  BY <1>2, <3>1
  <2>. QED  BY <1>2, <2>1, <2>2, <2>3
<1>4. ASSUME NEW m \in Message
      PROVE  /\ Len(v[m]) \in Nat
             /\ \A i \in 1 .. n : P[i] = Observe(v[m]) => Fed(f[i].c) = Fed(f[i - 1].c) + Len(v[m])
  <2> DEFINE a == v[m]
  <2>1. a \in Seq(Observed)
    BY ElementsObserved DEF AsLong, Given
  <2> HIDE DEF a
  <2>2. Observe(a) \in Seq(ObserveOp) /\ Len(Observe(a)) = Len(a) /\ Len(a) \in Nat
    BY <2>1, ObservingPart
  <2>. QED  BY <1>2, <2>2 DEF a
<1>. QED  BY <1>2, <1>3, <1>4 DEF n

\* Between the last draws of a reduction and of the grinding it feeds two parts.
LEMMA FedLast ==
    ASSUME NEW p, Stepped(p), NEW v, NEW b, AsLong(p, v, b, v, b), NEW P, LaidOut(P, p, v, b),
           NEW f, RunTo(f, "native", P, 16 + 2 * p.steps)
    PROVE  LET x == Fed(f[12 + 2 * p.steps].c)
               fp == Len(v["final_poly"])
               pw == Len(v["pow_witness"])
           IN  /\ x \in Nat /\ fp \in Nat /\ pw \in Nat
               /\ Fed(f[14 + 2 * p.steps].c) = x + fp + pw
<1> DEFINE s == p.steps
           n == 16 + 2 * s
           fp == Len(v["final_poly"])
           pw == Len(v["pow_witness"])
<1>1. /\ 13 + 2 * s \in 1 .. n /\ 14 + 2 * s \in 1 .. n /\ 12 + 2 * s \in 0 .. n
      /\ (13 + 2 * s) - 1 = 12 + 2 * s /\ (14 + 2 * s) - 1 = 13 + 2 * s
  BY PlainLayout
<1>2. P[13 + 2 * s] = Observe(v["final_poly"]) /\ P[14 + 2 * s] = Observe(v["pow_witness"])
  BY DEF LaidOut, LaidOutOf
<1>3. "final_poly" \in Message /\ "pow_witness" \in Message
  BY Named
<1> HIDE DEF n
<1>4. /\ \A i \in 0 .. n : Fed(f[i].c) \in Nat
      /\ \A i \in 1 .. n : \A m \in Message :
            P[i] = Observe(v[m]) => Fed(f[i].c) = Fed(f[i - 1].c) + Len(v[m])
      /\ \A m \in Message : Len(v[m]) \in Nat
  BY LayoutFeeds DEF n
<1>5. /\ Fed(f[13 + 2 * s].c) = Fed(f[12 + 2 * s].c) + fp
      /\ Fed(f[14 + 2 * s].c) = Fed(f[13 + 2 * s].c) + pw
  <2>1. Fed(f[13 + 2 * s].c) = Fed(f[(13 + 2 * s) - 1].c) + fp
    BY <1>1, <1>2, <1>3, <1>4
  <2>2. Fed(f[14 + 2 * s].c) = Fed(f[(14 + 2 * s) - 1].c) + pw
    BY <1>1, <1>2, <1>3, <1>4
  <2>. QED  BY <1>1, <2>1, <2>2
<1>6. Fed(f[12 + 2 * s].c) \in Nat /\ fp \in Nat /\ pw \in Nat
  BY <1>1, <1>3, <1>4
<1> HIDE DEF fp, pw
<1>7. Fed(f[14 + 2 * s].c) = Fed(f[12 + 2 * s].c) + fp + pw
  BY <1>5, <1>6
<1>. QED  BY <1>6, <1>7 DEF fp, pw

\* Transcripts of the same lengths feed the same.
LEMMA FedAlike ==
    ASSUME NEW p, Stepped(p), NEW v, NEW b, NEW w, NEW d, AsLong(p, v, b, w, d),
           AsLong(p, v, b, v, b), AsLong(p, w, d, w, d),
           NEW P, NEW Q, LaidOut(P, p, v, b), LaidOut(Q, p, w, d),
           NEW f, RunTo(f, "native", P, 16 + 2 * p.steps),
           NEW g, RunTo(g, "native", Q, 16 + 2 * p.steps)
    PROVE  \A i \in 0 .. 16 + 2 * p.steps : Fed(f[i].c) = Fed(g[i].c)
<1> DEFINE n == 16 + 2 * p.steps
           T == {i \in 0 .. n : Fed(f[i].c) = Fed(g[i].c)}
<1>1. n \in Nat /\ Plain(P, n) /\ Plain(Q, n)
  BY PlainLayout
<1>2. \A i \in 1 .. n : Aligned(P[i], Q[i])
  BY AllAligned
<1>3. RunTo(f, "native", P, n) /\ RunTo(g, "native", Q, n)
  OBVIOUS
<1> HIDE DEF n
<1>4. 0 \in T
  BY <1>1, <1>3 DEF RunTo
<1>5. ASSUME NEW i \in 1 .. n, i - 1 \in T PROVE i \in T
  <2>1. /\ P[i] \in Seq(ObserveOp) => Fed(f[i].c) = Fed(f[i - 1].c) + Len(P[i])
        /\ P[i] \in Seq(DrawOp) => Fed(f[i].c) = Fed(f[i - 1].c)
    BY <1>1, <1>3, PlainRun
  <2>2. /\ Q[i] \in Seq(ObserveOp) => Fed(g[i].c) = Fed(g[i - 1].c) + Len(Q[i])
        /\ Q[i] \in Seq(DrawOp) => Fed(g[i].c) = Fed(g[i - 1].c)
    BY <1>1, <1>3, PlainRun
  <2>3. Fed(f[i - 1].c) = Fed(g[i - 1].c) /\ i \in 0 .. n
    BY <1>5
  <2>. QED  BY <1>2, <2>1, <2>2, <2>3 DEF Aligned
<1> HIDE DEF T
<1>6. \A i \in 0 .. n : i \in T
  BY <1>1, <1>4, <1>5, Counting
<1>. QED  BY <1>6 DEF T, n

\* A run does not depend on what comes after.
BeginAlike(P, Q, k) == \A i \in 1 .. k : P[i] = Q[i]

LEMMA SameBeginning ==
    ASSUME NEW P, NEW Q, NEW n \in Nat, NEW l \in Nat,
           NEW f, RunTo(f, "native", P, n), NEW g, RunTo(g, "native", Q, l),
           NEW k \in 0 .. n \cap 0 .. l, BeginAlike(P, Q, k)
    PROVE  f[k] = g[k]
<1> DEFINE T == {i \in 0 .. k : f[i] = g[i]}
<1>1. 0 \in T /\ k \in Nat
  BY DEF RunTo
<1>2. ASSUME NEW i \in 1 .. k, i - 1 \in T PROVE i \in T
  <2>1. i \in 1 .. n /\ i \in 1 .. l /\ i \in 0 .. k
    OBVIOUS
  <2>2. f[i] = Steps("native", f[i - 1], P[i]) /\ g[i] = Steps("native", g[i - 1], Q[i])
    BY <2>1 DEF RunTo
  <2>. QED  BY <1>2, <2>1, <2>2 DEF BeginAlike
<1> HIDE DEF T
<1>3. \A i \in 0 .. k : i \in T
  BY <1>1, <1>2, Counting
<1>4. k \in 0 .. k
  BY <1>1
<1>. QED  BY <1>3, <1>4 DEF T

-----------------------------------------------------------------------------
(* Openings in batches.                                                    *)

\* Seven lists that are joined.
LEMMA Joined7 ==
    ASSUME NEW S, NEW a \in Seq(S), NEW b \in Seq(S), NEW c \in Seq(S), NEW d \in Seq(S),
           NEW e \in Seq(S), NEW f \in Seq(S), NEW g \in Seq(S)
    PROVE  /\ a \o b \o c \o d \o e \o f \o g \in Seq(S)
           /\ Len(a \o b \o c \o d \o e \o f \o g)
                = Len(a) + Len(b) + Len(c) + Len(d) + Len(e) + Len(f) + Len(g)
<1> DEFINE ab == a \o b
           abc == ab \o c
           abcd == abc \o d
           abcde == abcd \o e
           abcdef == abcde \o f
<1>1. ab \in Seq(S) /\ Len(ab) = Len(a) + Len(b)
  BY Joined
<1> HIDE DEF ab
<1>2. abc \in Seq(S) /\ Len(abc) = Len(ab) + Len(c)
  BY <1>1, Joined
<1> HIDE DEF abc
<1>3. abcd \in Seq(S) /\ Len(abcd) = Len(abc) + Len(d)
  BY <1>2, Joined
<1> HIDE DEF abcd
<1>4. abcde \in Seq(S) /\ Len(abcde) = Len(abcd) + Len(e)
  BY <1>3, Joined
<1> HIDE DEF abcde
<1>5. abcdef \in Seq(S) /\ Len(abcdef) = Len(abcde) + Len(f)
  BY <1>4, Joined
<1> HIDE DEF abcdef
<1>6. abcdef \o g \in Seq(S) /\ Len(abcdef \o g) = Len(abcdef) + Len(g)
  BY <1>5, Joined
<1>7. Len(abcdef \o g) = Len(a) + Len(b) + Len(c) + Len(d) + Len(e) + Len(f) + Len(g)
  <2> DEFINE r == Len(abcdef \o g)
  <2>1. r = Len(abcdef) + Len(g)
    BY <1>6
  <2> HIDE DEF r
  <2>2. r = Len(a) + Len(b) + Len(c) + Len(d) + Len(e) + Len(f) + Len(g)
    BY <1>1, <1>2, <1>3, <1>4, <1>5, <2>1
  <2>. QED  BY <2>2 DEF r
<1>. QED  BY <1>6, <1>7 DEF abcdef, abcde, abcd, abc, ab

\* Lists that are as long pairwise are told by what they are joined to.
Pair(S, x, y) == x \in Seq(S) /\ y \in Seq(S) /\ Len(x) = Len(y)
Join(x, y) == x \o y

LEMMA PairJoined ==
    ASSUME NEW S, NEW a, NEW b, NEW c, NEW d, Pair(S, a, c), Pair(S, b, d)
    PROVE  Pair(S, Join(a, b), Join(c, d)) /\ (Join(a, b) = Join(c, d) => a = c /\ b = d)
<1>1. /\ a \in Seq(S) /\ b \in Seq(S) /\ c \in Seq(S) /\ d \in Seq(S)
      /\ Len(a) = Len(c) /\ Len(b) = Len(d)
  BY DEF Pair
<1>2. Pair(S, a \o b, c \o d)
  <2>1. /\ a \o b \in Seq(S) /\ Len(a \o b) = Len(a) + Len(b)
        /\ c \o d \in Seq(S) /\ Len(c \o d) = Len(c) + Len(d)
    BY <1>1, Joined
  <2>. QED  BY <1>1, <2>1 DEF Pair
<1>3. ASSUME a \o b = c \o d PROVE a = c /\ b = d
  BY <1>1, <1>3, Parted
<1>. QED  BY <1>2, <1>3 DEF Join

Pairs(S, a, b, c, d, e, f, g, p, q, r, s, t, u, w) ==
    /\ Pair(S, a, p) /\ Pair(S, b, q) /\ Pair(S, c, r) /\ Pair(S, d, s)
    /\ Pair(S, e, t) /\ Pair(S, f, u) /\ Pair(S, g, w)

LEMMA Parted7 ==
    ASSUME NEW S, NEW a, NEW b, NEW c, NEW d, NEW e, NEW f, NEW g,
           NEW p, NEW q, NEW r, NEW s, NEW t, NEW u, NEW w,
           Pairs(S, a, b, c, d, e, f, g, p, q, r, s, t, u, w),
           a \o b \o c \o d \o e \o f \o g = p \o q \o r \o s \o t \o u \o w
    PROVE  a = p /\ b = q /\ c = r /\ d = s /\ e = t /\ f = u /\ g = w
<1> DEFINE ab == Join(a, b)
           abc == Join(ab, c)
           abcd == Join(abc, d)
           abcde == Join(abcd, e)
           abcdef == Join(abcde, f)
           pq == Join(p, q)
           pqr == Join(pq, r)
           pqrs == Join(pqr, s)
           pqrst == Join(pqrs, t)
           pqrstu == Join(pqrst, u)
<1>7. /\ Pair(S, a, p) /\ Pair(S, b, q) /\ Pair(S, c, r) /\ Pair(S, d, s)
      /\ Pair(S, e, t) /\ Pair(S, f, u) /\ Pair(S, g, w)
  BY DEF Pairs
<1>0. Join(abcdef, g) = Join(pqrstu, w)
  BY DEF Join
<1>1. Pair(S, ab, pq) /\ (ab = pq => a = p /\ b = q)
  <2>1. Pair(S, a, p) /\ Pair(S, b, q)
    BY <1>7
  <2>. QED  BY ONLY <2>1, PairJoined
<1> HIDE DEF ab, pq
<1>2. Pair(S, abc, pqr) /\ (abc = pqr => ab = pq /\ c = r)
  <2>1. Pair(S, c, r)
    BY <1>7
  <2>. QED  BY ONLY <1>1, <2>1, PairJoined
<1> HIDE DEF abc, pqr
<1>3. Pair(S, abcd, pqrs) /\ (abcd = pqrs => abc = pqr /\ d = s)
  <2>1. Pair(S, d, s)
    BY <1>7
  <2>. QED  BY ONLY <1>2, <2>1, PairJoined
<1> HIDE DEF abcd, pqrs
<1>4. Pair(S, abcde, pqrst) /\ (abcde = pqrst => abcd = pqrs /\ e = t)
  <2>1. Pair(S, e, t)
    BY <1>7
  <2>. QED  BY ONLY <1>3, <2>1, PairJoined
<1> HIDE DEF abcde, pqrst
<1>5. Pair(S, abcdef, pqrstu) /\ (abcdef = pqrstu => abcde = pqrst /\ f = u)
  <2>1. Pair(S, f, u)
    BY <1>7
  <2>. QED  BY ONLY <1>4, <2>1, PairJoined
<1> HIDE DEF abcdef, pqrstu
<1>6. /\ Pair(S, Join(abcdef, g), Join(pqrstu, w))
      /\ Join(abcdef, g) = Join(pqrstu, w) => abcdef = pqrstu /\ g = w
  <2>1. Pair(S, g, w)
    BY <1>7
  <2>. QED  BY ONLY <1>5, <2>1, PairJoined
<1>. QED  BY ONLY <1>0, <1>1, <1>2, <1>3, <1>4, <1>5, <1>6

\* The names of the openings.
LEMMA OpeningsAre ==
    Openings = {"constants", "sigmas", "wires", "zs", "partial_products", "quotient_polys",
                "lookup_zs", "zs_next", "lookup_zs_next"}
<1>1. ToSet(ZetaOpenings) = {"constants", "sigmas", "wires", "zs", "partial_products",
                             "quotient_polys", "lookup_zs"}
  BY DEF ToSet, ZetaOpenings
<1>2. ToSet(NextOpenings) = {"zs_next", "lookup_zs_next"}
  BY DEF ToSet, NextOpenings
<1>. QED  BY <1>1, <1>2 DEF Openings

\* The batches of openings, and their lengths.
LEMMA BatchesAre ==
    ASSUME NEW S, NEW v \in [Message -> Seq(S)]
    PROVE  LET b == Batches(v)
           IN  /\ b \in Seq(Seq(S)) /\ Len(b) = 2 /\ b[1] \in Seq(S) /\ b[2] \in Seq(S)
               /\ Len(b[1]) = Len(v["constants"]) + Len(v["sigmas"]) + Len(v["wires"]) + Len(v["zs"])
                                + Len(v["partial_products"]) + Len(v["quotient_polys"]) + Len(v["lookup_zs"])
               /\ Len(b[2]) = IF Len(v["lookup_zs"]) # 0
                              THEN Len(v["zs_next"]) + Len(v["lookup_zs_next"])
                              ELSE Len(v["zs_next"])
               /\ Len(v["lookup_zs"]) = 0 => b[2] = v["zs_next"]
               /\ Len(v["lookup_zs"]) # 0 => b[2] = v["zs_next"] \o v["lookup_zs_next"]
<1> DEFINE x1 == v["constants"]
           x2 == v["sigmas"]
           x3 == v["wires"]
           x4 == v["zs"]
           x5 == v["partial_products"]
           x6 == v["quotient_polys"]
           x7 == v["lookup_zs"]
           y1 == v["zs_next"]
           y2 == v["lookup_zs_next"]
           x == x1 \o x2 \o x3 \o x4 \o x5 \o x6 \o x7
           z == y1 \o y2
           y == IF x7 # <<>> THEN z ELSE y1
<1>1. /\ x1 \in Seq(S) /\ x2 \in Seq(S) /\ x3 \in Seq(S) /\ x4 \in Seq(S) /\ x5 \in Seq(S)
      /\ x6 \in Seq(S) /\ x7 \in Seq(S) /\ y1 \in Seq(S) /\ y2 \in Seq(S)
  BY OpeningsAre, Named
<1>2. Batches(v) = <<x, y>>
  BY DEF Batches
<1> HIDE DEF x1, x2, x3, x4, x5, x6, x7, y1, y2
<1>3. /\ x \in Seq(S)
      /\ Len(x) = Len(x1) + Len(x2) + Len(x3) + Len(x4) + Len(x5) + Len(x6) + Len(x7)
  BY <1>1, Joined7
<1>4. z \in Seq(S) /\ Len(z) = Len(y1) + Len(y2)
  BY <1>1, Joined
<1> HIDE DEF x, z
<1>5. x7 # <<>> <=> Len(x7) # 0
  BY <1>1
<1>6. /\ y \in Seq(S) /\ Len(y) = IF Len(x7) # 0 THEN Len(y1) + Len(y2) ELSE Len(y1)
      /\ (Len(x7) = 0 => y = y1) /\ (Len(x7) # 0 => y = z)
  BY <1>1, <1>4, <1>5
<1> HIDE DEF y
<1>7. <<x, y>> \in Seq(Seq(S)) /\ Len(<<x, y>>) = 2 /\ <<x, y>>[1] = x /\ <<x, y>>[2] = y
  <2> DEFINE T == Seq(S)
  <2>1. x \in T /\ y \in T
    BY <1>3, <1>6
  <2> HIDE DEF T
  <2>2. <<x, y>> \in Seq(T)
    BY <2>1
  <2>. QED  BY <2>2 DEF T
<1> DEFINE b == Batches(v)
<1>8. b \in Seq(Seq(S)) /\ Len(b) = 2 /\ b[1] = x /\ b[2] = y
  BY <1>2, <1>7
<1> HIDE DEF b
<1>9. /\ b \in Seq(Seq(S)) /\ Len(b) = 2 /\ b[1] \in Seq(S) /\ b[2] \in Seq(S)
      /\ Len(b[1]) = Len(x1) + Len(x2) + Len(x3) + Len(x4) + Len(x5) + Len(x6) + Len(x7)
      /\ Len(b[2]) = IF Len(x7) # 0 THEN Len(y1) + Len(y2) ELSE Len(y1)
      /\ (Len(x7) = 0 => b[2] = y1) /\ (Len(x7) # 0 => b[2] = z)
  BY <1>3, <1>6, <1>8
<1>. QED  BY <1>9 DEF b, z, x1, x2, x3, x4, x5, x6, x7, y1, y2

\* Openings of the same lengths are told by their batches.
LEMMA BatchesTell ==
    ASSUME NEW S, NEW v \in [Message -> Seq(S)], NEW w \in [Message -> Seq(S)],
           \A m \in Openings : Len(v[m]) = Len(w[m]), Batches(v) = Batches(w),
           Len(v["lookup_zs"]) = 0 => Len(v["lookup_zs_next"]) = 0
    PROVE  \A m \in Openings : v[m] = w[m]
<1> DEFINE a == v["constants"]
           b == v["sigmas"]
           c == v["wires"]
           d == v["zs"]
           e == v["partial_products"]
           f == v["quotient_polys"]
           g == v["lookup_zs"]
           h == v["zs_next"]
           i == v["lookup_zs_next"]
           p == w["constants"]
           q == w["sigmas"]
           r == w["wires"]
           s == w["zs"]
           t == w["partial_products"]
           u == w["quotient_polys"]
           x == w["lookup_zs"]
           y == w["zs_next"]
           z == w["lookup_zs_next"]
<1>1. /\ Pair(S, a, p) /\ Pair(S, b, q) /\ Pair(S, c, r) /\ Pair(S, d, s) /\ Pair(S, e, t)
      /\ Pair(S, f, u) /\ Pair(S, g, x) /\ Pair(S, h, y) /\ Pair(S, i, z)
  BY OpeningsAre, Named DEF Pair
<1>2. Len(g) = Len(x)
  BY OpeningsAre
<1>3. a \o b \o c \o d \o e \o f \o g = p \o q \o r \o s \o t \o u \o x
  <2>1. Batches(v)[1] = Batches(w)[1]
    OBVIOUS
  <2>2. Batches(v)[1] = a \o b \o c \o d \o e \o f \o g
    BY DEF Batches
  <2>3. Batches(w)[1] = p \o q \o r \o s \o t \o u \o x
    BY DEF Batches
  <2>. QED  BY <2>1, <2>2, <2>3
<1>4. /\ Len(g) = 0 => Batches(v)[2] = h /\ Batches(w)[2] = y
      /\ Len(g) # 0 => Batches(v)[2] = h \o i /\ Batches(w)[2] = y \o z
  BY <1>2, BatchesAre
<1>5. Batches(v)[2] = Batches(w)[2] /\ (Len(g) = 0 => Len(i) = 0)
  OBVIOUS
<1> HIDE DEF a, b, c, d, e, f, g, h, i, p, q, r, s, t, u, x, y, z
<1>6. a = p /\ b = q /\ c = r /\ d = s /\ e = t /\ f = u /\ g = x
  <2>1. Pairs(S, a, b, c, d, e, f, g, p, q, r, s, t, u, x)
    BY <1>1 DEF Pairs
  <2>. QED  BY ONLY <1>3, <2>1, Parted7
<1>7. h = y /\ i = z
  <2>1. CASE Len(g) = 0
    <3>1. h = y /\ Len(i) = 0 /\ i \in Seq(S) /\ z \in Seq(S) /\ Len(z) = 0
      BY <1>1, <1>4, <1>5, <2>1 DEF Pair
    <3>. QED  BY <3>1
  <2>2. CASE Len(g) # 0
    <3>1. Join(h, i) = Join(y, z)
      BY <1>4, <1>5, <2>2 DEF Join
    <3>2. Pair(S, h, y) /\ Pair(S, i, z)
      BY <1>1
    <3>3. /\ Pair(S, Join(h, i), Join(y, z))
          /\ Join(h, i) = Join(y, z) => h = y /\ i = z
      BY ONLY <3>2, PairJoined
    <3>. QED  BY <3>1, <3>3
  <2>. QED  BY <2>1, <2>2
<1>. QED  BY <1>6, <1>7, OpeningsAre DEF a, b, c, d, e, f, g, h, i, p, q, r, s, t, u, x, y, z

-----------------------------------------------------------------------------
(* Shapes.                                                                 *)

\* The beginning of a sequence.
LEMMA Prefix ==
    ASSUME NEW S, NEW s \in Seq(S), NEW n \in Nat, n <= Len(s)
    PROVE  SubSeq(s, 1, n) \in Seq(S) /\ Len(SubSeq(s, 1, n)) = n /\ (n = Len(s) => SubSeq(s, 1, n) = s)
<1> DEFINE t == SubSeq(s, 1, n)
<1>1. t = [i \in 1 .. n |-> s[i]]
  <2>1. t = [i \in 1 .. n - 1 + 1 |-> s[i + 1 - 1]]
    OBVIOUS
  <2>. QED  BY <2>1
<1>2. \A i \in 1 .. n : s[i] \in S
  OBVIOUS
<1> HIDE DEF t
<1>3. t \in Seq(S) /\ Len(t) = n /\ \A i \in 1 .. n : t[i] = s[i]
  BY <1>1, <1>2
<1>4. n = Len(s) => t = s
  BY <1>3, SeqEqual
<1>. QED  BY <1>3, <1>4 DEF t

\* The lengths that a circuit has for the parts of a proof.
LEMMA Shapes ==
    ASSUME NEW p \in Params
    PROVE  /\ p.len \in [Message -> Nat] /\ \A m \in Message : p.len[m] \in Nat
           /\ p.len["pow_witness"] = 1 /\ p.len["lookup_zs_next"] = p.len["lookup_zs"]
           /\ \A k \in 1 .. p.steps : p.len[CommitCap[k]] = CapLen(p)
           /\ \A k \in p.steps + 1 .. Len(CommitCap) : p.len[CommitCap[k]] = 0
           /\ CapLen(p) \in Nat /\ CapLen(p) > 0 /\ \A m \in TraceCaps : p.len[m] = CapLen(p)
<1>1. p.len \in [Message -> Nat]
  BY ParamsAssumption
<1>2. p.steps \in Nat /\ Len(CommitCap) \in Nat /\ p.steps <= Len(CommitCap)
  BY Named
<1>3. \A k \in 1 .. Len(CommitCap) : p.len[CommitCap[k]] = IF k <= p.steps THEN CapLen(p) ELSE 0
  BY ParamsAssumption
<1>4. \A k \in 1 .. p.steps : k \in 1 .. Len(CommitCap) /\ k <= p.steps
  BY <1>2
<1>5. \A k \in p.steps + 1 .. Len(CommitCap) : k \in 1 .. Len(CommitCap) /\ ~(k <= p.steps)
  BY <1>2
<1>6. CapLen(p) \in Nat
  BY <1>1, NotOpenings DEF CapLen
<1>. QED  BY <1>1, <1>3, <1>4, <1>5, <1>6, ParamsAssumption

\* A proof that is sent has these lengths, and so have the targets for it.
LEMMA HonestIs ==
    ASSUME NEW p \in Params
    PROVE  Honest(p) \in [Message -> Seq(Element)] /\ \A m \in Message : Len(Honest(p)[m]) = p.len[m]
<1> DEFINE f(m, i) == <<m, i, "sent">>
           g(m) == [i \in 1 .. p.len[m] |-> f(m, i)]
<1>1. \A m \in Message : \A i \in Nat : f(m, i) \in Element
  BY DEF Element
<1>2. Honest(p) = [m \in Message |-> g(m)]
  BY DEF Honest
<1>3. ASSUME NEW m \in Message PROVE g(m) \in Seq(Element) /\ Len(g(m)) = p.len[m]
  <2> DEFINE n == p.len[m]
             h(i) == f(m, i)
  <2>1. n \in Nat /\ \A i \in 1 .. n : h(i) \in Element
    BY <1>1, Shapes
  <2> HIDE DEF n, h
  <2>2. [i \in 1 .. n |-> h(i)] \in Seq(Element) /\ Len([i \in 1 .. n |-> h(i)]) = n
    BY <2>1
  <2>. QED  BY <2>2 DEF n, h
<1> HIDE DEF g
<1>. QED  BY <1>2, <1>3

LEMMA TargetsAre ==
    ASSUME NEW p \in Params
    PROVE  Targets(p) \in [Message -> Seq(Nat)] /\ \A m \in Message : Len(Targets(p)[m]) = p.len[m]
<1> DEFINE g(m) == [i \in 1 .. p.len[m] |-> i]
<1>1. Targets(p) = [m \in Message |-> g(m)]
  BY DEF Targets
<1>2. ASSUME NEW m \in Message PROVE g(m) \in Seq(Nat) /\ Len(g(m)) = p.len[m]
  <2> DEFINE n == p.len[m]
  <2>1. n \in Nat
    BY Shapes
  <2> HIDE DEF n
  <2>2. [i \in 1 .. n |-> i] \in Seq(Nat) /\ Len([i \in 1 .. n |-> i]) = n
    BY <2>1
  <2>. QED  BY <2>2 DEF n
<1> HIDE DEF g
<1>. QED  BY <1>1, <1>2

\* Openings of the same lengths make batches of the same lengths.
AsLongOpenings(v, w) == \A m \in Openings : Len(v[m]) = Len(w[m])

LEMMA BatchesAsLong ==
    ASSUME NEW S, NEW T, NEW v \in [Message -> Seq(S)], NEW w \in [Message -> Seq(T)],
           AsLongOpenings(v, w)
    PROVE  Len(Batches(v)[1]) = Len(Batches(w)[1]) /\ Len(Batches(v)[2]) = Len(Batches(w)[2])
<1>1. /\ Len(v["constants"]) = Len(w["constants"]) /\ Len(v["sigmas"]) = Len(w["sigmas"])
      /\ Len(v["wires"]) = Len(w["wires"]) /\ Len(v["zs"]) = Len(w["zs"])
      /\ Len(v["partial_products"]) = Len(w["partial_products"])
      /\ Len(v["quotient_polys"]) = Len(w["quotient_polys"]) /\ Len(v["lookup_zs"]) = Len(w["lookup_zs"])
      /\ Len(v["zs_next"]) = Len(w["zs_next"]) /\ Len(v["lookup_zs_next"]) = Len(w["lookup_zs_next"])
  BY OpeningsAre DEF AsLongOpenings
<1>2. /\ Len(Batches(v)[1]) = Len(v["constants"]) + Len(v["sigmas"]) + Len(v["wires"]) + Len(v["zs"])
                                + Len(v["partial_products"]) + Len(v["quotient_polys"]) + Len(v["lookup_zs"])
      /\ Len(Batches(v)[2]) = IF Len(v["lookup_zs"]) # 0
                              THEN Len(v["zs_next"]) + Len(v["lookup_zs_next"])
                              ELSE Len(v["zs_next"])
  BY BatchesAre
<1>3. /\ Len(Batches(w)[1]) = Len(w["constants"]) + Len(w["sigmas"]) + Len(w["wires"]) + Len(w["zs"])
                                + Len(w["partial_products"]) + Len(w["quotient_polys"]) + Len(w["lookup_zs"])
      /\ Len(Batches(w)[2]) = IF Len(w["lookup_zs"]) # 0
                              THEN Len(w["zs_next"]) + Len(w["lookup_zs_next"])
                              ELSE Len(w["zs_next"])
  BY BatchesAre
<1>. QED  BY <1>1, <1>2, <1>3

\* The batches that a circuit has targets for are as long as those sent.
LEMMA BatchLensAre ==
    ASSUME NEW p \in Params
    PROVE  /\ BatchLens(p)[1] = Len(Batches(Honest(p))[1]) /\ BatchLens(p)[2] = Len(Batches(Honest(p))[2])
           /\ BatchLens(p)[1] \in Nat /\ BatchLens(p)[2] \in Nat
<1> DEFINE t == Targets(p)
           h == Honest(p)
           l(b) == Len(Batches(t)[b])
<1>1. t \in [Message -> Seq(Nat)] /\ h \in [Message -> Seq(Element)]
      /\ AsLongOpenings(t, h)
  BY TargetsAre, HonestIs, Named DEF AsLongOpenings
<1>2. BatchLens(p) = [b \in 1 .. 2 |-> l(b)]
  BY DEF BatchLens
<1>3. BatchLens(p)[1] = l(1) /\ BatchLens(p)[2] = l(2)
  BY <1>2
<1> HIDE DEF t, h
<1>4. Len(Batches(t)[1]) = Len(Batches(h)[1]) /\ Len(Batches(t)[2]) = Len(Batches(h)[2])
  BY <1>1, BatchesAsLong, SMTT(30)
<1>5. Batches(h)[1] \in Seq(Element) /\ Batches(h)[2] \in Seq(Element)
  BY <1>1, BatchesAre
<1>6. Len(Batches(h)[1]) \in Nat /\ Len(Batches(h)[2]) \in Nat
  <2> DEFINE x == Batches(h)[1]
             y == Batches(h)[2]
  <2> HIDE DEF x, y
  <2>1. x \in Seq(Element) /\ y \in Seq(Element)
    BY <1>5 DEF x, y
  <2>2. Len(x) \in Nat /\ Len(y) \in Nat
    BY <2>1
  <2>. QED  BY <2>2 DEF x, y
<1>. QED  BY <1>3, <1>4, <1>6 DEF h

\* What a verifier is given, of whatever change: only parts that the program
\* does not hold to a length may be longer or shorter than they should be.
Viewed(p, v) ==
    /\ v \in [Message -> Seq(Element)]
    /\ \A m \in Data \cup {"pow_witness"} : Len(v[m]) = p.len[m]

\* What a final polynomial is extended with.
LEMMA ZerosAre ==
    ASSUME NEW n \in Nat
    PROVE  Zeros(n) \in Seq(Element) /\ Len(Zeros(n)) = n
<1> DEFINE z == <<"zero", 0, "sent">>
<1>1. z \in Element
  BY DEF Element
<1>2. Zeros(n) = [i \in 1 .. n |-> z]
  BY DEF Zeros
<1> HIDE DEF z
<1>. QED  BY <1>1, <1>2

\* The shape of the proofs that are sent for a circuit.
SameShape(p, v) == \A m \in Message : Len(v[m]) = p.len[m]

\* The last cap that a proof has, if it has one.
LEMMA NumCapsIs ==
    ASSUME NEW v \in [Message -> Seq(Element)]
    PROVE  /\ NumCaps(v) \in 0 .. Len(CommitCap)
           /\ NumCaps(v) # 0 => v[CommitCap[NumCaps(v)]] # <<>>
           /\ \A k \in 1 .. Len(CommitCap) : v[CommitCap[k]] # <<>> => k <= NumCaps(v)
<1> DEFINE n == Len(CommitCap)
           K == {k \in 1 .. n : v[CommitCap[k]] # <<>>}
           S == {0} \cup K
           T == {n - k : k \in S}
<1>1. n \in Nat
  BY Named
<1> HIDE DEF n
<1>2. S \subseteq 0 .. n /\ 0 \in S /\ T \in SUBSET Nat /\ n \in T
  BY <1>1
<1>3. PICK b \in T : \A c \in T : b <= c
  <2> HIDE DEF T
  <2>. QED  BY <1>2, LeastNatural
<1>4. PICK x \in S : b = n - x
  BY <1>3
<1>5. \A y \in S : x >= y
  <2>1. \A y \in S : n - x <= n - y /\ y \in 0 .. n
    BY <1>2, <1>3, <1>4
  <2>2. x \in 0 .. n
    BY <1>2, <1>4
  <2> HIDE DEF S
  <2>. QED  BY <1>1, <2>1, <2>2
<1>6. NumCaps(v) = CHOOSE z \in S : \A y \in S : z >= y
  BY DEF NumCaps, Max, n
<1> DEFINE m == NumCaps(v)
<1>7. m \in S /\ \A y \in S : m >= y
  <2> HIDE DEF S
  <2>. QED  BY <1>4, <1>5, <1>6
<1> HIDE DEF m
<1>8. m # 0 => m \in K
  BY <1>7
<1>9. \A k \in K : k <= m
  <2>1. \A k \in K : k \in S /\ k \in 0 .. n /\ m >= k
    BY <1>2, <1>7
  <2>2. m \in 0 .. n
    BY <1>2, <1>7
  <2> HIDE DEF K, S
  <2>. QED  BY <1>1, <2>1, <2>2
<1>. QED  BY <1>2, <1>7, <1>8, <1>9 DEF m, n

\* A proof of that shape has a cap for every reduction, and a proof of a valid
\* shape that does is of that shape.
LEMMA ShapeIs ==
    ASSUME NEW p \in Params, NEW v \in [Message -> Seq(Element)]
    PROVE  /\ SameShape(p, v) => NumCaps(v) = p.steps /\ ShapeValid(p, v) /\ CapsSuffice(p, v)
           /\ ShapeValid(p, v) /\ NumCaps(v) = p.steps => SameShape(p, v)
<1> DEFINE n == Len(CommitCap)
           s == p.steps
           x == NumCaps(v)
<1>1. n \in Nat /\ s \in 0 .. n /\ \A k \in 1 .. n : CommitCap[k] \in Message
  BY Named DEF Stepped
<1>2. /\ x \in 0 .. n /\ (x # 0 => v[CommitCap[x]] # <<>>)
      /\ \A k \in 1 .. n : v[CommitCap[k]] # <<>> => k <= x
  BY NumCapsIs
<1>3. /\ \A k \in 1 .. s : p.len[CommitCap[k]] = CapLen(p)
      /\ \A k \in s + 1 .. n : p.len[CommitCap[k]] = 0
      /\ CapLen(p) \in Nat /\ CapLen(p) > 0
  BY Shapes
<1>4. \A m \in Message : Len(v[m]) = 0 <=> v[m] = <<>>
  BY EmptySeq
<1> HIDE DEF n, x
<1>5. ASSUME SameShape(p, v) PROVE x = s /\ ShapeValid(p, v) /\ CapsSuffice(p, v)
  <2>1. \A m \in Message : Len(v[m]) = p.len[m]
    BY <1>5 DEF SameShape
  <2>2. \A k \in 1 .. s : k \in 1 .. n /\ Len(v[CommitCap[k]]) = CapLen(p) /\ v[CommitCap[k]] # <<>>
    <3>1. \A k \in 1 .. s : k \in 1 .. n
      BY <1>1
    <3>2. \A k \in 1 .. s : Len(v[CommitCap[k]]) = CapLen(p)
      BY <1>1, <1>3, <2>1, <3>1
    <3>. QED  BY <1>1, <1>3, <1>4, <3>1, <3>2
  <2>3. \A k \in s + 1 .. n : v[CommitCap[k]] = <<>>
    <3>1. \A k \in s + 1 .. n : k \in 1 .. n
      BY <1>1
    <3>. QED  BY <1>1, <1>3, <1>4, <2>1, <3>1
  <2>4. x <= s
    <3>1. CASE x = 0
      BY <1>1, <3>1
    <3>2. CASE x # 0
      <4>1. x \notin s + 1 .. n
        BY <1>2, <2>3, <3>2
      <4>. QED  BY <1>1, <1>2, <4>1
    <3>. QED  BY <3>1, <3>2
  <2>5. s <= x
    <3>1. CASE s = 0
      BY <1>2, <3>1
    <3>2. CASE s # 0
      <4>1. s \in 1 .. s
        BY <1>1, <3>2
      <4>. QED  BY <1>2, <2>2, <4>1
    <3>. QED  BY <3>1, <3>2
  <2>6. x = s
    BY <1>1, <1>2, <2>4, <2>5
  <2>7. CapsValid(p, v)
    BY <2>2, <2>6 DEF CapsValid, x
  <2>8. CapsSuffice(p, v)
    BY <1>1, <2>6 DEF CapsSuffice, x
  <2>. QED  BY <2>1, <2>6, <2>7, <2>8 DEF ShapeValid
<1>6. ASSUME ShapeValid(p, v), x = s PROVE SameShape(p, v)
  <2>1. /\ \A k \in 1 .. s : Len(v[CommitCap[k]]) = CapLen(p)
        /\ \A m \in Message \ ToSet(CommitCap) : Len(v[m]) = p.len[m]
    BY <1>6 DEF ShapeValid, CapsValid, x
  <2>2. ASSUME NEW k \in 1 .. n PROVE Len(v[CommitCap[k]]) = p.len[CommitCap[k]]
    <3>1. CASE k \in 1 .. s
      BY <1>3, <2>1, <3>1
    <3>2. CASE k \notin 1 .. s
      <4>1. k \in s + 1 .. n /\ ~(k <= x)
        BY <1>1, <1>6, <3>2
      <4>2. v[CommitCap[k]] = <<>>
        BY <1>2, <4>1
      <4>. QED  BY <1>1, <1>3, <1>4, <4>1, <4>2
    <3>. QED  BY <3>1, <3>2
  <2>3. \A m \in ToSet(CommitCap) : \E k \in 1 .. n : m = CommitCap[k]
    BY NameAssumption DEF ToSet, n
  <2>4. \A m \in ToSet(CommitCap) : Len(v[m]) = p.len[m]
    BY <2>2, <2>3
  <2>. QED  BY <2>1, <2>4 DEF SameShape
<1>. QED  BY <1>5, <1>6 DEF x

\* What follows from it.
LEMMA ShapeKept ==
    ASSUME NEW p \in Params, NEW v \in [Message -> Seq(Element)], SameShape(p, v)
    PROVE  /\ AsLong(p, v, Batches(v), Honest(p), Batches(Honest(p)))
           /\ AsLong(p, v, Batches(v), v, Batches(v))
           /\ AsLongOpenings(v, Honest(p))
           /\ Len(v["pow_witness"]) = 1
           /\ Len(v["lookup_zs"]) = 0 => Len(v["lookup_zs_next"]) = 0
<1> DEFINE h == Honest(p)
           b == Batches(v)
           d == Batches(h)
<1>1. h \in [Message -> Seq(Element)] /\ \A m \in Message : Len(h[m]) = p.len[m]
  BY HonestIs
<1>2. \A m \in Message : Len(v[m]) = p.len[m]
  BY DEF SameShape
<1> HIDE DEF h
<1>3. /\ b \in Seq(Seq(Element)) /\ Len(b) = 2
      /\ d \in Seq(Seq(Element)) /\ Len(d) = 2
  BY <1>1, BatchesAre
<1>4. AsLongOpenings(v, h)
  BY <1>1, <1>2, Named DEF AsLongOpenings
<1>5. Len(b[1]) = Len(d[1]) /\ Len(b[2]) = Len(d[2])
  <2>1. Len(Batches(v)[1]) = Len(Batches(h)[1]) /\ Len(Batches(v)[2]) = Len(Batches(h)[2])
    <3> HIDE DEF b, d
    <3>1. v \in [Message -> Seq(Element)] /\ h \in [Message -> Seq(Element)]
      BY <1>1
    <3>. QED  BY ONLY <1>4, <3>1, BatchesAsLong, ZenonT(30)
  <2>. QED  BY <2>1
<1> HIDE DEF b, d
<1>6. \A k \in p.steps + 1 .. Len(CommitCap) : Len(v[CommitCap[k]]) = 0
  <2>1. \A k \in p.steps + 1 .. Len(CommitCap) : CommitCap[k] \in Message
    <3>1. p.steps \in Nat /\ Len(CommitCap) \in Nat
      BY Named
    <3>2. \A k \in p.steps + 1 .. Len(CommitCap) : k \in 1 .. Len(CommitCap)
      BY <3>1
    <3>. QED  BY <3>2, Named
  <2>. QED  BY <1>2, <2>1, Shapes
<1>7. \A m \in Message \ Openings : Len(v[m]) = Len(h[m])
  BY <1>1, <1>2
<1>8. AsLong(p, v, b, h, d) /\ AsLong(p, v, b, v, b)
  BY <1>1, <1>3, <1>5, <1>6, <1>7 DEF AsLong, Given
<1>9. /\ Len(v["pow_witness"]) = 1
      /\ Len(v["lookup_zs"]) = 0 => Len(v["lookup_zs_next"]) = 0
  BY <1>2, Shapes, Named, OpeningsAre
<1>. QED  BY <1>4, <1>8, <1>9 DEF h, b, d

\* The names of caps and of the final polynomial.
LEMMA CapsAre ==
    /\ Caps \subseteq Message \ Openings /\ "final_poly" \notin Caps /\ "public_inputs" \notin Caps
    /\ \A m \in Message \ Openings : m \in Caps \/ m \in Data \/ m \in {"final_poly", "public_inputs", "pow_witness"}
    /\ Data \cap Caps = {} /\ "pow_witness" \notin Caps /\ "final_poly" \notin Data
<1>1. ToSet(CommitCap) \cap (Data \cup TraceCaps \cup Openings
                                \cup {"public_inputs", "final_poly", "pow_witness"}) = {}
  BY NameAssumption
<1>. QED  BY <1>1, OpeningsAre DEF Caps, TraceCaps, Message, Data

\* A cap that there is fills the targets there are for it.
LEMMA CapsFilled ==
    ASSUME NEW p \in Params, NEW v, Viewed(p, v), Fillable(p, v), NEW m \in Caps, v[m] # <<>>
    PROVE  Len(v[m]) >= p.len[m]
<1> DEFINE x == NumCaps(v)
<1>1. v \in [Message -> Seq(Element)]
  BY DEF Viewed
<1>2. CASE m \in TraceCaps
  BY <1>2 DEF Fillable
<1>3. CASE m \in ToSet(CommitCap)
  <2>1. PICK k \in 1 .. Len(CommitCap) : m = CommitCap[k]
    BY <1>3, NameAssumption DEF ToSet
  <2>2. x \in 0 .. Len(CommitCap) /\ k <= x /\ x <= p.steps /\ Len(CommitCap) \in Nat /\ p.steps \in Nat
    BY <1>1, <2>1, NumCapsIs, Named DEF Fillable
  <2> HIDE DEF x
  <2>3. k \in 1 .. x /\ k \in 1 .. p.steps
    BY <2>2
  <2>4. Len(v[m]) >= CapLen(p)
    BY <2>1, <2>3 DEF Fillable, x
  <2>5. p.len[m] = CapLen(p)
    BY <2>1, <2>3, Shapes
  <2>. QED  BY <2>4, <2>5
<1>. QED  BY <1>2, <1>3 DEF Caps

\* The targets' values have the circuit's lengths, and are the proof's when it
\* has the shape of the circuit's proofs.
LEMMA FilledIs ==
    ASSUME NEW p \in Params, NEW v, Viewed(p, v), Fillable(p, v)
    PROVE  /\ Filled(p, v) \in [Message -> Seq(Element)]
           /\ \A m \in Message \ Openings : Len(Filled(p, v)[m]) = p.len[m]
           /\ SameShape(p, v) => Filled(p, v) = v
<1> DEFINE cut(m) == IF v[m] = <<>> THEN Zeros(p.len[m]) ELSE SubSeq(v[m], 1, p.len[m])
           f == "final_poly"
           padded == v[f] \o Zeros(p.len[f] - Len(v[f]))
           value(m) == CASE m \in Caps -> cut(m)
                         [] m = f -> padded
                         [] OTHER -> v[m]
           w == Filled(p, v)
<1>1. v \in [Message -> Seq(Element)] /\ \A m \in Message : v[m] \in Seq(Element) /\ p.len[m] \in Nat
  BY Shapes DEF Viewed
<1>2. w = [m \in Message |-> value(m)]
  <2>1. \A m \in Message : value(m) = CASE m \in Caps -> IF v[m] = <<>> THEN Zeros(p.len[m])
                                                         ELSE SubSeq(v[m], 1, p.len[m])
                             [] m = "final_poly" -> v[m] \o Zeros(p.len[m] - Len(v[m]))
                             [] OTHER -> v[m]
    OBVIOUS
  <2>. QED  BY <2>1 DEF Filled
<1>3. ASSUME NEW m \in Caps
      PROVE  cut(m) \in Seq(Element) /\ Len(cut(m)) = p.len[m] /\ (Len(v[m]) = p.len[m] => cut(m) = v[m])
  <2> DEFINE s == v[m]
             n == p.len[m]
  <2>1. s \in Seq(Element) /\ n \in Nat /\ (s # <<>> => Len(s) >= n)
    BY <1>1, CapsFilled, CapsAre
  <2> HIDE DEF s, n
  <2>2. Len(s) \in Nat
    BY <2>1
  <2>3. CASE s = <<>>
    <3> DEFINE z == Zeros(n)
    <3>1. z \in Seq(Element) /\ Len(z) = n
      BY <2>1, ZerosAre
    <3>2. Len(s) = 0
      BY <2>3
    <3> HIDE DEF z
    <3>3. Len(s) = n => z = <<>>
      BY <3>1, <3>2, EmptySeq
    <3>. QED  BY <2>3, <3>1, <3>3 DEF s, n, z
  <2>4. CASE s # <<>>
    <3>1. n <= Len(s)
      BY <2>1, <2>2, <2>4
    <3>2. SubSeq(s, 1, n) \in Seq(Element) /\ Len(SubSeq(s, 1, n)) = n /\ (n = Len(s) => SubSeq(s, 1, n) = s)
      BY <2>1, <3>1, Prefix
    <3>. QED  BY <2>4, <3>2 DEF s, n
  <2>. QED  BY <2>3, <2>4
<1>4. padded \in Seq(Element) /\ Len(padded) = p.len[f] /\ (Len(v[f]) = p.len[f] => padded = v[f])
  <2> DEFINE s == v[f]
             n == p.len[f]
             k == n - Len(s)
             z == Zeros(k)
  <2>1. s \in Seq(Element) /\ n \in Nat /\ Len(s) <= n
    BY <1>1, Named DEF Fillable
  <2> HIDE DEF s, n
  <2>2. k \in Nat /\ Len(s) \in Nat
    BY <2>1
  <2>3. Len(s) + k = n
    BY <2>1, <2>2
  <2> HIDE DEF k
  <2>4. z \in Seq(Element) /\ Len(z) = k
    BY <2>2, ZerosAre
  <2> HIDE DEF z
  <2>5. /\ s \o z \in Seq(Element) /\ Len(s \o z) = Len(s) + Len(z)
        /\ \A i \in 1 .. Len(s) : (s \o z)[i] = s[i]
    BY <2>1, <2>4, Joined
  <2>6. Len(s) = n => s \o z = s
    <3>1. SUFFICES ASSUME Len(s) = n PROVE s \o z = s
      OBVIOUS
    <3> DEFINE t == s \o z
    <3>2. t \in Seq(Element) /\ Len(t) = Len(s) /\ \A i \in 1 .. Len(s) : t[i] = s[i]
      BY <2>2, <2>3, <2>4, <2>5, <3>1
    <3> HIDE DEF t
    <3>3. t = s
      BY <2>1, <3>2, SeqEqual
    <3>. QED  BY <3>3 DEF t
  <2>7. s \o z \in Seq(Element) /\ Len(s \o z) = n
    BY <2>2, <2>3, <2>4, <2>5
  <2>. QED  BY <2>6, <2>7 DEF z, k, s, n
<1> HIDE DEF cut, padded
<1>5. \A m \in Message : value(m) \in Seq(Element)
  BY <1>1, <1>3, <1>4
<1>6. \A m \in Message : w[m] = value(m)
  BY <1>2
<1>7. ASSUME NEW m \in Message \ Openings PROVE Len(value(m)) = p.len[m]
  <2>1. CASE m \in Caps
    BY <1>3, <2>1, CapsAre
  <2>2. CASE m = f
    BY <1>4, <2>2, CapsAre
  <2>3. CASE m \notin Caps /\ m # f
    <3>1. m \in Data \/ m = "public_inputs" \/ m = "pow_witness"
      BY <2>3, CapsAre
    <3>2. Len(v[m]) = p.len[m]
      BY <3>1 DEF Viewed, Fillable
    <3>. QED  BY <2>3, <3>2
  <2>. QED  BY <2>1, <2>2, <2>3
<1>8. ASSUME SameShape(p, v) PROVE w = v
  <2>1. \A m \in Message : Len(v[m]) = p.len[m]
    BY <1>8 DEF SameShape
  <2>2. \A m \in Message : value(m) = v[m]
    BY <1>3, <1>4, <2>1, Named
  <2> HIDE DEF value, w
  <2>. QED  BY <1>1, <1>2, <2>2
<1> HIDE DEF value, w
<1>9. w \in [Message -> Seq(Element)]
  BY <1>2, <1>5
<1>. QED  BY <1>6, <1>7, <1>8, <1>9 DEF w

\* So are the openings in their batches.
LEMMA FilledBatchesAre ==
    ASSUME NEW p \in Params, NEW v, Viewed(p, v), Fillable(p, v)
    PROVE  LET b == FilledBatches(p, v)
           IN  /\ b \in Seq(Seq(Element)) /\ Len(b) = 2
               /\ Len(b[1]) = BatchLens(p)[1] /\ Len(b[2]) = BatchLens(p)[2]
               /\ SameShape(p, v) => b = Batches(v)
<1> DEFINE T == Seq(Element)
           l == BatchLens(p)
           a == Batches(v)
           g(i) == SubSeq(a[i], 1, l[i])
           b == FilledBatches(p, v)
<1>1. v \in [Message -> Seq(Element)]
  BY DEF Viewed
<1>2. a \in Seq(T) /\ Len(a) = 2 /\ a[1] \in T /\ a[2] \in T
  BY <1>1, BatchesAre
<1>3. l[1] \in Nat /\ l[2] \in Nat
  BY BatchLensAre
<1>4. Len(a[1]) >= l[1] /\ Len(a[2]) >= l[2]
  BY DEF Fillable
<1>5. b = [i \in 1 .. 2 |-> g(i)]
  BY DEF FilledBatches
<1> HIDE DEF a, b, l
<1>6. ASSUME NEW i \in 1 .. 2
      PROVE  g(i) \in T /\ Len(g(i)) = l[i] /\ (Len(a[i]) = l[i] => g(i) = a[i])
  <2> DEFINE s == a[i]
             n == l[i]
  <2>1. s \in Seq(Element) /\ n \in Nat /\ Len(s) >= n
    BY <1>2, <1>3, <1>4
  <2> HIDE DEF s, n
  <2>2. n <= Len(s)
    <3>1. Len(s) \in Nat
      BY <2>1
    <3>. QED  BY <2>1, <3>1
  <2>3. SubSeq(s, 1, n) \in Seq(Element) /\ Len(SubSeq(s, 1, n)) = n /\ (n = Len(s) => SubSeq(s, 1, n) = s)
    BY <2>1, <2>2, Prefix
  <2>. QED  BY <2>3 DEF s, n
<1> HIDE DEF g, T
<1>7. b \in Seq(T) /\ Len(b) = 2 /\ \A i \in 1 .. 2 : b[i] = g(i)
  <2>1. \A i \in 1 .. 2 : g(i) \in T
    BY <1>6
  <2>. QED  BY <1>5, <2>1
<1>8. ASSUME SameShape(p, v) PROVE b = a
  <2>1. Len(a[1]) = l[1] /\ Len(a[2]) = l[2]
    <3>1. AsLong(p, v, Batches(v), Honest(p), Batches(Honest(p)))
      BY <1>1, <1>8, ShapeKept
    <3>. QED  BY <3>1, BatchLensAre DEF AsLong, a, l
  <2>2. \A i \in 1 .. 2 : b[i] = a[i]
    BY <1>6, <1>7, <2>1
  <2>. QED  BY <1>2, <1>7, <2>2, SeqEqual
<1>9. Len(b[1]) = l[1] /\ Len(b[2]) = l[2]
  BY <1>6, <1>7
<1>. QED  BY <1>7, <1>8, <1>9 DEF T, b, a, l

\* A proof of that shape fills the targets.
LEMMA ShapeFillable ==
    ASSUME NEW p \in Params, NEW v \in [Message -> Seq(Element)], SameShape(p, v)
    PROVE  Viewed(p, v) /\ Fillable(p, v)
<1>1. \A m \in Message : Len(v[m]) = p.len[m] /\ p.len[m] \in Nat
  BY Shapes DEF SameShape
<1>2. NumCaps(v) = p.steps /\ CapsValid(p, v) /\ CapLen(p) \in Nat /\ p.steps \in Nat
  BY ShapeIs, Shapes, Named DEF ShapeValid
<1>3. Len(Batches(v)[1]) = BatchLens(p)[1] /\ Len(Batches(v)[2]) = BatchLens(p)[2]
  BY ShapeKept, BatchLensAre DEF AsLong
<1>4. \A b \in 1 .. 2 : Len(Batches(v)[b]) = BatchLens(p)[b] /\ BatchLens(p)[b] \in Nat
  BY <1>3, BatchLensAre
<1>5. /\ Len(v["public_inputs"]) = p.len["public_inputs"]
      /\ Len(v["final_poly"]) <= p.len["final_poly"]
      /\ NumCaps(v) <= p.steps
      /\ \A m \in TraceCaps : Len(v[m]) >= p.len[m]
      /\ \A k \in 1 .. NumCaps(v) : Len(v[CommitCap[k]]) >= CapLen(p)
  <2>1. "public_inputs" \in Message /\ "final_poly" \in Message /\ TraceCaps \subseteq Message
    BY Named, CapsAre
  <2>2. \A k \in 1 .. NumCaps(v) : Len(v[CommitCap[k]]) >= CapLen(p)
    BY <1>2 DEF CapsValid
  <2>. QED  BY <1>1, <1>2, <2>1, <2>2
<1>6. \A b \in 1 .. 2 : Len(Batches(v)[b]) >= BatchLens(p)[b]
  BY <1>4
<1>7. Viewed(p, v)
  BY <1>1, Named DEF Viewed
<1>. QED  BY <1>5, <1>6, <1>7 DEF Fillable

\* What a circuit's targets can be filled from is as long as the sent proof
\* once they are filled.
LEMMA FilledAsLong ==
    ASSUME NEW p \in Params, NEW v, Viewed(p, v), Fillable(p, v)
    PROVE  AsLong(p, Filled(p, v), FilledBatches(p, v), Honest(p), Batches(Honest(p)))
<1> DEFINE w == Filled(p, v)
           b == FilledBatches(p, v)
           h == Honest(p)
           d == Batches(h)
<1>1. /\ w \in [Message -> Seq(Element)] /\ \A m \in Message \ Openings : Len(w[m]) = p.len[m]
  BY FilledIs
<1>2. /\ b \in Seq(Seq(Element)) /\ Len(b) = 2 /\ Len(b[1]) = BatchLens(p)[1] /\ Len(b[2]) = BatchLens(p)[2]
  BY FilledBatchesAre
<1>3. h \in [Message -> Seq(Element)] /\ \A m \in Message : Len(h[m]) = p.len[m]
  BY HonestIs
<1>4. Len(d[1]) = BatchLens(p)[1] /\ Len(d[2]) = BatchLens(p)[2]
  BY BatchLensAre
<1> HIDE DEF w, b, h
<1>5. d \in Seq(Seq(Element)) /\ Len(d) = 2
  BY <1>3, BatchesAre
<1> HIDE DEF d
<1>6. \A k \in p.steps + 1 .. Len(CommitCap) : Len(w[CommitCap[k]]) = 0
  <2>1. \A k \in p.steps + 1 .. Len(CommitCap) : CommitCap[k] \in Message \ Openings
    <3>1. p.steps \in Nat /\ Len(CommitCap) \in Nat
      BY Named
    <3>2. \A k \in p.steps + 1 .. Len(CommitCap) : k \in 1 .. Len(CommitCap)
      BY <3>1
    <3>. QED  BY <3>2, NotOpenings
  <2>. QED  BY <1>1, <2>1, Shapes
<1>7. AsLong(p, w, b, h, d)
  BY <1>1, <1>2, <1>3, <1>4, <1>5, <1>6 DEF AsLong, Given
<1>. QED  BY <1>7 DEF w, b, h, d

\* Whatever happens to a proof, it stays a proof.
LEMMA Replaced ==
    ASSUME NEW p, NEW v, Viewed(p, v), NEW m \in Message, NEW s \in Seq(Element),
           m \in Data \cup {"pow_witness"} => Len(s) = p.len[m]
    PROVE  Viewed(p, [v EXCEPT ![m] = s])
BY Named DEF Viewed

\* Elements that nobody sent.
LEMMA OthersAre ==
    ASSUME NEW m \in Message, NEW n \in Nat
    PROVE  Others(m, n) \in Seq(Element) /\ Len(Others(m, n)) = n
<1> DEFINE f(i) == <<m, i, "other">>
           o == Others(m, n)
<1>1. \A i \in 1 .. n : f(i) \in Element
  BY DEF Element
<1>2. o = [i \in 1 .. n |-> f(i)]
  BY DEF Others
<1> HIDE DEF f, o
<1>3. o \in Seq(Element) /\ Len(o) = n
  BY <1>1, <1>2
<1>. QED  BY <1>3 DEF o

\* Caps are added to and dropped from a proof without a change elsewhere.
LEMMA Capped ==
    ASSUME NEW v \in [Message -> Seq(Element)], NEW n \in 0 .. Len(CommitCap)
    PROVE  /\ WithCaps(v, n) \in [Message -> Seq(Element)]
           /\ \A m \in Message \ ToSet(CommitCap) : WithCaps(v, n)[m] = v[m]
           /\ \A k \in n + 1 .. Len(CommitCap) : WithCaps(v, n)[CommitCap[k]] = <<>>
           /\ n <= NumCaps(v) => \A k \in 1 .. n : WithCaps(v, n)[CommitCap[k]] = v[CommitCap[k]]
<1> DEFINE l == Len(CommitCap)
           x == NumCaps(v)
           k0 == Len(v["wires_cap"])
           past(m) == \E k \in n + 1 .. l : m = CommitCap[k]
           added(m) == \E k \in x + 1 .. n : m = CommitCap[k]
           value(m) == IF past(m) THEN <<>> ELSE IF added(m) THEN Others(m, k0) ELSE v[m]
           u == WithCaps(v, n)
<1>1. l \in Nat /\ n \in 0 .. l /\ x \in 0 .. l
  BY NumCapsIs, Named
<1>2. k0 \in Nat
  <2> DEFINE s == v["wires_cap"]
  <2>1. s \in Seq(Element)
    BY NotOpenings
  <2> HIDE DEF s
  <2>2. Len(s) \in Nat
    BY <2>1
  <2>. QED  BY <2>2 DEF s
<1>3. u = [m \in Message |-> value(m)]
  BY DEF WithCaps
<1>4. CommitCap \in Seq(STRING) /\ l = Len(CommitCap)
  BY NameAssumption
<1> HIDE DEF l, x, k0, u
<1>5. \A m \in Message : value(m) \in Seq(Element)
  BY <1>2, OthersAre
<1>6. \A m \in Message \ ToSet(CommitCap) : value(m) = v[m]
  <2>1. \A k \in n + 1 .. l : k \in 1 .. l
    BY <1>1
  <2>2. \A k \in x + 1 .. n : k \in 1 .. l
    BY <1>1
  <2>3. \A k \in 1 .. l : CommitCap[k] \in ToSet(CommitCap)
    BY <1>4 DEF ToSet
  <2>. QED  BY <2>1, <2>2, <2>3
<1>7. \A k \in n + 1 .. l : CommitCap[k] \in Message /\ value(CommitCap[k]) = <<>>
  <2>1. \A k \in n + 1 .. l : k \in 1 .. l
    BY <1>1
  <2>. QED  BY <1>4, <2>1, Named
<1>8. ASSUME n <= x, NEW k \in 1 .. n PROVE CommitCap[k] \in Message /\ value(CommitCap[k]) = v[CommitCap[k]]
  <2>1. k \in 1 .. l /\ k \notin n + 1 .. l /\ \A j \in n + 1 .. l : j \in 1 .. l
    BY <1>1
  <2>2. \A j \in 1 .. l : CommitCap[j] = CommitCap[k] => j = k
    BY <1>4, <2>1, NameAssumption DEF IsInjective
  <2>3. ~past(CommitCap[k])
    BY <2>1, <2>2
  <2>4. x + 1 .. n = {}
    BY <1>1, <1>8
  <2>. QED  BY <1>4, <2>1, <2>3, <2>4, Named
<1> HIDE DEF value
<1>. QED  BY <1>3, <1>5, <1>6, <1>7, <1>8, <1>4 DEF u, x, l

\* The end of a sequence.
LEMMA LastPart ==
    ASSUME NEW S, NEW s \in Seq(S), NEW k \in Nat, k <= Len(s)
    PROVE  SubSeq(s, Len(s) - k + 1, Len(s)) \in Seq(S)
<1> DEFINE n == Len(s)
           a == n - k + 1
           f(i) == s[i + a - 1]
           t == SubSeq(s, a, n)
<1>1. n \in Nat /\ a \in Nat /\ n - a + 1 = k
  OBVIOUS
<1>2. \A i \in 1 .. k : f(i) \in S
  <2>1. \A i \in 1 .. k : i + a - 1 \in 1 .. n
    BY <1>1
  <2> HIDE DEF a
  <2>. QED  BY <2>1
<1>3. t = [i \in 1 .. k |-> f(i)]
  <2>1. t = [i \in 1 .. n - a + 1 |-> f(i)]
    OBVIOUS
  <2> HIDE DEF t, f, a
  <2>. QED  BY <1>1, <2>1
<1> HIDE DEF t, f
<1>4. t \in Seq(S)
  BY <1>2, <1>3
<1>. QED  BY <1>4 DEF t, a, n

\* The openings are parts that may change their length.
LEMMA NamesAre ==
    ASSUME NEW names, names \in {ZetaOpenings, NextOpenings}, NEW k \in 1 .. Len(names)
    PROVE  names[k] \in Message /\ names[k] \notin Data \cup {"pow_witness"}
<1>1. ZetaOpenings \in Seq(Openings)
  BY OpeningsAre DEF ZetaOpenings
<1>2. NextOpenings \in Seq(Openings)
  BY OpeningsAre DEF NextOpenings
<1>3. names[k] \in Openings
  BY <1>1, <1>2
<1>. QED  BY <1>3, NotOpenings, Named DEF Data

\* A proof in which a value moved between openings is a proof.
LEMMA MovedIs ==
    ASSUME NEW p \in Params, NEW v, Viewed(p, v), NEW names, names \in {ZetaOpenings, NextOpenings},
           NEW w \in Moved(v, names)
    PROVE  Viewed(p, w)
<1>1. PICK k \in 1 .. Len(names) - 1 :
         /\ Len(v[names[k]]) >= D
         /\ w = [v EXCEPT ![names[k]] = SubSeq(@, 1, Len(@) - D),
                          ![names[k + 1]] = SubSeq(v[names[k]], Len(v[names[k]]) - D + 1, Len(v[names[k]])) \o @]
  BY DEF Moved
<1> DEFINE a == names[k]
           b == names[k + 1]
           s == v[a]
           x == SubSeq(s, 1, Len(s) - D)
           y == SubSeq(s, Len(s) - D + 1, Len(s))
           u == [v EXCEPT ![a] = x]
           z == y \o v[b]
<1>2. /\ a \in Message /\ a \notin Data \cup {"pow_witness"}
      /\ b \in Message /\ b \notin Data \cup {"pow_witness"}
  <2>1. Len(names) \in Nat
    BY DEF ZetaOpenings, NextOpenings
  <2>2. k \in 1 .. Len(names) /\ k + 1 \in 1 .. Len(names)
    BY <2>1
  <2>. QED  BY <2>2, NamesAre
<1>3. w = [u EXCEPT ![b] = z]
  BY <1>1
<1>4. s \in Seq(Element) /\ D \in Nat /\ Len(s) >= D
  BY <1>1, <1>2, Sizes DEF Viewed
<1> HIDE DEF s, a, b
<1>5. x \in Seq(Element) /\ y \in Seq(Element)
  <2> DEFINE n == Len(s) - D
  <2>1. n \in Nat /\ n <= Len(s) /\ D <= Len(s)
    BY <1>4
  <2> HIDE DEF n
  <2>2. SubSeq(s, 1, n) \in Seq(Element)
    BY <1>4, <2>1, Prefix
  <2>3. y \in Seq(Element)
    BY <1>4, <2>1, LastPart
  <2>. QED  BY <2>2, <2>3 DEF n
<1> HIDE DEF x, y
<1>6. Viewed(p, u)
  BY <1>2, <1>5, Replaced
<1> HIDE DEF u
<1>7. v[b] \in Seq(Element)
  BY <1>2 DEF Viewed
<1>8. z \in Seq(Element)
  <2> DEFINE t == v[b]
  <2>1. t \in Seq(Element)
    BY <1>7
  <2> HIDE DEF t
  <2>2. y \o t \in Seq(Element)
    BY <1>5, <2>1, Joined
  <2>. QED  BY <2>2 DEF t
<1> HIDE DEF z
<1>9. Viewed(p, [u EXCEPT ![b] = z])
  BY <1>2, <1>6, <1>8, Replaced
<1>. QED  BY <1>3, <1>9

\* So is one that changed in any way.
LEMMA ChangesViewed ==
    ASSUME NEW p \in Params, NEW w \in Changes(Honest(p))
    PROVE  Viewed(p, w)
<1> DEFINE v == Honest(p)
<1>1. v \in [Message -> Seq(Element)] /\ Viewed(p, v)
  <2>1. v \in [Message -> Seq(Element)] /\ \A m \in Message : Len(v[m]) = p.len[m]
    BY HonestIs
  <2>. QED  BY <2>1, Named DEF Viewed
<1>2. w \in {v} \/ w \in Altered(v) \/ w \in Cut(v) \/ w \in Grown(v) \/ w \in Recapped(v)
        \/ w \in Moved(v, ZetaOpenings) \/ w \in Moved(v, NextOpenings)
  BY DEF Changes
<1> HIDE DEF v
<1>3. CASE w \in Altered(v)
  <2>1. PICK m \in Message : \E i \in DOMAIN v[m] : w = [v EXCEPT ![m][i] = <<m, i, "other">>]
    BY <1>3 DEF Altered
  <2>2. PICK i \in DOMAIN v[m] : w = [v EXCEPT ![m][i] = <<m, i, "other">>]
    BY <2>1
  <2> DEFINE s == v[m]
             e == <<m, i, "other">>
             t == [s EXCEPT ![i] = e]
  <2>3. w = [v EXCEPT ![m] = t]
    BY <2>2
  <2>4. s \in Seq(Element) /\ i \in 1 .. Len(s)
    BY <1>1
  <2>5. e \in Element
    <3>1. i \in Nat
      BY <2>4
    <3>. QED  BY <3>1 DEF Element
  <2> HIDE DEF s, e
  <2>6. t \in Seq(Element) /\ Len(t) = Len(s)
    BY <2>4, <2>5
  <2> HIDE DEF t
  <2>7. m \in Data \cup {"pow_witness"} => Len(t) = p.len[m]
    BY <1>1, <2>6 DEF Viewed, s
  <2>8. Viewed(p, [v EXCEPT ![m] = t])
    BY <1>1, <2>6, <2>7, Replaced
  <2>. QED  BY <2>3, <2>8
<1>4. CASE w \in Cut(v)
  <2>1. PICK m \in Resizable : Len(v[m]) >= D /\ w = [v EXCEPT ![m] = SubSeq(@, 1, Len(@) - D)]
    BY <1>4 DEF Cut
  <2> DEFINE s == v[m]
             n == Len(s) - D
             t == SubSeq(s, 1, n)
  <2>2. w = [v EXCEPT ![m] = t]
    BY <2>1
  <2>3. m \in Message /\ m \notin Data \cup {"pow_witness"}
    BY DEF Resizable
  <2>4. s \in Seq(Element) /\ Len(s) >= D /\ D \in Nat
    BY <1>1, <2>1, <2>3, Sizes
  <2> HIDE DEF s
  <2>5. n \in Nat /\ n <= Len(s)
    BY <2>4
  <2> HIDE DEF n
  <2>6. t \in Seq(Element)
    BY <2>4, <2>5, Prefix
  <2> HIDE DEF t
  <2>7. Viewed(p, [v EXCEPT ![m] = t])
    BY <1>1, <2>3, <2>6, Replaced
  <2>. QED  BY <2>2, <2>7
<1>5. CASE w \in Grown(v)
  <2>1. PICK m \in Resizable : w = [v EXCEPT ![m] = @ \o Others(m, D)]
    BY <1>5 DEF Grown
  <2> DEFINE s == v[m]
             o == Others(m, D)
             t == s \o o
  <2>2. w = [v EXCEPT ![m] = t]
    BY <2>1
  <2>3. m \in Message /\ m \notin Data \cup {"pow_witness"}
    BY DEF Resizable
  <2>4. s \in Seq(Element) /\ D \in Nat
    BY <1>1, <2>3, Sizes
  <2>5. o \in Seq(Element)
    BY <2>3, <2>4, OthersAre
  <2> HIDE DEF s, o
  <2>6. t \in Seq(Element)
    BY <2>4, <2>5, Joined
  <2> HIDE DEF t
  <2>7. Viewed(p, [v EXCEPT ![m] = t])
    BY <1>1, <2>3, <2>6, Replaced
  <2>. QED  BY <2>2, <2>7
<1>6. CASE w \in Moved(v, ZetaOpenings)
  BY <1>1, <1>6, MovedIs
<1>7. CASE w \in Moved(v, NextOpenings)
  BY <1>1, <1>7, MovedIs
<1>8. CASE w \in Recapped(v)
  <2>1. PICK n \in 0 .. Len(CommitCap) : w = WithCaps(v, n)
    BY <1>8 DEF Recapped
  <2>2. /\ w \in [Message -> Seq(Element)]
        /\ \A m \in Message \ ToSet(CommitCap) : w[m] = v[m]
    BY <1>1, <2>1, Capped
  <2>3. Data \cup {"pow_witness"} \subseteq Message \ ToSet(CommitCap)
    BY CapsAre, Named DEF Caps
  <2>. QED  BY <1>1, <2>2, <2>3 DEF Viewed
<1>. QED  BY <1>1, <1>2, <1>3, <1>4, <1>5, <1>6, <1>7, <1>8

-----------------------------------------------------------------------------
(* Proofs with more caps than there are reductions.                        *)

\* A transcript takes these two from the shape of a circuit's proofs.
WithSteps(p, n) == [lookup |-> p.lookup, steps |-> n]

Surplus(p, v) ==
    v \in [Message -> Seq(Element)] /\ ShapeValid(p, v) /\ NumCaps(v) > p.steps

LongTranscript(p, v) == CircuitTranscript(WithSteps(p, NumCaps(v)), v, Batches(v))

LEMMA LongIs ==
    ASSUME NEW p \in Params, NEW v \in [Message -> Seq(Element)]
    PROVE  LET e == WithSteps(p, NumCaps(v))
               b == Batches(v)
           IN  /\ Stepped(e) /\ e.steps = NumCaps(v) /\ e.lookup = p.lookup
               /\ AsLong(e, v, b, v, b) /\ LaidOut(LongTranscript(p, v), e, v, b)
               /\ VerifierTranscript(p, v) = LongTranscript(p, v)
<1> DEFINE x == NumCaps(v)
           e == WithSteps(p, x)
           b == Batches(v)
<1>1. /\ x \in 0 .. Len(CommitCap) /\ Len(CommitCap) \in Nat
      /\ \A k \in 1 .. Len(CommitCap) : v[CommitCap[k]] # <<>> => k <= x
  BY NumCapsIs, Named
<1>2. e.steps = x /\ e.lookup = p.lookup
  BY DEF WithSteps
<1>3. VerifierTranscript(p, v) = LongTranscript(p, v)
  BY DEF VerifierTranscript, LongTranscript, CircuitTranscript, WithSteps
<1>4. Given(v, b)
  BY BatchesAre DEF Given
<1> HIDE DEF x, e, b
<1>5. Stepped(e)
  BY <1>1, <1>2 DEF Stepped
<1>6. \A k \in x + 1 .. Len(CommitCap) : Len(v[CommitCap[k]]) = 0
  <2>1. \A k \in x + 1 .. Len(CommitCap) : k \in 1 .. Len(CommitCap) /\ ~(k <= x)
    BY <1>1
  <2>2. Len(<<>>) = 0
    OBVIOUS
  <2>. QED  BY <1>1, <2>1, <2>2
<1>7. AsLong(e, v, b, v, b)
  BY <1>2, <1>4, <1>6 DEF AsLong
<1>8. LaidOut(CircuitTranscript(e, v, b), e, v, b)
  BY <1>4, <1>5, Layout
<1>. QED  BY <1>2, <1>3, <1>5, <1>7, <1>8 DEF x, e, b, LongTranscript

\* Without the caps that are too many a proof has the shape of the circuit's.
LEMMA Trimmed ==
    ASSUME NEW p \in Params, NEW v, Surplus(p, v)
    PROVE  LET u == WithCaps(v, p.steps)
           IN  /\ u \in [Message -> Seq(Element)] /\ SameShape(p, u) /\ Batches(u) = Batches(v)
               /\ \A m \in Message \ ToSet(CommitCap) : u[m] = v[m]
               /\ \A k \in 1 .. p.steps : u[CommitCap[k]] = v[CommitCap[k]]
<1> DEFINE s == p.steps
           x == NumCaps(v)
           l == Len(CommitCap)
           u == WithCaps(v, s)
<1>1. /\ v \in [Message -> Seq(Element)] /\ x > s /\ s \in 0 .. l /\ l \in Nat /\ x \in 0 .. l
      /\ \A m \in Message \ ToSet(CommitCap) : Len(v[m]) = p.len[m]
      /\ \A k \in 1 .. x : Len(v[CommitCap[k]]) = CapLen(p)
  BY NumCapsIs, Named DEF Surplus, ShapeValid, CapsValid, Stepped
<1>2. s <= x
  BY <1>1
<1>3. /\ u \in [Message -> Seq(Element)]
      /\ \A m \in Message \ ToSet(CommitCap) : u[m] = v[m]
      /\ \A k \in s + 1 .. l : u[CommitCap[k]] = <<>>
      /\ \A k \in 1 .. s : u[CommitCap[k]] = v[CommitCap[k]]
  BY <1>1, <1>2, Capped
<1> HIDE DEF u, x, l
<1>4. ASSUME NEW k \in 1 .. l PROVE Len(u[CommitCap[k]]) = p.len[CommitCap[k]]
  <2>1. CASE k \in 1 .. s
    <3>1. k \in 1 .. x
      BY <1>1, <2>1
    <3>. QED  BY <1>1, <1>3, <2>1, <3>1, Shapes
  <2>2. CASE k \notin 1 .. s
    <3>1. k \in s + 1 .. l
      BY <1>1, <2>2
    <3>2. Len(<<>>) = 0
      OBVIOUS
    <3>. QED  BY <1>3, <3>1, <3>2, Shapes DEF l
  <2>. QED  BY <2>1, <2>2
<1>5. \A m \in ToSet(CommitCap) : \E k \in 1 .. l : m = CommitCap[k]
  BY NameAssumption DEF ToSet, l
<1>6. SameShape(p, u)
  <2>1. \A m \in ToSet(CommitCap) : Len(u[m]) = p.len[m]
    BY <1>4, <1>5
  <2>2. \A m \in Message \ ToSet(CommitCap) : Len(u[m]) = p.len[m]
    BY <1>1, <1>3
  <2>. QED  BY <2>1, <2>2 DEF SameShape
<1>7. Openings \subseteq Message \ ToSet(CommitCap)
  BY CapsAre DEF Caps, Message
<1>8. \A m \in Openings : u[m] = v[m]
  BY <1>3, <1>7
<1>9. Batches(u) = Batches(v)
  BY <1>8, OpeningsAre DEF Batches
<1>. QED  BY <1>3, <1>6, <1>9 DEF u

\* The transcripts with and without them begin alike.
LEMMA TrimmedLater ==
    ASSUME NEW p \in Params, NEW v, Surplus(p, v), NEW b,
           NEW e, e.steps = NumCaps(v), e.lookup = p.lookup,
           NEW P, LaidOut(P, e, v, b), NEW T, LaidOut(T, p, WithCaps(v, p.steps), b)
    PROVE  BeginAlike(P, T, 12 + 2 * p.steps)
<1> DEFINE s == p.steps
           u == WithCaps(v, s)
<1>1. /\ \A m \in Message \ ToSet(CommitCap) : u[m] = v[m]
      /\ \A k \in 1 .. s : u[CommitCap[k]] = v[CommitCap[k]]
  BY Trimmed
<1>2. /\ s \in Nat /\ NumCaps(v) \in Nat /\ NumCaps(v) > s
  BY NumCapsIs, Named DEF Surplus
<1>3. Data \cup TraceCaps \cup {"public_inputs"} \subseteq Message \ ToSet(CommitCap)
  BY NameAssumption, Named
<1> HIDE DEF u
<1>4. /\ u["fri_params"] = v["fri_params"] /\ u["circuit_digest"] = v["circuit_digest"]
      /\ u["public_inputs"] = v["public_inputs"] /\ u["wires_cap"] = v["wires_cap"]
      /\ u["zs_cap"] = v["zs_cap"] /\ u["quotient_cap"] = v["quotient_cap"]
  BY <1>1, <1>3 DEF Data, TraceCaps
<1>5. Stated(u) = Stated(v)
  BY <1>4 DEF Stated
<1>6. \A i \in {1, 2, 3, 4, 5, 6, 7, 8, 9, 10, 11, 12} : P[i] = T[i]
  BY <1>4, <1>5 DEF LaidOut, LaidOutOf, u
<1>7. \A k \in 1 .. s : P[11 + 2 * k] = T[11 + 2 * k] /\ P[12 + 2 * k] = T[12 + 2 * k]
  <2>1. \A k \in 1 .. s : k \in 1 .. NumCaps(v)
    BY <1>2
  <2>2. \A k \in 1 .. NumCaps(v) :
           P[11 + 2 * k] = Observe(v[CommitCap[k]]) /\ P[12 + 2 * k] = Draw(FriBeta[k], D)
    BY DEF LaidOut, LaidOutOf
  <2>3. \A k \in 1 .. s :
           T[11 + 2 * k] = Observe(u[CommitCap[k]]) /\ T[12 + 2 * k] = Draw(FriBeta[k], D)
    BY DEF LaidOut, LaidOutOf, u
  <2>. QED  BY <1>1, <2>1, <2>2, <2>3
<1>8. ASSUME NEW i \in 1 .. 12 + 2 * s PROVE P[i] = T[i]
  <2>1. i \in 1 .. 16 + 2 * s
    BY <1>2
  <2>2. \/ i \in {1, 2, 3, 4, 5, 6, 7, 8, 9, 10, 11, 12}
        \/ \E k \in 1 .. s : i = 11 + 2 * k \/ i = 12 + 2 * k
        \/ i \in {13 + 2 * s, 14 + 2 * s, 15 + 2 * s, 16 + 2 * s}
    BY <1>2, <2>1, Places
  <2>3. i \notin {13 + 2 * s, 14 + 2 * s, 15 + 2 * s, 16 + 2 * s}
    BY <1>2
  <2>. QED  BY <1>6, <1>7, <2>2, <2>3
<1>. QED  BY <1>8 DEF BeginAlike

\* A cap more is fed more.
LEMMA FedMore ==
    ASSUME NEW p \in Params, NEW v, Surplus(p, v),
           NEW f, RunTo(f, "native", LongTranscript(p, v), 16 + 2 * NumCaps(v))
    PROVE  /\ Fed(f[12 + 2 * p.steps].c) \in Nat /\ Fed(f[12 + 2 * NumCaps(v)].c) \in Nat
           /\ Fed(f[12 + 2 * NumCaps(v)].c) > Fed(f[12 + 2 * p.steps].c)
<1> DEFINE s == p.steps
           x == NumCaps(v)
           e == WithSteps(p, x)
           b == Batches(v)
           P == LongTranscript(p, v)
           n == 16 + 2 * x
           w(i) == Fed(f[i].c)
           j == 13 + 2 * s
           l == 12 + 2 * x
           T == {i \in 0 .. l : i >= j => w(i) > w(j - 1)}
<1>1. /\ v \in [Message -> Seq(Element)] /\ x > s /\ s \in Nat /\ x \in Nat /\ x \in 1 .. Len(CommitCap)
      /\ \A k \in 1 .. x : Len(v[CommitCap[k]]) = CapLen(p)
  BY NumCapsIs, Named DEF Surplus, ShapeValid, CapsValid
<1>2. Stepped(e) /\ e.steps = x /\ AsLong(e, v, b, v, b) /\ LaidOut(P, e, v, b)
  BY <1>1, LongIs
<1>3. RunTo(f, "native", P, n)
  OBVIOUS
<1> HIDE DEF x, e, P, b
<1>4. /\ \A i \in 0 .. n : w(i) \in Nat
      /\ \A i \in 1 .. n : w(i) >= w(i - 1)
      /\ \A i \in 1 .. n : \A m \in Message : P[i] = Observe(v[m]) => w(i) = w(i - 1) + Len(v[m])
  BY <1>2, <1>3, LayoutFeeds
<1>5. /\ n \in Nat /\ j \in 1 .. n /\ j - 1 \in 0 .. n /\ l \in 0 .. n /\ j \in Nat /\ l \in Nat /\ l >= j
      /\ j - 1 = 12 + 2 * s /\ \A i \in 1 .. l : i \in 1 .. n /\ i \in 0 .. n /\ i - 1 \in 0 .. n
  BY <1>1
<1>6. w(j) > w(j - 1)
  <2> DEFINE k == s + 1
  <2>1. k \in 1 .. x /\ k \in 1 .. Len(CommitCap) /\ 11 + 2 * k = j
    <3>1. Len(CommitCap) \in Nat
      BY Named
    <3>2. s \in Nat /\ x \in Nat /\ x > s /\ x <= Len(CommitCap)
      BY <1>1, <3>1
    <3> HIDE DEF s
    <3>3. 11 + 2 * k = j
      BY <3>2
    <3>4. k \in 1 .. x /\ k \in 1 .. Len(CommitCap)
      BY <3>1, <3>2
    <3>. QED  BY <3>3, <3>4
  <2>2. P[11 + 2 * k] = Observe(v[CommitCap[k]])
    BY <1>2, <2>1 DEF LaidOut, LaidOutOf
  <2>3. CommitCap[k] \in Message /\ Len(v[CommitCap[k]]) = CapLen(p) /\ CapLen(p) \in Nat /\ CapLen(p) > 0
    BY <1>1, <2>1, Named, Shapes
  <2> HIDE DEF k, n, j, w
  <2>4. w(j) = w(j - 1) + CapLen(p) /\ w(j - 1) \in Nat
    BY <1>4, <1>5, <2>1, <2>2, <2>3
  <2>. QED  BY <2>3, <2>4
<1> HIDE DEF n, j, l, w
<1>7. 0 \in T
  <2>1. ~(0 >= j) /\ 0 \in 0 .. l
    BY <1>5
  <2>. QED  BY <2>1
<1>8. ASSUME NEW i \in 1 .. l, i - 1 \in T PROVE i \in T
  <2>1. i \in Nat /\ i \in 0 .. l /\ w(i) >= w(i - 1) /\ w(i) \in Nat /\ w(i - 1) \in Nat /\ w(j - 1) \in Nat
    BY <1>4, <1>5
  <2>2. CASE i < j
    <3>1. ~(i >= j)
      BY <1>5, <2>1, <2>2
    <3>. QED  BY <2>1, <3>1
  <2>3. CASE i = j
    BY <1>6, <2>1, <2>3
  <2>4. CASE i > j
    <3>1. i - 1 >= j
      BY <1>5, <2>1, <2>4
    <3>2. w(i - 1) > w(j - 1)
      BY <1>8, <3>1
    <3>3. w(i) > w(j - 1)
      BY <2>1, <3>2
    <3>. QED  BY <2>1, <3>3
  <2>. QED  BY <1>5, <2>1, <2>2, <2>3, <2>4
<1> HIDE DEF T
<1>9. \A i \in 0 .. l : i \in T
  BY <1>5, <1>7, <1>8, Counting
<1>10. l \in T
  BY <1>5, <1>9
<1>11. w(l) > w(j - 1) /\ w(l) \in Nat /\ w(j - 1) \in Nat
  BY <1>4, <1>5, <1>10 DEF T
<1>. QED  BY <1>5, <1>11 DEF w, l, x

\* What a proof with too many caps draws last is not what the prover drew.
LEMMA LastDiffers ==
    ASSUME NEW p \in Params, NEW v, Surplus(p, v), NEW h \in [Message -> Seq(Element)], SameShape(p, h),
           NEW m \in {"pow_response", "query_indices"},
           Run("native", LongTranscript(p, v)).drawn[m]
             = Run("native", CircuitTranscript(p, h, Batches(h))).drawn[m],
           Run("native", LongTranscript(p, v)).drawn[m] # <<>>
    PROVE  FALSE
<1> DEFINE s == p.steps
           x == NumCaps(v)
           e == WithSteps(p, x)
           b == Batches(v)
           d == Batches(h)
           u == WithCaps(v, s)
           P == LongTranscript(p, v)
           Q == CircuitTranscript(p, h, d)
           T == CircuitTranscript(p, u, b)
           fp == Len(v["final_poly"])
           pw == Len(v["pow_witness"])
<1>1. v \in [Message -> Seq(Element)] /\ x > s /\ s \in Nat /\ x \in Nat /\ Stepped(p)
  BY NumCapsIs, Named DEF Surplus
<1>2. Stepped(e) /\ e.steps = x /\ e.lookup = p.lookup /\ AsLong(e, v, b, v, b) /\ LaidOut(P, e, v, b)
  BY <1>1, LongIs
<1>3. /\ u \in [Message -> Seq(Element)] /\ SameShape(p, u) /\ Batches(u) = b
      /\ \A k \in Message \ ToSet(CommitCap) : u[k] = v[k]
  BY Trimmed
<1>4. /\ AsLong(p, u, b, Honest(p), Batches(Honest(p))) /\ AsLong(p, u, b, u, b)
      /\ AsLong(p, h, d, Honest(p), Batches(Honest(p))) /\ AsLong(p, h, d, h, d)
  BY <1>3, ShapeKept
<1>5. AsLong(p, u, b, h, d)
  BY <1>4 DEF AsLong
<1>6. LaidOut(T, p, u, b) /\ LaidOut(Q, p, h, d)
  BY <1>1, <1>4, Layout DEF AsLong
<1>7. Len(h["final_poly"]) = fp /\ Len(h["pow_witness"]) = pw
  <2>1. "final_poly" \in Message \ ToSet(CommitCap) /\ "pow_witness" \in Message \ ToSet(CommitCap)
    BY NameAssumption, Named
  <2>2. v["final_poly"] = u["final_poly"] /\ v["pow_witness"] = u["pow_witness"]
    BY <1>3, <2>1
  <2>. QED  BY <1>3, <2>1, <2>2 DEF SameShape
<1>8. BeginAlike(P, T, 12 + 2 * s)
  BY <1>2, <1>6, TrimmedLater
<1> HIDE DEF T, Q, x, b, d, u, e
<1>9. /\ Len(P) = 16 + 2 * x /\ Len(T) = 16 + 2 * s /\ Len(Q) = 16 + 2 * s
      /\ 16 + 2 * x \in Nat /\ 16 + 2 * s \in Nat
  <2>1. 16 + 2 * x \in Nat /\ 16 + 2 * s \in Nat
    BY <1>1
  <2>. QED  BY <1>2, <1>6, <2>1 DEF LaidOut, LaidOutOf
<1>10. PICK f : RunTo(f, "native", P, 16 + 2 * x)
  BY <1>9, RunIs, Zenon
<1>11. PICK t : RunTo(t, "native", T, 16 + 2 * s)
  BY <1>9, RunIs, Zenon
<1>12. PICK g : RunTo(g, "native", Q, 16 + 2 * s)
  BY <1>9, RunIs, Zenon
<1>13. f[12 + 2 * s] = t[12 + 2 * s]
  <2> DEFINE k == 12 + 2 * s
             n == 16 + 2 * x
             l == 16 + 2 * s
  <2>1. n \in Nat /\ l \in Nat /\ k \in 0 .. n \cap 0 .. l
    BY <1>1
  <2>2. BeginAlike(P, T, k)
    BY <1>8
  <2>3. RunTo(f, "native", P, n) /\ RunTo(t, "native", T, l)
    BY <1>10, <1>11
  <2> HIDE DEF k, n, l, P
  <2>4. f[k] = t[k]
    BY <2>1, <2>2, <2>3, SameBeginning
  <2>. QED  BY <2>4 DEF k
<1>14. Fed(t[12 + 2 * s].c) = Fed(g[12 + 2 * s].c)
  <2>1. 12 + 2 * s \in 0 .. 16 + 2 * s
    BY <1>1
  <2>2. \A i \in 0 .. 16 + 2 * s : Fed(t[i].c) = Fed(g[i].c)
    BY <1>1, <1>4, <1>5, <1>6, <1>11, <1>12, FedAlike
  <2>. QED  BY <2>1, <2>2
<1>15. /\ Fed(g[14 + 2 * s].c) = Fed(g[12 + 2 * s].c) + fp + pw
       /\ Fed(g[12 + 2 * s].c) \in Nat /\ fp \in Nat /\ pw \in Nat
  BY <1>1, <1>4, <1>6, <1>7, <1>12, FedLast
<1>16. Fed(f[14 + 2 * x].c) = Fed(f[12 + 2 * x].c) + fp + pw
  BY <1>2, <1>10, FedLast
<1>17. Fed(f[12 + 2 * x].c) \in Nat /\ Fed(f[12 + 2 * x].c) > Fed(f[12 + 2 * s].c)
  BY <1>10, FedMore DEF x
<1> DEFINE y == Fed(f[14 + 2 * x].c)
           z == Fed(g[14 + 2 * s].c)
<1>18. y # z
  <2>1. Fed(f[12 + 2 * s].c) = Fed(g[12 + 2 * s].c)
    BY <1>13, <1>14
  <2> HIDE DEF fp, pw
  <2>. QED  BY <1>15, <1>16, <1>17, <2>1
<1>19. Run("native", P) \in FedWhenDrawn(m, y)
  <2>1. f[16 + 2 * x] \in FedWhenDrawn(m, y)
    BY <1>2, <1>10, DrawnLast
  <2>. QED  BY <1>10, <2>1 DEF RunTo
<1>20. Run("native", Q) \in FedWhenDrawn(m, z)
  <2>1. g[16 + 2 * s] \in FedWhenDrawn(m, z)
    BY <1>1, <1>4, <1>6, <1>12, DrawnLast
  <2>. QED  BY <1>12, <2>1 DEF RunTo
<1> DEFINE r == Run("native", P)
           q == Run("native", Q)
           o == r.drawn[m]
<1>21. q.drawn[m] = o /\ o # <<>>
  BY DEF Q, d
<1> HIDE DEF r, q, y, z
<1>22. /\ r \in NativeState /\ \A i \in 1 .. Len(o) : Weight(o[i][1]) = y
       /\ \A i \in 1 .. Len(o) : Weight(o[i][1]) = z
  BY <1>19, <1>20, <1>21 DEF FedWhenDrawn, r, q
<1>23. o \in Seq(Output)
  BY <1>22, Named DEF NativeState, State, PlonkChallenges
<1> HIDE DEF o
<1>24. 1 \in 1 .. Len(o)
  BY <1>21, <1>23
<1>. QED  BY <1>18, <1>22, <1>24

\* What is drawn before the caps that are too many, where s are not.
Early(s) ==
    {"betas", "gammas", "deltas", "alphas", "zeta", "fri_alpha"} \cup {FriBeta[k] : k \in 1 .. s}

\* It stays as it is from there on.
LEMMA EarlyKept ==
    ASSUME NEW p, Stepped(p), NEW v, NEW b, AsLong(p, v, b, v, b), NEW P, LaidOut(P, p, v, b),
           NEW f, RunTo(f, "native", P, 16 + 2 * p.steps),
           NEW s \in 0 .. p.steps, NEW m \in Early(s)
    PROVE  Run("native", P).drawn[m] = f[12 + 2 * s].drawn[m]
<1> DEFINE n == 16 + 2 * p.steps
           l == 12 + 2 * s
<1>1. /\ n \in Nat /\ l \in 0 .. n /\ n \in l .. n /\ s \in Nat /\ p.steps \in Nat /\ Plain(P, n)
      /\ \A k \in 1 .. p.steps : k \in 1 .. Len(FriBeta)
      /\ \A k \in 1 .. s : k \in 1 .. Len(FriBeta)
  BY PlainLayout, Named DEF Stepped
<1>2. FriBeta \in Seq(STRING) /\ IsInjective(FriBeta) /\ ToSet(FriBeta) \cap PlonkChallenges = {}
  BY NameAssumption
<1>3. \A k \in 1 .. Len(FriBeta) : FriBeta[k] \in ToSet(FriBeta)
  BY <1>2 DEF ToSet
<1>4. m \in Challenge
  <2>1. \A k \in 1 .. s : FriBeta[k] \in Challenge
    BY <1>1, Named
  <2>. QED  BY <2>1, Named DEF Early, PlonkChallenges
<1>5. m \notin {"pow_response", "query_indices"}
  <2>1. \A k \in 1 .. s : FriBeta[k] \notin {"pow_response", "query_indices"}
    BY <1>1, <1>2, <1>3 DEF PlonkChallenges
  <2>. QED  BY <2>1 DEF Early
<1>6. ASSUME NEW k \in s + 1 .. p.steps PROVE m # FriBeta[k]
  <2>1. k \in 1 .. Len(FriBeta) /\ k \notin 1 .. s
    BY <1>1
  <2>2. FriBeta[k] \notin PlonkChallenges
    BY <1>2, <1>3, <2>1
  <2>3. \A j \in 1 .. s : FriBeta[j] # FriBeta[k]
    BY <1>1, <1>2, <2>1 DEF IsInjective
  <2>. QED  BY <2>2, <2>3 DEF Early, PlonkChallenges
<1>7. ASSUME NEW i \in l + 1 .. n, Draws(P[i], m), P[i] \in Seq(DrawOp) PROVE FALSE
  <2>1. Given(v, b)
    BY DEF AsLong
  <2>2. i \in 1 .. n /\ i > 12 /\ i > 12 + 2 * s
    BY <1>1
  <2>3. \/ i \in {3, 4, 5} /\ m \in {"betas", "gammas", "deltas"}
        \/ i = 7 /\ m = "alphas"
        \/ i = 9 /\ m = "zeta"
        \/ i = 12 /\ m = "fri_alpha"
        \/ \E k \in 1 .. p.steps : i = 12 + 2 * k /\ m = FriBeta[k]
        \/ i = 15 + 2 * p.steps /\ m = "pow_response"
        \/ i = 16 + 2 * p.steps /\ m = "query_indices"
    BY <1>4, <1>7, <2>1, <2>2, DrawnAt
  <2>4. PICK k \in 1 .. p.steps : i = 12 + 2 * k /\ m = FriBeta[k]
    BY <1>5, <2>2, <2>3
  <2>5. k \in s + 1 .. p.steps
    BY <1>1, <2>2, <2>4
  <2>. QED  BY <1>6, <2>4, <2>5
<1>8. RunTo(f, "native", P, n)
  OBVIOUS
<1> HIDE DEF n, l
<1>9. f[n].drawn[m] = f[l].drawn[m]
  BY <1>1, <1>4, <1>7, <1>8, Untouched
<1>10. Run("native", P) = f[n]
  BY <1>8 DEF RunTo
<1>. QED  BY <1>9, <1>10 DEF l

\* What is committed to until then does not depend on these caps.
LEMMA EarlyCommitted ==
    ASSUME NEW p \in Params, NEW v, Surplus(p, v), NEW b, NEW m \in Early(p.steps)
    PROVE  Committed(WithCaps(v, p.steps), b)[m] = Committed(v, b)[m]
<1> DEFINE s == p.steps
           u == WithCaps(v, s)
           x == Committed(u, b)
           y == Committed(v, b)
<1>1. /\ \A k \in Message \ ToSet(CommitCap) : u[k] = v[k]
      /\ \A k \in 1 .. s : u[CommitCap[k]] = v[CommitCap[k]]
  BY Trimmed
<1>2. Data \cup TraceCaps \cup {"public_inputs"} \subseteq Message \ ToSet(CommitCap)
  BY NameAssumption, Named
<1>3. s \in Nat /\ \A k \in 1 .. s : k \in 1 .. Len(FriBeta)
  BY Named DEF Stepped
<1> HIDE DEF u
<1>4. /\ u["fri_params"] = v["fri_params"] /\ u["circuit_digest"] = v["circuit_digest"]
      /\ u["public_inputs"] = v["public_inputs"] /\ u["wires_cap"] = v["wires_cap"]
      /\ u["zs_cap"] = v["zs_cap"] /\ u["quotient_cap"] = v["quotient_cap"]
  BY <1>1, <1>2 DEF Data, TraceCaps
<1>5. ToWires(u) = ToWires(v)
  BY <1>4 DEF ToWires, Statement
<1>6. ToProducts(u) = ToProducts(v)
  BY <1>4, <1>5 DEF ToProducts
<1>7. ToQuotient(u) = ToQuotient(v)
  BY <1>4, <1>6 DEF ToQuotient
<1>8. ToOpenings(u, b) = ToOpenings(v, b)
  BY <1>7 DEF ToOpenings
<1>9. ASSUME NEW k \in 1 .. s PROVE ToCaps(u, b, k) = ToCaps(v, b, k)
  <2>1. \A j \in 1 .. k : j \in 1 .. s
    BY <1>3
  <2>2. [j \in 1 .. k |-> u[CommitCap[j]]] = [j \in 1 .. k |-> v[CommitCap[j]]]
    BY <1>1, <2>1
  <2>. QED  BY <1>8, <2>2 DEF ToCaps
<1>10. /\ \A k \in {"betas", "gammas", "deltas"} : x[k] = ToWires(u)
       /\ x["alphas"] = ToProducts(u) /\ x["zeta"] = ToQuotient(u)
       /\ x["fri_alpha"] = ToOpenings(u, b)
       /\ \A k \in 1 .. Len(FriBeta) : x[FriBeta[k]] = ToCaps(u, b, k)
  BY CommittedIs
<1>11. /\ \A k \in {"betas", "gammas", "deltas"} : y[k] = ToWires(v)
       /\ y["alphas"] = ToProducts(v) /\ y["zeta"] = ToQuotient(v)
       /\ y["fri_alpha"] = ToOpenings(v, b)
       /\ \A k \in 1 .. Len(FriBeta) : y[FriBeta[k]] = ToCaps(v, b, k)
  BY CommittedIs
<1> HIDE DEF x, y
<1>12. \A k \in 1 .. s : x[FriBeta[k]] = y[FriBeta[k]]
  BY <1>3, <1>9, <1>10, <1>11
<1>13. x[m] = y[m]
  <2>1. CASE m \in {"betas", "gammas", "deltas", "alphas", "zeta", "fri_alpha"}
    BY <1>5, <1>6, <1>7, <1>8, <1>10, <1>11, <2>1
  <2>2. CASE m \in {FriBeta[k] : k \in 1 .. s}
    BY <1>12, <2>2
  <2>. QED  BY <2>1, <2>2 DEF Early
<1>. QED  BY <1>13 DEF x, y, u

\* The challenges of a proof with too many caps that are a circuit's are drawn
\* before these, and tell what was committed to as those of other proofs do.
LEMMA MoreCaps ==
    ASSUME NEW p \in Params, NEW v, Surplus(p, v), NEW h \in [Message -> Seq(Element)], SameShape(p, h),
           NEW m \in Challenge,
           Run("native", LongTranscript(p, v)).drawn[m]
             = Run("native", CircuitTranscript(p, h, Batches(h))).drawn[m],
           Run("native", LongTranscript(p, v)).drawn[m] # <<>>
    PROVE  /\ m # "query_indices"
           /\ Committed(v, Batches(v))[m] = Committed(h, Batches(h))[m]
<1> DEFINE s == p.steps
           x == NumCaps(v)
           e == WithSteps(p, x)
           b == Batches(v)
           d == Batches(h)
           u == WithCaps(v, s)
           P == LongTranscript(p, v)
           Q == CircuitTranscript(p, h, d)
           T == CircuitTranscript(p, u, b)
<1>1. v \in [Message -> Seq(Element)] /\ x > s /\ s \in Nat /\ x \in Nat /\ Stepped(p)
  BY NumCapsIs, Named DEF Surplus
<1>2. Stepped(e) /\ e.steps = x /\ e.lookup = p.lookup /\ AsLong(e, v, b, v, b) /\ LaidOut(P, e, v, b)
  BY <1>1, LongIs
<1>3. u \in [Message -> Seq(Element)] /\ SameShape(p, u) /\ Batches(u) = b
  BY Trimmed
<1>4. /\ AsLong(p, u, b, Honest(p), Batches(Honest(p))) /\ AsLong(p, u, b, u, b)
      /\ AsLong(p, h, d, Honest(p), Batches(Honest(p))) /\ AsLong(p, h, d, h, d)
  BY <1>3, ShapeKept
<1>5. AsLong(p, u, b, h, d)
  BY <1>4 DEF AsLong
<1>6. LaidOut(T, p, u, b) /\ LaidOut(Q, p, h, d)
  BY <1>1, <1>4, Layout DEF AsLong
<1>7. Run("native", P).drawn[m] = Run("native", Q).drawn[m] /\ Run("native", Q).drawn[m] # <<>>
  OBVIOUS
<1>8. m \notin {"pow_response", "query_indices"}
  BY LastDiffers
<1>9. BeginAlike(P, T, 12 + 2 * s)
  BY <1>2, <1>6, TrimmedLater
<1> HIDE DEF P, Q, T, x, b, d, u, e
<1>10. m \in Early(s)
  <2>1. PICK j \in 1 .. 16 + 2 * s : Draws(Q[j], m) /\ Q[j] \in Seq(DrawOp)
    BY <1>4, <1>6, <1>7, SameUpTo
  <2>2. Given(h, d)
    BY <1>4 DEF AsLong
  <2>3. \/ j \in {3, 4, 5} /\ m \in {"betas", "gammas", "deltas"}
        \/ j = 7 /\ m = "alphas"
        \/ j = 9 /\ m = "zeta"
        \/ j = 12 /\ m = "fri_alpha"
        \/ \E k \in 1 .. s : j = 12 + 2 * k /\ m = FriBeta[k]
        \/ j = 15 + 2 * s /\ m = "pow_response"
        \/ j = 16 + 2 * s /\ m = "query_indices"
    BY <1>1, <1>6, <2>1, <2>2, DrawnAt
  <2>. QED  BY <1>8, <2>3 DEF Early
<1>11. /\ Len(P) = 16 + 2 * x /\ Len(T) = 16 + 2 * s
       /\ 16 + 2 * x \in Nat /\ 16 + 2 * s \in Nat
  <2>1. 16 + 2 * x \in Nat /\ 16 + 2 * s \in Nat
    BY <1>1
  <2>. QED  BY <1>2, <1>6, <2>1 DEF LaidOut, LaidOutOf
<1>12. PICK f : RunTo(f, "native", P, 16 + 2 * x)
  BY <1>11, RunIs, Zenon
<1>13. PICK t : RunTo(t, "native", T, 16 + 2 * s)
  BY <1>11, RunIs, Zenon
<1>14. f[12 + 2 * s] = t[12 + 2 * s]
  <2> DEFINE k == 12 + 2 * s
             n == 16 + 2 * x
             l == 16 + 2 * s
  <2>1. n \in Nat /\ l \in Nat /\ k \in 0 .. n \cap 0 .. l
    BY <1>1
  <2>2. BeginAlike(P, T, k)
    BY <1>9
  <2>3. RunTo(f, "native", P, n) /\ RunTo(t, "native", T, l)
    BY <1>12, <1>13
  <2> HIDE DEF k, n, l
  <2>4. f[k] = t[k]
    BY <2>1, <2>2, <2>3, SameBeginning
  <2>. QED  BY <2>4 DEF k
<1>15. Run("native", P).drawn[m] = f[12 + 2 * s].drawn[m]
  <2>1. s \in 0 .. e.steps
    BY <1>1, <1>2
  <2>2. RunTo(f, "native", P, 16 + 2 * e.steps)
    BY <1>2, <1>12
  <2>. QED  BY <1>2, <1>10, <2>1, <2>2, EarlyKept
<1>16. Run("native", T).drawn[m] = t[12 + 2 * s].drawn[m]
  <2>1. s \in 0 .. p.steps
    BY <1>1
  <2>. QED  BY <1>1, <1>4, <1>6, <1>10, <1>13, <2>1, EarlyKept
<1>17. Run("native", T).drawn[m] = Run("native", Q).drawn[m] /\ Run("native", T).drawn[m] # <<>>
  BY <1>7, <1>14, <1>15, <1>16
<1>18. Committed(u, b)[m] = Committed(h, d)[m]
  BY <1>5, <1>17, TranscriptsBind DEF T, Q
<1>19. Committed(u, b)[m] = Committed(v, b)[m]
  BY <1>10, EarlyCommitted DEF u
<1>. QED  BY <1>8, <1>18, <1>19 DEF b, d

-----------------------------------------------------------------------------
(* The prover and the verifiers.                                           *)

\* What is sent has that shape.
LEMMA HonestShape ==
    ASSUME NEW p \in Params
    PROVE  Honest(p) \in [Message -> Seq(Element)] /\ SameShape(p, Honest(p))
BY HonestIs DEF SameShape

\* The prover's challenges are those of the verifier of its proof.
LEMMA ProverDraws ==
    ASSUME NEW p \in Params
    PROVE  LET h == Honest(p)
               x == Run("native", ProverTranscript(p, h))
           IN  /\ x.drawn = Run("native", CircuitTranscript(p, h, Batches(h))).drawn
               /\ x.drawn["pow_response"] = <<x.lucky>>
               /\ x \in FreshState
<1> DEFINE h == Honest(p)
           b == Batches(h)
           w == h["pow_witness"]
           P == Written(p, h, b, Grind(w))
           x == Run("native", P)
           y == Run("native", CircuitTranscript(p, h, b))
<1>1. ProverTranscript(p, h) = P
  BY DEF ProverTranscript, Written
<1>2. AsLong(p, h, b, h, b) /\ Len(w) = 1
  BY HonestShape, ShapeKept
<1> HIDE DEF h, b
<1>3. Same(x, y) /\ x.drawn["pow_response"] = <<x.lucky>>
  BY <1>2, ProverPredicts
<1>4. P \in Seq(Seq(Op))
  <2>1. Given(h, b) /\ w \in Seq(Element)
    BY <1>2, Named DEF AsLong, Given
  <2>2. w = <<w[1]>> /\ w[1] \in Element
    <3> DEFINE u == w
    <3>1. u \in Seq(Element) /\ Len(u) = 1
      BY <1>2, <2>1
    <3> HIDE DEF u
    <3>2. u[1] \in Element /\ u = <<u[1]>>
      BY <3>1
    <3>. QED  BY <3>2 DEF u
  <2> DEFINE g == Grind(w)
             T == Seq(Op)
  <2>3. g \in T /\ Seq(VerifierOp) \subseteq T
    <3>1. VerifierOp \subseteq Op
      BY DEF VerifierOp, Op
    <3> DEFINE e == w[1]
    <3>2. e \in Element
      BY <2>2
    <3> HIDE DEF e
    <3>3. Grind(<<e>>) \in Seq(Op)
      BY <3>2, GrindingPart
    <3>. QED  BY <2>2, <3>1, <3>3 DEF e
  <2> HIDE DEF g, T
  <2>4. LaidOutOf(Written(p, h, b, g), T, p, h, b, g)
    BY <2>1, <2>3, WrittenIs, Named
  <2>. QED  BY <2>4 DEF LaidOutOf, g, T
<1> HIDE DEF P
<1>5. x \in FreshState
  BY <1>4, RunFresh
<1>6. x.drawn = y.drawn
  BY <1>3 DEF Same
<1> HIDE DEF x, y
<1>7. Run("native", ProverTranscript(p, h)) = x
  BY <1>1 DEF x
<1>. QED  BY <1>3, <1>5, <1>6, <1>7 DEF h, b, y

\* A verifier in a circuit draws what the other one draws from the same parts.
LEMMA CircuitDraws ==
    ASSUME NEW p, Stepped(p), NEW v, NEW b, Given(v, b)
    PROVE  /\ Run("circuit", CircuitTranscript(p, v, b)).drawn = Run("native", CircuitTranscript(p, v, b)).drawn
           /\ Run("native", CircuitTranscript(p, v, b)).drawn \in [Challenge -> Seq(Output)]
<1> DEFINE t == CircuitTranscript(p, v, b)
<1>1. t \in Seq(Seq(VerifierOp)) /\ Run("native", t) \in NativeState
  BY QueriesDrawn
<1> HIDE DEF t
<1>2. t \in Seq(Seq(ObserveOp \cup DrawOp))
  BY <1>1 DEF VerifierOp
<1>3. Run("circuit", t).drawn = Run("native", t).drawn
  BY <1>2, RunsAlike
<1>4. Run("native", t).drawn \in [Challenge -> Seq(Output)]
  BY <1>1 DEF NativeState, State
<1>. QED  BY <1>3, <1>4 DEF t

\* What the verifiers make of what they are given.
NativeVerdict(p, v) ==
    IF ShapeValid(p, v) /\ CapsSuffice(p, v)
    THEN Run("native", VerifierTranscript(p, v)).drawn
    ELSE Refused

CircuitVerdict(p, v) ==
    IF Fillable(p, v)
    THEN Run("circuit", CircuitTranscript(p, Filled(p, v), FilledBatches(p, v))).drawn
    ELSE Refused

\* A verifier that has not refused has run over parts of the right lengths,
\* and outside a circuit perhaps over more caps than these.
LEMMA VerdictsAre ==
    ASSUME NEW p \in Params, NEW v, Viewed(p, v)
    PROVE  /\ SameShape(p, v) =>
                /\ NativeVerdict(p, v) = Run("native", CircuitTranscript(p, v, Batches(v))).drawn
                /\ NativeVerdict(p, v) # Refused
                /\ CircuitVerdict(p, v) = NativeVerdict(p, v)
                /\ NumCaps(v) = p.steps
           /\ NativeVerdict(p, v) # Refused =>
                \/ SameShape(p, v)
                \/ /\ Surplus(p, v) /\ CircuitVerdict(p, v) = Refused
                   /\ NativeVerdict(p, v) = Run("native", LongTranscript(p, v)).drawn
           /\ CircuitVerdict(p, v) # Refused =>
                /\ Fillable(p, v)
                /\ CircuitVerdict(p, v)
                     = Run("native", CircuitTranscript(p, Filled(p, v), FilledBatches(p, v))).drawn
<1> DEFINE b == Batches(v)
           w == Filled(p, v)
           c == FilledBatches(p, v)
<1>1. v \in [Message -> Seq(Element)]
  BY DEF Viewed
<1>2. ASSUME Fillable(p, v)
      PROVE  /\ CircuitVerdict(p, v) = Run("native", CircuitTranscript(p, w, c)).drawn
             /\ Run("native", CircuitTranscript(p, w, c)).drawn \in [Challenge -> Seq(Output)]
  <2>1. Given(w, c)
    BY <1>2, FilledIs, FilledBatchesAre DEF Given
  <2>2. CircuitVerdict(p, v) = Run("circuit", CircuitTranscript(p, w, c)).drawn
    BY <1>2 DEF CircuitVerdict
  <2> HIDE DEF w, c
  <2>3. /\ Run("circuit", CircuitTranscript(p, w, c)).drawn = Run("native", CircuitTranscript(p, w, c)).drawn
        /\ Run("native", CircuitTranscript(p, w, c)).drawn \in [Challenge -> Seq(Output)]
    BY <2>1, CircuitDraws, Named
  <2>. QED  BY <2>2, <2>3
<1>3. ASSUME SameShape(p, v)
      PROVE  /\ NativeVerdict(p, v) = Run("native", CircuitTranscript(p, v, b)).drawn
             /\ NativeVerdict(p, v) # Refused
             /\ CircuitVerdict(p, v) = NativeVerdict(p, v)
             /\ NumCaps(v) = p.steps
  <2>1. Fillable(p, v)
    BY <1>1, <1>3, ShapeFillable
  <2>2. w = v /\ c = b
    BY <1>3, <2>1, FilledIs, FilledBatchesAre
  <2>3. ShapeValid(p, v) /\ CapsSuffice(p, v) /\ NumCaps(v) = p.steps
    BY <1>1, <1>3, ShapeIs
  <2>4. VerifierTranscript(p, v) = CircuitTranscript(p, v, b)
    BY <2>3 DEF VerifierTranscript, CircuitTranscript
  <2>5. NativeVerdict(p, v) = Run("native", CircuitTranscript(p, v, b)).drawn
    BY <2>3, <2>4 DEF NativeVerdict
  <2>6. /\ CircuitVerdict(p, v) = Run("native", CircuitTranscript(p, v, b)).drawn
        /\ Run("native", CircuitTranscript(p, v, b)).drawn \in [Challenge -> Seq(Output)]
    BY <1>2, <2>1, <2>2
  <2>. QED  BY <2>3, <2>5, <2>6, NoneAssumption
<1>4. ASSUME NativeVerdict(p, v) # Refused, ~SameShape(p, v)
      PROVE  /\ Surplus(p, v) /\ CircuitVerdict(p, v) = Refused
             /\ NativeVerdict(p, v) = Run("native", LongTranscript(p, v)).drawn
  <2>1. /\ ShapeValid(p, v) /\ NumCaps(v) >= p.steps
        /\ NativeVerdict(p, v) = Run("native", VerifierTranscript(p, v)).drawn
    BY <1>4 DEF NativeVerdict, CapsSuffice
  <2>2. NumCaps(v) # p.steps
    BY <1>1, <1>4, <2>1, ShapeIs
  <2>3. NumCaps(v) \in Nat /\ p.steps \in Nat
    BY <1>1, NumCapsIs, Named
  <2>4. NumCaps(v) > p.steps /\ ~(NumCaps(v) <= p.steps)
    BY <2>1, <2>2, <2>3
  <2>5. CircuitVerdict(p, v) = Refused
    BY <2>4 DEF CircuitVerdict, Fillable
  <2>6. VerifierTranscript(p, v) = LongTranscript(p, v)
    BY <1>1, LongIs
  <2>. QED  BY <1>1, <2>1, <2>4, <2>5, <2>6 DEF Surplus
<1>5. CircuitVerdict(p, v) # Refused => Fillable(p, v)
  BY DEF CircuitVerdict
<1>. QED  BY <1>2, <1>3, <1>4, <1>5

-----------------------------------------------------------------------------
(* The invariant.                                                          *)

\* What was sent, given and drawn is what the transcript of it makes.
IInv ==
    /\ params \in Params
    /\ sent = None => prover = None /\ view = None
    /\ sent # None => sent = Honest(params) /\ prover = Run("native", ProverTranscript(params, sent))
    /\ view # None => sent # None /\ view \in Changes(sent)
    /\ native # None => view # None /\ native = NativeVerdict(params, view)
    /\ circuit # None => view # None /\ circuit = CircuitVerdict(params, view)

\* Every reachable state is one proof's: nothing is replaced once it is there.
THEOREM TranscriptInvariant == Spec => []IInv
<1>1. Init => IInv
  BY DEF Init, IInv
<1>2. IInv /\ [Next]_vars => IInv'
  <2> SUFFICES ASSUME IInv, [Next]_vars PROVE IInv'
    OBVIOUS
  <2> USE DEF IInv
  <2>1. CASE Prove
    <3>1. sent' = Honest(params) /\ prover' = Run("native", ProverTranscript(params, sent'))
      BY <2>1 DEF Prove
    <3>2. sent = None /\ view = None /\ native = None /\ circuit = None
      BY <2>1 DEF Prove
    <3>3. UNCHANGED <<params, view, native, circuit>>
      BY <2>1 DEF Prove
    <3>4. Honest(params) # None
      BY HonestIs, NoneAssumption
    <3>. QED  BY <3>1, <3>2, <3>3, <3>4
  <2>2. CASE Deliver
    <3>1. /\ sent # None /\ view = None /\ native = None /\ circuit = None /\ view' \in Changes(sent)
          /\ UNCHANGED <<params, sent, prover, native, circuit>>
      BY <2>2 DEF Deliver
    <3>. QED  BY <3>1
  <2>3. CASE Verify
    <3>1. view # None /\ native' = NativeVerdict(params, view)
          /\ UNCHANGED <<params, sent, prover, view, circuit>>
      BY <2>3 DEF Verify, NativeVerdict
    <3>. QED  BY <3>1
  <2>4. CASE VerifyInCircuit
    <3>1. view # None /\ circuit' = CircuitVerdict(params, view)
          /\ UNCHANGED <<params, sent, prover, view, native>>
      BY <2>4 DEF VerifyInCircuit, CircuitVerdict
    <3>. QED  BY <3>1
  <2>5. CASE UNCHANGED vars
    BY <2>5 DEF vars
  <2>. QED  BY <2>1, <2>2, <2>3, <2>4, <2>5 DEF Next
<1>. QED  BY <1>1, <1>2, PTL DEF Spec

\* What a state that has been given a proof knows of it.
LEMMA GivenIs ==
    ASSUME IInv, view # None
    PROVE  /\ params \in Params /\ Viewed(params, view) /\ sent = Honest(params)
           /\ prover.drawn = Run("native", CircuitTranscript(params, sent, Batches(sent))).drawn
           /\ SameShape(params, sent) /\ sent \in [Message -> Seq(Element)]
<1>1. params \in Params /\ sent = Honest(params) /\ view \in Changes(sent)
      /\ prover = Run("native", ProverTranscript(params, sent))
  BY DEF IInv
<1>2. Viewed(params, view)
  BY <1>1, ChangesViewed
<1>3. prover.drawn = Run("native", CircuitTranscript(params, sent, Batches(sent))).drawn
  BY <1>1, ProverDraws
<1>4. SameShape(params, sent) /\ sent \in [Message -> Seq(Element)]
  BY <1>1, HonestShape
<1>. QED  BY <1>1, <1>2, <1>3, <1>4

\* The properties, in every state of the invariant.
LEMMA Agree ==
    ASSUME IInv
    PROVE  ChallengesAgree
<1>1. prover # None => prover.drawn["pow_response"] = <<prover.lucky>>
  <2>1. prover # None => /\ params \in Params /\ sent = Honest(params)
                         /\ prover = Run("native", ProverTranscript(params, sent))
    BY DEF IInv
  <2>. QED  BY <2>1, ProverDraws
<1>2. None # Refused
  BY NoneAssumption
<1>3. Drew(native) /\ circuit # None =>
         circuit = IF NumCaps(view) = params.steps THEN native ELSE Refused
  <2>1. SUFFICES ASSUME Drew(native), circuit # None
                 PROVE  circuit = IF NumCaps(view) = params.steps THEN native ELSE Refused
    OBVIOUS
  <2>2. view # None /\ native = NativeVerdict(params, view) /\ circuit = CircuitVerdict(params, view)
        /\ native # Refused
    BY <2>1 DEF IInv, Drew
  <2>3. params \in Params /\ Viewed(params, view)
    BY <2>2, GivenIs
  <2>4. CASE SameShape(params, view)
    BY <2>2, <2>3, <2>4, VerdictsAre
  <2>5. CASE ~SameShape(params, view)
    <3>1. Surplus(params, view) /\ circuit = Refused
      BY <2>2, <2>3, <2>5, VerdictsAre
    <3>2. NumCaps(view) \in Nat /\ params.steps \in Nat /\ NumCaps(view) > params.steps
      BY <2>3, <3>1, NumCapsIs, Named DEF Surplus
    <3>3. NumCaps(view) # params.steps
      BY <3>2
    <3>. QED  BY <3>1, <3>3
  <2>. QED  BY <2>4, <2>5
<1>4. Drew(native) /\ view = sent => native = prover.drawn
  <2>1. SUFFICES ASSUME Drew(native), view = sent PROVE native = prover.drawn
    OBVIOUS
  <2>2. view # None /\ native = NativeVerdict(params, view)
    BY <2>1 DEF IInv, Drew
  <2>3. params \in Params /\ Viewed(params, view) /\ SameShape(params, view)
        /\ prover.drawn = Run("native", CircuitTranscript(params, view, Batches(view))).drawn
    BY <2>1, <2>2, GivenIs
  <2>. QED  BY <2>2, <2>3, VerdictsAre
<1>5. view = sent => native # Refused /\ circuit # Refused
  <2>1. SUFFICES ASSUME view = sent, view # None PROVE native # Refused /\ circuit # Refused
    BY <1>2 DEF IInv
  <2>2. params \in Params /\ Viewed(params, view) /\ SameShape(params, view)
    BY <2>1, GivenIs
  <2>3. NativeVerdict(params, view) # Refused /\ CircuitVerdict(params, view) # Refused
    BY <2>2, VerdictsAre
  <2>. QED  BY <1>2, <2>3 DEF IInv
<1>. QED  BY <1>1, <1>3, <1>4, <1>5 DEF ChallengesAgree

LEMMA Bind ==
    ASSUME IInv
    PROVE  ChallengesBind
<1> DEFINE b == Batches(view)
           w == Filled(params, view)
           c == FilledBatches(params, view)
           d == Batches(sent)
<1>1. Drew(native) => Binds(native, Committed(view, b))
  <2>1. SUFFICES ASSUME Drew(native), NEW m \in Challenge, native[m] = prover.drawn[m], native[m] # <<>>
                 PROVE  Committed(view, b)[m] = Committed(sent, d)[m]
    BY DEF Binds
  <2>2. view # None /\ native = NativeVerdict(params, view) /\ native # Refused
    BY <2>1 DEF IInv, Drew
  <2>3. /\ params \in Params /\ Viewed(params, view) /\ view \in [Message -> Seq(Element)]
        /\ prover.drawn = Run("native", CircuitTranscript(params, sent, d)).drawn
        /\ sent = Honest(params) /\ sent \in [Message -> Seq(Element)] /\ SameShape(params, sent)
    BY <2>2, GivenIs DEF Viewed
  <2>4. CASE SameShape(params, view)
    <3>1. native = Run("native", CircuitTranscript(params, view, b)).drawn
      BY <2>2, <2>3, <2>4, VerdictsAre
    <3>2. AsLong(params, view, b, sent, d)
      BY <2>3, <2>4, ShapeKept
    <3> HIDE DEF b, d
    <3>3. /\ Run("native", CircuitTranscript(params, view, b)).drawn[m]
               = Run("native", CircuitTranscript(params, sent, d)).drawn[m]
          /\ Run("native", CircuitTranscript(params, view, b)).drawn[m] # <<>>
      BY <2>1, <2>3, <3>1
    <3>. QED  BY <2>3, <3>2, <3>3, TranscriptsBind
  <2>5. CASE ~SameShape(params, view)
    <3>1. Surplus(params, view) /\ native = Run("native", LongTranscript(params, view)).drawn
      BY <2>2, <2>3, <2>5, VerdictsAre
    <3>2. /\ Run("native", LongTranscript(params, view)).drawn[m]
               = Run("native", CircuitTranscript(params, sent, d)).drawn[m]
          /\ Run("native", LongTranscript(params, view)).drawn[m] # <<>>
      BY <2>1, <2>3, <3>1
    <3>. QED  BY <2>3, <3>1, <3>2, MoreCaps
  <2>. QED  BY <2>4, <2>5
<1>2. Drew(circuit) => Binds(circuit, Committed(w, c))
  <2>1. SUFFICES ASSUME Drew(circuit), NEW m \in Challenge, circuit[m] = prover.drawn[m], circuit[m] # <<>>
                 PROVE  Committed(w, c)[m] = Committed(sent, d)[m]
    BY DEF Binds
  <2>2. view # None /\ circuit = CircuitVerdict(params, view) /\ circuit # Refused
    BY <2>1 DEF IInv, Drew
  <2>3. /\ params \in Params /\ Viewed(params, view) /\ sent = Honest(params)
        /\ prover.drawn = Run("native", CircuitTranscript(params, sent, d)).drawn
    BY <2>2, GivenIs
  <2>4. Fillable(params, view) /\ circuit = Run("native", CircuitTranscript(params, w, c)).drawn
    BY <2>2, <2>3, VerdictsAre
  <2>5. AsLong(params, w, c, sent, d)
    BY <2>3, <2>4, FilledAsLong
  <2> HIDE DEF w, c, d
  <2>6. /\ Run("native", CircuitTranscript(params, w, c)).drawn[m]
             = Run("native", CircuitTranscript(params, sent, d)).drawn[m]
        /\ Run("native", CircuitTranscript(params, w, c)).drawn[m] # <<>>
    BY <2>1, <2>3, <2>4
  <2>. QED  BY <2>3, <2>5, <2>6, TranscriptsBind
<1>. QED  BY <1>1, <1>2 DEF ChallengesBind

LEMMA Admit ==
    ASSUME IInv
    PROVE  AdmittedIsSent
<1> DEFINE q == "query_indices"
           b == Batches(view)
           d == Batches(sent)
<1>1. SUFFICES ASSUME Drew(native), native[q] = prover.drawn[q] PROVE view = sent
  BY DEF AdmittedIsSent
<1>2. view # None /\ native = NativeVerdict(params, view) /\ native # Refused
  BY <1>1 DEF IInv, Drew
<1>3. /\ params \in Params /\ Viewed(params, view) /\ sent = Honest(params)
      /\ prover.drawn = Run("native", CircuitTranscript(params, sent, d)).drawn
  BY <1>2, GivenIs
<1>4. /\ view \in [Message -> Seq(Element)]
      /\ sent \in [Message -> Seq(Element)] /\ SameShape(params, sent)
  BY <1>2, <1>3, GivenIs DEF Viewed
<1>5. /\ SameShape(params, view)
      /\ native = Run("native", CircuitTranscript(params, view, b)).drawn
  <2>1. SUFFICES ASSUME ~SameShape(params, view) PROVE FALSE
    BY <1>2, <1>3, VerdictsAre
  <2>2. Surplus(params, view) /\ native = Run("native", LongTranscript(params, view)).drawn
    BY <1>2, <1>3, <2>1, VerdictsAre
  <2>3. q \in Challenge
    BY Named DEF PlonkChallenges
  <2>4. Run("native", LongTranscript(params, view)).drawn[q] # <<>>
    <3> DEFINE e == WithSteps(params, NumCaps(view))
    <3>1. Stepped(e) /\ AsLong(e, view, b, view, b)
      BY <1>3, <1>4, LongIs
    <3> HIDE DEF e, b
    <3>2. Run("native", CircuitTranscript(e, view, b)).drawn["query_indices"] # <<>>
      BY <3>1, QueriesDrawn DEF AsLong
    <3>. QED  BY <3>2 DEF LongTranscript, e, b
  <2>5. Run("native", LongTranscript(params, view)).drawn[q]
          = Run("native", CircuitTranscript(params, sent, d)).drawn[q]
    BY <1>1, <1>3, <2>2
  <2>. QED  BY <1>3, <1>4, <2>2, <2>3, <2>4, <2>5, MoreCaps
<1>6. /\ AsLong(params, view, b, sent, d) /\ AsLongOpenings(view, sent)
      /\ Len(view["lookup_zs"]) = 0 => Len(view["lookup_zs_next"]) = 0
  BY <1>3, <1>4, <1>5, ShapeKept
<1>7. Given(view, b)
  BY <1>6 DEF AsLong
<1> HIDE DEF b, d
<1>8. /\ Run("native", CircuitTranscript(params, view, b)).drawn["query_indices"]
           = Run("native", CircuitTranscript(params, sent, d)).drawn["query_indices"]
      /\ Run("native", CircuitTranscript(params, view, b)).drawn["query_indices"] # <<>>
  BY <1>1, <1>3, <1>5, <1>7, QueriesDrawn, Named
<1>9. b = d /\ \A m \in Message \ Openings : view[m] = sent[m]
  BY <1>3, <1>6, <1>8, QueriesTell
<1>10. \A m \in Openings : view[m] = sent[m]
  BY <1>4, <1>6, <1>9, BatchesTell DEF AsLongOpenings, b, d
<1>. QED  BY <1>4, <1>9, <1>10

LEMMA Fresh ==
    ASSUME IInv
    PROVE  ChallengesFresh
<1>1. SUFFICES ASSUME prover # None,
                      NEW c \in Challenge, NEW d \in Challenge,
                      NEW i \in DOMAIN prover.drawn[c], NEW j \in DOMAIN prover.drawn[d],
                      prover.drawn[c][i] = prover.drawn[d][j]
               PROVE  c = d /\ i = j
  BY DEF ChallengesFresh
<1>2. params \in Params /\ prover = Run("native", ProverTranscript(params, Honest(params)))
  BY <1>1 DEF IInv
<1>3. prover \in FreshState
  BY <1>2, ProverDraws
<1>4. prover.drawn \in [Challenge -> Seq(Output)]
  BY <1>3 DEF FreshState, NativeState, State
<1>5. i \in 1 .. Len(prover.drawn[c]) /\ j \in 1 .. Len(prover.drawn[d])
  BY <1>4
<1>. QED  BY <1>1, <1>3, <1>5 DEF FreshState

\* The transcripts of a proof that both verifiers take yield the same
\* challenges, the prover's for the proof it sent, and its search for a
\* proof-of-work witness the response that is drawn for it.  A proof that only
\* the verifier outside a circuit takes has more caps than there are reductions.
THEOREM Agreement == Spec => []ChallengesAgree
BY TranscriptInvariant, Agree, PTL

\* A challenge is bound to all that was committed to before it, however many
\* caps the proof has.
THEOREM Binding == Spec => []ChallengesBind
BY TranscriptInvariant, Bind, PTL

\* The proof with the prover's query indices is the prover's: the number of its
\* caps, which no check of its shape fixes, is told by how much was observed.
THEOREM Admission == Spec => []AdmittedIsSent
BY TranscriptInvariant, Admit, PTL

\* No output of the sponge is drawn twice.
THEOREM Freshness == Spec => []ChallengesFresh
BY TranscriptInvariant, Fresh, PTL

=============================================================================
