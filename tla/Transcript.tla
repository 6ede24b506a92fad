----------------------------- MODULE Transcript -----------------------------
(***************************************************************************)
(* The transcript of a plonky2 proof, three times: the prover makes its    *)
(* messages and draws challenges between them, the verifier and the        *)
(* verifier that R_Wrap, R_Del and R_Pres have in their circuits draw them *)
(* again from the proof they are given.  On the way the proof may change:  *)
(* in an element, in the length of a part, in where one part ends and the  *)
(* next begins, or in how many caps of reductions it has.                  *)
(***************************************************************************)
EXTENDS Integers, SequencesExt

CONSTANTS
    RATE,            \* elements that one permutation absorbs or yields
    Params,          \* shapes of proofs, see ParamsAssumption
    D,               \* degree of the extension field
    HashLen,         \* elements of a hash
    NumChallenges, NumQueries,
    CommitCap,       \* names of the caps of FRI reductions, in order and as
                     \* many as a proof may have, of whatever circuit
    FriBeta,         \* and of their challenges
    None, Refused

TraceCaps == {"wires_cap", "zs_cap", "quotient_cap"}
Caps == TraceCaps \cup ToSet(CommitCap)

ZetaOpenings == <<"constants", "sigmas", "wires", "zs", "partial_products",
                  "quotient_polys", "lookup_zs">>
NextOpenings == <<"zs_next", "lookup_zs_next">>
Openings == ToSet(ZetaOpenings) \cup ToSet(NextOpenings)

\* What the verifier holds itself: its circuit's data.
Data == {"fri_params", "circuit_digest"}

Message ==
    Data \cup Caps \cup Openings \cup {"public_inputs", "final_poly", "pow_witness"}

PlonkChallenges == {"betas", "gammas", "deltas", "alphas", "zeta", "fri_alpha",
                    "pow_response", "query_indices"}
Challenge == PlonkChallenges \cup ToSet(FriBeta)

ASSUME SizeAssumption == {RATE, D, HashLen, NumChallenges, NumQueries} \subseteq Nat \ {0}

\* Names are of one thing each.
ASSUME NameAssumption ==
    /\ CommitCap \in Seq(STRING) /\ FriBeta \in Seq(STRING) /\ Len(CommitCap) = Len(FriBeta)
    /\ IsInjective(CommitCap) /\ IsInjective(FriBeta)
    /\ ToSet(CommitCap) \cap (Data \cup TraceCaps \cup Openings
                                \cup {"public_inputs", "final_poly", "pow_witness"}) = {}
    /\ ToSet(FriBeta) \cap PlonkChallenges = {}

\* FriConfig::cap_height holds for every tree: all caps are as long, and a
\* cap is never empty.
CapLen(p) == p.len["wires_cap"]

ASSUME ParamsAssumption ==
    \A p \in Params :
        /\ p.lookup \in BOOLEAN                  \* the circuit has lookup tables
        /\ p.steps \in 0 .. Len(CommitCap)       \* reductions
        /\ p.len \in [Message -> Nat]            \* base field elements of each part
        /\ \A m \in Openings \cup {"final_poly"} : p.len[m] % D = 0
        /\ p.len["pow_witness"] = 1
        /\ p.len["lookup_zs_next"] = p.len["lookup_zs"]
        /\ ~p.lookup => p.len["lookup_zs"] = 0
        /\ CapLen(p) > 0 /\ \A m \in TraceCaps : p.len[m] = CapLen(p)
        /\ \A k \in 1 .. Len(CommitCap) :
              p.len[CommitCap[k]] = IF k <= p.steps THEN CapLen(p) ELSE 0

VARIABLES
    params,
    sent,      \* the prover's messages, or None
    prover,    \* its challenges and the output its grinding found, or None
    view,      \* what the verifiers are given, or None
    native,    \* the verifier's challenges, Refused or None
    circuit    \* those of the verifier in a circuit, Refused or None

vars == <<params, sent, prover, view, native, circuit>>

-----------------------------------------------------------------------------
(* The two sponges that turn a transcript into challenges: the one that    *)
(* proves and verifies outside circuits, which permutes as soon as a block *)
(* is full, and the one that builds circuits, which buffers all it         *)
(* observes until a challenge is asked for.  The permutation is symbolic:  *)
(* a sponge is the blocks that were written over its rate and permuted.    *)

\* The output buffer always holds the first outputs of the last permutation,
\* so only their number is kept; they are popped from the end.
NewChallenger == [sponge |-> <<>>, input |-> <<>>, output |-> 0]

\* Mutation of Permute: the state is reset before a block is written.
PermuteAfresh(sponge, block) == <<block>>

Permute(sponge, block) == Append(sponge, block)

OutputAt(sponge, i) == <<sponge, i>>

Popped(c) == OutputAt(c.sponge, c.output)

\* Mutation of Pop: the output stays in the buffer.
Peek(c) == c

Pop(c) == [c EXCEPT !.output = @ - 1]

-----------------------------------------------------------------------------
(* Challenger, outside circuits.                                           *)

Duplexing(c) ==
    [sponge |-> Permute(c.sponge, c.input), input |-> <<>>, output |-> RATE]

ObserveElement(c, e) ==
    LET d == [sponge |-> c.sponge, input |-> Append(c.input, e), output |-> 0]
    IN  IF Len(d.input) = RATE THEN Duplexing(d) ELSE d

\* get_challenge, up to the pop
Refilled(c) == IF c.input # <<>> \/ c.output = 0 THEN Duplexing(c) ELSE c

\* fri_proof_of_work: what the search takes for the response to a witness,
\* without a Challenger of its own.
GrindingOutput(c, witness) ==
    OutputAt(Permute(c.sponge, Append(c.input, witness)), RATE)

-----------------------------------------------------------------------------
(* RecursiveChallenger, in circuits.                                       *)

ObserveTarget(c, e) == [sponge |-> c.sponge, input |-> Append(c.input, e), output |-> 0]

Chunks(s) ==
    [k \in 1 .. (Len(s) + RATE - 1) \div RATE |->
        SubSeq(s, RATE * (k - 1) + 1, IF RATE * k < Len(s) THEN RATE * k ELSE Len(s))]

Absorbed(sponge, chunks) ==
    LET after[k \in 0 .. Len(chunks)] ==
          IF k = 0 THEN sponge ELSE Permute(after[k - 1], chunks[k])
    IN  after[Len(chunks)]

\* absorb_buffered_inputs
Absorb(c) ==
    IF c.input = <<>>
    THEN c
    ELSE [sponge |-> Absorbed(c.sponge, Chunks(c.input)), input |-> <<>>, output |-> RATE]

\* get_challenge, up to the pop
RefilledTarget(c) ==
    LET d == Absorb(c)
    IN  IF d.output = 0
        THEN [d EXCEPT !.sponge = Permute(@, <<>>), !.output = RATE]
        ELSE d

-----------------------------------------------------------------------------
(* Programs of a transcript, in parts of single steps.                     *)

Observe(elements) == [i \in 1 .. Len(elements) |-> [do |-> "observe", what |-> elements[i]]]
Draw(name, n)     == [i \in 1 .. n |-> [do |-> "draw", what |-> name]]

\* fri_proof_of_work, up to the response: search, and observe what was found.
Grind(witness)    == <<[do |-> "grind", what |-> Head(witness)]>> \o Observe(witness)

\* hash_no_pad of the public inputs
InputsHash(pis) == [i \in 1 .. HashLen |-> <<pis, i>>]

Instance(v) == Observe(v["fri_params"] \o v["circuit_digest"] \o InputsHash(v["public_inputs"]))

\* OpeningSet::to_fri_openings
Batches(v) ==
    << v["constants"] \o v["sigmas"] \o v["wires"] \o v["zs"] \o v["partial_products"]
         \o v["quotient_polys"] \o v["lookup_zs"],
       IF v["lookup_zs"] # <<>> THEN v["zs_next"] \o v["lookup_zs_next"] ELSE v["zs_next"] >>

\* The caps that a proof has, which may be more or fewer than the reductions
\* its circuit asks for.
NumCaps(v) == Max({0} \cup {k \in 1 .. Len(CommitCap) : v[CommitCap[k]] # <<>>})

\* n caps, and a challenge after each.
Reductions(n, v) ==
    [i \in 1 .. 2 * n |->
        LET k == (i + 1) \div 2
        IN  IF i % 2 = 1 THEN Observe(v[CommitCap[k]]) ELSE Draw(FriBeta[k], D)]

\* prove_with_partition_witness, prove_openings and fri_proof
ProverTranscript(p, v) ==
    << Instance(v), Observe(v["wires_cap"]),
       Draw("betas", NumChallenges), Draw("gammas", NumChallenges),
       Draw("deltas", IF p.lookup THEN 2 * NumChallenges ELSE 0),
       Observe(v["zs_cap"]), Draw("alphas", NumChallenges),
       Observe(v["quotient_cap"]), Draw("zeta", D),
       Observe(Batches(v)[1]), Observe(Batches(v)[2]), Draw("fri_alpha", D) >>
      \o Reductions(p.steps, v)
      \o << Observe(v["final_poly"]), Grind(v["pow_witness"]),
            Draw("pow_response", 1), Draw("query_indices", NumQueries) >>

\* Mutation of VerifierTranscript: alphas are drawn before the cap of the
\* partial products is observed.
EarlyAlphasTranscript(p, v) ==
    << Instance(v), Observe(v["wires_cap"]),
       Draw("betas", NumChallenges), Draw("gammas", NumChallenges),
       Draw("deltas", IF p.lookup THEN 2 * NumChallenges ELSE 0),
       Draw("alphas", NumChallenges), Observe(v["zs_cap"]),
       Observe(v["quotient_cap"]), Draw("zeta", D),
       Observe(Batches(v)[1]), Observe(Batches(v)[2]), Draw("fri_alpha", D) >>
      \o Reductions(NumCaps(v), v)
      \o << Observe(v["final_poly"]), Observe(v["pow_witness"]),
            Draw("pow_response", 1), Draw("query_indices", NumQueries) >>

\* get_challenges and fri_challenges: a challenge for every cap of the proof
VerifierTranscript(p, v) ==
    << Instance(v), Observe(v["wires_cap"]),
       Draw("betas", NumChallenges), Draw("gammas", NumChallenges),
       Draw("deltas", IF p.lookup THEN 2 * NumChallenges ELSE 0),
       Observe(v["zs_cap"]), Draw("alphas", NumChallenges),
       Observe(v["quotient_cap"]), Draw("zeta", D),
       Observe(Batches(v)[1]), Observe(Batches(v)[2]), Draw("fri_alpha", D) >>
      \o Reductions(NumCaps(v), v)
      \o << Observe(v["final_poly"]), Observe(v["pow_witness"]),
            Draw("pow_response", 1), Draw("query_indices", NumQueries) >>

\* CircuitBuilder::get_challenges and its fri_challenges: one for every cap
\* there are targets for
CircuitTranscript(p, v, batches) ==
    << Instance(v), Observe(v["wires_cap"]),
       Draw("betas", NumChallenges), Draw("gammas", NumChallenges),
       Draw("deltas", IF p.lookup THEN 2 * NumChallenges ELSE 0),
       Observe(v["zs_cap"]), Draw("alphas", NumChallenges),
       Observe(v["quotient_cap"]), Draw("zeta", D),
       Observe(batches[1]), Observe(batches[2]), Draw("fri_alpha", D) >>
      \o Reductions(p.steps, v)
      \o << Observe(v["final_poly"]), Observe(v["pow_witness"]),
            Draw("pow_response", 1), Draw("query_indices", NumQueries) >>

-----------------------------------------------------------------------------
(* Running them.                                                           *)

Start == [c |-> NewChallenger, drawn |-> [n \in Challenge |-> <<>>], lucky |-> None]

\* A challenge: pop it from what was refilled.
Take(s, refilled, name) ==
    [s EXCEPT !.c = Pop(refilled), !.drawn[name] = Append(@, Popped(refilled))]

Step(who, s, op) ==
    CASE op.do = "observe" /\ who = "native"  -> [s EXCEPT !.c = ObserveElement(@, op.what)]
      [] op.do = "observe" /\ who = "circuit" -> [s EXCEPT !.c = ObserveTarget(@, op.what)]
      [] op.do = "draw" /\ who = "native"     -> Take(s, Refilled(s.c), op.what)
      [] op.do = "draw" /\ who = "circuit"    -> Take(s, RefilledTarget(s.c), op.what)
      [] op.do = "grind"                      -> [s EXCEPT !.lucky = GrindingOutput(s.c, op.what)]

Steps(who, s, ops) ==
    LET after[i \in 0 .. Len(ops)] ==
          IF i = 0 THEN s ELSE Step(who, after[i - 1], ops[i])
    IN  after[Len(ops)]

\* Part by part: EXCEPT takes the state before a part before that part.
Run(who, transcript) ==
    LET after[i \in 0 .. Len(transcript)] ==
          IF i = 0
          THEN [state |-> Start]
          ELSE [after[i - 1] EXCEPT !.state = Steps(who, @, transcript[i])]
    IN  after[Len(transcript)].state

-----------------------------------------------------------------------------
(* What a verifier makes of the parts it is given.                         *)

\* validate_fri_proof_shape looks at the height of the caps there are, not at
\* their number.
CapsValid(p, v) == \A k \in 1 .. NumCaps(v) : Len(v[CommitCap[k]]) = CapLen(p)

\* Mutation of ShapeValid: openings are only counted together.
ShapeOfBatches(p, v) ==
    /\ CapsValid(p, v)
    /\ \A m \in Message \ (ToSet(CommitCap) \cup Openings) : Len(v[m]) = p.len[m]
    /\ \A b \in 1 .. 2 : Len(Batches(v)[b]) = Len(Batches(sent)[b])

\* validate_proof_with_pis_shape and validate_fri_proof_shape
ShapeValid(p, v) ==
    /\ CapsValid(p, v)
    /\ \A m \in Message \ ToSet(CommitCap) : Len(v[m]) = p.len[m]

\* fri_verifier_query_round takes the cap and the challenge of every reduction
\* by its index: with fewer than that the first round stops.
CapsSuffice(p, v) == NumCaps(v) >= p.steps

Zeros(n) == [i \in 1 .. n |-> <<"zero", 0, "sent">>]

\* The targets of a circuit, as many for each part as its data says.  Openings
\* are copied into them batch by batch.
Targets(p) == [m \in Message |-> [i \in 1 .. p.len[m] |-> i]]

BatchLens(p) == [b \in 1 .. 2 |-> Len(Batches(Targets(p))[b])]

FilledBatches(p, v) == [b \in 1 .. 2 |-> SubSeq(Batches(v)[b], 1, BatchLens(p)[b])]

\* set_proof_with_pis_target succeeds and leaves no target unset.
Fillable(p, v) ==
    /\ Len(v["public_inputs"]) = p.len["public_inputs"]
    /\ Len(v["final_poly"]) <= p.len["final_poly"]
    /\ NumCaps(v) <= p.steps
    /\ \A m \in TraceCaps : Len(v[m]) >= p.len[m]
    /\ \A k \in 1 .. NumCaps(v) : Len(v[CommitCap[k]]) >= CapLen(p)
    /\ \A b \in 1 .. 2 : Len(Batches(v)[b]) >= BatchLens(p)[b]

\* The targets' values: parts that are too long are cut, caps that are missing
\* are zeros, and so is what a final polynomial is short of.
Filled(p, v) ==
    [m \in Message |->
        CASE m \in Caps -> IF v[m] = <<>> THEN Zeros(p.len[m]) ELSE SubSeq(v[m], 1, p.len[m])
          [] m = "final_poly" -> v[m] \o Zeros(p.len[m] - Len(v[m]))
          [] OTHER -> v[m]]

-----------------------------------------------------------------------------
(* What may happen to a proof.                                             *)

Honest(p) == [m \in Message |-> [i \in 1 .. p.len[m] |-> <<m, i, "sent">>]]

\* What parts are made of, what a sponge is fed and what it yields.
Element == (Message \cup {"zero"}) \X Nat \X {"sent", "other"}
Observed == Element \cup (Seq(Element) \X (1 .. HashLen))
Output == Seq(Seq(Observed)) \X (0 .. RATE)

ASSUME NoneAssumption ==
    /\ None # Refused
    /\ None \notin [Message -> Seq(Element)]
    /\ Refused \notin [Challenge -> Seq(Output)]

Others(m, n) == [i \in 1 .. n |-> <<m, i, "other">>]

\* One element of one part, or of the data of the circuit it is verified for.
Altered(v) ==
    UNION {{[v EXCEPT ![m][i] = <<m, i, "other">>] : i \in DOMAIN v[m]} : m \in Message}

\* A part that is not of a fixed length loses or gains an extension element.
Resizable == Message \ (Data \cup {"pow_witness"})

Cut(v) == {[v EXCEPT ![m] = SubSeq(@, 1, Len(@) - D)] : m \in {n \in Resizable : Len(v[n]) >= D}}

Grown(v) == {[v EXCEPT ![m] = @ \o Others(m, D)] : m \in Resizable}

\* The last value of one list of openings is taken for the first of the next.
Moved(v, names) ==
    { [v EXCEPT ![names[k]] = SubSeq(@, 1, Len(@) - D),
                ![names[k + 1]] = SubSeq(v[names[k]], Len(v[names[k]]) - D + 1, Len(v[names[k]])) \o @] :
        k \in {j \in 1 .. Len(names) - 1 : Len(v[names[j]]) >= D} }

\* Caps of reductions that are dropped from the end, or added of the height
\* that the others have.
WithCaps(v, n) ==
    [m \in Message |->
        IF \E k \in n + 1 .. Len(CommitCap) : m = CommitCap[k]
        THEN <<>>
        ELSE IF \E k \in NumCaps(v) + 1 .. n : m = CommitCap[k]
        THEN Others(m, Len(v["wires_cap"]))
        ELSE v[m]]

Recapped(v) == {WithCaps(v, n) : n \in 0 .. Len(CommitCap)}

Changes(v) ==
    {v} \cup Altered(v) \cup Cut(v) \cup Grown(v) \cup Recapped(v)
        \cup Moved(v, ZetaOpenings) \cup Moved(v, NextOpenings)

-----------------------------------------------------------------------------

Init ==
    /\ params \in Params
    /\ sent = None /\ prover = None /\ view = None /\ native = None /\ circuit = None

\* prove_with_partition_witness
Prove ==
    /\ sent = None
    /\ sent' = Honest(params)
    /\ prover' = Run("native", ProverTranscript(params, sent'))
    /\ UNCHANGED <<params, view, native, circuit>>

Deliver ==
    /\ sent # None /\ view = None
    /\ view' \in Changes(sent)
    /\ UNCHANGED <<params, sent, prover, native, circuit>>

\* verify, up to the checks that compare what was drawn
Verify ==
    /\ view # None /\ native = None
    /\ native' = IF ShapeValid(params, view) /\ CapsSuffice(params, view)
                 THEN Run("native", VerifierTranscript(params, view)).drawn
                 ELSE Refused
    /\ UNCHANGED <<params, sent, prover, view, circuit>>

\* CircuitBuilder::verify_proof, run on the targets' values
VerifyInCircuit ==
    /\ view # None /\ circuit = None
    /\ circuit' = IF Fillable(params, view)
                  THEN Run("circuit", CircuitTranscript(params, Filled(params, view),
                                                        FilledBatches(params, view))).drawn
                  ELSE Refused
    /\ UNCHANGED <<params, sent, prover, view, native>>

Next == Prove \/ Deliver \/ Verify \/ VerifyInCircuit

Spec == Init /\ [][Next]_vars

-----------------------------------------------------------------------------
(* Properties.                                                             *)

Drew(result) == result \notin {None, Refused}

\* Whatever proof the verifier outside a circuit admits, the one in a circuit
\* admits too and draws the same challenges, although it buffers what it
\* observes, unless the proof has more caps than there are reductions: these
\* have no targets, and no circuit can be given it.  For the proof that was
\* sent the challenges are the prover's, whose search for a proof-of-work
\* witness predicted the response that is drawn.
ChallengesAgree ==
    /\ prover # None => prover.drawn["pow_response"] = <<prover.lucky>>
    /\ Drew(native) /\ circuit # None =>
         circuit = IF NumCaps(view) = params.steps THEN native ELSE Refused
    /\ Drew(native) /\ view = sent => native = prover.drawn
    /\ view = sent => native # Refused /\ circuit # Refused

\* What a challenge must have been drawn after, for the argument that follows
\* it to be sound: a prover that changed any of it faces another challenge.
Statement(v) == <<v["fri_params"], v["circuit_digest"], v["public_inputs"]>>

Committed(v, batches) ==
    LET wires    == Append(Statement(v), v["wires_cap"])
        products == Append(wires, v["zs_cap"])
        quotient == Append(products, v["quotient_cap"])
        openings == quotient \o batches
        caps(k)  == openings \o [j \in 1 .. k |-> v[CommitCap[j]]]
        all      == caps(Len(CommitCap)) \o <<v["final_poly"], v["pow_witness"]>>
    IN  [c \in Challenge |->
            CASE c \in {"betas", "gammas", "deltas"} -> wires
              [] c = "alphas"      -> products
              [] c = "zeta"        -> quotient
              [] c = "fri_alpha"   -> openings
              [] c \in ToSet(FriBeta) ->
                    caps(CHOOSE k \in 1 .. Len(FriBeta) : FriBeta[k] = c)
              [] c \in {"pow_response", "query_indices"} -> all]

Binds(drawn, committed) ==
    \A c \in Challenge :
        drawn[c] = prover.drawn[c] /\ drawn[c] # <<>>
            => committed[c] = Committed(sent, Batches(sent))[c]

\* A verifier that draws a challenge of the prover's was given, up to there,
\* the prover's messages for the same circuit and public inputs.
ChallengesBind ==
    /\ Drew(native) => Binds(native, Committed(view, Batches(view)))
    /\ Drew(circuit) =>
         Binds(circuit, Committed(Filled(params, view), FilledBatches(params, view)))

\* The transcript runs parts together without their lengths, and the checks of
\* shape leave the number of caps open: only both together say that a proof
\* with the prover's query indices is the prover's proof, part by part.
AdmittedIsSent ==
    Drew(native) /\ native["query_indices"] = prover.drawn["query_indices"]
        => view = sent

\* No output of the sponge is drawn twice, in one challenge or in two.
ChallengesFresh ==
    prover # None =>
        \A c, d \in Challenge :
            \A i \in DOMAIN prover.drawn[c], j \in DOMAIN prover.drawn[d] :
                prover.drawn[c][i] = prover.drawn[d][j] => c = d /\ i = j

=============================================================================
