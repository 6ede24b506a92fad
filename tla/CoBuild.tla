------------------------------- MODULE CoBuild -------------------------------
(***************************************************************************)
(* How R_Del and the wrappers R_Wrap come to share one CommonCircuitData:  *)
(* R_Del is built against a seed, then against its own shape; the first    *)
(* credential type's wrapper may make it be rebuilt once with more gate    *)
(* types; later types attach or are refused; and the dummy proof that      *)
(* fills the inner slot of a first delegation step is built to match.      *)
(***************************************************************************)
EXTENDS DummyCircuit, FiniteSetsExt

CONSTANTS
    CredType,   \* credential types, each with its R_Base
    GateType,   \* gate types
    Facts       \* what the gadgets of the circuits cost, see FactsAssumption

\* A shape: what CommonCircuitData equality compares, of what can differ here.
\* Selectors and constants are functions of the gate set, which is sorted when
\* a circuit is built.
Shape == [gates : SUBSET GateType, bits : Bits]

Cost == [rows : Nat, gates : SUBSET GateType]

ASSUME FactsAssumption ==
    \A f \in Facts :
        /\ f.own \in Cost                    \* the logic of R_Del
        /\ f.verify \in [Bits -> Cost]       \* verifying a proof of a degree
        /\ f.eval \in [GateType -> Nat]      \* evaluating a gate type's constraints
        /\ f.wrap \in [CredType -> Cost]     \* verifying R_Base of a type
        /\ f.common \subseteq GateType       \* gate types of every circuit

VARIABLES
    facts,
    stage,      \* "trial", "final", "wrap", "ready", "bail" or "panic"
    first,      \* type the co-build is for
    extra,      \* extra_gates registered in R_Del
    inner,      \* shape R_Del is being built against
    round,      \* 1, or 2 after the rebuild
    del,        \* shape of R_Del, or None
    attached    \* types with a wrapper of R_Del's shape

coVars == <<facts, stage, first, extra, inner, round, del, attached>>
vars == <<searchVars, coVars>>

-----------------------------------------------------------------------------

\* Rows that verify a proof of this shape: one gate type after the other.
VerifyRows(f, s) ==
    f.verify[s.bits].rows + MapThenSumSet(LAMBDA g : f.eval[g], s.gates)

\* No circuit outgrows the largest degree.
ASSUME CapacityAssumption ==
    /\ IsFiniteSet(GateType) /\ Fits(2)
    /\ \A f \in Facts, b \in Bits :
         LET n == VerifyRows(f, [gates |-> GateType, bits |-> b])
         IN  Fits(3 * n) /\ Fits(f.own.rows + n)

\* common_data_for_recursion: an empty circuit, two verifiers of it, three of
\* those.
Verifiers(n, s) ==
    [ gates |-> facts.common \cup facts.verify[s.bits].gates,
      bits  |-> BuiltBits[n * VerifyRows(facts, s)] ]
Seed == Verifiers(3, Verifiers(2, [gates |-> facts.common, bits |-> BuiltBits[2]]))

\* build_delegation_circuit_with_common; the gates of the shape it verifies are
\* added by conditionally_verify_cyclic_proof.
DelShape(s, more) ==
    [ gates |-> more \cup s.gates \cup facts.own.gates \cup facts.verify[s.bits].gates,
      bits  |-> BuiltBits[facts.own.rows + VerifyRows(facts, s)] ]

\* build_jwt_wrapper_circuit, with the gates of the shape it should get
WrapShape(t, s) ==
    [ gates |-> s.gates \cup facts.wrap[t].gates, bits |-> BuiltBits[facts.wrap[t].rows] ]

\* Mutation of ExtraGates: the difference is taken the other way round.
MissingGates(w) == del.gates \ w.gates

ExtraGates(w) == w.gates \ del.gates

-----------------------------------------------------------------------------

Init ==
    /\ facts \in Facts
    /\ stage = "trial" /\ first \in CredType
    /\ extra = {} /\ inner = Seed /\ round = 1
    /\ del = None /\ attached = {}
    /\ goal = 0 /\ lo = 0 /\ hi = 0 /\ best = None /\ pc = "idle"

TrialBuild ==
    /\ stage = "trial"
    /\ inner' = DelShape(inner, extra)
    /\ stage' = "final"
    /\ UNCHANGED <<facts, first, extra, round, del, attached, searchVars>>

\* Mutation of FinalBuild: convergence is not asserted.
FinalBuildUnchecked ==
    /\ stage = "final"
    /\ stage' = "wrap" /\ del' = DelShape(inner, extra)
    /\ UNCHANGED <<facts, first, extra, inner, round, attached, searchVars>>

FinalBuild ==
    /\ stage = "final"
    /\ IF DelShape(inner, extra) = inner
       THEN stage' = "wrap" /\ del' = inner
       ELSE stage' = "panic" /\ UNCHANGED del
    /\ UNCHANGED <<facts, first, extra, inner, round, attached, searchVars>>

\* build_delegation_and_wrapper: a mismatch is tried to be mended once.
FirstWrapper ==
    LET w == WrapShape(first, del)
    IN  /\ stage = "wrap"
        /\ \/ /\ w = del
              /\ stage' = "ready" /\ attached' = {first}
              /\ UNCHANGED <<extra, inner, round, del>>
           \/ /\ w # del /\ round = 1
              /\ stage' = "trial" /\ round' = 2
              /\ extra' = ExtraGates(w) /\ inner' = Seed /\ del' = None
              /\ UNCHANGED attached
           \/ /\ w # del /\ round = 2
              /\ stage' = "bail"
              /\ UNCHANGED <<extra, inner, round, del, attached>>
        /\ UNCHANGED <<facts, first, searchVars>>

\* A later credential type is attached by its wrapper alone, or refused.
Attach(t) ==
    /\ stage = "ready"
    /\ WrapShape(t, del) = del
    /\ attached' = attached \cup {t}
    /\ UNCHANGED <<facts, stage, first, extra, inner, round, del, searchVars>>

\* build_delegation_dummy_proof
BuildDummyProof ==
    /\ stage = "ready" /\ pc = "idle"
    /\ StartSearch(del.bits)
    /\ UNCHANGED coVars

SearchStep == Search /\ UNCHANGED coVars

\* What runs to its end once it was called.
Build == TrialBuild \/ FinalBuild \/ FirstWrapper \/ SearchStep

Next == Build \/ BuildDummyProof \/ \E t \in CredType : Attach(t)

\* The library finishes a build it was asked for; a caller may ask no more.
Spec == Init /\ [][Next]_vars /\ WF_vars(Build)

-----------------------------------------------------------------------------
(* Properties.                                                             *)

\* R_Del verifies proofs of its own shape, and every attached wrapper has that
\* shape, so one verifier takes either: the proof of an earlier step or that of
\* any attached type (build_delegation_circuit, "the key enabler").
OneShape ==
    stage = "ready" => /\ DelShape(del, extra) = del
                       /\ \A t \in attached : WrapShape(t, del) = del

\* R_Del's blinding covers what its proofs reveal: as many rows are added as
\* there are openings at the degree R_Del ends up with.  The code's counts
\* decrease where one more FRI reduction is made, and from 2^17 on a circuit
\* can be given the rows of the next degree and then be padded to less.
BlindingCovers ==
    stage = "ready" /\ del.bits < 17 =>
        RegularOpenings(EstimateBits[facts.own.rows + VerifyRows(facts, del)]) >= RegularOpenings(del.bits)

\* There is room when R_Del has the degree of the seed whatever gate types are
\* registered in it, and the first wrapper has that degree too.
Room ==
    /\ \A gs \in {{}, GateType} :
         BuiltBits[facts.own.rows + VerifyRows(facts, [gates |-> gs, bits |-> Seed.bits])] = Seed.bits
    /\ BuiltBits[facts.wrap[first].rows] = Seed.bits

\* build_delegation_and_wrapper: "A single iteration suffices".  It does when
\* there is room: registering a gate type makes R_Del verify its constraints
\* too, so the circuit does grow, but stays within its degree.
OneIterationSuffices == stage \in {"bail", "panic"} => ~Room

\* Every build ends, and so does the search for the dummy.
Termination ==
    /\ <>(stage \in {"ready", "bail", "panic"})
    /\ pc = "search" ~> pc \in {"built", "none", "mismatch"}

===============================================================================
