----------------------------- MODULE DummyCircuit -----------------------------
(***************************************************************************)
(* How many rows a circuit has once plonky2 has blinded and padded it: the *)
(* rows added to blind depend on the FRI parameters of the degree that     *)
(* results from adding them, so both are searched together; degrees are    *)
(* powers of two and given by their exponent.  zero_knowledge is set in    *)
(* the configuration of every circuit that these are used for.             *)
(*                                                                         *)
(* And dummy_circuit: a circuit of no-op rows with the shape of a given    *)
(* one, whose proof stands in for an inner proof that is not there.  How   *)
(* many no-ops it takes is found by binary search.                         *)
(***************************************************************************)
EXTENDS Integers

CONSTANTS
    D,               \* degree of the extension field
    NumQueryRounds, RateBits, CapHeight, ArityBits, FinalPolyBits,
    MaxBits          \* bound on exponents, past every degree that fits

Bits == 0 .. MaxBits
Size == [b \in Bits |-> 2 ^ b]

\* ConstantArityBits: the number of reductions.
Reductions[b \in Bits] ==
    IF b > FinalPolyBits /\ b + RateBits - ArityBits >= CapHeight
    THEN 1 + Reductions[b - ArityBits]
    ELSE 0

\* num_blinding_gates: regular rows, and pairs of rows for Z polynomials.
FriOpenings == [b \in Bits |->
    NumQueryRounds * ( 1 + D * (Reductions[b] * (Size[ArityBits] - 1))
                         + D * Size[b - ArityBits * Reductions[b]] )]

RegularOpenings(b) == D + FriOpenings[b]
ZOpenings(b) == 2 * D + FriOpenings[b]

BlindingRows == [b \in Bits |-> RegularOpenings(b) + 2 * ZOpenings(b)]

ASSUME BlindingAssumption ==
    /\ MaxBits \in Nat
    /\ Size \in [Bits -> Nat \ {0}]
    /\ \A b, c \in Bits : b <= c => Size[b] <= Size[c]
    /\ BlindingRows \in [Bits -> Nat]
    /\ \A b \in Bits : RegularOpenings(b) \in Nat

\* Where one more reduction lowers the count of blinding rows, a circuit of a
\* degree that fits keeps more than half its rows; and below 2^17 the rows that
\* a lower degree lacks openings for do not fit it.
ASSUME DropAssumption ==
    \A b, c \in Bits : b < c =>
        /\ BlindingRows[b] <= Size[b] /\ b > 0 =>
             Size[b - 1] + BlindingRows[b] <= Size[b] + BlindingRows[c]
        /\ b < 17 /\ RegularOpenings(c) < RegularOpenings(b) => Size[b] < BlindingRows[c]

\* Counts that the largest degree has room for.
Fits(n) == n \in Nat /\ n + BlindingRows[MaxBits] <= Size[MaxBits]

Least(S) == CHOOSE b \in S : \A c \in S : b <= c

Log2Ceil == [n \in Nat |-> Least({b \in Bits : n <= Size[b]})]

\* blinding_counts: the estimate doubles until the blinded rows fit.
FittingBits(n) == {b \in Bits : n <= Size[b] /\ n + BlindingRows[b] <= Size[b]}

\* Mutation of EstimateBits: the degree that the blinding itself leads to is
\* not considered.
UnblindedEstimate == [n \in Nat |-> Log2Ceil[n]]

EstimateBits == [n \in Nat |-> Least(FittingBits(n))]

\* blind_and_pad: the rows counted for the estimate are added, then padding.
BuiltBits == [n \in Nat |-> Log2Ceil[n + BlindingRows[EstimateBits[n]]]]

-----------------------------------------------------------------------------
(* The dummy circuit *)

CONSTANTS
    NumPublicInputs,  \* of the circuit to match
    GoalBits,         \* bound on the degree to match
    None              \* best, before a count is found

VARIABLES
    goal,    \* degree to match
    lo, hi, best,
    pc       \* "idle", "search", "noops", "built", or a panic: "none", "mismatch"

searchVars == <<goal, lo, hi, best, pc>>

\* Rows that hash the public inputs, the PublicInputGate and the ConstantGate.
Overhead == (NumPublicInputs + 7) \div 8 + 2

ASSUME DummyAssumption ==
    /\ Overhead \in Nat /\ GoalBits \in Bits
    /\ \A b \in 0 .. GoalBits : Size[b] + Overhead + BlindingRows[MaxBits] <= Size[MaxBits]
    /\ None \notin Nat

\* degree.saturating_sub(base_gate_overhead)
MaxNoops == IF Size[goal] > Overhead THEN Size[goal] - Overhead ELSE 0

\* degree_after_blinding, of the dummy with so many no-ops
DummyBits(noops) == EstimateBits[Overhead + noops]

StartSearch(b) ==
    /\ b \in 0 .. GoalBits
    /\ goal' = b
    /\ lo' = 0 /\ hi' = MaxNoops'
    /\ best' = None
    /\ pc' = "search"

Mid == (lo + hi) \div 2

\* Mutation of Raise: the middle is not excluded.
RaiseToMid ==
    /\ pc = "search" /\ lo <= hi
    /\ DummyBits(Mid) <= goal
    /\ best' = IF DummyBits(Mid) = goal THEN Mid ELSE best
    /\ lo' = Mid
    /\ UNCHANGED <<goal, hi, pc>>

Raise ==
    /\ pc = "search" /\ lo <= hi
    /\ DummyBits(Mid) <= goal
    /\ best' = IF DummyBits(Mid) = goal THEN Mid ELSE best
    /\ lo' = Mid + 1
    /\ UNCHANGED <<goal, hi, pc>>

\* Mutation of Lower: a middle that overshoots takes its neighbour along.
LowerPastMid ==
    /\ pc = "search" /\ lo <= hi /\ Mid > 1
    /\ DummyBits(Mid) > goal
    /\ hi' = Mid - 2
    /\ UNCHANGED <<goal, lo, best, pc>>

Lower ==
    /\ pc = "search" /\ lo <= hi /\ Mid # 0
    /\ DummyBits(Mid) > goal
    /\ hi' = Mid - 1
    /\ UNCHANGED <<goal, lo, best, pc>>

\* The bounds met, or not even a dummy without no-ops is small enough.
Stop ==
    /\ pc = "search"
    /\ lo > hi \/ (Mid = 0 /\ DummyBits(Mid) > goal)
    /\ pc' = IF best = None THEN "none" ELSE "noops"
    /\ UNCHANGED <<goal, lo, hi, best>>

\* build, then assert_eq on the degree: what else the shape holds is copied.
BuildDummy ==
    /\ pc = "noops"
    /\ pc' = IF BuiltBits[Overhead + best] = goal THEN "built" ELSE "mismatch"
    /\ UNCHANGED <<goal, lo, hi, best>>

Search == Raise \/ Lower \/ Stop \/ BuildDummy

\* The bounds close in on the largest dummy of the goal's degree: the count
\* below lo is small enough, the one above hi too large, and a count of the
\* goal's degree, once met, is the one below lo.  The search gives up only
\* when no count has the degree (num_dummy_noop_gates: "This works because the
\* final degree is monotonic in the number of pre-blinding gates").
SearchIsExact ==
    /\ pc = "search" =>
         /\ lo \in 0 .. hi + 1 /\ hi \in 0 .. MaxNoops
         /\ hi < MaxNoops => DummyBits(hi + 1) > goal
         /\ IF best = None THEN lo > 0 => DummyBits(lo - 1) < goal
            ELSE best = lo - 1 /\ DummyBits(best) = goal
    /\ pc \in {"noops", "built"} =>
         /\ best \in 0 .. MaxNoops /\ DummyBits(best) = goal
         /\ best < MaxNoops => DummyBits(best + 1) > goal
    /\ pc = "none" => \A k \in 0 .. MaxNoops : DummyBits(k) # goal

===============================================================================
