---------------------------- MODULE EcdsaCircuit ----------------------------
(***************************************************************************)
(* The ECDSA verification inside R_Base, as an honest prover's witness     *)
(* runs through it: the digest wired to the message scalar, the scalars,   *)
(* the fixed-base product, the table of the key's multiples, the windowed  *)
(* product and the comparison with r.  One action per step of a loop.      *)
(***************************************************************************)
EXTENDS CurveGadgets

CONSTANTS
    DigitBits,        \* bits of half a window (2)
    WindowsPerLimb,   \* windows in a limb (8)
    FixedStart,       \* multiple the fixed-base product starts from
    WindowedStart,    \* multiple the windowed product starts from
    Blind,            \* multiples precompute_window may draw when the circuit is built
    Digest, SecretKey, Nonce,
    Alteration        \* what happened to key and signature after signing

ASSUME WindowAssumption ==
    /\ DigitBits \in Nat \ {0} /\ WindowsPerLimb \in Nat \ {0}
    /\ LimbBits = 2 * DigitBits * WindowsPerLimb
    /\ 2^(2 * DigitBits) < ScalarOrder

ASSUME InstanceAssumption ==
    /\ Digest \subseteq 0..(Power(NumNonnativeLimbs(ScalarOrder)) - 1)
    /\ SecretKey \cup Nonce \cup Blind \cup {FixedStart, WindowedStart}
         \subseteq 1..(ScalarOrder - 1)
    /\ Alteration \subseteq {"none", "r", "s", "s0", "key", "point"}

\* The constant that is doubled first has all its limbs: the square of a
\* shorter coordinate is given none for its quotient.
ASSUME StartAssumption ==
    Power(NumNonnativeLimbs(BaseOrder) - 1) <= Times(WindowedStart).x

VARIABLES
    inst,               \* digest, key, signature and blinding multiple
    stage, step,        \* where the witness has come to
    u1, u2,             \* scalars
    fixed, table, windowed

vars == <<inst, stage, step, u1, u2, fixed, table, windowed>>

WindowBits == 2 * DigitBits
WindowSize == 2^WindowBits
Weight(w) == 2^(WindowBits * w)    \* of window w, from 0
NumLimbs == NumNonnativeLimbs(ScalarOrder)
NumWindows == NumLimbs * WindowsPerLimb

Windows(u) == SplitToWindows(u, DigitBits, WindowsPerLimb)

(*************************************************************************)
(* Native code.                                                          *)
(*************************************************************************)

ByteArrayToScalar(digest) == digest % ScalarOrder

BaseToScalar(x) == x % ScalarOrder

\* Nonces whose point has x = 0 are drawn again.
SignMessage(msg, sk, k) ==
    LET r == BaseToScalar(Times(k).x)
    IN  [r |-> r, s |-> (ModInverse(ScalarOrder, k) * (msg + r * sk)) % ScalarOrder]

\* The key is known by its multiple of the generator.
VerifiedPoint(in) ==
    LET c == ModInverse(ScalarOrder, in.s)
        msg == ByteArrayToScalar(in.digest)
    IN  Times(msg * c + ((in.r * c) % ScalarOrder) * in.sk)

VerifyMessage(in) ==
    /\ OnCurve(in.pk)
    /\ in.s # 0
    /\ BaseToScalar(VerifiedPoint(in).x) = in.r

(*************************************************************************)
(* Instances: signatures of the library, left alone or changed.          *)
(*************************************************************************)

Altered(in, how) ==
    CASE how = "none" -> in
      [] how = "r"    -> [in EXCEPT !.r = (@ + 1) % ScalarOrder]
      [] how = "s"    -> [in EXCEPT !.s = (@ + 1) % ScalarOrder]
      [] how = "s0"   -> [in EXCEPT !.s = 0]
      [] how = "key"  -> [in EXCEPT !.sk = (@ % (ScalarOrder - 1)) + 1,
                                    !.pk = Times((in.sk % (ScalarOrder - 1)) + 1)]
      [] how = "point" -> [in EXCEPT !.pk.y = (@ + 1) % BaseOrder]

Init ==
    /\ \E digest \in Digest, sk \in SecretKey, k \in Nonce, g \in Blind, how \in Alteration :
        /\ Times(k).x # 0
        /\ LET sig == SignMessage(ByteArrayToScalar(digest), sk, k)
           IN  inst = Altered([digest |-> digest, sk |-> sk, pk |-> Times(sk),
                               r |-> sig.r, s |-> sig.s, blind |-> g], how)
        /\ how = "point" => ~OnCurve(inst.pk)    \* not onto the point's negative
    /\ stage = "wire" /\ step = 0
    /\ u1 = <<>> /\ u2 = <<>>
    /\ fixed = StuckPoint /\ table = <<>> /\ windowed = StuckPoint

(*************************************************************************)
(* Witness generation.                                                   *)
(*************************************************************************)

Scalar(v) == SetBiguint(NumLimbs, v)

Key == VirtualAffinePoint(inst.pk)

\* The prover fills in the reduced scalar; the digest's bits are wired to
\* the same limbs.
WireDigest ==
    /\ stage = "wire"
    /\ stage' = IF LimbsOf(NumLimbs, inst.digest) = Scalar(ByteArrayToScalar(inst.digest))
                THEN "key" ELSE "stuck"
    /\ UNCHANGED <<inst, step, u1, u2, fixed, table, windowed>>

AssertKeyValid ==
    /\ stage = "key"
    /\ stage' = IF CurveAssertValid(Key) THEN "scalars" ELSE "stuck"
    /\ UNCHANGED <<inst, step, u1, u2, fixed, table, windowed>>

ComputeScalars ==
    /\ stage = "scalars"
    /\ LET c == InvNonnative(ScalarOrder, Scalar(inst.s))
       IN  /\ u1' = MulNonnative(ScalarOrder, Scalar(ByteArrayToScalar(inst.digest)), c)
           /\ u2' = MulNonnative(ScalarOrder, Scalar(inst.r), c)
    /\ stage' = IF Stuck \in {u1', u2'} THEN "stuck" ELSE "fixed"
    /\ fixed' = ConstantAffinePoint(Times(FixedStart))
    /\ UNCHANGED <<inst, step, table, windowed>>

\* muls_point: at 0 a point that is never added.
FixedMultiples(w) ==
    LET scale == Weight(w - 1)
    IN  [t \in 1..WindowSize |->
            ConstantAffinePoint(Times(scale * (IF t = 1 THEN 1 ELSE t - 1)))]

FixedWindow ==
    /\ stage = "fixed" /\ step < NumWindows
    /\ LET limb == Windows(u1)[step + 1]
           r == RandomAccessCurvePoints(limb, FixedMultiples(step + 1))
       IN  fixed' = CurveConditionalAdd(fixed, r, limb # 0)
    /\ stage' = IF IsStuck(fixed') THEN "stuck" ELSE stage
    /\ step' = step + 1
    /\ UNCHANGED <<inst, u1, u2, table, windowed>>

SubtractFixedStart ==
    /\ stage = "fixed" /\ step = NumWindows
    /\ fixed' = CurveAdd(fixed, ConstantAffinePoint(NegAffine(Times(FixedStart))))
    /\ stage' = IF IsStuck(fixed') THEN "stuck" ELSE "table"
    /\ table' = <<ConstantAffinePoint(Times(inst.blind))>>
    /\ step' = 1
    /\ UNCHANGED <<inst, u1, u2, windowed>>

ExtendTable ==
    /\ stage = "table" /\ step < WindowSize
    /\ table' = Append(table, CurveAdd(Key, Last(table)))
    /\ stage' = IF IsStuck(Last(table')) THEN "stuck" ELSE stage
    /\ step' = step + 1
    /\ UNCHANGED <<inst, u1, u2, fixed, windowed>>

\* The first entry keeps the blinding point: window 0 is not added.
StartUnblinding ==
    /\ stage = "table" /\ step = WindowSize
    /\ stage' = "unblind" /\ step' = 1
    /\ UNCHANGED <<inst, u1, u2, fixed, table, windowed>>

\* Mutation of UnblindTable: the last entry keeps the blinding point.
UnblindTableShort ==
    /\ stage = "unblind" /\ step < WindowSize
    /\ table' = IF step + 1 = WindowSize THEN table ELSE
                [table EXCEPT ![step + 1] =
                    CurveAdd(ConstantAffinePoint(NegAffine(Times(inst.blind))), @)]
    /\ stage' = IF IsStuck(table'[step + 1]) THEN "stuck" ELSE stage
    /\ step' = step + 1
    /\ UNCHANGED <<inst, u1, u2, fixed, windowed>>

UnblindTable ==
    /\ stage = "unblind" /\ step < WindowSize
    /\ table' = [table EXCEPT ![step + 1] =
                    CurveAdd(ConstantAffinePoint(NegAffine(Times(inst.blind))), @)]
    /\ stage' = IF IsStuck(table'[step + 1]) THEN "stuck" ELSE stage
    /\ step' = step + 1
    /\ UNCHANGED <<inst, u1, u2, fixed, windowed>>

StartWindows ==
    /\ stage = "unblind" /\ step = WindowSize
    /\ windowed' = ConstantAffinePoint(Times(WindowedStart))
    /\ stage' = "windowed" /\ step' = NumWindows
    /\ UNCHANGED <<inst, u1, u2, fixed, table>>

\* curve_repeated_double
Doubled(p) ==
    LET result[j \in 0..WindowBits] == IF j = 0 THEN p ELSE CurveDouble(result[j - 1])
    IN  result[WindowBits]

AddWindow ==
    /\ stage = "windowed" /\ step > 0
    /\ LET window == Windows(u2)[step]
       IN  windowed' = CurveConditionalAdd(Doubled(windowed),
                            RandomAccessCurvePoints(window, table), window # 0)
    /\ stage' = IF IsStuck(windowed') THEN "stuck" ELSE stage
    /\ step' = step - 1
    /\ UNCHANGED <<inst, u1, u2, fixed, table>>

\* starting_point_multiplied: doubled once for each bit of a scalar.
SubtractWindowedStart ==
    /\ stage = "windowed" /\ step = 0
    /\ LET multiplied == ConstantAffinePoint(Times(WindowedStart * Weight(NumWindows)))
       IN  windowed' = CurveAdd(windowed, CurveNeg(multiplied))
    /\ stage' = IF IsStuck(windowed') THEN "stuck" ELSE "compare"
    /\ UNCHANGED <<inst, step, u1, u2, fixed, table>>

\* The coordinate of the sum is compared with r as it is.
Compare ==
    /\ stage = "compare"
    /\ LET point == CurveAdd(fixed, windowed)
       IN  stage' = IF IsStuck(point) THEN "stuck"
                    ELSE IF ConnectBiguint(Scalar(inst.r), point.x) THEN "accepted"
                    ELSE "rejected"
    /\ UNCHANGED <<inst, step, u1, u2, fixed, table, windowed>>

Next ==
    \/ WireDigest \/ AssertKeyValid \/ ComputeScalars
    \/ FixedWindow \/ SubtractFixedStart
    \/ ExtendTable \/ StartUnblinding \/ UnblindTable
    \/ StartWindows \/ AddWindow \/ SubtractWindowedStart
    \/ Compare

Spec == Init /\ [][Next]_vars

-----------------------------------------------------------------------------
(* Properties.                                                             *)

\* What the loops have computed, as multiples of the generator.
FixedMultiple ==
    IF stage = "fixed" THEN FixedStart + (ValueOf(u1) % Weight(step)) ELSE ValueOf(u1)

TableMultiple(t) ==
    CASE t = 1 -> inst.blind
      [] t > 1 /\ (stage = "table" \/ (stage = "unblind" /\ t > step)) ->
            inst.blind + (t - 1) * inst.sk
      [] OTHER -> (t - 1) * inst.sk

WindowedMultiple ==
    IF stage = "windowed"
    THEN WindowedStart * Weight(NumWindows - step) + (ValueOf(u2) \div Weight(step)) * inst.sk
    ELSE ValueOf(u2) * inst.sk

\* Every partial result of the loops is, in reduced coordinates, the
\* multiple of the generator it should be: windows are taken in the right
\* order and weight, starting and blinding points leave exactly
\* (curve_fixed_base.rs, curve_windowed_mul.rs over limbs of biguint.rs).
ResultsAreMultiples ==
    /\ stage \in {"fixed", "table", "unblind", "windowed", "compare"} =>
        /\ Denotes(fixed, Times(FixedMultiple))
        /\ (ValueOf(u1) * inst.s) % ScalarOrder = ByteArrayToScalar(inst.digest)
        /\ (ValueOf(u2) * inst.s) % ScalarOrder = inst.r
    /\ stage \in {"table", "unblind", "windowed", "compare"} =>
        \A t \in 1..Len(table) : Denotes(table[t], Times(TableMultiple(t)))
    /\ stage \in {"windowed", "compare"} => Denotes(windowed, Times(WindowedMultiple))

\* Coordinates that meet, or whose sum is the modulus and stays unreduced.
SumFails(P, Q) == P.x = Q.x \/ P.x + Q.x = BaseOrder

\* A horizontal tangent: 3x^2 and a sum up to the modulus.
DoubleFails(P) == (3 * P.x * P.x + CurveA) % BaseOrder = 0

Exceptional ==
    CASE stage = "wire" -> inst.digest >= ScalarOrder
      [] stage = "key" ->
            \/ ~OnCurve(inst.pk)
            \/ ((CurveA * inst.pk.x) % BaseOrder) + CurveB = BaseOrder
      [] stage = "scalars" -> inst.s = 0
      [] stage = "fixed" /\ step < NumWindows ->
            SumFails(Times(FixedMultiple),
                     Times((IF Windows(u1)[step + 1] = 0 THEN 1 ELSE Windows(u1)[step + 1]) * Weight(step)))
      [] stage = "fixed" /\ step = NumWindows -> SumFails(Times(FixedMultiple), Times(FixedStart))
      [] stage = "table" /\ step < WindowSize -> SumFails(inst.pk, Times(TableMultiple(step)))
      [] stage = "unblind" /\ step < WindowSize -> SumFails(Times(inst.blind), Times(TableMultiple(step + 1)))
      [] stage = "windowed" /\ step > 0 ->
            \/ \E j \in 0..(WindowBits - 1) : DoubleFails(Times(WindowedMultiple * 2^j))
            \/ SumFails(Times(WindowedMultiple * WindowSize), Times(TableMultiple(Windows(u2)[step] + 1)))
      [] stage = "windowed" /\ step = 0 ->
            SumFails(Times(WindowedMultiple), Times(WindowedStart * Weight(NumWindows)))
      [] stage = "compare" -> SumFails(Times(FixedMultiple), Times(WindowedMultiple))
      [] OTHER -> FALSE

\* The prover is stuck at the exceptions named above and nowhere else: no
\* carry, limb count, range check or inverse of the gadgets stops a
\* signature whose points keep clear of them (curve.rs, nonnative.rs).
StuckExactlyAtExceptions == [][stage' = "stuck" <=> Exceptional]_vars

\* Where the witness comes to an end, the circuit accepts what the native
\* verifier accepts (curve/ecdsa.rs) except signatures whose point has a
\* coordinate from the scalar order on: gadgets/ecdsa.rs compares it with
\* r unreduced.
VerdictIsNative ==
    stage \in {"accepted", "rejected"} =>
        (stage = "accepted" <=> VerifyMessage(inst) /\ VerifiedPoint(inst).x < ScalarOrder)
=============================================================================
