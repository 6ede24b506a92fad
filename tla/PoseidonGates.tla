---------------------------- MODULE PoseidonGates ----------------------------
(***************************************************************************)
(* The Poseidon permutation (hash/poseidon.rs), its gate and the gate of   *)
(* its linear layer. The partial rounds are computed in two ways: one      *)
(* round after the other, with the whole matrix, or fast, with constants   *)
(* moved to the front and sparse matrices. The prover and its constraints  *)
(* are fast; the verifier circuit takes the other way when its rows have   *)
(* room for the gate of the linear layer.                                  *)
(*                                                                         *)
(* A state is a function from 0..SpongeWidth-1 to the field; tables are    *)
(* sequences, their positions counted from one.                            *)
(***************************************************************************)
EXTENDS FieldOps

CONSTANTS
    SpongeWidth,                  \* 12
    SwapWidth,                    \* 4: cells the swap exchanges with the next ones
    HalfNFullRounds,              \* 4
    NPartialRounds,               \* 22
    AllRoundConstants,            \* per round, SpongeWidth constants
    MdsMatrixCirc, MdsMatrixDiag, \* the matrix is circulant plus diagonal
    FastPartialFirstRoundConstant, FastPartialRoundConstants,
    FastPartialRoundVs, FastPartialRoundWHats, FastPartialRoundInitialMatrix

NRounds == 2*HalfNFullRounds + NPartialRounds
Cells == 0..(SpongeWidth - 1)
ASSUME PoseidonAssumption ==
    /\ HalfNFullRounds \in Nat \ {0} /\ NPartialRounds \in Nat \ {0}
    /\ 2*SwapWidth <= SpongeWidth
    /\ Len(AllRoundConstants) = NRounds
    /\ {Len(MdsMatrixCirc), Len(MdsMatrixDiag)} = {SpongeWidth}
    /\ Len(FastPartialRoundConstants) = NPartialRounds

IsPartial(r) == r \in HalfNFullRounds..(HalfNFullRounds + NPartialRounds - 1)

---------------------------------------------------------------------------
(* Layers *)

ConstantLayer(state, r) == [i \in Cells |-> (state[i] + AllRoundConstants[r + 1][i + 1]) % P]
Sbox(x) == Power(x, 7)
\* In a partial round only the first cell goes through an S-box.
SboxLayer(state, r) == [i \in Cells |-> IF i = 0 \/ ~IsPartial(r) THEN Sbox(state[i]) ELSE state[i]]

MdsRowShf(r, v) == SumOf(LAMBDA i : v[(i + r) % SpongeWidth] * MdsMatrixCirc[i + 1], Cells)
                   + v[r] * MdsMatrixDiag[r + 1]
MdsLayer(state) == [r \in Cells |-> MdsRowShf(r, state) % P]

PartialFirstConstantLayer(state) ==
    [i \in Cells |-> (state[i] + FastPartialFirstRoundConstant[i + 1]) % P]
MdsPartialLayerInit(state) ==
    [i \in Cells |-> IF i = 0 THEN state[0]
                     ELSE SumOf(LAMBDA r : state[r] * FastPartialRoundInitialMatrix[r][i],
                                Cells \ {0})]
\* k counts the partial rounds.
MdsPartialLayerFast(state, k) ==
    [i \in Cells |->
        IF i = 0
        THEN (state[0] * (MdsMatrixCirc[1] + MdsMatrixDiag[1])
              + SumOf(LAMBDA j : state[j] * FastPartialRoundWHats[k + 1][j], Cells \ {0})) % P
        ELSE (state[0] * FastPartialRoundVs[k + 1][i] + state[i]) % P]

---------------------------------------------------------------------------
(* Rounds, in the "naive" and the "fast" form *)

BeforeSbox(form, r, state) ==
    CASE form = "naive" \/ ~IsPartial(r) -> ConstantLayer(state, r)
      [] r = HalfNFullRounds /\ form = "fast" ->
             MdsPartialLayerInit(PartialFirstConstantLayer(state))
      [] OTHER -> state

AfterSbox(form, r, state) ==
    IF form = "naive" \/ ~IsPartial(r) THEN MdsLayer(state)
    ELSE LET k == r - HalfNFullRounds
         IN  MdsPartialLayerFast(
                 [state EXCEPT ![0] = (@ + FastPartialRoundConstants[k + 1]) % P], k)

Round(form, r, state) == AfterSbox(form, r, SboxLayer(BeforeSbox(form, r, state), r))
Poseidon(form, input) == FoldLeft(LAMBDA state, r : Round(form, r, state), input, UpTo(NRounds))

---------------------------------------------------------------------------
(* PoseidonGate *)

InputWire(i) == i
OutputWire(i) == SpongeWidth + i
WireSwap == 2*SpongeWidth
DeltaWire(i) == WireSwap + 1 + i
StartFull0 == WireSwap + 1 + SwapWidth
StartPartial == StartFull0 + SpongeWidth*(HalfNFullRounds - 1)
StartFull1 == StartPartial + NPartialRounds
PoseidonWires == StartFull1 + SpongeWidth*HalfNFullRounds

\* Columns that store the inputs of the S-boxes of round r: none in the first round.
SboxWires(r) ==
    CASE r = 0 -> <<>>
      [] r \in 1..(HalfNFullRounds - 1) -> [i \in Cells |-> StartFull0 + SpongeWidth*(r - 1) + i]
      [] IsPartial(r) -> [i \in {0} |-> StartPartial + r - HalfNFullRounds]
      [] OTHER -> [i \in Cells |->
                      StartFull1 + SpongeWidth*(r - HalfNFullRounds - NPartialRounds) + i]

SwapCells == 0..(SwapWidth - 1)
SwappedInput(w) ==
    [i \in Cells |->
        CASE i < SwapWidth   -> (w[InputWire(i)] + w[DeltaWire(i)]) % P
          [] i \in SwapWidth..(2*SwapWidth - 1) ->
                                (w[InputWire(i)] - w[DeltaWire(i - SwapWidth)]) % P
          [] OTHER           -> w[InputWire(i)]]

\* What the columns of S-box inputs and outputs must hold, the permutation going
\* on from the stored inputs wherever the row has them.
PermutationCells(form, input, stored) ==
    LET step(acc, r) ==
            LET before == BeforeSbox(form, r, acc.state)
                wires  == SboxWires(r)
                from   == [i \in Cells |-> IF i \in DOMAIN wires /\ Known(stored, {wires[i]})
                                           THEN stored[wires[i]] ELSE before[i]]
            IN  [state |-> AfterSbox(form, r, SboxLayer(from, r)),
                 cells |-> acc.cells @@ [col \in Range(wires) |->
                                            before[CHOOSE i \in DOMAIN wires : wires[i] = col]]]
        done == FoldLeft(step, [state |-> input, cells |-> <<>>], UpTo(NRounds))
    IN  done.cells @@ [col \in {OutputWire(i) : i \in Cells} |-> done.state[col - OutputWire(0)]]

PoseidonHolds(form, w) ==
    /\ Zero(w, {WireSwap}, w[WireSwap] * (w[WireSwap] - 1))
    /\ \A i \in SwapCells :
         Zero(w, {WireSwap, InputWire(i), InputWire(i + SwapWidth), DeltaWire(i)},
              w[WireSwap] * (w[InputWire(i + SwapWidth)] - w[InputWire(i)]) - w[DeltaWire(i)])
    /\ Known(w, {InputWire(i) : i \in Cells} \cup {DeltaWire(i) : i \in SwapCells}) =>
         LET cells == PermutationCells(form, SwappedInput(w), w)
         IN  \A col \in DOMAIN cells : Zero(w, {col}, w[col] - cells[col])

PoseidonMdsWires == 2*SpongeWidth*D
\* eval_unfiltered_circuit chooses by the routed wires of the verifier's own circuit.
CircuitForm(cf) == IF cf.num_routed_wires >= PoseidonMdsWires THEN "naive" ELSE "fast"

\* The generator exchanges the cells when swap is one.
PoseidonRun(w) ==
    LET swap  == w[WireSwap]
        input == [i \in Cells |-> w[InputWire(
                     IF swap = 1 /\ i < 2*SwapWidth THEN (i + SwapWidth) % (2*SwapWidth) ELSE i)]]
    IN  [col \in {DeltaWire(i) : i \in SwapCells} |->
            LET i == col - DeltaWire(0)
            IN  (swap * (w[InputWire(i + SwapWidth)] - w[InputWire(i)])) % P]
        @@ PermutationCells("fast", input, <<>>)

---------------------------------------------------------------------------
(* PoseidonMdsGate: the matrix on extension elements *)

MdsInput(i) == i*D
MdsOutput(i) == (SpongeWidth + i)*D
MdsRowShfAlgebra(r, w) ==
    FoldLeft(LAMBDA res, i : ExtAdd(res, ScalarMul(ExtAt(w, MdsInput((i + r) % SpongeWidth)),
                                                   MdsMatrixCirc[i + 1])),
             ScalarMul(ExtAt(w, MdsInput(r)), MdsMatrixDiag[r + 1]), UpTo(SpongeWidth))
PoseidonMdsHolds(w) ==
    \A r \in Cells : ExtZero(w, 0..(MdsOutput(0) - 1) \cup ExtCols(MdsOutput(r)),
                             ExtSub(ExtAt(w, MdsOutput(r)), MdsRowShfAlgebra(r, w)))
PoseidonMdsRun(w) ==
    FoldLeft(LAMBDA cells, r : cells @@ ExtCell(MdsOutput(r), MdsRowShfAlgebra(r, w)),
             <<>>, UpTo(SpongeWidth))
=============================================================================
