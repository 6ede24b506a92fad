------------------------- MODULE MCWitnessGeneration -------------------------
(***************************************************************************)
(* Circuits of five targets: three copy constraints between them in every  *)
(* order, under lists of generators that read each other, fail, contradict *)
(* or draw random values, with inputs that may be too few or disagree.     *)
(***************************************************************************)
EXTENDS WitnessGeneration, TLC

MCTarget == 1 .. 5
MCP == 3

MCPairs == {<<1, 2>>, <<2, 1>>, <<4, 2>>, <<3, 4>>, <<5, 3>>}

MCGens == {
    \* a chain against the order of the list
    << Copy(4, 5), NonzeroTest(3, 4), Copy(2, 3) >>,
    \* two outputs, and a constant that may be connected to one of them
    << Equality(1, 2, 4, 5), Constant(3, 1) >>,
    \* each waits for the other unless an input or a constraint helps
    << Copy(3, 5), Copy(5, 3), NonzeroTest(2, 4) >>,
    \* an error for an input that is not in the table
    << Lookup(1, 3, 0 :> 1 @@ 2 :> 0), Equality(3, 4, 5, 2), Copy(1, 4) >>,
    \* a row of blinding: a random value, and its copy
    << RandomValue(4), Copy(4, 5), Copy(1, 3) >> }

MCInputs == {1 :> 0, 1 :> 2, (1 :> 2 @@ 2 :> 1), (1 :> 1 @@ 3 :> 0)}

MCCopies == UNION {[1 .. n -> MCPairs] : n \in {0, 1, 3}}

MCCircuit == [copies : MCCopies, gens : MCGens, inputs : MCInputs]

\* The circuit of one presentation, with one row of blinding.
MCBlinded == [copies : {<<>>}, gens : {<< RandomValue(4), Copy(1, 3) >>}, inputs : {1 :> 0}]

===============================================================================
