------------------------------ MODULE MCCoBuild ------------------------------
(***************************************************************************)
(* The FRI parameters of standard_recursion_zk_config, and gadgets that    *)
(* cost about what leads to circuits of 2^14 to 2^18 rows, on both sides   *)
(* of the row counts where blinding moves a circuit to the next degree.    *)
(***************************************************************************)
EXTENDS CoBuild

MCCredType == {"jwt4", "jwt8"}
MCGateType == {"arithmetic", "poseidon", "exponentiation", "u32"}

\* The most rows a circuit of each degree has room for.
MCRoom == {Size[b] - BlindingRows[b] : b \in 14 .. 17}

\* Verifying a longer proof may take a gate type that a shorter one does not.
MCVerify(rows) == [b \in Bits |->
    [ rows  |-> rows + 10 * b,
      gates |-> {"poseidon"} \cup IF b > 14 THEN {"exponentiation"} ELSE {} ]]

MCEval == {[g \in MCGateType |-> n] : n \in {0, 25}}

MCOwnRows(verifyRows, eval) ==
    {m - verifyRows - 180 - 2 * eval["u32"] : m \in MCRoom}
      \cup {m - verifyRows - 140 : m \in MCRoom} \cup {1200}

MCWrap ==
    { [t \in MCCredType |-> IF t = "jwt4" THEN c ELSE d] :
        c \in { [rows |-> n, gates |-> gs] :
                  n \in {8058, 20000, 50000, 118042, 120227}, gs \in {{}, {"exponentiation"}, {"u32"}} },
        d \in { [rows |-> 8059, gates |-> {"u32"}], [rows |-> 20000, gates |-> {"arithmetic"}] } }

MCFacts ==
    UNION { { f \in { [ own |-> [rows |-> n, gates |-> {"arithmetic"}],
                        verify |-> MCVerify(v), eval |-> e, wrap |-> w,
                        common |-> {"arithmetic", "poseidon"} ] :
                        n \in MCOwnRows(v, e), w \in MCWrap } :
              f.own.rows > 0 } :
            v \in {1500, 4200}, e \in MCEval }

===============================================================================
