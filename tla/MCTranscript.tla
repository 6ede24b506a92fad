---------------------------- MODULE MCTranscript ----------------------------
(***************************************************************************)
(* Proofs with and without lookups and with up to two reductions, in which *)
(* caps and the final polynomial have lengths that put every draw at every *)
(* place of a block.  On the way a proof may come to have three caps.      *)
(***************************************************************************)
EXTENDS Transcript

MCCommitCap == <<"commit_cap_1", "commit_cap_2", "commit_cap_3">>
MCFriBeta   == <<"fri_beta_1", "fri_beta_2", "fri_beta_3">>

MCLen(lookup, steps, cap, final) ==
    [m \in Message |->
        CASE m \in ToSet(MCCommitCap) ->
               IF \E k \in 1 .. steps : MCCommitCap[k] = m THEN cap ELSE 0
          [] m \in Caps -> cap
          [] m \in {"lookup_zs", "lookup_zs_next"} -> IF lookup THEN D ELSE 0
          [] m \in Openings -> D
          [] m = "final_poly" -> final
          [] m = "pow_witness" -> 1
          [] m = "fri_params" -> 1
          [] m \in {"circuit_digest", "public_inputs"} -> HashLen]

MCParams ==
    { [lookup |-> l, steps |-> s, len |-> MCLen(l, s, c, f)] :
        l \in BOOLEAN, s \in 0 .. 2, c \in {1, 2, 3}, f \in {2, 4} }

=============================================================================
