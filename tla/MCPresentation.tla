--------------------------- MODULE MCPresentation ---------------------------
(***************************************************************************)
(* Delegation and presentation on a small instance: a full and a padded    *)
(* credential type over one tree, in a field of order nine.                *)
(***************************************************************************)
EXTENDS Presentation, DelegationRefinement, TLC

CONSTANTS i1, i2, v1, v2, z, h1, h2, tA, tB, look, j1

MCDigest == v1 :> h1 @@ v2 :> h2

\* j1 is readable as both types; tB's only key occurs twice in it.
MCClaims ==
    [t \in Type |-> [j \in Payload |->
        IF t = tA THEN {<<v1, v2>>} ELSE {<<v1>>, <<v2>>}]]

\* Trees of one leaf: each type reads another claim of j1.
MCOneClaim ==
    [t \in Type |-> [j \in Payload |-> IF t = tA THEN {<<v1>>} ELSE {<<v2>>}]]

MCSignable == [issuer: {i1}, payload: Payload]

MCForge(level, maxLevel, vk) ==
    [ issuer |-> i2, com |-> [i \in Slot |-> h2], level |-> level,
      maxLevel |-> maxLevel, digest |-> tA, vk |-> vk ]

\* Forged claims of a key i2 that signs nothing: the counterfeit of a wrapper
\* proof, of a mid-chain proof under either key, and of a level at the top
\* of the field.
MCForged ==
    { MCForge(0, 3, look), MCForge(1, 2, look), MCForge(1, 2, RDel),
      MCForge(FieldOrder - 2, 3, look) }

\* Every commitment, key and digest a forger could want, with levels and caps
\* in range, at its edge, and at the top of the field.
MCAttempt ==
    [ issuer: Issuer, com: Commitment, level: (0 .. 3) \cup {FieldOrder - 1},
      maxLevel: 0 .. LevelBound, digest: {tA, tB, look}, vk: {RDel, look} ]

MCNoAttempt == {}

MCDummy == MCForge(0, 0, RDel)

MCSymmetry == Permutations(DelId)

\* Every disclosure, issuer, challenge and digest a presenter could want.
MCPresAttempt == PresentationStatement

MCNoPresAttempt == {}

=============================================================================
