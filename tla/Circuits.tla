------------------------------ MODULE Circuits ------------------------------
(***************************************************************************)
(* The four circuits as relations between public inputs and witness: what  *)
(* the constraints of each circuit admit, whoever the prover is.  A prover *)
(* that holds a witness makes a proof; nobody makes one without.           *)
(***************************************************************************)
EXTENDS PublicInputs

CONSTANTS
    Payload,   \* decoded JWT payloads an issuer may sign
    Claims,    \* Claims[t][j]: the lists the extractors of type t admit in j
    Nonce      \* challenges a verifier may choose (u32)

\* Each type reads at least one and at most NumMax claims
\* (ensure_valid_attribute_counts).  The place of a claim in the payload is a
\* witness: a payload that lacks a key of the type has no reading, one in which
\* a key occurs twice has several.
ASSUME ClaimsAssumption ==
    /\ Claims \in [Type -> [Payload -> SUBSET Seq(Value)]]
    /\ \A t \in Type, j \in Payload :
          \A claims \in Claims[t][j] : Len(claims) \in Slot

\* A JWT signed by issuer over payload.
Credential == [issuer: Issuer, payload: Payload]

Readings(t, c) == Claims[t][c.payload]

-----------------------------------------------------------------------------
(* R_Base of type t.  Each claim is hashed, and the commitment padded with *)
(* zero leaves.                                                            *)

BaseLeaves(claims) == MerkleRoot(PadAttributes(claims))

BaseConstraints(t, pi, c, claims) ==
    /\ claims \in Readings(t, c)
    /\ pi.issuer = c.issuer
    /\ pi.com = BaseLeaves(claims)
    /\ pi.level = 0
    /\ pi.maxLevel = LEVEL_UNBOUNDED

BaseProof == [type: Type, pi: BaseStatement]

-----------------------------------------------------------------------------
(* R_Wrap of type t.  It verifies under a hardcoded base key and forwards  *)
(* the base public inputs; the digest and key slots it only carries to     *)
(* have R_Del's shape are not constrained.                                 *)

WrapperStatement(base, digest, vk) ==
    [ issuer |-> base.pi.issuer, com |-> base.pi.com,
      level |-> base.pi.level, maxLevel |-> base.pi.maxLevel,
      digest |-> digest, vk |-> vk ]

WrapperConstraints(t, pi, base) ==
    /\ base.type = t
    /\ pi = WrapperStatement(base, pi.digest, pi.vk)

-----------------------------------------------------------------------------
(* R_Del.  One verifier serves two branches, chosen by the level.          *)

IsBase(level) == level = 1

\* Level rule: the level of a step is one more than its parent's.
LevelConstraint(level, prevLevel) == level = FieldAdd(prevLevel, 1)

\* Mutation of DepthCapConstraints: the level is not compared with the cap.
CapWithoutHeadroom(level, maxLevel, prevMaxLevel) ==
    /\ InLevelRange(maxLevel)
    /\ InLevelRange(FieldSub(prevMaxLevel, maxLevel))

\* Mutation of DepthCapConstraints: the cap may loosen.
CapWithoutTightening(level, maxLevel, prevMaxLevel) ==
    /\ InLevelRange(maxLevel)
    /\ InLevelRange(FieldSub(maxLevel, level))

\* Depth-cap rule: three range checks on byte-wide differences.
DepthCapConstraints(level, maxLevel, prevMaxLevel) ==
    /\ InLevelRange(maxLevel)
    /\ InLevelRange(FieldSub(maxLevel, level))
    /\ InLevelRange(FieldSub(prevMaxLevel, maxLevel))

\* Mutation of CyclicVerifier: the inner proof's own key is not tied to vk.
VerifierWithFreeKey(base, vk, inner, wrapper, wrapperVk) ==
    IF base THEN Verify(wrapper, wrapperVk) ELSE Verify(inner, vk)

\* The inner proof's key is always tied to this proof's own; only the
\* branch the level selects is verified.
CyclicVerifier(base, vk, inner, wrapper, wrapperVk) ==
    /\ inner.pi.vk = vk
    /\ IF base THEN Verify(wrapper, wrapperVk) ELSE Verify(inner, vk)

\* Mutation of DelegationConstraints: the digest comes from the wrapper key in
\* both branches, and is not forwarded.
DigestNotForwarded(pi, inner, wrapper, wrapperVk, leaves, mask) ==
    LET base == IsBase(pi.level)
        prev == IF base THEN wrapper.pi ELSE inner.pi
    IN  /\ pi.issuer = prev.issuer
        /\ LevelConstraint(pi.level, prev.level)
        /\ DepthCapConstraints(pi.level, pi.maxLevel, prev.maxLevel)
        /\ CyclicVerifier(base, pi.vk, inner, wrapper, wrapperVk)
        /\ pi.digest = wrapperVk
        /\ leaves = prev.com
        /\ pi.com = MaskLeaves(leaves, mask)

DelegationConstraints(pi, inner, wrapper, wrapperVk, leaves, mask) ==
    LET base == IsBase(pi.level)
        prev == IF base THEN wrapper.pi ELSE inner.pi
    IN  /\ pi.issuer = prev.issuer
        /\ LevelConstraint(pi.level, prev.level)
        /\ DepthCapConstraints(pi.level, pi.maxLevel, prev.maxLevel)
        /\ CyclicVerifier(base, pi.vk, inner, wrapper, wrapperVk)
        /\ pi.digest = (IF base THEN wrapperVk ELSE inner.pi.digest)
        /\ leaves = prev.com
        /\ pi.com = MaskLeaves(leaves, mask)

-----------------------------------------------------------------------------
(* R_Pres.  The delegation key is a constant of the circuit; the level,    *)
(* the cap and the commitment stay private.                                *)

PresentationStatement ==
    [ issuer:    Issuer,
      disclosed: Commitment,   \* per slot, the leaf or the zero leaf
      nonce:     Nonce,
      digest:    Circuit ]

\* Mutation of PresentationConstraints: the key the proof carries is not
\* pinned, as if check_cyclic_proof_verifier_data were forgotten.
PresentationUnpinned(pi, del, leaves, reveal) ==
    /\ Verify(del, RDel)
    /\ pi.issuer = del.pi.issuer
    /\ pi.digest = del.pi.digest
    /\ leaves = del.pi.com
    /\ pi.disclosed = MaskLeaves(leaves, reveal)

\* Mutation of PresentationConstraints: the leaves are not those committed to.
PresentationUncommitted(pi, del, leaves, reveal) ==
    /\ Verify(del, RDel)
    /\ del.pi.vk = RDel
    /\ pi.issuer = del.pi.issuer
    /\ pi.digest = del.pi.digest
    /\ pi.disclosed = MaskLeaves(leaves, reveal)

\* Mutation of PresentationConstraints: an empty slot cannot be selected.
PresentationNonEmpty(pi, del, leaves, reveal) ==
    /\ Verify(del, RDel)
    /\ del.pi.vk = RDel
    /\ pi.issuer = del.pi.issuer
    /\ pi.digest = del.pi.digest
    /\ leaves = del.pi.com
    /\ \A i \in Slot : reveal[i] => leaves[i] # ZeroLeaf
    /\ pi.disclosed = MaskLeaves(leaves, reveal)

PresentationConstraints(pi, del, leaves, reveal) ==
    /\ Verify(del, RDel)
    /\ del.pi.vk = RDel
    /\ pi.issuer = del.pi.issuer
    /\ pi.digest = del.pi.digest
    /\ leaves = del.pi.com
    /\ pi.disclosed = MaskLeaves(leaves, reveal)

=============================================================================
