----------------------------- MODULE Delegation -----------------------------
(***************************************************************************)
(* The provers of the delegation pipeline.  Issuers sign credentials,      *)
(* owners prove them into R_Base and R_Wrap, and holders extend chains of  *)
(* R_Del proofs, with the library's functions or with any other witness    *)
(* the circuit admits.  A holder hands on a proof and an attribute list.   *)
(***************************************************************************)
EXTENDS Circuits

CONSTANTS
    DelId,            \* identities of R_Del proofs; bounds their number
    NoProof,          \* the identity is not used yet
    NoList,           \* no attribute list was handed on
    Inherit,          \* max_level: None
    BitmapLen,        \* longest bitmap a caller passes (a bound)
    Signable,         \* credentials the issuers may sign
    ForgedStatement,  \* what proofs of look-alike circuits claim
    Attempt,          \* statements a prover tries on the circuit itself
    DummyStatement    \* public inputs of the dummy proof, its key aside

ASSUME DelegationAssumption ==
    /\ NoProof \notin Proof
    /\ NoList \notin Seq(Attribute)
    /\ Inherit \notin Nat
    /\ BitmapLen \in Nat
    /\ Signable \subseteq Credential
    /\ ForgedStatement \subseteq Statement
    /\ Attempt \subseteq Statement
    /\ DummyStatement \in Statement
    /\ DummyStatement.level = 0

VARIABLES
    creds,   \* signed credentials
    bases,   \* R_Base proofs
    wraps,   \* R_Wrap proofs
    proof,   \* R_Del proofs made so far
    held,    \* attribute list handed on with each proof
    anc      \* history: the R_Del proofs each proof was built on

vars == <<creds, bases, wraps, proof, held, anc>>

Made == {id \in DelId : proof[id] # NoProof}

Unused == DelId \ Made

Bitmap == UNION {[1 .. n -> BOOLEAN] : n \in 0 .. BitmapLen}

\* Option<u8>: a byte is as wide as MAX_LEVEL_BITS.
CapRequest == {Inherit} \cup (0 .. LevelBound - 1)

\* Lists a caller may pass: what any holder was given, what any owner has.
KnownLists ==
    {held[id] : id \in {i \in Made : held[i] # NoList}}
      \cup UNION {Readings(t, c) : t \in Type, c \in creds}

\* Anyone can prove anything under the key of a look-alike circuit.
LookalikeProofs == [circuit: Lookalike, pi: ForgedStatement]

\* R_Wrap proofs with any value in the slots the wrapper leaves free.
WrapperProofs ==
    {[circuit |-> b.type, pi |-> WrapperStatement(b, digest, vk)] :
        b \in bases, digest \in Circuit, vk \in Circuit}

DelegationProofs == {proof[id] : id \in Made}

DummyProof(vk) ==
    [circuit |-> DummyCircuit, pi |-> [DummyStatement EXCEPT !.vk = vk]]

-----------------------------------------------------------------------------

Init ==
    /\ creds = {}
    /\ bases = {}
    /\ wraps = {}
    /\ proof = [id \in DelId |-> NoProof]
    /\ held = [id \in DelId |-> NoList]
    /\ anc = [id \in DelId |-> {}]

SignCredential(c) ==
    /\ creds' = creds \cup {c}
    /\ UNCHANGED <<bases, wraps, proof, held, anc>>

\* prove_jwt_base
ProveBase(t, c, claims) ==
    /\ c \in creds
    /\ LET pi == [ issuer |-> c.issuer, com |-> BaseLeaves(claims),
                   level |-> 0, maxLevel |-> LEVEL_UNBOUNDED ]
       IN  /\ BaseConstraints(t, pi, c, claims)
           /\ bases' = bases \cup {[type |-> t, pi |-> pi]}
    /\ UNCHANGED <<creds, wraps, proof, held, anc>>

\* prove_jwt_wrapper: the free slots get the wrapper's own digest and key.
ProveWrapper(b) ==
    /\ b \in bases
    /\ LET pi == WrapperStatement(b, b.type, b.type)
       IN  /\ WrapperConstraints(b.type, pi, b)
           /\ wraps' = wraps \cup {[circuit |-> b.type, pi |-> pi]}
    /\ UNCHANGED <<creds, bases, proof, held, anc>>

-----------------------------------------------------------------------------
(* Delegating with the library.                                            *)

\* resolve_depth_cap: the cap asked for, and whether it is admitted.
RequestedCap(request, prevMaxLevel) ==
    IF request = Inherit THEN prevMaxLevel ELSE request

\* Mutation of CapAdmitted: the level may not reach the cap.
CapExclusive(cap, nextLevel, prevMaxLevel) ==
    /\ cap <= prevMaxLevel
    /\ nextLevel < cap

CapAdmitted(cap, nextLevel, prevMaxLevel) ==
    /\ cap <= prevMaxLevel
    /\ nextLevel <= cap

\* The outer public inputs a prover assembles from its parent's.
NextStatement(prev, cap, com, digest, vk) ==
    [ issuer |-> prev.issuer, com |-> com,
      level |-> FieldAdd(prev.level, 1), maxLevel |-> cap,
      digest |-> digest, vk |-> vk ]

MaskedRoot(list, bitmap) ==
    MerkleRoot(MaskAttributes(PadAttributes(list), ResizeBitmap(bitmap)))

\* The prover has a proof exactly when its witness satisfies R_Del.
Publish(id, pi, inner, wrapper, wrapperVk, leaves, mask) ==
    /\ DelegationConstraints(pi, inner, wrapper, wrapperVk, leaves, mask)
    /\ proof' = [proof EXCEPT ![id] = [circuit |-> RDel, pi |-> pi]]
    /\ UNCHANGED <<creds, bases, wraps>>

\* Mutation of HandOn: the caller passes its list on as it is.
HandOnUnmasked(id, list, bitmap) == held' = [held EXCEPT ![id] = list]

\* The caller masks its list for the next holder.
HandOn(id, list, bitmap) ==
    held' = [held EXCEPT ![id] =
               IF Maskable(list, bitmap) THEN MaskAttributes(list, bitmap)
               ELSE NoList]

\* prove_delegation_base
ProveDelegationBase(id, w, wrapperVk, list, bitmap, request) ==
    LET cap == RequestedCap(request, w.pi.maxLevel)
        pi == NextStatement(w.pi, cap, MaskedRoot(list, bitmap),
                            wrapperVk, RDel)
    IN  /\ w \in wraps
        /\ CapAdmitted(cap, w.pi.level + 1, w.pi.maxLevel)
        /\ Paddable(list)
        /\ Publish(id, pi, DummyProof(RDel), w, wrapperVk,
                   MerkleRoot(PadAttributes(list)), ResizeBitmap(bitmap))
        /\ HandOn(id, list, bitmap)
        /\ anc' = [anc EXCEPT ![id] = {}]

\* prove_delegation_step; the wrapper key it fills in is not constrained.
ProveDelegationStep(id, parent, list, bitmap, request) ==
    LET prev == proof[parent]
        cap == RequestedCap(request, prev.pi.maxLevel)
        pi == NextStatement(prev.pi, cap, MaskedRoot(list, bitmap),
                            prev.pi.digest, RDel)
    IN  /\ parent \in Made
        /\ CapAdmitted(cap, prev.pi.level + 1, prev.pi.maxLevel)
        /\ Paddable(list)
        /\ Publish(id, pi, prev, DummyProof(RDel), prev.pi.digest,
                   MerkleRoot(PadAttributes(list)), ResizeBitmap(bitmap))
        /\ HandOn(id, list, bitmap)
        /\ anc' = [anc EXCEPT ![id] = anc[parent] \cup {parent}]

-----------------------------------------------------------------------------
(* Delegating with any statement and witness, past every check outside    *)
(* the circuit; nothing is handed on.                                      *)

\* A first step over any proof in the wrapper's place, under any key.
CraftBase(id, pi, w, mask) ==
    /\ IsBase(pi.level)
    /\ Publish(id, pi, DummyProof(pi.vk), w, w.circuit, w.pi.com, mask)
    /\ held' = [held EXCEPT ![id] = NoList]
    /\ anc' = [anc EXCEPT ![id] = {}]

\* A later step over a proof whose R_Del ancestors are in past.
CraftStep(id, pi, inner, past, mask) ==
    /\ ~IsBase(pi.level)
    /\ Publish(id, pi, inner, DummyProof(pi.vk), pi.digest, inner.pi.com, mask)
    /\ held' = [held EXCEPT ![id] = NoList]
    /\ anc' = [anc EXCEPT ![id] = past]

-----------------------------------------------------------------------------

Issue == \E c \in Signable : SignCredential(c)

Prepare ==
    \/ \E t \in Type, c \in creds :
          \E claims \in Readings(t, c) : ProveBase(t, c, claims)
    \/ \E b \in bases : ProveWrapper(b)

Delegate ==
    \E id \in Unused, list \in KnownLists, bitmap \in Bitmap,
       request \in CapRequest :
        \/ \E w \in wraps, t \in Type :
              ProveDelegationBase(id, w, t, list, bitmap, request)
        \/ \E parent \in Made :
              ProveDelegationStep(id, parent, list, bitmap, request)

\* An R_Wrap proof in the inner slot has level 0 and so takes the first branch.
Craft ==
    \E id \in Unused, pi \in Attempt, mask \in Mask :
        \/ \E w \in WrapperProofs \cup LookalikeProofs \cup DelegationProofs :
              CraftBase(id, pi, w, mask)
        \/ \E parent \in Made :
              CraftStep(id, pi, proof[parent], anc[parent] \cup {parent}, mask)
        \/ \E inner \in LookalikeProofs : CraftStep(id, pi, inner, {}, mask)

Next == Issue \/ Prepare \/ Delegate \/ Craft

Spec == Init /\ [][Next]_vars

\* Every prover calls the library.
LibraryNext == Issue \/ Prepare \/ Delegate

-----------------------------------------------------------------------------
(* Properties.                                                             *)

\* What a party that knows R_Del and the credential type's digest relies on:
\* the proof is R_Del's, anchored on R_Del's own key, under a known wrapper.
Genuine(p) ==
    /\ p.circuit = RDel
    /\ p.pi.vk = RDel
    /\ p.pi.digest \in Type

GenuineIds == {id \in Made : Genuine(proof[id])}

\* Every field holds what the code keeps there.
TypeOK ==
    /\ creds \subseteq Credential
    /\ bases \subseteq BaseProof
    /\ wraps \subseteq Proof
    /\ proof \in [DelId -> Proof \cup {NoProof}]
    /\ held \in [DelId -> Seq(Attribute) \cup {NoList}]
    /\ anc \in [DelId -> SUBSET DelId]

\* com is leaves with some slots redacted.
RedactionOf(com, leaves) ==
    \A i \in Slot : com[i] \in {leaves[i], ZeroLeaf}

\* p shows, under its type, part of one reading of a credential its issuer
\* signed: slots never mix two readings.
AnchoredIn(p, c) ==
    /\ p.pi.issuer = c.issuer
    /\ \E claims \in Readings(p.pi.digest, c) :
          RedactionOf(p.pi.com, BaseLeaves(claims))

\* Provenance.  However its witness was found, a genuine proof shows only
\* claims that its issuer signed, read as its wrapper digest says; no dummy,
\* look-alike key or mismatched wrapper ever anchors one.
ClaimsAreSigned ==
    \A id \in GenuineIds : \E c \in creds : AnchoredIn(proof[id], c)

\* Depth cap, one proof.  The range checks compare levels modulo the field;
\* on genuine proofs they amount to 1 <= L <= maxLevel <= unbounded.
LevelWithinCap ==
    \A id \in GenuineIds :
        /\ proof[id].pi.level \in 1 .. proof[id].pi.maxLevel
        /\ proof[id].pi.maxLevel <= LEVEL_UNBOUNDED

\* A later proof says no more than one it was built on.
Descends(p, a) ==
    /\ p.pi.issuer = a.pi.issuer
    /\ p.pi.digest = a.pi.digest
    /\ a.pi.level < p.pi.level
    /\ p.pi.level <= a.pi.maxLevel
    /\ p.pi.maxLevel <= a.pi.maxLevel
    /\ RedactionOf(p.pi.com, a.pi.com)

\* The cap a delegator set and the slots it redacted bind every proof built
\* on its own, any number of steps later, and the issuer key and type never
\* change along the chain.
AncestorsBind ==
    \A id \in GenuineIds : \A a \in anc[id] :
        /\ a \in GenuineIds
        /\ Descends(proof[id], proof[a])

\* resolve_depth_cap agrees with the circuit: on a genuine parent it admits
\* a cap exactly when the range checks do, so it neither lets a request
\* reach the prover in vain nor refuses one the prover could serve.
GuardIsExact ==
    \A id \in GenuineIds, cap \in 0 .. LevelBound - 1 :
        LET p == proof[id].pi
        IN  CapAdmitted(cap, p.level + 1, p.maxLevel)
              <=> DepthCapConstraints(FieldAdd(p.level, 1), cap, p.maxLevel)

\* The list handed on opens the proof's commitment, however the bitmap was
\* padded, so its receiver can delegate and present.
HandoverOpens ==
    \A id \in Made : held[id] # NoList =>
        /\ Paddable(held[id])
        /\ MerkleRoot(PadAttributes(held[id])) = proof[id].pi.com

=============================================================================
