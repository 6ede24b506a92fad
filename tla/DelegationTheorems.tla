------------------------- MODULE DelegationTheorems -------------------------
(***************************************************************************)
(* What holds of every chain of R_Del proofs, for every value of the       *)
(* constants and whatever witnesses the provers find: type correctness,    *)
(* provenance, the depth cap and monotonicity along the chain, and that    *)
(* the pipeline implements Grants.  Then what a verifier may conclude from *)
(* a presentation, for every number of proofs, holders and challenges and  *)
(* whatever witnesses the presenters chose: presenting changes nothing of  *)
(* the delegation state, so all that is proved of Spec is carried over;    *)
(* what is new is that a presentation stays tied to its R_Del proof.       *)
(***************************************************************************)
EXTENDS DelegationRefinement, Presentation, TLAPS

-----------------------------------------------------------------------------
(* Leaves and commitments.                                                 *)

\* attribute_to_hashed_leaf returns a leaf.
LEMMA HashedLeafType ==
    ASSUME NEW a \in Attribute
    PROVE  HashedLeaf(a) \in Leaf
BY AttributeAssumption DEF Attribute, HashedLeaf

\* compute_merkle_root commits to one leaf per slot.
LEMMA MerkleRootType ==
    ASSUME NEW attrs, \A i \in Slot : attrs[i] \in Attribute
    PROVE  MerkleRoot(attrs) \in Commitment
BY HashedLeafType DEF MerkleRoot, Commitment

\* pad_attributes fills every slot.
LEMMA PadAttributesType ==
    ASSUME NEW list \in Seq(Attribute)
    PROVE  \A i \in Slot : PadAttributes(list)[i] \in Attribute
<1>1. EmptyMarker \in Attribute
  BY DEF Attribute
<1>2. SUFFICES ASSUME NEW i \in Slot
               PROVE  PadAttributes(list)[i] \in Attribute
  OBVIOUS
<1>3. PadAttributes(list)[i] = IF i <= Len(list) THEN list[i] ELSE EmptyMarker
  BY DEF PadAttributes
<1>4. i \in Nat /\ i >= 1
  BY AttributeAssumption DEF Slot
<1> QED
  BY <1>1, <1>3, <1>4

\* Every caller's bitmap becomes a mask over the whole tree.
LEMMA ResizeBitmapType ==
    ASSUME NEW bitmap \in Bitmap
    PROVE  ResizeBitmap(bitmap) \in Mask
<1>1. PICK n \in 0 .. BitmapLen : bitmap \in [1 .. n -> BOOLEAN]
  BY DEF Bitmap
<1>2. n \in Nat /\ Len(bitmap) = n
  BY <1>1, DelegationAssumption
<1>3. ASSUME NEW i \in Slot, i <= Len(bitmap)
      PROVE  bitmap[i] \in BOOLEAN
  <2>1. i \in 1 .. n
    BY <1>2, <1>3, AttributeAssumption DEF Slot
  <2> QED
    BY <1>1, <2>1, Zenon
<1>4. \A i \in Slot :
        (IF i <= Len(bitmap) THEN bitmap[i] ELSE FALSE) \in BOOLEAN
  BY <1>3, Zenon
<1> QED
  BY <1>4, Zenon DEF ResizeBitmap, Mask

\* What a holder's list, masked, commits to.
LEMMA MaskedRootType ==
    ASSUME NEW list \in Seq(Attribute), NEW bitmap \in Bitmap
    PROVE  MaskedRoot(list, bitmap) \in Commitment
<1> DEFINE padded == PadAttributes(list)
           mask == ResizeBitmap(bitmap)
<1>1. EmptyMarker \in Attribute
  BY DEF Attribute
<1>2. \A i \in Slot : padded[i] \in Attribute
  BY PadAttributesType
<1>3. DOMAIN padded = Slot
  BY DEF PadAttributes
<1>4. \A i \in Slot : MaskAttributes(padded, mask)[i] \in Attribute
  <2> HIDE DEF padded, mask
  <2> QED BY <1>1, <1>2, <1>3 DEF MaskAttributes
<1> QED
  BY <1>4, MerkleRootType DEF MaskedRoot

\* A reading of a credential has one leaf per slot.
LEMMA BaseLeavesType ==
    ASSUME NEW t \in Type, NEW c \in Credential, NEW claims \in Readings(t, c)
    PROVE  BaseLeaves(claims) \in Commitment
<1>1. claims \in Seq(Value)
  BY ClaimsAssumption DEF Credential, Readings
<1>2. claims \in Seq(Attribute)
  BY <1>1 DEF Attribute
<1> QED
  BY <1>2, PadAttributesType, MerkleRootType DEF BaseLeaves

\* Selecting between a leaf and the zero leaf redacts and does no more.
LEMMA MaskLeavesRedact ==
    ASSUME NEW leaves \in Commitment, NEW mask
    PROVE  /\ MaskLeaves(leaves, mask) \in Commitment
           /\ RedactionOf(MaskLeaves(leaves, mask), leaves)
BY AttributeAssumption DEF MaskLeaves, Commitment, RedactionOf

\* Redactions compose: what one holder hides, the next cannot bring back.
LEMMA RedactionTransitive ==
    ASSUME NEW x, NEW y, NEW w, RedactionOf(x, y), RedactionOf(y, w)
    PROVE  RedactionOf(x, w)
BY DEF RedactionOf

-----------------------------------------------------------------------------
(* Levels and caps.                                                        *)

\* The next level is a field element.
LEMMA FieldAddType ==
    ASSUME NEW a \in Field
    PROVE  FieldAdd(a, 1) \in Field
BY FieldAssumption DEF Field, FieldAdd

\* Below a cap there is no wraparound: on a level-sized parent the range
\* checks say exactly L' <= maxLevel' <= maxLevel.
LEMMA RangeChecksCompare ==
    ASSUME NEW level \in Nat, NEW prevMaxLevel \in Nat, NEW cap \in Field,
           level <= prevMaxLevel, prevMaxLevel < LevelBound
    PROVE  DepthCapConstraints(FieldAdd(level, 1), cap, prevMaxLevel)
             <=> /\ level + 1 <= cap
                 /\ cap <= prevMaxLevel
<1>1. FieldAdd(level, 1) = level + 1
  BY FieldAssumption DEF FieldAdd
<1>2. /\ InLevelRange(FieldSub(cap, level + 1)) <=>
           IF level + 1 <= cap THEN cap - (level + 1) < LevelBound
           ELSE cap - (level + 1) + FieldOrder < LevelBound
      /\ InLevelRange(FieldSub(prevMaxLevel, cap)) <=>
           IF cap <= prevMaxLevel THEN prevMaxLevel - cap < LevelBound
           ELSE prevMaxLevel - cap + FieldOrder < LevelBound
  BY DEF InLevelRange, FieldSub
<1>3. cap < LevelBound => cap - (level + 1) + FieldOrder >= LevelBound
  BY FieldAssumption DEF Field
<1>4. cap < LevelBound => prevMaxLevel - cap + FieldOrder >= LevelBound
  BY FieldAssumption DEF Field
<1> QED
  BY <1>1, <1>2, <1>3, <1>4, FieldAssumption
     DEF DepthCapConstraints, InLevelRange, Field

-----------------------------------------------------------------------------
(* Type correctness.                                                       *)

\* Every list a caller can pass is a list of attributes.
LEMMA KnownListsType ==
    ASSUME TypeOK
    PROVE  KnownLists \subseteq Seq(Attribute)
<1>1. ASSUME NEW id \in Made, held[id] # NoList
      PROVE  held[id] \in Seq(Attribute)
  BY <1>1 DEF TypeOK, Made
<1>2. ASSUME NEW t \in Type, NEW c \in creds, NEW claims \in Readings(t, c)
      PROVE  claims \in Seq(Attribute)
  <2>1. c \in Credential
    BY DEF TypeOK
  <2>2. claims \in Seq(Value)
    BY <2>1, ClaimsAssumption DEF Credential, Readings
  <2> QED
    BY <2>2 DEF Attribute
<1> QED
  BY <1>1, <1>2 DEF KnownLists

\* mask_attributes keeps the list a list of attributes.
LEMMA MaskAttributesType ==
    ASSUME NEW list \in Seq(Attribute), NEW bitmap
    PROVE  MaskAttributes(list, bitmap) \in Seq(Attribute)
<1>1. DOMAIN list = 1 .. Len(list) /\ Len(list) \in Nat
  OBVIOUS
<1>2. \A i \in 1 .. Len(list) :
        (IF bitmap[i] THEN list[i] ELSE EmptyMarker) \in Attribute
  BY DEF Attribute
<1>3. MaskAttributes(list, bitmap) \in [1 .. Len(list) -> Attribute]
  BY <1>1, <1>2 DEF MaskAttributes
<1> QED
  BY <1>1, <1>3

\* A cap the prover-side guard admits is a field element.
LEMMA RequestedCapType ==
    ASSUME NEW request \in CapRequest, NEW prevMaxLevel \in Field,
           NEW nextLevel,
           CapAdmitted(RequestedCap(request, prevMaxLevel), nextLevel,
                       prevMaxLevel)
    PROVE  RequestedCap(request, prevMaxLevel) \in Field
<1>1. CASE request = Inherit
  BY <1>1 DEF RequestedCap
<1>2. CASE request # Inherit
  <2>1. RequestedCap(request, prevMaxLevel) = request
    BY <1>2 DEF RequestedCap
  <2>2. request \in Nat /\ request <= prevMaxLevel
    BY <1>2, <2>1, FieldAssumption DEF CapRequest, CapAdmitted
  <2> QED
    BY <2>1, <2>2, FieldAssumption DEF Field
<1> QED
  BY <1>1, <1>2

\* The statement assembled from a parent's is well formed.
LEMMA NextStatementType ==
    ASSUME NEW prev \in Statement, NEW cap \in Field, NEW com \in Commitment,
           NEW digest \in Circuit, NEW vk \in Circuit
    PROVE  NextStatement(prev, cap, com, digest, vk) \in Statement
<1>1. FieldAdd(prev.level, 1) \in Field
  BY FieldAddType DEF Statement
<1> QED
  BY <1>1 DEF NextStatement, Statement

\* The dummy proof is a proof, but of the dummy circuit.
LEMMA DummyProofType ==
    ASSUME NEW vk \in Circuit
    PROVE  /\ DummyProof(vk) \in Proof
           /\ DummyProof(vk).circuit \notin Type \cup {RDel}
<1>1. [DummyStatement EXCEPT !.vk = vk] \in Statement
  BY DelegationAssumption DEF Statement
<1> QED
  BY <1>1, CircuitAssumption DEF DummyProof, Proof, Circuit

\* Every wrapper proof is a proof of the wrapper of its base proof's type.
LEMMA WrapperProofsType ==
    ASSUME TypeOK
    PROVE  WrapperProofs \subseteq [circuit: Type, pi: Statement]
BY DEF TypeOK, WrapperProofs, WrapperStatement, BaseProof, BaseStatement,
       Statement

-----------------------------------------------------------------------------
(* What every step does to the proofs, seen from the circuit alone.        *)

\* Base proofs are of signed credentials.
BasesSigned ==
    \A b \in bases : \E c \in creds : \E claims \in Readings(b.type, c) :
        BaseConstraints(b.type, b.pi, c, claims)

\* The library's wrapper proofs are wrapper proofs.
WrapsForward == wraps \subseteq WrapperProofs

\* Whoever made it, a proof in the chain is R_Del's.
MadeByRDel == \A id \in Made : proof[id].circuit = RDel

Sources == BasesSigned /\ WrapsForward /\ MadeByRDel

\* What any witness of R_Del consists of: a proof in each slot, of which only
\* the one its branch verifies can be a wrapper's or R_Del's own.
Built(pi, past) ==
    \E inner \in Proof, wrapper \in Proof, wrapperVk \in Circuit,
       leaves \in Commitment, mask \in Mask :
        /\ DelegationConstraints(pi, inner, wrapper, wrapperVk, leaves, mask)
        /\ inner.circuit = RDel =>
              \E parent \in Made : /\ inner = proof[parent]
                                   /\ past = anc[parent] \cup {parent}
        /\ wrapper.circuit \in Type => wrapper \in WrapperProofs /\ past = {}

Makes(id, pi, past) ==
    /\ id \in Unused
    /\ pi \in Statement
    /\ past \in SUBSET DelId
    /\ Built(pi, past)
    /\ proof' = [proof EXCEPT ![id] = [circuit |-> RDel, pi |-> pi]]
    /\ anc' = [anc EXCEPT ![id] = past]
    /\ UNCHANGED <<creds, bases, wraps>>

\* An issuer signs, or an owner makes a base or a wrapper proof.
Prepares ==
    /\ creds \subseteq creds'
    /\ UNCHANGED <<proof, held, anc>>

\* prove_delegation_base makes a proof over a wrapper proof.
LEMMA BaseMakes ==
    ASSUME TypeOK, Sources,
           NEW id \in Unused, NEW w, NEW t \in Type, NEW list \in KnownLists,
           NEW bitmap \in Bitmap, NEW request \in CapRequest,
           ProveDelegationBase(id, w, t, list, bitmap, request)
    PROVE  \E pi, past : Makes(id, pi, past)
<1> DEFINE cap == RequestedCap(request, w.pi.maxLevel)
           pi == NextStatement(w.pi, cap, MaskedRoot(list, bitmap), t, RDel)
           leaves == MerkleRoot(PadAttributes(list))
<1>1. /\ w \in wraps
      /\ CapAdmitted(cap, w.pi.level + 1, w.pi.maxLevel)
      /\ Publish(id, pi, DummyProof(RDel), w, t, leaves, ResizeBitmap(bitmap))
      /\ anc' = [anc EXCEPT ![id] = {}]
  BY DEF ProveDelegationBase
<1>2. w \in Proof /\ w \in WrapperProofs
  BY <1>1 DEF TypeOK, Sources, WrapsForward
<1>3. w.pi \in Statement /\ w.pi.maxLevel \in Field
  BY <1>2 DEF Proof, Statement
<1>4. list \in Seq(Attribute)
  BY KnownListsType
<1>5. t \in Circuit /\ RDel \in Circuit
  BY DEF Circuit
<1>6. pi \in Statement
  BY <1>1, <1>3, <1>4, <1>5, RequestedCapType, MaskedRootType,
     NextStatementType
<1>7. leaves \in Commitment /\ ResizeBitmap(bitmap) \in Mask
  BY <1>4, PadAttributesType, MerkleRootType, ResizeBitmapType
<1>8. DummyProof(RDel) \in Proof /\ DummyProof(RDel).circuit # RDel
  BY <1>5, DummyProofType
<1> HIDE DEF pi, leaves, cap
<1>9. Built(pi, {})
  BY <1>1, <1>2, <1>5, <1>7, <1>8 DEF Built, Publish
<1> QED
  BY <1>1, <1>6, <1>9 DEF Makes, Publish

\* prove_delegation_step makes a proof over an R_Del proof.
LEMMA StepMakes ==
    ASSUME TypeOK, Sources,
           NEW id \in Unused, NEW parent \in Made, NEW list \in KnownLists,
           NEW bitmap \in Bitmap, NEW request \in CapRequest,
           ProveDelegationStep(id, parent, list, bitmap, request)
    PROVE  \E pi, past : Makes(id, pi, past)
<1> DEFINE prev == proof[parent]
           cap == RequestedCap(request, prev.pi.maxLevel)
           pi == NextStatement(prev.pi, cap, MaskedRoot(list, bitmap),
                               prev.pi.digest, RDel)
           leaves == MerkleRoot(PadAttributes(list))
           past == anc[parent] \cup {parent}
<1>1. /\ CapAdmitted(cap, prev.pi.level + 1, prev.pi.maxLevel)
      /\ Publish(id, pi, prev, DummyProof(RDel), prev.pi.digest, leaves,
                 ResizeBitmap(bitmap))
      /\ anc' = [anc EXCEPT ![id] = past]
  BY DEF ProveDelegationStep
<1>2. prev \in Proof
  BY DEF TypeOK, Made
<1>3. /\ prev.pi \in Statement
      /\ prev.pi.maxLevel \in Field
      /\ prev.pi.digest \in Circuit
  BY <1>2 DEF Proof, Statement
<1>4. list \in Seq(Attribute)
  BY KnownListsType
<1>5. RDel \in Circuit
  BY DEF Circuit
<1>6. pi \in Statement
  BY <1>1, <1>3, <1>4, <1>5, RequestedCapType, MaskedRootType,
     NextStatementType
<1>7. leaves \in Commitment /\ ResizeBitmap(bitmap) \in Mask
  BY <1>4, PadAttributesType, MerkleRootType, ResizeBitmapType
<1>8. DummyProof(RDel) \in Proof /\ DummyProof(RDel).circuit \notin Type
  BY <1>5, DummyProofType
<1>9. past \in SUBSET DelId
  BY DEF TypeOK, Made
<1> HIDE DEF pi, leaves, cap, past
<1>10. prev = proof[parent] /\ past = anc[parent] \cup {parent}
  BY DEF past
<1> HIDE DEF prev
<1>11. Built(pi, past)
  BY <1>1, <1>2, <1>3, <1>7, <1>8, <1>10 DEF Built, Publish
<1> QED
  BY <1>1, <1>6, <1>9, <1>11 DEF Makes, Publish

\* A first step over any proof: only a wrapper's is of a type's circuit.
LEMMA CraftBaseMakes ==
    ASSUME TypeOK, Sources,
           NEW id \in Unused, NEW pi \in Attempt, NEW mask \in Mask,
           NEW w \in WrapperProofs \cup LookalikeProofs \cup DelegationProofs,
           CraftBase(id, pi, w, mask)
    PROVE  Makes(id, pi, {})
<1>1. /\ pi \in Statement
      /\ pi.vk \in Circuit
  BY DelegationAssumption DEF Statement
<1>2. w \in WrapperProofs => w \in Proof
  BY WrapperProofsType DEF Proof, Circuit
<1>3. w \in LookalikeProofs => w \in Proof /\ w.circuit \notin Type
  BY DelegationAssumption, CircuitAssumption
     DEF LookalikeProofs, Proof, Circuit
<1>4. w \in DelegationProofs => w \in Proof /\ w.circuit \notin Type
  BY CircuitAssumption
     DEF DelegationProofs, TypeOK, Made, Sources, MadeByRDel
<1>5. /\ w \in Proof
      /\ w.circuit \in Type => w \in WrapperProofs
  BY <1>2, <1>3, <1>4
<1>6. w.circuit \in Circuit /\ w.pi.com \in Commitment
  BY <1>5 DEF Proof, Statement
<1>7. DummyProof(pi.vk) \in Proof /\ DummyProof(pi.vk).circuit # RDel
  BY <1>1, DummyProofType
<1>8. Built(pi, {})
  BY <1>5, <1>6, <1>7 DEF CraftBase, Publish, Built
<1> QED
  BY <1>1, <1>8 DEF Makes, CraftBase, Publish

\* A later step over an R_Del proof, or over another circuit's.
LEMMA CraftStepMakes ==
    ASSUME TypeOK, Sources,
           NEW id \in Unused, NEW pi \in Attempt, NEW mask \in Mask,
           NEW inner \in Proof, NEW past \in SUBSET DelId,
           inner.circuit = RDel =>
              \E parent \in Made : /\ inner = proof[parent]
                                   /\ past = anc[parent] \cup {parent},
           CraftStep(id, pi, inner, past, mask)
    PROVE  Makes(id, pi, past)
<1>1. /\ pi \in Statement
      /\ pi.vk \in Circuit /\ pi.digest \in Circuit
  BY DelegationAssumption DEF Statement
<1>2. inner.pi.com \in Commitment
  BY DEF Proof, Statement
<1>3. DummyProof(pi.vk) \in Proof /\ DummyProof(pi.vk).circuit \notin Type
  BY <1>1, DummyProofType
<1>4. Built(pi, past)
  BY <1>1, <1>2, <1>3 DEF CraftStep, Publish, Built
<1> QED
  BY <1>1, <1>4 DEF Makes, CraftStep, Publish

\* Every step prepares, or makes one proof that R_Del's constraints admit.
LEMMA NextMakes ==
    ASSUME TypeOK, Sources, Next
    PROVE  Prepares \/ \E id, pi, past : Makes(id, pi, past)
<1>1. CASE Issue
  BY <1>1 DEF Issue, SignCredential, Prepares
<1>2. CASE Prepare
  BY <1>2 DEF Prepare, ProveBase, ProveWrapper, Prepares
<1>3. CASE Delegate
  BY <1>3, BaseMakes, StepMakes DEF Delegate
<1>4. CASE Craft
  <2> PICK id \in Unused, pi \in Attempt, mask \in Mask :
        \/ \E w \in WrapperProofs \cup LookalikeProofs \cup DelegationProofs :
              CraftBase(id, pi, w, mask)
        \/ \E parent \in Made :
              CraftStep(id, pi, proof[parent], anc[parent] \cup {parent}, mask)
        \/ \E inner \in LookalikeProofs : CraftStep(id, pi, inner, {}, mask)
    BY <1>4 DEF Craft
  <2>1. ASSUME NEW w \in WrapperProofs \cup LookalikeProofs \cup DelegationProofs,
               CraftBase(id, pi, w, mask)
        PROVE  \E past : Makes(id, pi, past)
    BY <2>1, CraftBaseMakes
  <2>2. ASSUME NEW parent \in Made,
               CraftStep(id, pi, proof[parent], anc[parent] \cup {parent}, mask)
        PROVE  \E past : Makes(id, pi, past)
    <3>1. /\ proof[parent] \in Proof
          /\ anc[parent] \cup {parent} \in SUBSET DelId
      BY DEF TypeOK, Made
    <3> QED
      BY <2>2, <3>1, CraftStepMakes
  <2>3. ASSUME NEW inner \in LookalikeProofs, CraftStep(id, pi, inner, {}, mask)
        PROVE  \E past : Makes(id, pi, past)
    <3>1. inner \in Proof /\ inner.circuit # RDel
      BY DelegationAssumption, CircuitAssumption
         DEF LookalikeProofs, Proof, Circuit
    <3> QED
      BY <2>3, <3>1, CraftStepMakes
  <2> QED
    BY <2>1, <2>2, <2>3
<1> QED
  BY <1>1, <1>2, <1>3, <1>4 DEF Next

-----------------------------------------------------------------------------
(* Type correctness and the sources of a proof are inductive.              *)

\* A base proof states a commitment over the credential at level 0.
LEMMA ProveBaseStep ==
    ASSUME TypeOK, Sources, NEW t \in Type, NEW c \in creds,
           NEW claims \in Readings(t, c), ProveBase(t, c, claims)
    PROVE  /\ bases' \subseteq BaseProof
           /\ BasesSigned'
           /\ bases \subseteq bases'
<1> DEFINE pi == [ issuer |-> c.issuer, com |-> BaseLeaves(claims),
                   level |-> 0, maxLevel |-> LEVEL_UNBOUNDED ]
<1>1. /\ BaseConstraints(t, pi, c, claims)
      /\ bases' = bases \cup {[type |-> t, pi |-> pi]}
      /\ creds' = creds
  BY DEF ProveBase
<1>2. c \in Credential
  BY DEF TypeOK
<1>3. BaseLeaves(claims) \in Commitment
  BY <1>1, <1>2, BaseLeavesType
<1>4. 0 \in Field /\ LEVEL_UNBOUNDED \in Field
  BY FieldAssumption DEF Field, LEVEL_UNBOUNDED
<1>5. pi \in BaseStatement
  BY <1>2, <1>3, <1>4 DEF BaseStatement, Credential
<1> HIDE DEF pi
<1>6. bases' \subseteq BaseProof
  BY <1>1, <1>5 DEF BaseProof, TypeOK
<1>7. BasesSigned'
  BY <1>1 DEF BasesSigned, Sources
<1> QED
  BY <1>1, <1>6, <1>7

\* A proof of the chain, once made, is a proof; the history stays typed.
LEMMA MakesType ==
    ASSUME TypeOK, Sources, NEW id, NEW pi, NEW past, Makes(id, pi, past)
    PROVE  /\ proof' \in [DelId -> Proof \cup {NoProof}]
           /\ anc' \in [DelId -> SUBSET DelId]
           /\ Sources'
           /\ Made' = Made \cup {id}
<1>1. id \in DelId /\ proof[id] = NoProof
  BY DEF Makes, Unused, Made
<1>2. [circuit |-> RDel, pi |-> pi] \in Proof
  BY DEF Makes, Proof, Circuit
<1>3. [circuit |-> RDel, pi |-> pi] # NoProof
  BY <1>2, DelegationAssumption
<1>4. /\ proof' \in [DelId -> Proof \cup {NoProof}]
      /\ anc' \in [DelId -> SUBSET DelId]
  BY <1>1, <1>2 DEF Makes, TypeOK
<1>5. Made' = Made \cup {id}
  BY <1>1, <1>3 DEF Makes, Made, TypeOK
<1>6. MadeByRDel'
  BY <1>1, <1>5 DEF Makes, MadeByRDel, Sources, TypeOK
<1>7. BasesSigned' /\ WrapsForward'
  BY DEF Makes, Sources, BasesSigned, WrapsForward, WrapperProofs
<1> QED
  BY <1>4, <1>5, <1>6, <1>7 DEF Sources

\* What a caller hands on is a list of attributes, or nothing.
LEMMA HandOnType ==
    ASSUME TypeOK, NEW id \in DelId, NEW list \in KnownLists, NEW bitmap,
           HandOn(id, list, bitmap)
    PROVE  held' \in [DelId -> Seq(Attribute) \cup {NoList}]
<1>1. MaskAttributes(list, bitmap) \in Seq(Attribute)
  BY KnownListsType, MaskAttributesType
<1> QED
  BY <1>1 DEF HandOn, TypeOK

LEMMA DelegateHeld ==
    ASSUME TypeOK, Delegate
    PROVE  held' \in [DelId -> Seq(Attribute) \cup {NoList}]
BY HandOnType DEF Delegate, ProveDelegationBase, ProveDelegationStep, Unused

LEMMA CraftHeld ==
    ASSUME TypeOK, Craft
    PROVE  held' \in [DelId -> Seq(Attribute) \cup {NoList}]
BY DEF Craft, CraftBase, CraftStep, TypeOK, Unused

LEMMA TypeOKInit == Init => TypeOK /\ Sources
BY DEF Init, TypeOK, Sources, BasesSigned, WrapsForward, MadeByRDel, Made

\* Type correctness, together with where proofs come from, is inductive.
LEMMA TypeOKNext ==
    ASSUME TypeOK, Sources, Next
    PROVE  TypeOK' /\ Sources'
<1>1. CASE Issue
  <2> PICK c \in Signable : SignCredential(c)
    BY <1>1 DEF Issue
  <2>1. creds' = creds \cup {c} /\ c \in Credential
    BY DelegationAssumption DEF SignCredential
  <2>2. TypeOK'
    BY <2>1 DEF SignCredential, TypeOK
  <2>3. BasesSigned'
    BY <2>1 DEF SignCredential, Sources, BasesSigned
  <2>4. WrapsForward' /\ MadeByRDel'
    BY DEF SignCredential, Sources, WrapsForward, WrapperProofs, MadeByRDel,
           Made
  <2> QED
    BY <2>2, <2>3, <2>4 DEF Sources
<1>2. ASSUME NEW t \in Type, NEW c \in creds,
             NEW claims \in Readings(t, c), ProveBase(t, c, claims)
      PROVE  TypeOK' /\ Sources'
  <2>1. /\ bases' \subseteq BaseProof
        /\ BasesSigned'
        /\ bases \subseteq bases'
    BY <1>2, ProveBaseStep
  <2>2. TypeOK'
    BY <1>2, <2>1 DEF ProveBase, TypeOK
  <2>3. WrapsForward'
    BY <1>2, <2>1 DEF ProveBase, Sources, WrapsForward, WrapperProofs
  <2>4. MadeByRDel'
    BY <1>2 DEF ProveBase, Sources, MadeByRDel, Made
  <2> QED
    BY <2>1, <2>2, <2>3, <2>4 DEF Sources
<1>3. ASSUME NEW b \in bases, ProveWrapper(b)
      PROVE  TypeOK' /\ Sources'
  <2> DEFINE w == [ circuit |-> b.type,
                    pi |-> WrapperStatement(b, b.type, b.type) ]
  <2>1. wraps' = wraps \cup {w}
    BY <1>3 DEF ProveWrapper
  <2>2. b.type \in Circuit
    BY DEF TypeOK, BaseProof, Circuit
  <2>3. w \in WrapperProofs
    BY <2>2 DEF WrapperProofs
  <2>4. w \in Proof
    BY <2>3, WrapperProofsType DEF Proof, Circuit
  <2> HIDE DEF w
  <2>5. TypeOK'
    BY <1>3, <2>1, <2>4 DEF ProveWrapper, TypeOK
  <2>6. WrapsForward'
    BY <1>3, <2>1, <2>3 DEF ProveWrapper, Sources, WrapsForward, WrapperProofs
  <2>7. BasesSigned' /\ MadeByRDel'
    BY <1>3 DEF ProveWrapper, Sources, BasesSigned, MadeByRDel, Made
  <2> QED
    BY <2>5, <2>6, <2>7 DEF Sources
<1>4. CASE Delegate \/ Craft
  <2>1. held' \in [DelId -> Seq(Attribute) \cup {NoList}]
    BY <1>4, DelegateHeld, CraftHeld
  <2>2. UNCHANGED <<creds, bases, wraps>>
    BY <1>4 DEF Delegate, Craft, ProveDelegationBase, ProveDelegationStep,
                CraftBase, CraftStep, Publish
  <2>3. CASE \E id, pi, past : Makes(id, pi, past)
    BY <2>1, <2>2, <2>3, MakesType DEF TypeOK
  <2>4. CASE Prepares
    BY <2>1, <2>2, <2>4
       DEF Prepares, TypeOK, Sources, BasesSigned, WrapsForward, WrapperProofs,
           MadeByRDel, Made
  <2> QED
    BY <1>4, <2>3, <2>4, NextMakes DEF Next
<1> QED
  BY <1>1, <1>2, <1>3, <1>4 DEF Next, Prepare

\* Every field of the state keeps its type, whatever the provers do.
THEOREM TypeCorrect == Spec => []TypeOK
<1>1. Init => TypeOK /\ Sources
  BY TypeOKInit
<1>2. TypeOK /\ Sources /\ [Next]_vars => TypeOK' /\ Sources'
  <2>1. ASSUME TypeOK, Sources, UNCHANGED vars
        PROVE  TypeOK' /\ Sources'
    BY <2>1 DEF vars, TypeOK, Sources, BasesSigned, WrapsForward,
                WrapperProofs, MadeByRDel, Made
  <2> QED
    BY <2>1, TypeOKNext
<1> QED
  BY <1>1, <1>2, PTL DEF Spec

-----------------------------------------------------------------------------
(* Where a genuine proof comes from: a wrapper of its type, or a genuine   *)
(* parent.                                                                 *)

\* What R_Del's constraints say of a statement and the one it continues.
Follows(pi, prev) ==
    /\ pi.issuer = prev.issuer
    /\ pi.level = FieldAdd(prev.level, 1)
    /\ DepthCapConstraints(pi.level, pi.maxLevel, prev.maxLevel)
    /\ RedactionOf(pi.com, prev.com)

RootOf(pi, past) ==
    /\ past = {}
    /\ \E w \in WrapperProofs : w.circuit = pi.digest /\ Follows(pi, w.pi)

ChildOf(pi, past) ==
    \E parent \in GenuineIds :
        /\ past = anc[parent] \cup {parent}
        /\ proof[parent].pi.digest = pi.digest
        /\ Follows(pi, proof[parent].pi)

\* With R_Del's own key and a known wrapper digest, neither the dummy proof
\* nor another circuit's can stand in the slot the circuit verifies.
LEMMA GenuineStep ==
    ASSUME TypeOK, Sources, NEW id, NEW pi, NEW past, Makes(id, pi, past),
           pi.vk = RDel, pi.digest \in Type
    PROVE  RootOf(pi, past) \/ ChildOf(pi, past)
<1> PICK inner \in Proof, wrapper \in Proof, wrapperVk \in Circuit,
         leaves \in Commitment, mask \in Mask :
        /\ DelegationConstraints(pi, inner, wrapper, wrapperVk, leaves, mask)
        /\ inner.circuit = RDel =>
              \E parent \in Made : /\ inner = proof[parent]
                                   /\ past = anc[parent] \cup {parent}
        /\ wrapper.circuit \in Type => wrapper \in WrapperProofs /\ past = {}
  BY DEF Makes, Built
<1> DEFINE prev == IF IsBase(pi.level) THEN wrapper.pi ELSE inner.pi
<1>1. /\ pi.issuer = prev.issuer
      /\ LevelConstraint(pi.level, prev.level)
      /\ DepthCapConstraints(pi.level, pi.maxLevel, prev.maxLevel)
      /\ CyclicVerifier(IsBase(pi.level), pi.vk, inner, wrapper, wrapperVk)
      /\ pi.digest = (IF IsBase(pi.level) THEN wrapperVk ELSE inner.pi.digest)
      /\ leaves = prev.com
      /\ pi.com = MaskLeaves(leaves, mask)
  BY DEF DelegationConstraints
<1>2. RedactionOf(pi.com, prev.com)
  BY <1>1, MaskLeavesRedact
<1>3. Follows(pi, prev)
  BY <1>1, <1>2 DEF Follows, LevelConstraint
<1>4. CASE IsBase(pi.level)
  <2>1. wrapper.circuit = pi.digest
    BY <1>1, <1>4 DEF CyclicVerifier, Verify
  <2>2. wrapper \in WrapperProofs /\ past = {}
    BY <2>1
  <2> QED
    BY <1>3, <1>4, <2>1, <2>2 DEF RootOf
<1>5. CASE ~IsBase(pi.level)
  <2>1. inner.circuit = RDel /\ inner.pi.vk = RDel
    BY <1>1, <1>5 DEF CyclicVerifier, Verify
  <2>2. PICK parent \in Made : /\ inner = proof[parent]
                               /\ past = anc[parent] \cup {parent}
    BY <2>1
  <2>3. inner.pi.digest = pi.digest
    BY <1>1, <1>5
  <2>4. parent \in GenuineIds
    BY <2>1, <2>2, <2>3 DEF GenuineIds, Genuine
  <2> QED
    BY <1>3, <1>5, <2>2, <2>3, <2>4 DEF ChildOf
<1> QED
  BY <1>4, <1>5

\* A wrapper proof says what R_Base says of a signed credential.
LEMMA WrapperSays ==
    ASSUME TypeOK, Sources, NEW w \in WrapperProofs
    PROVE  /\ w.pi.level = 0
           /\ w.pi.maxLevel = LEVEL_UNBOUNDED
           /\ \E c \in creds : \E claims \in Readings(w.circuit, c) :
                 /\ w.pi.issuer = c.issuer
                 /\ w.pi.com = BaseLeaves(claims)
<1>1. PICK b \in bases, digest \in Circuit, vk \in Circuit :
        w = [circuit |-> b.type, pi |-> WrapperStatement(b, digest, vk)]
  BY DEF WrapperProofs
<1>2. PICK c \in creds : \E claims \in Readings(b.type, c) :
        BaseConstraints(b.type, b.pi, c, claims)
  BY DEF Sources, BasesSigned
<1> QED
  BY <1>1, <1>2 DEF WrapperStatement, BaseConstraints

\* The genuine proofs after a step are those before it and perhaps a new one.
LEMMA GenuineAfter ==
    ASSUME TypeOK, Sources, NEW id, NEW pi, NEW past, Makes(id, pi, past)
    PROVE  /\ id \in DelId \ Made
           /\ proof'[id] = [circuit |-> RDel, pi |-> pi]
           /\ anc'[id] = past
           /\ \A a \in Made : proof'[a] = proof[a] /\ anc'[a] = anc[a]
           /\ GenuineIds \subseteq GenuineIds'
           /\ \A g \in GenuineIds' : g \in GenuineIds \/ g = id
           /\ id \in GenuineIds' => pi.vk = RDel /\ pi.digest \in Type
<1>1. id \in DelId \ Made
  BY DEF Makes, Unused
<1>2. Made' = Made \cup {id}
  BY MakesType
<1>3. \A a \in Made : a \in DelId /\ a # id
  BY <1>1 DEF Made
<1>4. /\ proof'[id] = [circuit |-> RDel, pi |-> pi]
      /\ anc'[id] = past
      /\ \A a \in Made : proof'[a] = proof[a] /\ anc'[a] = anc[a]
  BY <1>1, <1>3 DEF Makes, TypeOK
<1> QED
  BY <1>1, <1>2, <1>3, <1>4 DEF GenuineIds, Genuine

-----------------------------------------------------------------------------
(* The depth cap.                                                          *)

\* The range checks bound the first level of a chain.
LEMMA RootLevel ==
    ASSUME TypeOK, Sources, NEW pi \in Statement, NEW past, RootOf(pi, past)
    PROVE  /\ pi.level = 1
           /\ pi.maxLevel \in 1 .. LEVEL_UNBOUNDED
<1>1. PICK w \in WrapperProofs : Follows(pi, w.pi)
  BY DEF RootOf
<1>2. w.pi.level = 0 /\ w.pi.maxLevel = LEVEL_UNBOUNDED
  BY WrapperSays
<1>3. pi.level = FieldAdd(0, 1)
  BY <1>1, <1>2 DEF Follows
<1>4. pi.level = 1
  BY <1>3, FieldAssumption DEF FieldAdd
<1>5. DepthCapConstraints(FieldAdd(0, 1), pi.maxLevel, LEVEL_UNBOUNDED)
  BY <1>1, <1>2, <1>3 DEF Follows
<1>6. pi.maxLevel \in Field
  BY DEF Statement
<1>7. LEVEL_UNBOUNDED \in Nat /\ LEVEL_UNBOUNDED < LevelBound
  BY FieldAssumption DEF LEVEL_UNBOUNDED
<1>8. 1 <= pi.maxLevel /\ pi.maxLevel <= LEVEL_UNBOUNDED
  BY <1>5, <1>6, <1>7, RangeChecksCompare
<1> QED
  BY <1>4, <1>6, <1>7, <1>8 DEF Field

\* And they keep every later one below the caps above it.
LEMMA ChildLevel ==
    ASSUME TypeOK, LevelWithinCap, NEW parent \in GenuineIds,
           NEW pi \in Statement, Follows(pi, proof[parent].pi)
    PROVE  /\ proof[parent].pi.level \in Nat \ {0}
           /\ proof[parent].pi.maxLevel \in 1 .. LEVEL_UNBOUNDED
           /\ pi.level = proof[parent].pi.level + 1
           /\ pi.level <= pi.maxLevel
           /\ pi.maxLevel \in Nat
           /\ pi.maxLevel <= proof[parent].pi.maxLevel
<1> DEFINE level == proof[parent].pi.level
           cap == proof[parent].pi.maxLevel
<1>1. proof[parent] \in Proof
  BY DEF GenuineIds, Made, TypeOK
<1>2. cap \in Field /\ pi.maxLevel \in Field
  BY <1>1 DEF Proof, Statement
<1>3. level \in 1 .. cap /\ cap <= LEVEL_UNBOUNDED
  BY DEF LevelWithinCap
<1>4. pi.level = FieldAdd(level, 1)
  BY DEF Follows
<1>5. DepthCapConstraints(FieldAdd(level, 1), pi.maxLevel, cap)
  BY <1>4 DEF Follows
<1> HIDE DEF level, cap
<1>6. /\ cap \in Nat /\ level \in Nat \ {0} /\ level <= cap
      /\ cap < LevelBound
  BY <1>2, <1>3, FieldAssumption DEF Field, LEVEL_UNBOUNDED
<1>7. level + 1 <= pi.maxLevel /\ pi.maxLevel <= cap
  BY <1>2, <1>5, <1>6, RangeChecksCompare
<1>8. pi.level = level + 1
  BY <1>4, <1>6, FieldAssumption DEF FieldAdd
<1>9. pi.maxLevel \in Nat /\ cap \in 1 .. LEVEL_UNBOUNDED
  BY <1>2, <1>3, <1>6, FieldAssumption DEF Field, LEVEL_UNBOUNDED
<1> QED
  BY <1>6, <1>7, <1>8, <1>9 DEF level, cap

\* Type, provenance of the sources and the depth cap: inductive together.
IInv == TypeOK /\ Sources /\ LevelWithinCap

LEMMA LevelWithinCapNext ==
    ASSUME IInv, Next
    PROVE  LevelWithinCap'
<1>1. CASE Prepares
  BY <1>1 DEF IInv, Prepares, LevelWithinCap, GenuineIds, Genuine, Made
<1>2. ASSUME NEW id, NEW pi, NEW past, Makes(id, pi, past)
      PROVE  LevelWithinCap'
  <2>1. /\ proof'[id] = [circuit |-> RDel, pi |-> pi]
        /\ \A a \in Made : proof'[a] = proof[a]
        /\ \A g \in GenuineIds' : g \in GenuineIds \/ g = id
        /\ id \in GenuineIds' => pi.vk = RDel /\ pi.digest \in Type
    BY <1>2, GenuineAfter DEF IInv
  <2>2. pi \in Statement
    BY <1>2 DEF Makes
  <2>3. ASSUME id \in GenuineIds'
        PROVE  pi.level \in 1 .. pi.maxLevel /\ pi.maxLevel <= LEVEL_UNBOUNDED
    <3>1. CASE RootOf(pi, past)
      BY <2>2, <3>1, RootLevel, FieldAssumption DEF IInv, LEVEL_UNBOUNDED
    <3>2. CASE ChildOf(pi, past)
      <4> PICK parent \in GenuineIds : Follows(pi, proof[parent].pi)
        BY <3>2 DEF ChildOf
      <4>1. /\ proof[parent].pi.level \in Nat \ {0}
            /\ proof[parent].pi.maxLevel \in 1 .. LEVEL_UNBOUNDED
            /\ pi.level = proof[parent].pi.level + 1
            /\ pi.level <= pi.maxLevel
            /\ pi.maxLevel \in Nat
            /\ pi.maxLevel <= proof[parent].pi.maxLevel
        BY <2>2, ChildLevel DEF IInv
      <4> QED
        BY <4>1, FieldAssumption DEF LEVEL_UNBOUNDED
    <3> QED
      BY <1>2, <2>1, <2>3, <3>1, <3>2, GenuineStep DEF IInv
  <2>4. ASSUME NEW g \in GenuineIds
        PROVE  /\ proof'[g] = proof[g]
               /\ proof[g].pi.level \in 1 .. proof[g].pi.maxLevel
               /\ proof[g].pi.maxLevel <= LEVEL_UNBOUNDED
    BY <2>1 DEF IInv, LevelWithinCap, GenuineIds
  <2> QED
    BY <2>1, <2>3, <2>4 DEF LevelWithinCap
<1> QED
  BY <1>1, <1>2, NextMakes DEF IInv

LEMMA IInvInit == Init => IInv
BY TypeOKInit DEF Init, IInv, LevelWithinCap, GenuineIds, Made

LEMMA IInvNext == IInv /\ [Next]_vars => IInv'
<1>1. ASSUME IInv, Next PROVE IInv'
  BY <1>1, TypeOKNext, LevelWithinCapNext DEF IInv
<1>2. ASSUME IInv, UNCHANGED vars PROVE IInv'
  BY <1>2 DEF vars, IInv, TypeOK, Sources, BasesSigned, WrapsForward,
              WrapperProofs, MadeByRDel, LevelWithinCap, GenuineIds, Genuine,
              Made
<1> QED
  BY <1>1, <1>2

\* However a witness was found, a genuine proof's level lies within its cap:
\* the range checks of R_Del never let the field wrap around.
THEOREM DepthCapHolds == Spec => []LevelWithinCap
<1>1. IInv => LevelWithinCap
  BY DEF IInv
<1> QED
  BY <1>1, IInvInit, IInvNext, PTL DEF Spec

\* So resolve_depth_cap admits a cap exactly when the circuit does.
THEOREM GuardAgreesWithCircuit == Spec => []GuardIsExact
<1>1. ASSUME IInv PROVE GuardIsExact
  <2> SUFFICES ASSUME NEW id \in GenuineIds, NEW cap \in 0 .. LevelBound - 1
               PROVE  CapAdmitted(cap, proof[id].pi.level + 1,
                                  proof[id].pi.maxLevel)
                        <=> DepthCapConstraints(FieldAdd(proof[id].pi.level, 1),
                                                cap, proof[id].pi.maxLevel)
    BY DEF GuardIsExact
  <2> DEFINE level == proof[id].pi.level
             maxLevel == proof[id].pi.maxLevel
  <2>1. proof[id] \in Proof
    BY <1>1 DEF IInv, TypeOK, GenuineIds, Made
  <2>2. maxLevel \in Field
    BY <2>1 DEF Proof, Statement
  <2>3. level \in 1 .. maxLevel /\ maxLevel <= LEVEL_UNBOUNDED
    BY <1>1 DEF IInv, LevelWithinCap
  <2> HIDE DEF level, maxLevel
  <2>4. /\ level \in Nat /\ maxLevel \in Nat /\ level <= maxLevel
        /\ maxLevel < LevelBound /\ cap \in Field
    BY <2>2, <2>3, FieldAssumption DEF Field, LEVEL_UNBOUNDED
  <2>5. DepthCapConstraints(FieldAdd(level, 1), cap, maxLevel)
          <=> level + 1 <= cap /\ cap <= maxLevel
    BY <2>4, RangeChecksCompare
  <2> QED
    BY <2>5 DEF CapAdmitted, level, maxLevel
<1> QED
  BY <1>1, IInvInit, IInvNext, PTL DEF Spec

-----------------------------------------------------------------------------
(* Provenance.                                                             *)

LEMMA ClaimsAreSignedNext ==
    ASSUME IInv, ClaimsAreSigned, Next
    PROVE  ClaimsAreSigned'
<1>1. CASE Prepares
  BY <1>1 DEF Prepares, ClaimsAreSigned, GenuineIds, Genuine, Made
<1>2. ASSUME NEW id, NEW pi, NEW past, Makes(id, pi, past)
      PROVE  ClaimsAreSigned'
  <2>1. /\ proof'[id] = [circuit |-> RDel, pi |-> pi]
        /\ \A a \in Made : proof'[a] = proof[a]
        /\ \A g \in GenuineIds' : g \in GenuineIds \/ g = id
        /\ id \in GenuineIds' => pi.vk = RDel /\ pi.digest \in Type
    BY <1>2, GenuineAfter DEF IInv
  <2>2. creds' = creds
    BY <1>2 DEF Makes
  <2>3. ASSUME id \in GenuineIds'
        PROVE  \E c \in creds : AnchoredIn(proof'[id], c)
    <3>1. CASE RootOf(pi, past)
      <4> PICK w \in WrapperProofs :
            w.circuit = pi.digest /\ Follows(pi, w.pi)
        BY <3>1 DEF RootOf
      <4>1. PICK c \in creds : \E claims \in Readings(w.circuit, c) :
              /\ w.pi.issuer = c.issuer
              /\ w.pi.com = BaseLeaves(claims)
        BY WrapperSays DEF IInv
      <4> QED
        BY <2>1, <4>1 DEF Follows, AnchoredIn
    <3>2. CASE ChildOf(pi, past)
      <4> PICK parent \in GenuineIds :
            /\ proof[parent].pi.digest = pi.digest
            /\ Follows(pi, proof[parent].pi)
        BY <3>2 DEF ChildOf
      <4>1. PICK c \in creds : AnchoredIn(proof[parent], c)
        BY DEF ClaimsAreSigned
      <4>2. PICK claims \in Readings(pi.digest, c) :
              RedactionOf(proof[parent].pi.com, BaseLeaves(claims))
        BY <4>1 DEF AnchoredIn
      <4>3. RedactionOf(pi.com, BaseLeaves(claims))
        BY <4>2, RedactionTransitive DEF Follows
      <4> QED
        BY <2>1, <4>1, <4>3 DEF Follows, AnchoredIn
    <3> QED
      BY <1>2, <2>1, <2>3, <3>1, <3>2, GenuineStep DEF IInv
  <2>4. ASSUME NEW g \in GenuineIds
        PROVE  \E c \in creds : AnchoredIn(proof'[g], c)
    BY <2>1 DEF ClaimsAreSigned, GenuineIds
  <2> QED
    BY <2>1, <2>2, <2>3, <2>4 DEF ClaimsAreSigned, AnchoredIn
<1> QED
  BY <1>1, <1>2, NextMakes DEF IInv

\* However a witness was found, a genuine proof shows only claims that its
\* issuer signed, read as its wrapper digest says.
THEOREM Provenance == Spec => []ClaimsAreSigned
<1>1. Init => IInv /\ ClaimsAreSigned
  BY IInvInit DEF Init, ClaimsAreSigned, GenuineIds, Made
<1>2. IInv /\ ClaimsAreSigned /\ [Next]_vars => IInv' /\ ClaimsAreSigned'
  <2>1. ASSUME ClaimsAreSigned, UNCHANGED vars PROVE ClaimsAreSigned'
    BY <2>1 DEF vars, ClaimsAreSigned, GenuineIds, Genuine, Made
  <2> QED
    BY <2>1, IInvNext, ClaimsAreSignedNext
<1> QED
  BY <1>1, <1>2, PTL DEF Spec

-----------------------------------------------------------------------------
(* Monotonicity along the chain.                                           *)

\* A child descends from its parent.
LEMMA ChildDescends ==
    ASSUME IInv, NEW parent \in GenuineIds, NEW p, p.pi \in Statement,
           p.pi.digest = proof[parent].pi.digest,
           Follows(p.pi, proof[parent].pi)
    PROVE  Descends(p, proof[parent])
<1>1. /\ proof[parent].pi.level \in Nat \ {0}
      /\ proof[parent].pi.maxLevel \in 1 .. LEVEL_UNBOUNDED
      /\ p.pi.level = proof[parent].pi.level + 1
      /\ p.pi.level <= p.pi.maxLevel
      /\ p.pi.maxLevel \in Nat
      /\ p.pi.maxLevel <= proof[parent].pi.maxLevel
  BY ChildLevel DEF IInv
<1>2. /\ proof[parent].pi.level < p.pi.level
      /\ p.pi.level <= proof[parent].pi.maxLevel
  BY <1>1, FieldAssumption DEF LEVEL_UNBOUNDED
<1> QED
  BY <1>1, <1>2 DEF Descends, Follows

\* And from everything its parent descends from.
LEMMA DescendsTransitive ==
    ASSUME NEW p, NEW q, NEW a,
           p.pi \in Statement, q.pi \in Statement, a.pi \in Statement,
           Descends(p, q), Descends(q, a)
    PROVE  Descends(p, a)
<1>1. RedactionOf(p.pi.com, a.pi.com)
  BY RedactionTransitive DEF Descends
<1>2. /\ p.pi.level \in Int /\ p.pi.maxLevel \in Int
      /\ q.pi.level \in Int /\ q.pi.maxLevel \in Int
      /\ a.pi.level \in Int /\ a.pi.maxLevel \in Int
  BY FieldAssumption DEF Statement, Field
<1> QED
  BY <1>1, <1>2 DEF Descends

LEMMA AncestorsBindNext ==
    ASSUME IInv, AncestorsBind, Next
    PROVE  AncestorsBind'
<1>1. CASE Prepares
  BY <1>1 DEF Prepares, AncestorsBind, GenuineIds, Genuine, Made
<1>2. ASSUME NEW id, NEW pi, NEW past, Makes(id, pi, past)
      PROVE  AncestorsBind'
  <2> TypeOK /\ Sources
    BY DEF IInv
  <2>1. /\ proof'[id] = [circuit |-> RDel, pi |-> pi]
        /\ anc'[id] = past
        /\ \A a \in Made : proof'[a] = proof[a] /\ anc'[a] = anc[a]
        /\ GenuineIds \subseteq GenuineIds'
        /\ \A g \in GenuineIds' : g \in GenuineIds \/ g = id
        /\ id \in GenuineIds' => pi.vk = RDel /\ pi.digest \in Type
    BY <1>2, GenuineAfter, SMTT(30)
  <2>2. pi \in Statement
    BY <1>2 DEF Makes
  <2>3. \A g \in GenuineIds : g \in Made /\ proof[g].pi \in Statement
    BY DEF GenuineIds, Made, IInv, TypeOK, Proof
  <2>4. ASSUME id \in GenuineIds'
        PROVE  \A a \in past :
                  a \in GenuineIds /\ Descends(proof'[id], proof[a])
    <3>1. CASE RootOf(pi, past)
      BY <3>1 DEF RootOf
    <3>2. CASE ChildOf(pi, past)
      <4> PICK parent \in GenuineIds :
            /\ past = anc[parent] \cup {parent}
            /\ proof[parent].pi.digest = pi.digest
            /\ Follows(pi, proof[parent].pi)
        BY <3>2 DEF ChildOf
      <4>1. Descends(proof'[id], proof[parent])
        BY <2>1, <2>2, ChildDescends
      <4>2. ASSUME NEW a \in anc[parent]
            PROVE  a \in GenuineIds /\ Descends(proof'[id], proof[a])
        <5>1. a \in GenuineIds /\ Descends(proof[parent], proof[a])
          BY DEF AncestorsBind
        <5> QED
          BY <2>1, <2>2, <2>3, <4>1, <5>1, DescendsTransitive
      <4> QED
        BY <4>1, <4>2
    <3> QED
      BY <1>2, <2>1, <2>4, <3>1, <3>2, GenuineStep DEF IInv
  <2>5. ASSUME NEW g \in GenuineIds, NEW a \in anc[g]
        PROVE  /\ a \in GenuineIds
               /\ Descends(proof[g], proof[a])
    BY DEF AncestorsBind
  <2>6. ASSUME NEW g \in GenuineIds', NEW a \in anc'[g]
        PROVE  a \in GenuineIds' /\ Descends(proof'[g], proof'[a])
    <3>1. CASE g = id
      BY <2>1, <2>3, <2>4, <2>6, <3>1
    <3>2. CASE g \in GenuineIds
      BY <2>1, <2>3, <2>5, <2>6, <3>2
    <3> QED
      BY <2>1, <3>1, <3>2
  <2> QED
    BY <2>6 DEF AncestorsBind, Descends, RedactionOf
<1> QED
  BY <1>1, <1>2, NextMakes DEF IInv

\* What a delegator capped or redacted stays so in every proof built on its
\* own, and the issuer and the type never change along the chain.
THEOREM ChainsOnlyTighten == Spec => []AncestorsBind
<1>1. Init => IInv /\ AncestorsBind
  BY IInvInit DEF Init, AncestorsBind, GenuineIds, Made
<1>2. IInv /\ AncestorsBind /\ [Next]_vars => IInv' /\ AncestorsBind'
  <2>1. ASSUME AncestorsBind, UNCHANGED vars PROVE AncestorsBind'
    BY <2>1 DEF vars, AncestorsBind, GenuineIds, Genuine, Made
  <2> QED
    BY <2>1, IInvNext, AncestorsBindNext
<1> QED
  BY <1>1, <1>2, PTL DEF Spec

-----------------------------------------------------------------------------
(* The list a holder receives opens the commitment of the proof it came    *)
(* with, for every tree size, list, bitmap and chain.                      *)


\* pad_attributes and then masking with a resized bitmap leave in each slot
\* what masking the bare list with the bare bitmap and padding later does.
LEMMA MaskThenPad ==
    ASSUME NEW list \in Seq(Attribute), NEW bitmap \in Bitmap,
           Maskable(list, bitmap), NEW i \in Slot
    PROVE  MaskAttributes(PadAttributes(list), ResizeBitmap(bitmap))[i]
             = PadAttributes(MaskAttributes(list, bitmap))[i]
<1> DEFINE masked == MaskAttributes(list, bitmap)
           padded == PadAttributes(list)
           mask == ResizeBitmap(bitmap)
<1>1. /\ Len(list) \in Nat /\ DOMAIN list = 1 .. Len(list)
      /\ i \in Nat /\ i >= 1
  BY AttributeAssumption DEF Slot
<1>2. /\ masked \in Seq(Attribute)
      /\ masked = [j \in 1 .. Len(list) |->
                     IF bitmap[j] THEN list[j] ELSE EmptyMarker]
  BY <1>1, MaskAttributesType DEF MaskAttributes
<1>3. Len(masked) = Len(list)
  BY <1>1, <1>2
<1>4. Len(list) = Len(bitmap)
  BY DEF Maskable
<1>5. /\ padded[i] = IF i <= Len(list) THEN list[i] ELSE EmptyMarker
      /\ mask[i] = IF i <= Len(list) THEN bitmap[i] ELSE FALSE
      /\ MaskAttributes(padded, mask)[i]
           = IF mask[i] THEN padded[i] ELSE EmptyMarker
  BY <1>4 DEF PadAttributes, ResizeBitmap, MaskAttributes
<1>6. PadAttributes(masked)[i]
        = IF i <= Len(list) THEN masked[i] ELSE EmptyMarker
  BY <1>3 DEF PadAttributes
<1> HIDE DEF masked, padded, mask
<1>7. i <= Len(list) => masked[i] = IF bitmap[i] THEN list[i] ELSE EmptyMarker
  BY <1>1, <1>2
<1>8. MaskAttributes(padded, mask)[i] = PadAttributes(masked)[i]
  BY <1>5, <1>6, <1>7
<1> QED
  BY <1>8 DEF masked, padded, mask

\* So the masked list opens the root that the prover published.
LEMMA MaskedListOpens ==
    ASSUME NEW list \in Seq(Attribute), NEW bitmap \in Bitmap,
           Maskable(list, bitmap), Paddable(list)
    PROVE  /\ Paddable(MaskAttributes(list, bitmap))
           /\ MerkleRoot(PadAttributes(MaskAttributes(list, bitmap)))
                = MaskedRoot(list, bitmap)
<1>1. /\ Len(list) \in Nat /\ DOMAIN list = 1 .. Len(list)
      /\ MaskAttributes(list, bitmap) \in Seq(Attribute)
  BY MaskAttributesType
<1>2. DOMAIN MaskAttributes(list, bitmap) = 1 .. Len(list)
  BY <1>1 DEF MaskAttributes
<1>3. Len(MaskAttributes(list, bitmap)) = Len(list)
  BY <1>1, <1>2
<1>4. Paddable(MaskAttributes(list, bitmap))
  BY <1>3 DEF Paddable
<1>5. MerkleRoot(PadAttributes(MaskAttributes(list, bitmap)))
        = MerkleRoot(MaskAttributes(PadAttributes(list), ResizeBitmap(bitmap)))
  BY MaskThenPad DEF MerkleRoot
<1> QED
  BY <1>4, <1>5 DEF MaskedRoot

-----------------------------------------------------------------------------

Opens(list, p) ==
    /\ Paddable(list)
    /\ MerkleRoot(PadAttributes(list)) = p.pi.com

\* A library call publishes the masked root and hands on the masked list.
LEMMA HandedOnOpens ==
    ASSUME IInv, NEW id \in Unused, NEW list \in KnownLists,
           NEW bitmap \in Bitmap, Paddable(list), HandOn(id, list, bitmap),
           NEW pi, pi.com = MaskedRoot(list, bitmap),
           proof' = [proof EXCEPT ![id] = [circuit |-> RDel, pi |-> pi]],
           HandoverOpens
    PROVE  HandoverOpens'
<1>1. id \in DelId /\ id \notin Made
  BY DEF Unused
<1>2. list \in Seq(Attribute)
  BY KnownListsType DEF IInv
<1>3. held'[id] # NoList => Opens(held'[id], proof'[id])
  BY <1>1, <1>2, MaskedListOpens
     DEF HandOn, Opens, IInv, TypeOK
<1>4. \A a \in Made' \ {id} : /\ a \in Made
                              /\ held'[a] = held[a]
                              /\ proof'[a] = proof[a]
  BY <1>1 DEF Made, HandOn, IInv, TypeOK
<1>5. ASSUME NEW a \in Made', held'[a] # NoList
      PROVE  Opens(held'[a], proof'[a])
  <2>1. CASE a = id
    BY <1>3, <1>5, <2>1
  <2>2. CASE a # id
    BY <1>4, <1>5, <2>2 DEF HandoverOpens, Opens
  <2> QED
    BY <2>1, <2>2
<1> QED
  BY <1>5 DEF HandoverOpens, Opens

\* A proof over a witness of the prover's own hands nothing on.
LEMMA NothingHandedOn ==
    ASSUME IInv, HandoverOpens, NEW id \in Unused, NEW p,
           proof' = [proof EXCEPT ![id] = p],
           held' = [held EXCEPT ![id] = NoList]
    PROVE  HandoverOpens'
<1>1. id \in DelId
  BY DEF Unused
<1>2. held'[id] = NoList
  BY <1>1 DEF IInv, TypeOK
<1>3. \A a \in Made' \ {id} : /\ a \in Made
                              /\ held'[a] = held[a]
                              /\ proof'[a] = proof[a]
  BY <1>1 DEF Made, IInv, TypeOK
<1> QED
  BY <1>2, <1>3 DEF HandoverOpens, Paddable, MerkleRoot, PadAttributes

LEMMA HandoverNext ==
    ASSUME IInv, HandoverOpens, Next
    PROVE  HandoverOpens'
<1>1. CASE Issue \/ Prepare
  BY <1>1 DEF Issue, SignCredential, Prepare, ProveBase, ProveWrapper,
              HandoverOpens, Made
<1>2. CASE Delegate
  <2> PICK id \in Unused, list \in KnownLists, bitmap \in Bitmap,
           request \in CapRequest :
        \/ \E w \in wraps, t \in Type :
              ProveDelegationBase(id, w, t, list, bitmap, request)
        \/ \E parent \in Made :
              ProveDelegationStep(id, parent, list, bitmap, request)
    BY <1>2 DEF Delegate
  <2>1. \E pi : /\ Paddable(list)
                /\ HandOn(id, list, bitmap)
                /\ pi.com = MaskedRoot(list, bitmap)
                /\ proof' = [proof EXCEPT ![id] = [circuit |-> RDel, pi |-> pi]]
    BY DEF ProveDelegationBase, ProveDelegationStep, Publish, NextStatement
  <2> QED
    BY <2>1, HandedOnOpens
<1>3. CASE Craft
  <2> PICK id \in Unused :
        \E p : /\ proof' = [proof EXCEPT ![id] = p]
               /\ held' = [held EXCEPT ![id] = NoList]
    BY <1>3 DEF Craft, CraftBase, CraftStep, Publish
  <2> QED
    BY NothingHandedOn
<1> QED
  BY <1>1, <1>2, <1>3 DEF Next

\* Whoever is handed a proof and a list can open the proof's commitment.
THEOREM ListsOpenTheirProofs == Spec => []HandoverOpens
<1>1. Init => IInv /\ HandoverOpens
  BY IInvInit DEF Init, HandoverOpens, Made
<1>2. IInv /\ HandoverOpens /\ [Next]_vars => IInv' /\ HandoverOpens'
  <2>1. ASSUME HandoverOpens, UNCHANGED vars PROVE HandoverOpens'
    BY <2>1 DEF vars, HandoverOpens, Made
  <2> QED
    BY <2>1, IInvNext, HandoverNext
<1> QED
  BY <1>1, <1>2, PTL DEF Spec

-----------------------------------------------------------------------------
(* The tree of grants.                                                     *)

\* The signed readings after a step are readings, and none is ever withdrawn.
LEMMA ReadingsGrow ==
    ASSUME TypeOK', creds \subseteq creds'
    PROVE  /\ SignedReadings \subseteq SignedReadings'
           /\ \A r \in SignedReadings' : r \in Grants!Reading
<1>1. SignedReadings \subseteq SignedReadings'
  BY DEF SignedReadings, ReadingsOf
<1>2. ASSUME NEW t \in Type, NEW c \in creds', NEW r \in ReadingsOf(t, c)
      PROVE  r \in Grants!Reading
  <2>1. c \in Credential
    BY <1>2 DEF TypeOK
  <2>2. PICK claims \in Readings(t, c) :
          r = [issuer |-> c.issuer, type |-> t, shown |-> BaseLeaves(claims)]
    BY <1>2 DEF ReadingsOf
  <2>3. BaseLeaves(claims) \in [Slot -> Leaf]
    BY <2>1, BaseLeavesType DEF Commitment
  <2> QED
    BY <2>1, <2>2, <2>3 DEF Grants!Reading, Credential
<1>3. ASSUME NEW r \in SignedReadings'
      PROVE  r \in Grants!Reading
  <2>1. PICK x \in Type \X creds' : r \in ReadingsOf(x[1], x[2])
    BY <1>3 DEF SignedReadings, ReadingsOf
  <2>2. x[1] \in Type /\ x[2] \in creds'
    OBVIOUS
  <2> QED
    BY <1>2, <2>1, <2>2
<1> QED
  BY <1>1, <1>3

\* A genuine proof is a grant, never the mark of an unused identity.
LEMMA GenuineIsGrant ==
    ASSUME TypeOK, NEW g \in GenuineIds
    PROVE  /\ g \in DelId
           /\ Granted[g] = GrantOf(proof[g])
           /\ Granted[g] # NoGrant
           /\ Beneath[g] = anc[g]
<1>1. g \in DelId /\ proof[g] \in Proof /\ proof[g].pi.digest \in Type
  BY DEF GenuineIds, Genuine, Made, TypeOK
<1>2. Field \subseteq Nat
  BY FieldAssumption DEF Field
<1>3. GrantOf(proof[g]) \in [ issuer: Issuer, type: Type, shown: Commitment,
                              level: Nat, cap: Nat ]
  BY <1>1, <1>2 DEF GrantOf, Proof, Statement
<1>4. Granted[g] = GrantOf(proof[g]) /\ Beneath[g] = anc[g]
  BY <1>1 DEF Granted, Beneath
<1> QED
  BY <1>1, <1>3, <1>4, GrantAssumption

\* Issuing and preparing only ever add signed readings.
LEMMA PreparesRefines ==
    ASSUME TypeOK', Prepares
    PROVE  Grants!Sign
<1>1. /\ SignedReadings \subseteq SignedReadings'
      /\ \A r \in SignedReadings' : r \in Grants!Reading
  BY ReadingsGrow DEF Prepares
<1>2. Granted' = Granted /\ Beneath' = Beneath
  BY DEF Prepares, Granted, Beneath, GenuineIds, Genuine, Made
<1> QED
  BY <1>1, <1>2 DEF Grants!Sign

\* What a new proof changes in the tree: at most its own place.
LEMMA MakesGrants ==
    ASSUME TypeOK, Sources, NEW id, NEW pi, NEW past, Makes(id, pi, past)
    PROVE  /\ SignedReadings' = SignedReadings
           /\ id \in DelId
           /\ Granted[id] = NoGrant
           /\ id \notin GenuineIds' => Granted' = Granted /\ Beneath' = Beneath
           /\ id \in GenuineIds' =>
                /\ Granted' = [Granted EXCEPT ![id] =
                                 GrantOf([circuit |-> RDel, pi |-> pi])]
                /\ Beneath' = [Beneath EXCEPT ![id] = past]
<1>1. /\ id \in DelId \ Made
      /\ proof'[id] = [circuit |-> RDel, pi |-> pi]
      /\ anc'[id] = past
      /\ \A a \in Made : proof'[a] = proof[a] /\ anc'[a] = anc[a]
      /\ GenuineIds \subseteq GenuineIds'
      /\ \A g \in GenuineIds' : g \in GenuineIds \/ g = id
      /\ id \in GenuineIds' => pi.vk = RDel /\ pi.digest \in Type
  BY GenuineAfter
<1>2. SignedReadings' = SignedReadings
  BY DEF Makes, SignedReadings
<1>3. GenuineIds \subseteq Made /\ id \notin GenuineIds
  BY <1>1 DEF GenuineIds
<1>4. Granted[id] = NoGrant
  BY <1>1, <1>3 DEF Granted
<1>5. \A g \in DelId : g # id => (g \in GenuineIds' <=> g \in GenuineIds)
  BY <1>1
<1>6. \A g \in DelId : g # id =>
        /\ Granted'[g] = Granted[g]
        /\ Beneath'[g] = Beneath[g]
  BY <1>1, <1>3, <1>5 DEF Granted, Beneath
<1>7. ASSUME id \notin GenuineIds'
      PROVE  Granted' = Granted /\ Beneath' = Beneath
  BY <1>1, <1>3, <1>5, <1>7 DEF Granted, Beneath
<1>8. ASSUME id \in GenuineIds'
      PROVE  /\ Granted' = [Granted EXCEPT ![id] =
                              GrantOf([circuit |-> RDel, pi |-> pi])]
             /\ Beneath' = [Beneath EXCEPT ![id] = past]
  BY <1>1, <1>3, <1>5, <1>8 DEF Granted, Beneath
<1> QED
  BY <1>1, <1>2, <1>4, <1>7, <1>8

-----------------------------------------------------------------------------
(* Making a genuine proof is Root or Extend.                               *)

\* Redacting a commitment is Redacts.
LEMMA FollowsRedacts ==
    ASSUME NEW pi \in Statement, NEW prev, Follows(pi, prev)
    PROVE  Grants!Redacts(pi.com, prev.com)
BY DEF Follows, RedactionOf, Grants!Redacts, Statement, Commitment

LEMMA RootRefines ==
    ASSUME IInv, NEW id, NEW pi, NEW past, Makes(id, pi, past),
           id \in GenuineIds', RootOf(pi, past)
    PROVE  Grants!Next
<1> TypeOK /\ Sources
  BY DEF IInv
<1> PICK w \in WrapperProofs : w.circuit = pi.digest /\ Follows(pi, w.pi)
  BY DEF RootOf
<1>1. pi \in Statement /\ past = {}
  BY DEF Makes, RootOf
<1>2. PICK c \in creds : \E claims \in Readings(w.circuit, c) :
        w.pi.issuer = c.issuer /\ w.pi.com = BaseLeaves(claims)
  BY WrapperSays
<1> PICK claims \in Readings(w.circuit, c) :
        w.pi.issuer = c.issuer /\ w.pi.com = BaseLeaves(claims)
  BY <1>2
<1> DEFINE r == [ issuer |-> c.issuer, type |-> pi.digest,
                  shown |-> BaseLeaves(claims) ]
<1>3. w.circuit \in Type
  BY WrapperProofsType
<1>4. r \in SignedReadings
  <2>1. <<w.circuit, c>> \in Type \X creds
    BY <1>2, <1>3
  <2>2. r \in ReadingsOf(w.circuit, c)
    BY <1>2 DEF ReadingsOf
  <2> QED
    BY <2>1, <2>2 DEF SignedReadings
<1>5. pi.level = 1 /\ pi.maxLevel \in 1 .. LEVEL_UNBOUNDED
  BY <1>1, RootLevel
<1>6. /\ SignedReadings' = SignedReadings
      /\ id \in DelId
      /\ Granted[id] = NoGrant
      /\ Granted' = [Granted EXCEPT ![id] =
                        GrantOf([circuit |-> RDel, pi |-> pi])]
      /\ Beneath' = [Beneath EXCEPT ![id] = past]
  BY MakesGrants
<1>7. GrantOf([circuit |-> RDel, pi |-> pi])
        = [ issuer |-> r.issuer, type |-> r.type, shown |-> pi.com,
            level |-> 1, cap |-> pi.maxLevel ]
  BY <1>2, <1>5 DEF GrantOf, Follows
<1>8. Grants!Redacts(pi.com, r.shown)
  <2>1. Grants!Redacts(pi.com, w.pi.com)
    BY <1>1, FollowsRedacts
  <2> QED
    BY <1>2, <2>1
<1> HIDE DEF r
<1>9. Grants!Root(id, r, pi.com, pi.maxLevel)
  BY <1>1, <1>5, <1>6, <1>7, <1>8 DEF Grants!Root, Grants!New
<1>10. pi.com \in [Slot -> Leaf]
  BY <1>1 DEF Statement, Commitment
<1> QED
  BY <1>4, <1>5, <1>6, <1>9, <1>10 DEF Grants!Next

LEMMA ChildRefines ==
    ASSUME IInv, NEW id, NEW pi, NEW past, Makes(id, pi, past),
           id \in GenuineIds', ChildOf(pi, past)
    PROVE  Grants!Next
<1> TypeOK /\ Sources /\ LevelWithinCap
  BY DEF IInv
<1> PICK parent \in GenuineIds :
        /\ past = anc[parent] \cup {parent}
        /\ proof[parent].pi.digest = pi.digest
        /\ Follows(pi, proof[parent].pi)
  BY DEF ChildOf
<1>1. pi \in Statement
  BY DEF Makes
<1>2. /\ parent \in DelId
      /\ Granted[parent] = GrantOf(proof[parent])
      /\ Granted[parent] # NoGrant
      /\ Beneath[parent] = anc[parent]
  BY GenuineIsGrant
<1>3. /\ proof[parent].pi.level \in Nat \ {0}
      /\ proof[parent].pi.maxLevel \in 1 .. LEVEL_UNBOUNDED
      /\ pi.level = proof[parent].pi.level + 1
      /\ pi.level <= pi.maxLevel
      /\ pi.maxLevel \in Nat
      /\ pi.maxLevel <= proof[parent].pi.maxLevel
  BY <1>1, ChildLevel
<1>4. /\ pi.maxLevel \in 1 .. LEVEL_UNBOUNDED
      /\ pi.maxLevel \in
            proof[parent].pi.level + 1 .. proof[parent].pi.maxLevel
  BY <1>3, FieldAssumption DEF LEVEL_UNBOUNDED
<1>5. /\ SignedReadings' = SignedReadings
      /\ id \in DelId
      /\ Granted[id] = NoGrant
      /\ Granted' = [Granted EXCEPT ![id] =
                        GrantOf([circuit |-> RDel, pi |-> pi])]
      /\ Beneath' = [Beneath EXCEPT ![id] = past]
  BY MakesGrants, ZenonT(30)
<1> DEFINE g == Granted[parent]
<1>6. /\ g.level = proof[parent].pi.level
      /\ g.cap = proof[parent].pi.maxLevel
      /\ g.shown = proof[parent].pi.com
      /\ g.issuer = proof[parent].pi.issuer
      /\ g.type = proof[parent].pi.digest
  BY <1>2 DEF GrantOf
<1>7. GrantOf([circuit |-> RDel, pi |-> pi])
        = [ issuer |-> g.issuer, type |-> g.type, shown |-> pi.com,
            level |-> g.level + 1, cap |-> pi.maxLevel ]
  BY <1>3, <1>6 DEF GrantOf, Follows
<1>8. Grants!Redacts(pi.com, g.shown)
  BY <1>1, <1>6, FollowsRedacts
<1>9. /\ Granted' = [Granted EXCEPT ![id] =
             [ issuer |-> g.issuer, type |-> g.type, shown |-> pi.com,
               level |-> g.level + 1, cap |-> pi.maxLevel ]]
      /\ Beneath' = [Beneath EXCEPT ![id] = Beneath[parent] \cup {parent}]
  BY <1>2, <1>5, <1>7
<1>10. Granted[parent] # NoGrant /\ pi.maxLevel \in g.level + 1 .. g.cap
  BY <1>2, <1>4, <1>6
<1>11. Grants!Extend(id, parent, pi.com, pi.maxLevel)
  BY <1>5, <1>8, <1>9, <1>10 DEF Grants!Extend, Grants!New
<1>12. pi.com \in [Slot -> Leaf]
  BY <1>1 DEF Statement, Commitment
<1> QED
  BY <1>2, <1>4, <1>5, <1>11, <1>12 DEF Grants!Next

LEMMA NextRefines ==
    ASSUME IInv, IInv', Next
    PROVE  Grants!Next \/ UNCHANGED Grants!vars
<1>1. CASE Prepares
  BY <1>1, PreparesRefines DEF IInv, Grants!Next
<1>2. ASSUME NEW id, NEW pi, NEW past, Makes(id, pi, past)
      PROVE  Grants!Next \/ UNCHANGED Grants!vars
  <2> TypeOK /\ Sources
    BY DEF IInv
  <2>1. CASE id \notin GenuineIds'
    BY <1>2, <2>1, MakesGrants DEF Grants!vars
  <2>2. CASE id \in GenuineIds'
    <3>1. pi.vk = RDel /\ pi.digest \in Type
      BY <1>2, <2>2, GenuineAfter
    <3>2. RootOf(pi, past) \/ ChildOf(pi, past)
      BY <1>2, <3>1, GenuineStep
    <3> QED
      BY <1>2, <2>2, <3>2, RootRefines, ChildRefines
  <2> QED
    BY <2>1, <2>2
<1> QED
  BY <1>1, <1>2, NextMakes DEF IInv

\* Every behaviour of the provers is a behaviour of the grant tree.
THEOREM Refinement == Spec => ImplementsGrants
<1>1. Init => Grants!Init
  BY DEF Init, Grants!Init, SignedReadings, Granted, Beneath, GenuineIds, Made
<1>2. ASSUME IInv, IInv', [Next]_vars
      PROVE  [Grants!Next]_Grants!vars
  <2>1. CASE Next
    BY <1>2, <2>1, NextRefines
  <2>2. CASE UNCHANGED vars
    BY <2>2 DEF vars, Grants!vars, SignedReadings, Granted, Beneath,
                GenuineIds, Genuine, Made, ReadingsOf
  <2> QED
    BY <1>2, <2>1, <2>2
<1> QED
  BY <1>1, <1>2, IInvInit, IInvNext, PTL
     DEF Spec, ImplementsGrants, Grants!Spec

-----------------------------------------------------------------------------
(* Presentations.                                                          *)

\* A presentation is about a proof anchored on R_Del, and shows no more.
Verified(p) ==
    /\ p.of \in Made
    /\ proof[p.of].pi.vk = RDel
    /\ p.pi.issuer = proof[p.of].pi.issuer
    /\ p.pi.digest = proof[p.of].pi.digest
    /\ RedactionOf(p.pi.disclosed, proof[p.of].pi.com)

\* So are the witnesses that are kept to be proved later.
AllVerified == \A p \in pres \cup partitions : Verified(p)

-----------------------------------------------------------------------------
(* Delegation under presentations.                                         *)

LEMMA PresImplementsDelegation == PresSpec => Spec
<1>1. PresInit => Init
  BY DEF PresInit
<1>2. [PresNext]_presVars => [Next]_vars
  BY DEF PresNext, Present, Precompute, PresentCrafted, ProvePresentation,
         PrecomputePartition, ProvePresentationCached, CraftPresentation,
         presVars
<1> QED
  BY <1>1, <1>2, PTL DEF PresSpec, Spec

\* A proof, once made, stays as it was made.
LEMMA ProofsStay ==
    ASSUME IInv, [Next]_vars
    PROVE  /\ Made \subseteq Made'
           /\ \A id \in Made : proof'[id] = proof[id]
<1>1. CASE UNCHANGED vars
  BY <1>1 DEF vars, Made
<1>2. CASE Prepares
  BY <1>2 DEF Prepares, Made
<1>3. ASSUME NEW id, NEW pi, NEW past, Makes(id, pi, past)
      PROVE  /\ Made \subseteq Made'
             /\ \A a \in Made : proof'[a] = proof[a]
  BY <1>3, GenuineAfter, MakesType DEF IInv
<1> QED
  BY <1>1, <1>2, <1>3, NextMakes DEF IInv

LEMMA VerifiedStays ==
    ASSUME IInv, [Next]_vars, NEW p, Verified(p)
    PROVE  Verified(p)'
BY ProofsStay DEF Verified, RedactionOf

-----------------------------------------------------------------------------
(* The circuit ties what it discloses to the proof it verifies.            *)

LEMMA ConstraintsVerify ==
    ASSUME TypeOK, NEW pi, NEW id \in Made, NEW leaves, NEW reveal,
           PresentationConstraints(pi, proof[id], leaves, reveal)
    PROVE  /\ Verified([pi |-> pi, of |-> id])
           /\ pi.disclosed \in Commitment
           /\ pi.issuer \in Issuer
           /\ pi.digest \in Circuit
<1>1. proof[id].pi \in Statement
  BY DEF TypeOK, Made, Proof
<1>2. /\ leaves = proof[id].pi.com
      /\ leaves \in Commitment
      /\ pi.disclosed = MaskLeaves(leaves, reveal)
  BY <1>1 DEF PresentationConstraints, Statement
<1>3. /\ pi.disclosed \in Commitment
      /\ RedactionOf(pi.disclosed, proof[id].pi.com)
  BY <1>2, MaskLeavesRedact
<1> QED
  BY <1>1, <1>3 DEF PresentationConstraints, Statement, Verified

\* What witness generation accepts is a statement about that proof.
LEMMA WitnessVerifies ==
    ASSUME TypeOK, NEW id \in Made, NEW attrs, NEW reveal, NEW nonce \in Nonce,
           WitnessExists(proof[id], attrs, reveal, nonce)
    PROVE  LET p == [ pi |-> StatementOf(proof[id], attrs, reveal, nonce),
                      of |-> id ]
           IN  p \in Presented /\ Verified(p)
<1> DEFINE pi == StatementOf(proof[id], attrs, reveal, nonce)
<1>1. PresentationConstraints(pi, proof[id], MerkleRoot(attrs), reveal)
  BY DEF WitnessExists
<1>2. /\ Verified([pi |-> pi, of |-> id])
      /\ pi.disclosed \in Commitment
      /\ pi.issuer \in Issuer
      /\ pi.digest \in Circuit
  BY <1>1, ConstraintsVerify
<1>3. pi \in PresentationStatement
  BY <1>2 DEF StatementOf, PresentationStatement
<1> QED
  BY <1>2, <1>3 DEF Presented, Made

\* A presenter who chooses statement and witness still needs R_Del's proof.
LEMMA CraftedVerifies ==
    ASSUME TypeOK, NEW pi \in PresAttempt, NEW reveal \in Mask,
           NEW source \in InnerProofs,
           CraftPresentation(pi, source[1], source[2], reveal)
    PROVE  LET p == [pi |-> pi, of |-> source[2]]
           IN  p \in Presented /\ Verified(p)
<1>1. PresentationConstraints(pi, source[1], source[1].pi.com, reveal)
  BY DEF CraftPresentation
<1>2. source[1].circuit = RDel
  BY <1>1 DEF PresentationConstraints, Verify
<1>3. source \notin LookalikeProofs \X {NoProof}
  BY <1>2, CircuitAssumption DEF LookalikeProofs
<1>4. PICK id \in Made : source = <<proof[id], id>>
  BY <1>3 DEF InnerProofs
<1>5. Verified([pi |-> pi, of |-> id])
  BY <1>1, <1>4, ConstraintsVerify
<1>6. pi \in PresentationStatement
  BY PresentationAssumption
<1> QED
  BY <1>4, <1>5, <1>6 DEF Presented, Made

-----------------------------------------------------------------------------
(* The invariant.                                                          *)

PresInv ==
    /\ pres \subseteq Presented
    /\ partitions \subseteq Presented
    /\ AllVerified

LEMMA PresInvNext ==
    ASSUME IInv, PresInv, [PresNext]_presVars
    PROVE  PresInv'
<1> TypeOK
  BY DEF IInv
<1>1. CASE UNCHANGED <<pres, partitions>> /\ [Next]_vars
  BY <1>1, VerifiedStays DEF PresInv, AllVerified
<1>2. ASSUME NEW p, p \in Presented, Verified(p), UNCHANGED vars,
             pres' \subseteq pres \cup {p},
             partitions' \subseteq partitions \cup {p}
      PROVE  PresInv'
  BY <1>2, VerifiedStays DEF PresInv, AllVerified
<1>3. CASE Present
  <2>1. ASSUME NEW id \in Made, NEW attrs, NEW reveal, NEW nonce \in Nonce,
               ProvePresentation(id, attrs, reveal, nonce)
        PROVE  PresInv'
    BY <1>2, <2>1, WitnessVerifies DEF ProvePresentation
  <2>2. ASSUME NEW partition \in partitions,
               ProvePresentationCached(partition)
        PROVE  PresInv'
    BY <1>2, <2>2 DEF ProvePresentationCached, PresInv, AllVerified
  <2> QED
    BY <1>3, <2>1, <2>2 DEF Present
<1>4. CASE Precompute
  <2>1. ASSUME NEW id \in Made, NEW attrs, NEW reveal, NEW nonce \in Nonce,
               PrecomputePartition(id, attrs, reveal, nonce)
        PROVE  PresInv'
    BY <1>2, <2>1, WitnessVerifies DEF PrecomputePartition
  <2> QED
    BY <1>4, <2>1 DEF Precompute
<1>5. CASE PresentCrafted
  <2>1. ASSUME NEW pi \in PresAttempt, NEW reveal \in Mask,
               NEW source \in InnerProofs,
               CraftPresentation(pi, source[1], source[2], reveal)
        PROVE  PresInv'
    BY <1>2, <2>1, CraftedVerifies DEF CraftPresentation
  <2> QED
    BY <1>5, <2>1 DEF PresentCrafted
<1> QED
  BY <1>1, <1>3, <1>4, <1>5 DEF PresNext, presVars, vars

LEMMA PresInvariant == PresSpec => [](IInv /\ PresInv)
<1>1. PresInit => IInv /\ PresInv
  BY IInvInit DEF PresInit, PresInv, AllVerified
<1>2. IInv /\ PresInv /\ [PresNext]_presVars => IInv' /\ PresInv'
  <2>1. [PresNext]_presVars => [Next]_vars
    BY DEF PresNext, Present, Precompute, PresentCrafted, ProvePresentation,
           PrecomputePartition, ProvePresentationCached, CraftPresentation,
           presVars
  <2> QED
    BY <2>1, IInvNext, PresInvNext
<1> QED
  BY <1>1, <1>2, PTL DEF PresSpec

\* Every field of the presentation state holds what the code keeps there.
THEOREM PresTypeCorrect == PresSpec => []PresTypeOK
<1>1. IInv /\ PresInv => PresTypeOK
  BY DEF IInv, PresInv, PresTypeOK
<1> QED
  BY <1>1, PresInvariant, PTL

\* An accepted presentation is about a genuine proof.
LEMMA AcceptedIsGenuine ==
    ASSUME IInv, PresInv, NEW p \in Accepted
    PROVE  p.of \in GenuineIds /\ Verified(p)
BY DEF Accepted, PresInv, AllVerified, Verified, GenuineIds, Genuine,
       IInv, Sources, MadeByRDel

\* End to end: what a verifier accepts, an issuer signed.
THEOREM DisclosureHolds == PresSpec => []DisclosureIsSigned
<1>1. IInv /\ PresInv /\ ClaimsAreSigned => DisclosureIsSigned
  <2> SUFFICES ASSUME IInv, PresInv, ClaimsAreSigned, NEW p \in Accepted
               PROVE  \E c \in creds :
                        /\ p.pi.issuer = c.issuer
                        /\ \E claims \in Readings(p.pi.digest, c) :
                              RedactionOf(p.pi.disclosed, BaseLeaves(claims))
    BY DEF DisclosureIsSigned
  <2>1. p.of \in GenuineIds /\ Verified(p)
    BY AcceptedIsGenuine
  <2>2. PICK c \in creds : AnchoredIn(proof[p.of], c)
    BY <2>1 DEF ClaimsAreSigned
  <2>3. PICK claims \in Readings(p.pi.digest, c) :
          RedactionOf(proof[p.of].pi.com, BaseLeaves(claims))
    BY <2>1, <2>2 DEF AnchoredIn, Verified
  <2>4. RedactionOf(p.pi.disclosed, BaseLeaves(claims))
    BY <2>1, <2>3, RedactionTransitive DEF Verified
  <2> QED
    BY <2>1, <2>2, <2>4 DEF AnchoredIn, Verified
<1> QED
  BY <1>1, PresInvariant, PresImplementsDelegation, Provenance, PTL

\* A slot redacted anywhere along the chain is never disclosed.
THEOREM RedactionHolds == PresSpec => []RedactedStaysHidden
<1>1. IInv /\ PresInv /\ AncestorsBind => RedactedStaysHidden
  <2> SUFFICES ASSUME IInv, PresInv, AncestorsBind, NEW p \in Accepted
               PROVE  /\ p.of \in Made
                      /\ \A a \in anc[p.of] \cup {p.of} :
                            RedactionOf(p.pi.disclosed, proof[a].pi.com)
    BY DEF RedactedStaysHidden
  <2>1. p.of \in GenuineIds /\ Verified(p)
    BY AcceptedIsGenuine
  <2>2. ASSUME NEW a \in anc[p.of]
        PROVE  RedactionOf(p.pi.disclosed, proof[a].pi.com)
    <3>1. RedactionOf(proof[p.of].pi.com, proof[a].pi.com)
      BY <2>1 DEF AncestorsBind, Descends
    <3> QED
      BY <2>1, <3>1, RedactionTransitive DEF Verified
  <2> QED
    BY <2>1, <2>2 DEF Verified
<1> QED
  BY <1>1, PresInvariant, PresImplementsDelegation, ChainsOnlyTighten, PTL

\* Padded to the tree, a list that opens its proof is accepted by R_Pres.
LEMMA OpeningListPresents ==
    ASSUME NEW id \in GenuineIds, NEW list \in Seq(Attribute),
           Opens(list, proof[id]), NEW reveal \in Mask, NEW nonce \in Nonce
    PROVE  WitnessExists(proof[id], PadAttributes(list), reveal, nonce)
<1>1. PadAttributes(list) \in [1 .. NumMax -> Attribute]
  BY PadAttributesType DEF PadAttributes, Slot
<1>2. reveal \in [1 .. NumMax -> BOOLEAN]
  BY DEF Mask, Slot
<1>3. FitsCircuit(PadAttributes(list), reveal)
  BY <1>1, <1>2, AttributeAssumption DEF FitsCircuit
<1>4. MerkleRoot(PadAttributes(list)) = proof[id].pi.com
  BY DEF Opens
<1>5. PresentationConstraints(
          StatementOf(proof[id], PadAttributes(list), reveal, nonce),
          proof[id], MerkleRoot(PadAttributes(list)), reveal)
  BY <1>4 DEF PresentationConstraints, StatementOf, GenuineIds, Genuine, Verify
<1> QED
  BY <1>3, <1>5 DEF WitnessExists

\* Whoever was handed a proof and a list can answer any challenge.
THEOREM HoldersCanPresent == PresSpec => []HolderCanPresent
<1>1. IInv /\ HandoverOpens => HolderCanPresent
  <2> SUFFICES ASSUME IInv, HandoverOpens,
                      NEW id \in GenuineIds, held[id] # NoList,
                      NEW reveal \in Mask, NEW nonce \in Nonce
               PROVE  WitnessExists(proof[id], PadAttributes(held[id]),
                                    reveal, nonce)
    BY DEF HolderCanPresent
  <2>1. id \in Made
    BY DEF GenuineIds
  <2>2. held[id] \in Seq(Attribute)
    BY <2>1 DEF IInv, TypeOK, Made
  <2>3. Opens(held[id], proof[id])
    BY <2>1 DEF HandoverOpens, Opens
  <2> QED
    BY <2>2, <2>3, OpeningListPresents
<1> QED
  BY <1>1, PresInvariant, PresImplementsDelegation, ListsOpenTheirProofs, PTL

=============================================================================
