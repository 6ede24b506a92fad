---------------------------- MODULE PublicInputs ----------------------------
(***************************************************************************)
(* The data every circuit of the pipeline R_Base -> R_Wrap -> R_Del ->     *)
(* R_Pres exchanges: attributes, commitments, field arithmetic on levels,  *)
(* and proofs with their public inputs.                                    *)
(*                                                                         *)
(* Hashes are collision free: a leaf digest is a value of its own for each *)
(* attribute, and a Merkle commitment is the vector of leaves it commits   *)
(* to.  A circuit is known by its verifier key, and its digest is the      *)
(* circuit.                                                                *)
(***************************************************************************)
EXTENDS Integers, Sequences

CONSTANTS
    Issuer,        \* ECDSA public keys that sign credentials
    Value,         \* real attributes: padded key || padded value, as bytes
    EmptyMarker,   \* the sentinel attribute of a redacted or padding slot
    Leaf,          \* four field elements: a leaf of the attribute tree
    ZeroLeaf,      \* the canonical empty leaf, four zeros
    Digest,        \* hash of a real attribute, Value -> Leaf
    NumMax,        \* num_max_attributes: number of leaves of the tree
    FieldOrder,    \* the modulus of the proof system's field
    LevelBound,    \* 2^MAX_LEVEL_BITS
    Type,          \* credential types; each has an R_Base and an R_Wrap
    RDel,          \* the delegation circuit
    Lookalike,     \* other circuits built to R_Del's CommonCircuitData
    DummyCircuit   \* the constraint-free one that plonky2 builds

ASSUME AttributeAssumption ==
    /\ EmptyMarker \notin Value
    /\ ZeroLeaf \in Leaf
    /\ Digest \in [Value -> Leaf \ {ZeroLeaf}]
    /\ \A v, w \in Value : Digest[v] = Digest[w] => v = w
    /\ NumMax \in Nat \ {0}

\* A Merkle tree is full (compute_merkle_root, the circuits' builders).
ASSUME TreeAssumption == \E k \in 0 .. NumMax : NumMax = 2^k

\* Two level-sized values and their sum stay below the modulus.
ASSUME FieldAssumption ==
    /\ FieldOrder \in Nat
    /\ LevelBound \in Nat
    /\ 1 < LevelBound
    /\ 2 * LevelBound < FieldOrder

ASSUME CircuitAssumption ==
    /\ RDel \notin Type
    /\ RDel \notin Lookalike
    /\ Type \cap Lookalike = {}
    /\ DummyCircuit \in Lookalike

-----------------------------------------------------------------------------
(* Attributes, masks and commitments.                                      *)

Slot == 1 .. NumMax

Attribute == Value \cup {EmptyMarker}

\* attribute_to_hashed_leaf: the empty marker is not hashed.
HashedLeaf(a) == IF a = EmptyMarker THEN ZeroLeaf ELSE Digest[a]

\* A Merkle root over NumMax leaves.
Commitment == [Slot -> Leaf]

MerkleRoot(attrs) == [i \in Slot |-> HashedLeaf(attrs[i])]

\* pad_attributes; it refuses an empty list and one longer than NumMax.
Paddable(list) == Len(list) \in Slot

PadAttributes(list) ==
    [i \in Slot |-> IF i <= Len(list) THEN list[i] ELSE EmptyMarker]

\* Vec::resize(num_max_attributes, false) on a bitmap: it pads a short one
\* and cuts a long one.
ResizeBitmap(bitmap) ==
    [i \in Slot |-> IF i <= Len(bitmap) THEN bitmap[i] ELSE FALSE]

Mask == [Slot -> BOOLEAN]

\* mask_attributes; it refuses a bitmap of another length than the list.
Maskable(list, bitmap) == Len(list) = Len(bitmap)

MaskAttributes(list, bitmap) ==
    [i \in DOMAIN list |-> IF bitmap[i] THEN list[i] ELSE EmptyMarker]

\* Mutation of MaskLeaves: an unrevealed slot publishes the marker itself.
MaskWithMarker(leaves, mask) ==
    [i \in Slot |-> IF mask[i] THEN leaves[i] ELSE EmptyMarker]

\* The in-circuit counterpart: select(bit, leaf, zero leaf).
MaskLeaves(leaves, mask) ==
    [i \in Slot |-> IF mask[i] THEN leaves[i] ELSE ZeroLeaf]

-----------------------------------------------------------------------------
(* Field arithmetic on canonical representatives.                          *)

Field == 0 .. FieldOrder - 1

FieldAdd(a, b) ==
    IF a + b < FieldOrder THEN a + b ELSE a + b - FieldOrder

FieldSub(a, b) == IF b <= a THEN a - b ELSE a - b + FieldOrder

\* range_check(x, MAX_LEVEL_BITS)
InLevelRange(x) == x < LevelBound

LEVEL_UNBOUNDED == LevelBound - 1

-----------------------------------------------------------------------------
(* Circuits, public inputs and proofs.                                     *)

\* R_Wrap of a type is named by the type.
Circuit == Type \cup {RDel} \cup Lookalike

\* Public inputs of R_Base: the layout of BasePublicInputLayout.
BaseStatement ==
    [ issuer:   Issuer,       \* issuer_pk limbs
      com:      Commitment,   \* Merkle commitment over the attributes
      level:    Field,        \* delegation level L
      maxLevel: Field ]       \* depth cap, the last base public input

\* Public inputs of R_Wrap, R_Del and every circuit of their shape.
Statement ==
    [ issuer:   Issuer,
      com:      Commitment,
      level:    Field,
      maxLevel: Field,
      digest:   Circuit,      \* wrapper_digest_pis
      vk:       Circuit ]     \* verifier_data_target

\* A proof that verifies under the key of circuit, and of no other.
Proof == [circuit: Circuit, pi: Statement]

Verify(p, vk) == p.circuit = vk

=============================================================================
