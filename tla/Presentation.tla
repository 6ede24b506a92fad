---------------------------- MODULE Presentation ----------------------------
(***************************************************************************)
(* Holders present what they were handed: prove_presentation, the          *)
(* two-stage path through a precomputed partition witness, and any other   *)
(* witness R_Pres admits, on top of the delegation state machine.          *)
(***************************************************************************)
EXTENDS Delegation, FiniteSets

CONSTANTS
    MaxPres,       \* presentations made (a bound)
    MaxPartition,  \* partitions computed (a bound)
    PresAttempt    \* statements a prover tries on R_Pres itself

ASSUME PresentationAssumption ==
    /\ MaxPres \in Nat
    /\ MaxPartition \in Nat
    /\ PresAttempt \subseteq PresentationStatement

VARIABLES
    pres,       \* presentation proofs
    partitions  \* complete witnesses, kept to be proved later

presVars == <<vars, pres, partitions>>

\* A statement of R_Pres; of is history, the R_Del proof verified inside.
Presented == [pi: PresentationStatement, of: DelId \cup {NoProof}]

\* What the witness generators derive from the caller's arguments.
StatementOf(del, attrs, reveal, nonce) ==
    [ issuer |-> del.pi.issuer,
      disclosed |-> MaskLeaves(MerkleRoot(attrs), reveal),
      nonce |-> nonce, digest |-> del.pi.digest ]

\* build_presentation_witness refuses any length but num_max_attributes.
FitsCircuit(attrs, reveal) ==
    /\ Len(attrs) = NumMax
    /\ Len(reveal) = NumMax

\* Witness generation finds no contradiction in the caller's arguments.
WitnessExists(del, attrs, reveal, nonce) ==
    /\ FitsCircuit(attrs, reveal)
    /\ PresentationConstraints(StatementOf(del, attrs, reveal, nonce),
                               del, MerkleRoot(attrs), reveal)

-----------------------------------------------------------------------------

PresInit ==
    /\ Init
    /\ pres = {}
    /\ partitions = {}

\* prove_presentation
ProvePresentation(id, attrs, reveal, nonce) ==
    /\ WitnessExists(proof[id], attrs, reveal, nonce)
    /\ pres' = pres \cup
         {[pi |-> StatementOf(proof[id], attrs, reveal, nonce), of |-> id]}
    /\ UNCHANGED <<vars, partitions>>

\* precompute_presentation_partition: the nonce is part of what is kept.
PrecomputePartition(id, attrs, reveal, nonce) ==
    /\ WitnessExists(proof[id], attrs, reveal, nonce)
    /\ partitions' = partitions \cup
         {[pi |-> StatementOf(proof[id], attrs, reveal, nonce), of |-> id]}
    /\ UNCHANGED <<vars, pres>>

\* prove_presentation_cached, any number of times for one partition.
ProvePresentationCached(partition) ==
    /\ partition \in partitions
    /\ pres' = pres \cup {partition}
    /\ UNCHANGED <<vars, partitions>>

\* Any statement and witness, about any proof of R_Del's shape.
CraftPresentation(pi, del, of, reveal) ==
    /\ PresentationConstraints(pi, del, del.pi.com, reveal)
    /\ pres' = pres \cup {[pi |-> pi, of |-> of]}
    /\ UNCHANGED <<vars, partitions>>

-----------------------------------------------------------------------------

\* Lists a presenter passes: padded by the caller, or as they were given.
PresentableLists ==
    KnownLists \cup {PadAttributes(list) : list \in KnownLists}

Present ==
    /\ Cardinality(pres) < MaxPres
    /\ \/ \E id \in Made, attrs \in PresentableLists, reveal \in Bitmap,
             nonce \in Nonce : ProvePresentation(id, attrs, reveal, nonce)
       \/ \E partition \in partitions : ProvePresentationCached(partition)

Precompute ==
    /\ Cardinality(partitions) < MaxPartition
    /\ \E id \in Made, attrs \in PresentableLists, reveal \in Bitmap,
          nonce \in Nonce : PrecomputePartition(id, attrs, reveal, nonce)

\* Proofs anyone could put under R_Pres, with the identity of R_Del's own.
InnerProofs ==
    {<<proof[id], id>> : id \in Made} \cup (LookalikeProofs \X {NoProof})

PresentCrafted ==
    /\ Cardinality(pres) < MaxPres
    /\ \E pi \in PresAttempt, reveal \in Mask, source \in InnerProofs :
          CraftPresentation(pi, source[1], source[2], reveal)

PresNext ==
    \/ Next /\ UNCHANGED <<pres, partitions>>
    \/ Present
    \/ Precompute
    \/ PresentCrafted

PresSpec == PresInit /\ [][PresNext]_presVars

\* Every holder calls the library.
PresLibraryNext ==
    \/ LibraryNext /\ UNCHANGED <<pres, partitions>>
    \/ Present
    \/ Precompute

PresLibrarySpec == PresInit /\ [][PresLibraryNext]_presVars

-----------------------------------------------------------------------------
(* Properties.                                                             *)

\* Every field holds what the code keeps there.
PresTypeOK ==
    /\ TypeOK
    /\ pres \subseteq Presented
    /\ partitions \subseteq Presented

\* Presentations a verifier accepts: it knows the wrapper digest of the type.
Accepted == {p \in pres : p.pi.digest \in Type}

\* End to end.  A verifier that sees only the statement learns something its
\* issuer signed: the disclosed leaves sit in the slots where the credential
\* of that type has them, whatever chain and witness lies behind the proof.
DisclosureIsSigned ==
    \A p \in Accepted : \E c \in creds :
        /\ p.pi.issuer = c.issuer
        /\ \E claims \in Readings(p.pi.digest, c) :
              RedactionOf(p.pi.disclosed, BaseLeaves(claims))

\* A slot that any delegator along the chain redacted is never disclosed,
\* whatever the reveal mask says and whenever the witness was computed.
RedactedStaysHidden ==
    \A p \in Accepted :
        /\ p.of \in Made
        /\ \A a \in anc[p.of] \cup {p.of} :
              RedactionOf(p.pi.disclosed, proof[a].pi.com)

\* Whoever was handed a proof and a list can answer any challenge with any
\* choice of slots: padded to the tree, the list satisfies R_Pres.
HolderCanPresent ==
    \A id \in GenuineIds : held[id] # NoList =>
        \A reveal \in Mask, nonce \in Nonce :
            WitnessExists(proof[id], PadAttributes(held[id]), reveal, nonce)

=============================================================================
