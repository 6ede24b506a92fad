------------------------ MODULE DelegationRefinement ------------------------
(***************************************************************************)
(* The delegation pipeline implements Grants.  A genuine R_Del proof is a  *)
(* grant, its public inputs what the grant says; every other proof is no   *)
(* grant at all.                                                           *)
(***************************************************************************)
EXTENDS Delegation

CONSTANT NoGrant

ASSUME GrantAssumption ==
    NoGrant \notin [ issuer: Issuer, type: Type, shown: Commitment,
                     level: Nat, cap: Nat ]

\* How the signed credentials read, as each type that can read them.
ReadingsOf(t, c) ==
    {[issuer |-> c.issuer, type |-> t, shown |-> BaseLeaves(claims)] :
        claims \in Readings(t, c)}

SignedReadings == UNION {ReadingsOf(x[1], x[2]) : x \in Type \X creds}

GrantOf(p) ==
    [ issuer |-> p.pi.issuer, type |-> p.pi.digest, shown |-> p.pi.com,
      level |-> p.pi.level, cap |-> p.pi.maxLevel ]

Granted ==
    [id \in DelId |-> IF id \in GenuineIds THEN GrantOf(proof[id]) ELSE NoGrant]

Beneath == [id \in DelId |-> IF id \in GenuineIds THEN anc[id] ELSE {}]

Grants == INSTANCE Grants WITH
    GrantId <- DelId,
    Unbounded <- LEVEL_UNBOUNDED,
    readings <- SignedReadings,
    grant <- Granted,
    below <- Beneath

\* Every behaviour of the provers, whatever witnesses they find, is a
\* behaviour of the grant tree: proofs that are no grants come and go unseen.
ImplementsGrants == Grants!Spec

=============================================================================
