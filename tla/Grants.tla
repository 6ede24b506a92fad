------------------------------- MODULE Grants -------------------------------
(***************************************************************************)
(* What the delegation pipeline promises, with no circuit in sight: signed *)
(* readings of credentials, and trees of grants below them.  A grant shows *)
(* part of what its parent shows, one level deeper, under a cap no looser. *)
(***************************************************************************)
EXTENDS Integers

CONSTANTS
    Issuer, Type, Slot, Leaf, ZeroLeaf,
    GrantId,     \* identities of grants
    NoGrant,     \* the identity is not used yet
    Unbounded    \* the cap of a credential nobody has capped

VARIABLES
    readings,    \* what issuers have signed, read as some credential type
    grant,       \* the grants
    below        \* history: the grants each grant was derived from

vars == <<readings, grant, below>>

Reading == [issuer: Issuer, type: Type, shown: [Slot -> Leaf]]

Redacts(shown, from) ==
    /\ shown \in [Slot -> Leaf]
    /\ \A i \in Slot : shown[i] \in {from[i], ZeroLeaf}

Init ==
    /\ readings = {}
    /\ grant = [id \in GrantId |-> NoGrant]
    /\ below = [id \in GrantId |-> {}]

\* Issuers sign more.
Sign ==
    /\ readings \subseteq readings'
    /\ \A r \in readings' : r \in Reading
    /\ UNCHANGED <<grant, below>>

New(id, parent, level, shown, cap, ancestors) ==
    /\ grant[id] = NoGrant
    /\ Redacts(shown, parent.shown)
    /\ grant' = [grant EXCEPT ![id] =
                   [ issuer |-> parent.issuer, type |-> parent.type,
                     shown |-> shown, level |-> level, cap |-> cap ]]
    /\ below' = [below EXCEPT ![id] = ancestors]
    /\ UNCHANGED readings

Root(id, r, shown, cap) ==
    /\ cap \in 1 .. Unbounded
    /\ New(id, r, 1, shown, cap, {})

Extend(id, parent, shown, cap) ==
    /\ grant[parent] # NoGrant
    /\ cap \in grant[parent].level + 1 .. grant[parent].cap
    /\ New(id, grant[parent], grant[parent].level + 1, shown, cap,
           below[parent] \cup {parent})

Next ==
    \/ Sign
    \/ \E id \in GrantId, shown \in [Slot -> Leaf], cap \in 1 .. Unbounded :
          \/ \E r \in readings : Root(id, r, shown, cap)
          \/ \E parent \in GrantId : Extend(id, parent, shown, cap)

Spec == Init /\ [][Next]_vars

=============================================================================
