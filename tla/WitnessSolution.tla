--------------------------- MODULE WitnessSolution ---------------------------
(***************************************************************************)
(* What generate_partial_witness promises: any generator whose             *)
(* dependencies are known may fire, in any order; it returns a witness     *)
(* exactly when every generator fired without a contradiction, and an      *)
(* error when two values meet or no generator left can fire.               *)
(***************************************************************************)
EXTENDS Generators

VARIABLES circuit, known, fired, outcome

vars == <<circuit, known, fired, outcome>>

Gens == DOMAIN circuit.gens

\* Giving the targets ts[i] the values vs[i]; connected targets share theirs.
Consistent(ts, vs) ==
    \A i \in DOMAIN ts : \A u \in Connected[circuit][ts[i]] :
        /\ u \in DOMAIN known => known[u] = vs[i]
        /\ \A j \in DOMAIN ts : ts[j] = u => vs[j] = vs[i]

Learnt(ts, vs) ==
    [u \in DOMAIN known \cup UNION {Connected[circuit][ts[i]] : i \in DOMAIN ts} |->
        IF u \in DOMAIN known THEN known[u]
        ELSE vs[CHOOSE i \in DOMAIN ts : u \in Connected[circuit][ts[i]]]]

\* The outputs generator g may produce now.
Outputs(g) ==
    LET deps == circuit.gens[g].deps
    IN  IF Targets(deps) \subseteq DOMAIN known
        THEN RunOnce(circuit.gens[g], [i \in DOMAIN deps |-> known[deps[i]]])
        ELSE {}

Init ==
    /\ circuit \in Circuit
    /\ known = <<>>
    /\ fired = {}
    /\ outcome = "start"

SetInputs ==
    LET ts == [t \in DOMAIN circuit.inputs |-> t]
    IN  /\ outcome = "start"
        /\ IF Consistent(ts, circuit.inputs)
           THEN outcome' = "running" /\ known' = Learnt(ts, circuit.inputs)
           ELSE outcome' = "err" /\ UNCHANGED known
        /\ UNCHANGED <<circuit, fired>>

Fire(g) ==
    /\ outcome = "running" /\ g \notin fired
    /\ \E out \in Outputs(g) :
         /\ Consistent(circuit.gens[g].outs, out)
         /\ known' = Learnt(circuit.gens[g].outs, out)
    /\ fired' = fired \cup {g}
    /\ UNCHANGED <<circuit, outcome>>

Contradict(g) ==
    /\ outcome = "running" /\ g \notin fired
    /\ \E out \in Outputs(g) : ~Consistent(circuit.gens[g].outs, out)
    /\ outcome' = "err"
    /\ UNCHANGED <<circuit, known, fired>>

Finish ==
    /\ outcome = "running"
    /\ \A g \in Gens \ fired : Outputs(g) = {}
    /\ outcome' = IF fired = Gens THEN "ok" ELSE "err"
    /\ UNCHANGED <<circuit, known, fired>>

Next == SetInputs \/ Finish \/ \E g \in Gens : Fire(g) \/ Contradict(g)

Spec == Init /\ [][Next]_vars /\ WF_vars(Next)

===============================================================================
