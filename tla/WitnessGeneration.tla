-------------------------- MODULE WitnessGeneration --------------------------
(***************************************************************************)
(* How plonky2 fills a witness.  When the circuit is built, a disjoint-set *)
(* forest merges the targets its copy constraints connect; when it is      *)
(* proved, generators are run until none makes progress, and a generator   *)
(* is queued again only when a target it watches is given its first value. *)
(* The order within a pass is left open: a queue is how many times it      *)
(* holds each generator.                                                   *)
(***************************************************************************)
EXTENDS Generators

VARIABLES
    circuit,    \* the circuit built and proved
    parents,    \* Forest.parents, then representative_map
    merged,     \* copy constraints merged so far
    pc,         \* "merge", "inputs", "run", "ok" or "err"
    values,     \* PartitionWitness.values, on the representatives that have one
    pending,    \* pending_generator_indices, what is left of this pass
    next,       \* next_pending_generator_indices
    expired,    \* generators that finished
    remaining   \* remaining_generators

vars == <<circuit, parents, merged, pc, values, pending, next, expired, remaining>>

Gens == DOMAIN circuit.gens
NoneQueued == [g \in Gens |-> 0]

-----------------------------------------------------------------------------
(* The forest.                                                             *)

\* Targets on the way from x to its representative.
Chain(p, x) ==
    LET up[k \in 0 .. Cardinality(Target)] == IF k = 0 THEN x ELSE p[up[k - 1]]
    IN  {up[k] : k \in DOMAIN up}

Root(p, x) == CHOOSE r \in Chain(p, x) : p[r] = r

\* find: every target on the way now points to the representative.
Find(p, x) == [y \in DOMAIN p |-> IF y \in Chain(p, x) THEN Root(p, x) ELSE p[y]]

\* Mutation of MergeSets: the target is hung below x, not its representative.
MergeTargets(p, x, y) == [p EXCEPT ![y] = Root(p, x)]

\* merge, including the case where both have one representative
MergeSets(p, x, y) == [Find(Find(p, x), y) EXCEPT ![Root(p, y)] = Root(p, x)]

Compressed(p) == [y \in DOMAIN p |-> Root(p, y)]

-----------------------------------------------------------------------------
(* Setting values.                                                         *)

\* Mutation of Agree: a value already set is not compared.
AgreeAmongThemselves(ts, vs) ==
    \A i, j \in DOMAIN ts : parents[ts[i]] = parents[ts[j]] => vs[i] = vs[j]

\* set_target_returning_rep succeeds for every ts[i] given vs[i].
Agree(ts, vs) ==
    \A i \in DOMAIN ts :
        /\ parents[ts[i]] \in DOMAIN values => values[parents[ts[i]]] = vs[i]
        /\ \A j \in DOMAIN ts : parents[ts[i]] = parents[ts[j]] => vs[i] = vs[j]

\* The representatives that have a value only now.
NewReps(ts) == {parents[ts[i]] : i \in DOMAIN ts} \ DOMAIN values

SetTargets(ts, vs) ==
    [r \in DOMAIN values \cup NewReps(ts) |->
        IF r \in DOMAIN values THEN values[r]
        ELSE vs[CHOOSE i \in DOMAIN ts : parents[ts[i]] = r]]

\* contains_all
Ready(g) == \A i \in DOMAIN circuit.gens[g].deps :
                parents[circuit.gens[g].deps[i]] \in DOMAIN values

Outputs(g) ==
    RunOnce(circuit.gens[g],
            [i \in DOMAIN circuit.gens[g].deps |-> values[parents[circuit.gens[g].deps[i]]]])

\* Mutation of Watches: the index is by target, not by representative.
WatchesTarget(g, r) == r \in Targets(circuit.gens[g].deps)

\* generator_indices_by_watches[r] holds g.
Watches(g, r) == \E i \in DOMAIN circuit.gens[g].deps : parents[circuit.gens[g].deps[i]] = r

-----------------------------------------------------------------------------

\* Mutation of Queued: generators with dependencies wait for a watched target.
QueuedIfFree == [g \in Gens |-> IF circuit.gens[g].deps = <<>> THEN 1 ELSE 0]

\* "Initially, all generators are queued."
Queued == [g \in Gens |-> 1]

Init ==
    /\ circuit \in Circuit
    /\ parents = [t \in Target |-> t]
    /\ merged = 0
    /\ pc = "merge"
    /\ values = <<>>
    /\ pending = Queued
    /\ next = NoneQueued
    /\ expired = {}
    /\ remaining = Len(circuit.gens)

Merge ==
    /\ pc = "merge" /\ merged < Len(circuit.copies)
    /\ merged' = merged + 1
    /\ parents' = MergeSets(parents, circuit.copies[merged + 1][1],
                                     circuit.copies[merged + 1][2])
    /\ UNCHANGED <<circuit, pc, values, pending, next, expired, remaining>>

CompressPaths ==
    /\ pc = "merge" /\ merged = Len(circuit.copies)
    /\ parents' = Compressed(parents)
    /\ pc' = "inputs"
    /\ UNCHANGED <<circuit, merged, values, pending, next, expired, remaining>>

SetInputs ==
    LET ts == [t \in DOMAIN circuit.inputs |-> t]
    IN  /\ pc = "inputs"
        /\ IF Agree(ts, circuit.inputs)
           THEN pc' = "run" /\ values' = SetTargets(ts, circuit.inputs)
           ELSE pc' = "err" /\ UNCHANGED values
        /\ UNCHANGED <<circuit, parents, merged, pending, next, expired, remaining>>

Dequeue(g) ==
    /\ pc = "run" /\ pending[g] > 0
    /\ pending' = [pending EXCEPT ![g] = @ - 1]

\* A generator that expired is skipped; one whose dependencies are not all
\* set, or whose run_once returns an error, is dropped from the queue.
MayFinish(g) == g \notin expired /\ Ready(g) /\ Outputs(g) # {}

\* Mutation of Drop: a generator that did not finish is queued again.
DropRetrying(g) ==
    /\ Dequeue(g) /\ ~MayFinish(g)
    /\ next' = IF g \in expired THEN next ELSE [next EXCEPT ![g] = 1]
    /\ UNCHANGED <<circuit, parents, merged, pc, values, expired, remaining>>

Drop(g) ==
    /\ Dequeue(g) /\ ~MayFinish(g)
    /\ UNCHANGED <<circuit, parents, merged, pc, values, next, expired, remaining>>

\* Each new representative queues its unfinished watchers.
Wake(new, done) ==
    [h \in Gens |-> next[h] + IF h \in done THEN 0
                              ELSE Cardinality({r \in new : Watches(h, r)})]

Finish(g) ==
    LET ts == circuit.gens[g].outs
    IN  /\ Dequeue(g) /\ MayFinish(g)
        /\ \E out \in Outputs(g) :
             IF Agree(ts, out)
             THEN /\ values' = SetTargets(ts, out)
                  /\ expired' = expired \cup {g}
                  /\ remaining' = remaining - 1
                  /\ next' = Wake(NewReps(ts), expired \cup {g})
                  /\ UNCHANGED pc
             ELSE pc' = "err" /\ UNCHANGED <<values, expired, remaining, next>>
        /\ UNCHANGED <<circuit, parents, merged>>

EndPass ==
    /\ pc = "run" /\ pending = NoneQueued
    /\ IF next # NoneQueued THEN pending' = next /\ next' = NoneQueued /\ UNCHANGED pc
       ELSE pc' = (IF remaining = 0 THEN "ok" ELSE "err") /\ UNCHANGED <<pending, next>>
    /\ UNCHANGED <<circuit, parents, merged, values, expired, remaining>>

Next ==
    \/ Merge \/ CompressPaths \/ SetInputs \/ EndPass
    \/ \E g \in Gens : Drop(g) \/ Finish(g)

\* One thread runs the loop to its end.
Spec == Init /\ [][Next]_vars /\ WF_vars(Next)

-----------------------------------------------------------------------------
(* Properties.                                                             *)

\* Two targets share a representative, and so a value, exactly when copy
\* constraints connect them, whatever the order the constraints were made in
\* and however find shortened the paths on the way (Forest).
PartitionIsConnectivity ==
    pc # "merge" => \A t, u \in Target :
                        parents[t] = parents[u] <=> u \in Connected[circuit][t]

\* No wake-up is lost: a generator that could finish now, and has not, is in
\* what is left of this pass or in the next one.  Were it in neither, the loop
\* would end with "generators weren't run" on a witness that exists.
NoLostWakeup ==
    pc = "run" => \A g \in Gens : MayFinish(g) => pending[g] + next[g] > 0

\* What g computes from the witness is what the witness holds.
Holds(g) ==
    /\ Ready(g)
    /\ \E out \in Outputs(g) : \A i \in DOMAIN circuit.gens[g].outs :
         /\ parents[circuit.gens[g].outs[i]] \in DOMAIN values
         /\ values[parents[circuit.gens[g].outs[i]]] = out[i]

\* A generator that finished still holds of the witness: later values never
\* change what it read or wrote, so running it once is enough.  A witness that
\* is returned satisfies every generator.
FinishedHolds == \A g \in Gens : g \in expired \/ pc = "ok" => Holds(g)

\* The value of a target: that of its representative.
TargetValues ==
    [t \in {u \in Target : pc # "merge" /\ parents[u] \in DOMAIN values} |-> values[parents[t]]]

\* The loop implements the free choice of any generator that can fire: same
\* values, and an error only when values meet or nothing left can fire.
Solution == INSTANCE WitnessSolution WITH
    known <- TargetValues, fired <- expired,
    outcome <- CASE pc \in {"merge", "inputs"} -> "start"
                 [] pc = "run" -> "running"
                 [] OTHER -> pc

Solves == Solution!Spec

\* The loop ends, whatever the generators.
Termination == <>(pc \in {"ok", "err"})

\* prove_presentation_cached: "ZK blinders are sampled inside
\* prove_with_partition_witness", so the partition it starts from has none.
BlindersSampledWhenProving ==
    pc = "ok" => \A g \in Gens :
        circuit.gens[g].kind = "random" => parents[circuit.gens[g].outs[1]] \notin DOMAIN values

===============================================================================
