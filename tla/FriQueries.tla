----------------------------- MODULE FriQueries -----------------------------
(***************************************************************************)
(* The query phase of FRI.  Each challenge names an index into the         *)
(* committed codewords; the prover opens every tree there, and the         *)
(* verifier follows the index through the reductions.  A proof may be      *)
(* compressed for what its queries share and is then restored.  Field      *)
(* arithmetic is symbolic: combining and folding are injective in what     *)
(* they are given.                                                         *)
(***************************************************************************)
EXTENDS Integers, SequencesExt

CONSTANTS
    Shape,        \* sizes and reductions, see ShapeAssumption
    NumOracles,   \* initial trees
    NumQueries,
    FieldOrder,   \* F::ORDER
    FieldBits,    \* F::BITS
    None

ASSUME FieldAssumption ==
    FieldBits \in Nat /\ FieldOrder \in Nat \ {0} /\ FieldOrder <= 2 ^ FieldBits

\* compress_merkle_proofs has at least one path to compress.
ASSUME QueriesAssumption == NumQueries \in Nat \ {0}

ASSUME NoneAssumption == None \notin [1 .. NumQueries -> 0 .. FieldOrder - 1]

Depths(s) == Len(s.arities)

\* Sizes of the codewords that the reductions leave.
LogSize(s, depth) ==
    LET size[i \in 0 .. Depths(s)] == IF i = 0 THEN s.logN ELSE size[i - 1] - s.arities[i]
    IN  size[depth]

\* Caps are no wider than the last tree.
ASSUME ShapeAssumption ==
    \A s \in Shape :
        /\ s.logN \in Nat /\ s.capHeight \in Nat
        /\ s.arities \in Seq(Nat)
        /\ LogSize(s, Depths(s)) >= s.capHeight

VARIABLES
    shape, committed,   \* the prover's trees and final polynomial
    challenges,         \* field elements drawn for the queries, or None
    rounds,             \* query rounds of the proof
    altered,            \* the proof is not as the prover made it
    native, circuit,    \* verdicts, or None; circuit with the indices it used
    compressed, restored

vars == <<shape, committed, challenges, rounds, altered, native, circuit, compressed, restored>>

-----------------------------------------------------------------------------
(* Merkle trees with caps as plonky2 lays them out in one buffer, the      *)
(* paths it reads from the buffer and the two ways a path is verified.     *)
(* Hashing is symbolic, and indices count from zero.                       *)

LeafHash(data) == <<"leaf", data>>
TwoToOne(l, r) == <<"node", l, r>>

\* fill_subtree, for every subtree: its part of the buffer and its root.
Subtrees(leaves, height) ==
    LET sub[h \in 0 .. height] ==
          [k \in 0 .. 2 ^ (height - h) - 1 |->
              IF h = 0
              THEN [digests |-> <<>>, root |-> LeafHash(leaves[k + 1])]
              ELSE LET l == sub[h - 1][2 * k]
                       r == sub[h - 1][2 * k + 1]
                   IN  [ digests |-> l.digests \o <<l.root, r.root>> \o r.digests,
                         root    |-> TwoToOne(l.root, r.root) ]]
    IN  sub

\* MerkleTree::new
Tree(leaves, height, capHeight) ==
    LET subs == [c \in 1 .. 2 ^ capHeight |->
                    Subtrees(leaves, height)[height - capHeight][c - 1]]
    IN  [ leaves  |-> leaves,
          layers  |-> height - capHeight,
          digests |-> FlattenSeq([c \in DOMAIN subs |-> subs[c].digests]),
          cap     |-> [c \in DOMAIN subs |-> subs[c].root] ]

\* Mutation of SiblingIndex: pairs of the layer are not spread out far enough.
SiblingIndexInLayer(pair, layer, parity) == 2 * (pair * 2 ^ layer + 2 ^ layer - 1) + (1 - parity)

\* Where the pairs of a layer stand in a subtree's interleaved buffer.
SiblingIndex(pair, layer, parity) ==
    2 * (pair * 2 ^ (layer + 1) + 2 ^ layer - 1) + (1 - parity)

\* merkle_tree_prove
Path(tree, index) ==
    LET treeLen == 2 * (2 ^ tree.layers - 1)
        start   == treeLen * (index \div 2 ^ tree.layers)
        within  == index % 2 ^ tree.layers
    IN  [i \in 1 .. tree.layers |->
            tree.digests[1 + start + SiblingIndex(within \div 2 ^ i, i - 1,
                                                  (within \div 2 ^ (i - 1)) % 2)]]

\* verify_merkle_proof_to_cap; the cap is indexed by what the path leaves.
VerifiesToCap(data, index, cap, path) ==
    LET up[i \in 0 .. Len(path)] ==
          IF i = 0
          THEN [digest |-> LeafHash(data), index |-> index]
          ELSE LET s == up[i - 1]
               IN  [ digest |-> IF s.index % 2 = 1 THEN TwoToOne(path[i], s.digest)
                                                   ELSE TwoToOne(s.digest, path[i]),
                     index  |-> s.index \div 2 ]
        top == up[Len(path)]
    IN  top.digest = cap[top.index + 1]

\* verify_merkle_proof_to_cap_with_cap_index: the bits of the index, least
\* first, swap the inputs; the cap index comes from elsewhere.
VerifiesWithCapIndex(data, bits, capIndex, cap, path) ==
    LET steps == IF Len(path) < Len(bits) THEN Len(path) ELSE Len(bits)
        up[i \in 0 .. steps] ==
          IF i = 0 THEN LeafHash(data)
          ELSE IF bits[i] = 1 THEN TwoToOne(path[i], up[i - 1])
                              ELSE TwoToOne(up[i - 1], path[i])
    IN  up[steps] = cap[capIndex + 1]

-----------------------------------------------------------------------------
(* Compressing the paths of one tree.  Nodes are numbered from the root, 1. *)

Node(index, layers, capHeight) == index + 2 ^ (layers + capHeight)
Sibling(node) == IF node % 2 = 0 THEN node + 1 ELSE node - 1

\* The nodes from a leaf to below the cap, for every leaf asked for.
OnPaths(nodes, layers) == {nodes[q] \div 2 ^ j : q \in DOMAIN nodes, j \in 0 .. layers - 1}

\* One sibling on the way up from a node: kept unless it is known.
Keep(s, node, sibling) ==
    [ known |-> s.known \cup {Sibling(node), node \div 2},
      kept  |-> IF Sibling(node) \in s.known THEN s.kept ELSE Append(s.kept, sibling) ]

CompressPath(known, node, path) ==
    LET up[j \in 0 .. Len(path)] ==
          IF j = 0 THEN [known |-> known, kept |-> <<>>]
                   ELSE Keep(up[j - 1], node \div 2 ^ (j - 1), path[j])
    IN  up[Len(path)]

\* compress_merkle_proofs: path after path.
CompressPaths(nodes, paths) ==
    LET done[q \in 0 .. Len(nodes)] ==
          IF q = 0 THEN [known |-> OnPaths(nodes, Len(paths[1])), kept |-> <<>>]
                   ELSE CompressPath(done[q - 1].known, nodes[q], paths[q])
    IN  [q \in DOMAIN nodes |-> done[q].kept]

\* HashMap::insert
Inserted(map, key, value) ==
    [k \in DOMAIN map \cup {key} |-> IF k = key THEN value ELSE map[k]]

\* One node and its sibling, which is seen or next of what was kept.
Fill(s, node, q) ==
    LET known   == Sibling(node) \in DOMAIN s.seen
        sibling == IF known THEN s.seen[Sibling(node)] ELSE Head(s.rest[q])
        parent  == IF node % 2 = 0 THEN TwoToOne(s.seen[node], sibling)
                                   ELSE TwoToOne(sibling, s.seen[node])
    IN  [ seen |-> Inserted(Inserted(s.seen, Sibling(node), sibling), node \div 2, parent),
          rest |-> IF known THEN s.rest ELSE [s.rest EXCEPT ![q] = Tail(@)] ]

FillLayer(s, nodes, layer) ==
    LET filled[q \in 0 .. Len(nodes)] ==
          IF q = 0 THEN s ELSE Fill(filled[q - 1], nodes[q] \div 2 ^ layer, q)
    IN  filled[Len(nodes)]

\* decompress_merkle_proofs: layer after layer, over all paths.
DecompressPaths(leaves, nodes, kept, layers) ==
    LET leafHashes == [n \in {nodes[q] : q \in DOMAIN nodes} |->
                         LeafHash(leaves[CHOOSE q \in DOMAIN nodes :
                            nodes[q] = n /\ \A r \in q + 1 .. Len(nodes) : nodes[r] # n])]
        filled[j \in 0 .. layers] ==
          IF j = 0 THEN [seen |-> leafHashes, rest |-> kept]
                   ELSE FillLayer(filled[j - 1], nodes, j - 1)
    IN  [q \in DOMAIN nodes |->
            [j \in 1 .. layers |-> filled[layers].seen[Sibling(nodes[q] \div 2 ^ (j - 1))]]]

-----------------------------------------------------------------------------
(* Codewords.                                                              *)

\* x_index at a depth: the bits of reductions before it are shifted out.
IndexAt(s, x, depth) ==
    LET at[i \in 0 .. Depths(s)] == IF i = 0 THEN x ELSE at[i - 1] \div 2 ^ s.arities[i]
    IN  at[depth]

Leaf(o, x) == <<"oracle", o, x>>

Combined(leaves, x) == <<"combined", leaves, x>>    \* fri_combine_initial
Folded(evals, y)    == <<"folded", evals, y>>       \* compute_evaluation

\* The values each reduction starts from, and the last one's, of an honest prover.
Codewords(s) ==
    LET value[depth \in 0 .. Depths(s)] ==
          [x \in 0 .. 2 ^ LogSize(s, depth) - 1 |->
              IF depth = 0
              THEN Combined([o \in 1 .. NumOracles |-> Leaf(o, x)], x)
              ELSE LET arity == 2 ^ s.arities[depth]
                   IN  Folded([j \in 1 .. arity |-> value[depth - 1][arity * x + j - 1]], x)]
    IN  value

\* fri_committed_trees, over the initial trees.
Committed(s) ==
    LET value == Codewords(s)
        Coset(i, y) == [j \in 1 .. 2 ^ s.arities[i] |-> value[i - 1][2 ^ s.arities[i] * y + j - 1]]
    IN  [ initial |-> [o \in 1 .. NumOracles |->
                         Tree([k \in 1 .. 2 ^ s.logN |-> Leaf(o, k - 1)], s.logN, s.capHeight)],
          steps   |-> [i \in 1 .. Depths(s) |->
                         Tree([k \in 1 .. 2 ^ LogSize(s, i) |-> Coset(i, k - 1)],
                              LogSize(s, i), s.capHeight)],
          final   |-> value[Depths(s)] ]

Indices(s, drawn) == [q \in DOMAIN drawn |-> drawn[q] % 2 ^ s.logN]

\* fri_prover_query_round
Opened(s, trees, x) ==
    LET Opening(tree, index) == [data |-> tree.leaves[index + 1], path |-> Path(tree, index)]
    IN  [ initial |-> [o \in 1 .. NumOracles |-> Opening(trees.initial[o], x)],
          steps   |-> [i \in 1 .. Depths(s) |-> Opening(trees.steps[i], IndexAt(s, x, i))] ]

-----------------------------------------------------------------------------
(* Verifying one round.                                                    *)

InitialData(round) == [o \in 1 .. NumOracles |-> round.initial[o].data]

\* What each reduction and the final polynomial must agree with.
Expected(s, round, x) ==
    [i \in 0 .. Depths(s) |->
        IF i = 0 THEN Combined(InitialData(round), x)
                 ELSE Folded(round.steps[i].data, IndexAt(s, x, i))]

WithinCoset(s, x, i) == IndexAt(s, x, i - 1) % 2 ^ s.arities[i]

\* fri_verifier_query_round
RoundVerifies(s, trees, round, x) ==
    LET expected == Expected(s, round, x)
    IN  /\ \A o \in 1 .. NumOracles :
             VerifiesToCap(round.initial[o].data, x, trees.initial[o].cap, round.initial[o].path)
        /\ \A i \in 1 .. Depths(s) :
             /\ round.steps[i].data[WithinCoset(s, x, i) + 1] = expected[i - 1]
             /\ VerifiesToCap(round.steps[i].data, IndexAt(s, x, i),
                              trees.steps[i].cap, round.steps[i].path)
        /\ trees.final[IndexAt(s, x, Depths(s))] = expected[Depths(s)]

Bits(n, width) == [i \in 1 .. width |-> (n \div 2 ^ (i - 1)) % 2]
LeSum(bits) ==
    LET sum[i \in 0 .. Len(bits)] == IF i = 0 THEN 0 ELSE sum[i - 1] + bits[i] * 2 ^ (i - 1)
    IN  sum[Len(bits)]

\* split_le: numbers of the field's width that are the element in the field.
Encodings(element) == {n \in 0 .. 2 ^ FieldBits - 1 : n % FieldOrder = element}

\* Mutation of CapIndex: taken from the low bits.
CapIndexOfLowBits(bits, capHeight) == LeSum(SubSeq(bits, 1, capHeight))

CapIndex(bits, capHeight) == LeSum(SubSeq(bits, Len(bits) - capHeight + 1, Len(bits)))

\* CircuitBuilder::fri_verifier_query_round, for the low bits of an encoding
RoundVerifiesInCircuit(s, trees, round, encoding) ==
    LET bits     == Bits(encoding, s.logN)
        capIndex == CapIndex(bits, s.capHeight)
        rest(i)  == SubSeq(bits, s.logN - LogSize(s, i) + 1, s.logN)
        within(i) == LeSum(SubSeq(rest(i - 1), 1, s.arities[i]))
        expected == Expected(s, round, LeSum(bits))
    IN  /\ \A o \in 1 .. NumOracles :
             VerifiesWithCapIndex(round.initial[o].data, bits, capIndex,
                                  trees.initial[o].cap, round.initial[o].path)
        /\ \A i \in 1 .. Depths(s) :
             /\ round.steps[i].data[within(i) + 1] = expected[i - 1]
             /\ VerifiesWithCapIndex(round.steps[i].data, rest(i), capIndex,
                                     trees.steps[i].cap, round.steps[i].path)
        /\ trees.final[LeSum(rest(Depths(s)))] = expected[Depths(s)]

-----------------------------------------------------------------------------
(* Compression.                                                            *)

\* HashMap::entry(...).or_insert, over the queries in order.
FirstAt(keys, values) ==
    [k \in {keys[q] : q \in DOMAIN keys} |->
        values[CHOOSE q \in DOMAIN keys : keys[q] = k /\ \A r \in 1 .. q - 1 : keys[r] # k]]

At(s, xs, depth) == [q \in DOMAIN xs |-> IndexAt(s, xs[q], depth)]

NodesAt(s, xs, depth) == [q \in DOMAIN xs |->
    Node(IndexAt(s, xs[q], depth), LogSize(s, depth) - s.capHeight, s.capHeight)]

\* FriProof::compress: in each coset the value that can be inferred is left out.
Compress(s, xs, rs) ==
    [ initial |->
        LET paths == [o \in 1 .. NumOracles |->
                        CompressPaths(NodesAt(s, xs, 0), [q \in DOMAIN rs |-> rs[q].initial[o].path])]
        IN  FirstAt(xs, [q \in DOMAIN rs |->
              [o \in 1 .. NumOracles |->
                 [data |-> rs[q].initial[o].data, path |-> paths[o][q]]]]),
      steps |-> [i \in 1 .. Depths(s) |->
        LET paths == CompressPaths(NodesAt(s, xs, i), [q \in DOMAIN rs |-> rs[q].steps[i].path])
        IN  FirstAt(At(s, xs, i), [q \in DOMAIN rs |->
              [ data |-> RemoveAt(rs[q].steps[i].data, WithinCoset(s, xs[q], i) + 1),
                path |-> paths[q] ]])] ]

\* Mutation of MetBefore: cosets of earlier queries are forgotten.
MetByThisQuery(t, i, y) == FALSE

MetBefore(t, i, y) == t.stopped \/ y \in t.seen[i]

\* One reduction of a query that goes on unless it met another's coset.
Infer(t, s, c, x, i) ==
    LET y == IndexAt(s, x, i)
    IN  IF MetBefore(t, i, y)
        THEN [t EXCEPT !.stopped = TRUE]
        ELSE [ stopped |-> FALSE,
               seen    |-> [t.seen EXCEPT ![i] = @ \cup {y}],
               out     |-> Append(t.out, t.old),
               old     |-> Folded(InsertAt(c.steps[i][y].data,
                                           WithinCoset(s, x, i) + 1, t.old), y) ]

InferQuery(t, s, c, x) ==
    LET reduced[i \in 0 .. Depths(s)] ==
          IF i = 0
          THEN [ stopped |-> FALSE, seen |-> t.seen, out |-> t.out,
                 old |-> Combined([o \in 1 .. NumOracles |-> c.initial[x][o].data], x) ]
          ELSE Infer(reduced[i - 1], s, c, x, i)
    IN  reduced[Depths(s)]

\* get_inferred_elements: a query stops at the first coset seen before.
Inferred(s, xs, c) ==
    LET done[q \in 0 .. Len(xs)] ==
          IF q = 0
          THEN [stopped |-> FALSE, seen |-> [i \in 1 .. Depths(s) |-> {}], out |-> <<>>, old |-> None]
          ELSE InferQuery(done[q - 1], s, c, xs[q])
    IN  done[Len(xs)].out

Complete(t, s, c, x, i) ==
    LET y == IndexAt(s, x, i)
    IN  IF y \in DOMAIN t.known[i]
        THEN t
        ELSE [ known |-> [t.known EXCEPT ![i] =
                            Inserted(@, y, InsertAt(c.steps[i][y].data,
                                                    WithinCoset(s, x, i) + 1, Head(t.rest)))],
               rest  |-> Tail(t.rest) ]

CompleteQuery(t, s, c, x) ==
    LET reduced[i \in 0 .. Depths(s)] ==
          IF i = 0 THEN t ELSE Complete(reduced[i - 1], s, c, x, i)
    IN  reduced[Depths(s)]

\* CompressedFriProof::decompress: the values of each coset that is met first
\* are completed with the next inferred element.
Cosets(s, xs, c, inferred) ==
    LET done[q \in 0 .. Len(xs)] ==
          IF q = 0 THEN [known |-> [i \in 1 .. Depths(s) |-> <<>>], rest |-> inferred]
                   ELSE CompleteQuery(done[q - 1], s, c, xs[q])
    IN  done[Len(xs)].known

Decompress(s, xs, c, inferred) ==
    LET cosets == Cosets(s, xs, c, inferred)
        leaves(i) == [q \in DOMAIN xs |-> cosets[i][IndexAt(s, xs[q], i)]]
        initialPaths == [o \in 1 .. NumOracles |->
            DecompressPaths([q \in DOMAIN xs |-> c.initial[xs[q]][o].data], NodesAt(s, xs, 0),
                            [q \in DOMAIN xs |-> c.initial[xs[q]][o].path], s.logN - s.capHeight)]
        stepPaths == [i \in 1 .. Depths(s) |->
            DecompressPaths(leaves(i), NodesAt(s, xs, i),
                            [q \in DOMAIN xs |-> c.steps[i][IndexAt(s, xs[q], i)].path],
                            LogSize(s, i) - s.capHeight)]
    IN  [q \in DOMAIN xs |->
          [ initial |-> [o \in 1 .. NumOracles |->
              [data |-> c.initial[xs[q]][o].data, path |-> initialPaths[o][q]]],
            steps   |-> [i \in 1 .. Depths(s) |->
              [data |-> leaves(i)[q], path |-> stepPaths[i][q]]] ]]

-----------------------------------------------------------------------------

Init ==
    /\ shape \in Shape
    /\ committed = Committed(shape)
    /\ challenges = None /\ rounds = None /\ altered = FALSE
    /\ native = None /\ circuit = None /\ compressed = None /\ restored = None

\* fri_prover_query_rounds
Query ==
    /\ challenges = None
    /\ challenges' \in [1 .. NumQueries -> 0 .. FieldOrder - 1]
    /\ rounds' = [q \in 1 .. NumQueries |->
                    Opened(shape, committed, Indices(shape, challenges')[q])]
    /\ UNCHANGED <<shape, committed, altered, native, circuit, compressed, restored>>

\* One value of the first round is another, or all of them are: the round
\* opens another index.
OtherRounds(r) ==
    LET Other == <<"other">>
    IN  (UNION { {[r EXCEPT !.initial[o].data = Other]} \cup
                 {[r EXCEPT !.initial[o].path[j] = Other] : j \in DOMAIN r.initial[o].path} :
                 o \in 1 .. NumOracles })
        \cup
        (UNION { {[r EXCEPT !.steps[i].data[j] = Other] : j \in DOMAIN r.steps[i].data} \cup
                 {[r EXCEPT !.steps[i].path[j] = Other] : j \in DOMAIN r.steps[i].path} :
                 i \in 1 .. Depths(shape) })
        \cup {Opened(shape, committed, x) : x \in 0 .. 2 ^ shape.logN - 1}

Alter ==
    /\ rounds # None /\ ~altered /\ native = None /\ circuit = None /\ compressed = None
    /\ \E r \in OtherRounds(rounds[1]) : rounds' = [rounds EXCEPT ![1] = r]
    /\ altered' = TRUE
    /\ UNCHANGED <<shape, committed, challenges, native, circuit, compressed, restored>>

\* The query rounds of verify_fri_proof
Verify ==
    /\ rounds # None /\ native = None /\ compressed = None
    /\ native' = \A q \in 1 .. NumQueries :
                    RoundVerifies(shape, committed, rounds[q], Indices(shape, challenges)[q])
    /\ UNCHANGED <<shape, committed, challenges, rounds, altered, circuit, compressed, restored>>

\* Those of CircuitBuilder::verify_fri_proof, for any witness of their bits
VerifyInCircuit ==
    /\ rounds # None /\ native # None /\ circuit = None
    /\ \E es \in [1 .. NumQueries -> UNION {Encodings(challenges[q]) : q \in 1 .. NumQueries}] :
         /\ \A q \in 1 .. NumQueries : es[q] \in Encodings(challenges[q])
         /\ circuit' = [ encodings |-> es,
                         accepts   |-> \A q \in 1 .. NumQueries :
                            RoundVerifiesInCircuit(shape, committed, rounds[q], es[q]) ]
    /\ UNCHANGED <<shape, committed, challenges, rounds, altered, native, compressed, restored>>

CompressProof ==
    /\ rounds # None /\ ~altered /\ native = None /\ compressed = None
    /\ compressed' = Compress(shape, Indices(shape, challenges), rounds)
    /\ UNCHANGED <<shape, committed, challenges, rounds, altered, native, circuit, restored>>

DecompressProof ==
    /\ compressed # None /\ restored = None
    /\ LET xs == Indices(shape, challenges)
       IN  restored' = Decompress(shape, xs, compressed, Inferred(shape, xs, compressed))
    /\ UNCHANGED <<shape, committed, challenges, rounds, altered, native, circuit, compressed>>

Next == Query \/ Alter \/ Verify \/ VerifyInCircuit \/ CompressProof \/ DecompressProof

Spec == Init /\ [][Next]_vars

-----------------------------------------------------------------------------
(* Properties.                                                             *)

OpenedAt(xs) == [q \in 1 .. NumQueries |-> Opened(shape, committed, xs[q])]

\* The verifier accepts the openings of the committed trees at the indices it
\* drew, and no others.
AcceptsOpenings ==
    native # None => (native <=> rounds = OpenedAt(Indices(shape, challenges)))

\* So does the verifier in a circuit; only for an element that the field's
\* width leaves a second encoding, the prover may have it follow that one.
CircuitAccepts ==
    circuit # None =>
        /\ circuit.accepts <=> rounds = OpenedAt(Indices(shape, circuit.encodings))
        /\ (\A q \in 1 .. NumQueries : challenges[q] >= 2 ^ FieldBits - FieldOrder)
             => circuit.accepts = native

\* A compressed proof is restored to what it was, whichever queries meet,
\* at whichever reduction, in one place of a coset or in two.
CompressionIsLossless == restored # None => restored = rounds

=============================================================================
