# Delegatable credentials from legacy JWTs: verification project

The crate turns a JWT that a legacy issuer signed with ECDSA P-256 into an
anonymous credential that can be delegated, redacted and presented. Four
plonky2 circuits form a pipeline:

    R_Base (one per credential type)   an issuer-signed JWT carries these claims
      -> R_Wrap (one per type)         verifies R_Base under a hardcoded key
        -> R_Del (one for all types)   cyclic: masks attributes, level + 1, tightens the cap
          -> R_Pres (one for all)      discloses slots of a private R_Del proof

This directory models what those circuits admit, what the functions that prove
them do, and the parts of the vendored libraries whose control flow the
pipeline rests on. TLC checks the models on small instances; TLAPS proves the
central properties for every value of the constants.

## Inventory

| Part | State it keeps | Operations | What makes it correct | Modelled in |
|---|---|---|---|---|
| Attributes, Merkle (`credential/attribute.rs`, `utils/merkle.rs`) | none; values | hash a leaf, pad, mask, root | off-circuit roots equal in-circuit ones; the empty leaf is no attribute's | `PublicInputs` |
| Layout (`circuits/layout.rs`) | constants, index record | validate counts | every circuit reads the same slots | `PublicInputs` |
| Credentials (`credential/jwt.rs`, `cnf.rs`) | a signed JWT, positions of its claims | sign, save, load, locate claims | the list an owner holds is the one the circuit commits to | `ClaimExtraction` |
| JSON gadgets (`circuits/gadgets/json_parse.rs`, `cnf_parse.rs`, `array_slice.rs`) | witness targets | slice, claim, cnf | every admitted position yields a member of the payload | `ClaimExtraction` |
| SHA-256 and base64 gadgets (`libs/plonky2_sha256`, `circuits/gadgets/base64.rs`) | witness targets | hash a message of any length, decode a window of it | the decoded text is the one that was hashed | `SignedMessage` |
| ECDSA gadgets (`libs/plonky2_ecdsa`, `circuits/gadgets/ecdsa.rs`) | witness targets | limbs, residues, points, windowed products, verdict | same verdict as the native verifier, or no proof | `NonNative`, `CurveGadgets`, `EcdsaCircuit` |
| R_Base (`circuits/jwt_base.rs`) | circuit, proofs | build, `prove_jwt_base` | claims come from the signed payload; level 0, no cap | `Circuits`, `Delegation`, and the three above |
| R_Wrap (`circuits/jwt_wrapper.rs`) | circuit, proofs | build against R_Del's shape, `prove_jwt_wrapper` | its digest names the credential type; it has R_Del's shape | `Circuits`, `Delegation`, `CoBuild` |
| R_Del (`circuits/delegate.rs`) | circuit, chains of proofs | co-build, `prove_delegation_base`, `prove_delegation_step` | provenance, depth cap, redactions bind; a shape that verifies itself | `Circuits`, `Delegation`, `CoBuild` |
| R_Pres (`circuits/present.rs`) | circuit, proofs, partition witnesses | build, `prove_presentation`, precompute, prove cached | only signed, unredacted slots are disclosed | `Circuits`, `Presentation` |
| Cyclic recursion, dummy proofs (`libs/plonky2/.../recursion`) | none | conditional verification, base proof, dummy circuit | a chain has one key throughout; a dummy of every shape | `Circuits`, `Delegation`, `DummyCircuit` |
| Circuit builder (`plonk/circuit_builder.rs`, `gates/selectors.rs`, plonky2 `gadgets/`) | gates, free slots, constants, copy constraints, lookup tables | add gates and operations, connect, build, blind | gadgets say what their callers read in them; blinding covers the openings, at the degree that is built | `CircuitBuilder`, `DummyCircuit` |
| Gates (plonky2 `gates/`, `plonky2_u32/src/gates`) | none; columns of a row | constraints in three forms, generators | generated rows hold; a row that holds means its operation | `FieldGates`, `U32Gates`, `PoseidonGates`, `GateRows` |
| Prover and verifier (`plonk/prover.rs`, `vanishing_poly.rs`, `verifier.rs`, `recursive_verifier.rs`, `field/src/fft.rs`) | the trace, committed polynomials | commit, permutation and lookup arguments, quotient, open, check | a proof passes exactly when the trace satisfies the circuit, with both verifiers | `Polynomials`, `VanishingPolynomial`, `ProveCircuit` |
| Witness generation (`iop/generator.rs`, `witness.rs`, `plonk/copy_constraint.rs`, `permutation_argument.rs`) | forest, values, queues | merge, compress, set, run generators | the witness found satisfies every generator, and is found if there is one | `WitnessGeneration` |
| Transcripts (`iop/challenger.rs`, `plonk/prover.rs`, `get_challenges.rs`, `fri/`) | sponge, input and output buffers | observe, draw, shape checks, grinding | prover, verifier and verifier circuit draw the same challenges, each bound to all that went before | `Transcript` |
| FRI queries (`fri/prover.rs`, `verifier.rs`, `recursive_verifier.rs`, `proof.rs`, `hash/merkle_*.rs`, `path_compression.rs`) | Merkle trees, query rounds | open, check, compress, restore | honest openings are accepted by both verifiers; compression loses nothing | `FriQueries` |
| Demonstration and benchmarks (`examples/demo.rs`, `benches/`) | current list, previous proof | mask and hand on, pad and present | the holder's copy follows the proof | `Delegation`, `Presentation` |
| Goldilocks arithmetic (`field/src/goldilocks_field.rs`, `goldilocks_extensions.rs`, `arch/x86_64`, MDS layer in `poseidon_goldilocks.rs`) | none; words | add, subtract, negate, multiply, reduce, invert | every word stands for the right element, canonical or not | `GoldilocksWords` |
| Serialization, Poseidon for particular processors | | | | not modelled |

**How they interact.** By proofs and their public inputs only. An R_Base proof
goes into R_Wrap, an R_Wrap proof into the base branch of R_Del, an R_Del proof
into the next R_Del proof or into R_Pres. Beside the proof each holder hands
the next one a list of attributes, which is what lets the receiver open the
commitment. Nobody keeps a shared state: holders delegate and present in any
order, from any proof they were given, on any number of branches.

**What is hard.** Several things run in parallel over data inside the prover,
but no two steps share a state, and nothing but credential files is persisted.
What is hard to test is elsewhere.

* The *set of witnesses*. Each constraint speaks of one step and one parent,
  the properties speak of chains of any length built by provers who need not
  call the library: comparisons of levels made by range checks modulo the field
  (`delegate.rs:261`), a verifier whose branch is chosen by a public input over
  a free wrapper key (`delegate.rs:222-227`), a cyclic key that R_Del cannot
  check itself (`cyclic_recursion.rs:96`), positions of claims that the prover
  names (`json_parse.rs:399`), a message length that the prover names
  (`plonky2_sha256/src/circuit.rs:594`).
* The *same thing computed twice*. The guard and the circuit's rule
  (`delegate.rs:423`), the prover's mask and the caller's (`demo.rs:203`), the
  list a credential is loaded with and the text it was signed over
  (`jwt.rs:324`), the transcript of prover, verifier and verifier circuit
  (`get_challenges.rs:26`), the native and the in-circuit signature check, every
  gate's constraints (for the trace, for the verifier and as a circuit) and its
  generators.
* *Queues and fixed points*. A generator that is woken when a target gets its
  first value (`generator.rs:84`); R_Del built against its own shape, and
  rebuilt once (`delegate.rs:697`); the search for a dummy circuit over counts
  that are not monotone (`dummy_circuit.rs:135`).
* *Boundaries*. Words that are no canonical field elements, two halves that
  encode an element twice, carries between limbs, the exceptional points of
  incomplete addition, a message that ends at a block's end, a cap as wide as the tree,
  two encodings of small field elements.
* *Values kept for later*: partition witnesses computed now and proved later
  (`present.rs:427`).

`PROJECT.json` lists each hazard at its line, with the properties about it.

## Modules

The pipeline:

* `PublicInputs`: attributes, leaves, commitments, masks, field arithmetic,
  statements (the public-input layouts) and proofs.
* `Circuits`: R_Base, R_Wrap, R_Del and R_Pres as relations between a statement
  and a witness, one conjunct per group of constraints in the builder.
* `Delegation`: the state machine of provers up to R_Del.
* `Presentation`: EXTENDS it with holders that present.
* `Grants`: what the pipeline promises, with no circuit in it. Readings of
  signed credentials, and grants below them, each showing part of its parent,
  one level deeper, under a cap no looser.
* `DelegationRefinement`: the mapping under which `Delegation` implements
  `Grants`. A genuine proof is a grant; every other proof maps to nothing.

Inside R_Base:

* `SignedMessage`: a token, the buffer it is hashed in, the window that holds
  its payload, and the decoded text.
* `ClaimExtraction`: payload text, the library's search and the circuit's
  extractors, loading and saving.
* `NonNative`, `CurveGadgets`, `EcdsaCircuit`: numbers of several limbs,
  points, and the verification of a signature.

Building and proving:

* `DummyCircuit`, `CoBuild`: rows that blind, the dummy circuit's search, and
  building R_Del with its wrappers.
* `Generators`: circuits as targets, copy constraints and generators.
  `WitnessSolution` says what filling a witness promises, with a free choice of
  the generator that fires; `WitnessGeneration`, with its forest and queues,
  refines it (`Solves`).
* `Transcript`: the sponge behind its buffers, natively and in a circuit, the
  programs that observe and draw, and what each verifier checks of a proof's
  shape, which for the native one leaves the number of caps of reductions open.
* `FriQueries`: trees with caps, paths and their compression, and the query
  phase.

The polynomial argument, from the bottom:

* `GoldilocksWords`: the field as machine words, in scalar, AVX2 and AVX-512
  code, products in its extensions and Poseidon's MDS layer.
* `FieldOps`: the field the modules above it take for granted, and cells of a
  row. `FieldGates`, `U32Gates`, `PoseidonGates`: the gates, their columns,
  constraints and generators; `GateRows` fills one row of one gate.
* `Polynomials`: transforms, division by X^n - 1, Lagrange polynomials.
  `VanishingPolynomial`: what the identity at a point is made of.
* `CircuitBuilder`: rows, copies, constants, lookups and gadgets, and `build`.
  `ProveCircuit`: from a built circuit to a verdict.

Each `MC...` module is a small instance. `DelegationTheorems` (delegation and
presentation), `MessageTheorems`, `ClaimTheorems`, `WitnessTheorems`,
`CoBuildTheorems`, `TranscriptTheorems`, `FriTheorems` and `ArithmeticTheorems`
(words of the field, and signatures) hold the proofs. Each `Mutation of ...`
operator beside a definition is a plausible bug in the code it models; replacing
the definition by it must break the property that `PROJECT.json` pairs with it.

## State and actions

| Module | Variable | Code |
|---|---|---|
| `Delegation` | `creds` | JWTs that issuers have signed (`JWTCredential`) |
| | `bases`, `wraps` | results of `prove_jwt_base`, `prove_jwt_wrapper` |
| | `proof[id]` | R_Del proofs, in the holders' hands |
| | `held[id]` | the list handed on with the proof (`current_attrs` in the demonstration) |
| | `anc[id]` | history: the proofs that one was built on |
| `Presentation` | `pres`, `partitions` | R_Pres proofs, `PartitionWitness` values kept for later |
| `SignedMessage` | `jwt`, `cred`, `base` | the compact token, the credential loaded from it, what the last R_Base proof shows |
| `ClaimExtraction` | `jwt`, `cred`, `base` | the file's payload, the `JWTCredential`, the last proof with its owner's list |
| | `members`, `built` | history: what the payload was made from, and whether the library signed it |
| `EcdsaCircuit` | `inst`, `stage`, `step` | key, digest and signature, and how far their witness has come |
| | `u1`, `u2`, `fixed`, `table`, `windowed` | targets of those names in the gadgets |
| `CoBuild` | `facts` | what the gadgets cost |
| | `stage`, `first`, `extra`, `inner`, `round` | where `build_delegation_and_wrapper` is |
| | `del`, `attached` | R_Del's shape, the types whose wrapper has it |
| `DummyCircuit` | the search variables | `num_dummy_noop_gates`' interval, and its result |
| `WitnessGeneration` | `parents`, `merged` | `Forest`, then `representative_map` |
| | `values` | `PartitionWitness.values` |
| | `pending`, `next`, `expired`, `remaining` | locals of `generate_partial_witness` |
| `Transcript` | `sent`, `prover` | the proof and the prover's challenges |
| | `view`, `native`, `circuit` | the proof as received, and the two verifiers' challenges |
| `FriQueries` | `committed`, `challenges`, `rounds` | trees, drawn field elements, query rounds of the proof |
| | `native`, `circuit`, `compressed`, `restored` | verdicts, and the proof on its way through compression |
| `GateRows` | `at`, `prover` | a gate with its configuration, and who fills the row |
| | `row`, `ran` | the columns that have values, the generators that have run |
| `ProveCircuit` | `circuit`, `data` | the builder's calls; `CommonCircuitData` and `ProverOnlyCircuitData` |
| | `pending`, `witness`, `trace` | generators, `PartitionWitness`, `MatrixWitness` |
| | `altered` | what another prover adds to the trace |
| | `wires_commitment`, `zs_commitment`, `quotient_commitment`, `proof_challenges` | batches and challenges of the proof |
| | `phase`, `verdict` | where `prove` is; the verifier's answer and the verifier circuit's |

**Delegation and presentation.** `SignCredential`, `ProveBase`,
`ProveWrapper`, `ProveDelegationBase`, `ProveDelegationStep`,
`ProvePresentation`, `PrecomputePartition` and `ProvePresentationCached` are
the functions of those names. Each computes the statement as the function does,
passes its guards (`CapAdmitted`, `Paddable`, `FitsCircuit`) and then needs the
circuit's relation to hold of the witness it filled in. A delegation step ends
with the caller masking its list (`HandOn`).

`CraftBase`, `CraftStep` and `CraftPresentation` are provers that choose any
statement and witness the circuit admits. They use R_Wrap proofs with anything
in the two slots the wrapper leaves unconstrained, R_Del proofs in either slot,
and proofs of *look-alike* circuits: circuits built to the same
`CommonCircuitData` with no constraints of their own, of which the dummy
circuit that plonky2 builds is one. Under such a key anything can be proved.

`Genuine` is what a party that knows R_Del and the type's wrapper digest checks:
the proof verifies, `check_cyclic_proof_verifier_data` passes, the digest is
that of a known type. The safety properties speak of genuine proofs, since
nothing else is accepted anywhere.

**R_Base.** In `SignedMessage`, `Build`, `SignElsewhere` and `Load` make
tokens, `ProveBase` fills the witness as the library does and `ProveAny` with
any buffer, length and block count the constraints admit. In `ClaimExtraction`
the actions are `generate_jwt_from_claims`, signing outside the library, saving,
`from_jwt_file`, `from_definition_json` and `prove_jwt_base`; the readings the
circuit admits are a set (all positions), not an action. In `EcdsaCircuit` one
action is one step of a loop in a gadget, and the stage "stuck" is a generator
that panics or a constraint that no value satisfies.

**Building and proving.** `CoBuild`'s `TrialBuild`, `FinalBuild` and
`FirstWrapper` are the stages of the co-build, including its bail-out and its
panic; `Attach` is the wrapper of a later type; `BuildDummyProof` and
`SearchStep` are the dummy and one iteration of its binary search.
`WitnessGeneration` has `Merge` and `CompressPaths` (building the circuit),
`SetInputs`, `Drop` and `Finish` (one generator of a pass, expired or not) and
`EndPass`. `Transcript` has `Prove`, `Deliver` (the proof as it arrives, which
may differ in an element, a length, where one part ends, or the number of its
caps of reductions), `Verify`,
`VerifyInCircuit`. `FriQueries` has `Query`, `Alter`, the two verifiers,
`CompressProof` and `DecompressProof`.

**The polynomial argument.** `GateRows` has one row of one gate. `RunGenerator`
runs a generator whose dependencies have values; `Choose` is any other prover,
who fills the next column with any value. `ProveCircuit` starts from what
`CircuitBuilder!Build` makes of a list of calls. Its actions are the stages of
`prove`: `RunGenerator` and `SetLookupWires` for the witness, `CommitToWires`
(of the witness, or of an altered one), `CommitToZs`, `CommitToQuotient`, which
may find that nothing divides, and `Open`, where both verifiers answer. A target
is `<<row, column>>` for a wire; negative rows stand for the caller's virtual
targets, constants, and gadgets' targets. `GoldilocksWords` has no state: it is
functions on words, and all that is said of them is proved.

### Abstractions

* A proof exists under a key exactly when a witness satisfies the relation of
  that key's circuit; a circuit, its verifier key and its digest are one value.
  `ProveCircuit` is about this, circuit by circuit, and the pipeline's modules
  assume it.
* Hashes are collision free and permutations, foldings and combinations
  symbolic: an output is a term over its inputs. A leaf is a value of its own
  per attribute, a commitment its vector of leaves. Limb packing of attributes
  and the 16 issuer limbs are below this level.
* `Circuits`: a payload is a value and `Claims[t][j]` the *set* of claim lists
  the extractors of type `t` admit in it. `ClaimExtraction` shows where such
  sets come from. The owner's key and the proof of possession are left out:
  they decide who can make a base proof, and here every owner can.
* Signatures of issuers cannot be made by others. The verifier is external and
  accepts a presentation with a digest it knows.
* `SignedMessage`, `ClaimExtraction` and `EcdsaCircuit` are separate models.
  Each assumes what the ones before it show: the digest is of the text, the
  text is the signed one.
* `SignedMessage` keeps the proportions of sizes (four characters to three
  bytes, a length field shorter than a block), with bytes of four bits; the
  buffer's bits are taken to be bits, and groups of characters to be full, as
  the padded length of a payload makes them.
* `ClaimExtraction`: keys and structural characters are one byte; demonstration
  keys are one fixed holder.
* `EcdsaCircuit` follows an honest prover's witness. The curve has 139 points
  over the field of 149 elements: a prime order below the field's, as for P-256,
  so that coordinates above the scalar order exist. Limbs have four bits and
  windows two bits on each side. A key moved off its point is moved off the
  curve, too: onto the point's negative it would be another key.
* `WitnessGeneration`: a queue is how many times it holds each generator, and
  the order within a pass is open, so a result holds for any order of the
  registered generators.
* `CoBuild`: a shape is what `CommonCircuitData` compares and can differ here,
  the gate set and the degree. What gadgets cost is given as facts, any facts
  that `FactsAssumption` admits. Gates are collected in a `HashSet` and sorted
  by `build`, so their order is a function of the set.
* `ProveCircuit`: an opening is the polynomial's value (`Transcript` and
  `FriQueries` have what FRI does), and zeta is in the base field. Challenges are
  a few fixed ones, for which no identity holds by chance. A zero denominator and
  a zeta in the subgroup stop the prover ("failed"), as they panic or return an
  error. There are no public inputs, so their hash is zero, and no blinding.
  `use_base_arithmetic_gate` is true. A gate's constraints are one definition,
  which stands for its three evaluations (over the extension, over the base
  field, and in a circuit); that each gate's code writes the same polynomials
  three times is assumed. (`GateRows` has Poseidon's in the two forms that differ
  in more than the field.) Gadgets are called within what they require: numbers
  that fit their bits, bits that fit a row, an index within the list. A table is
  a function, though a pair may be in it twice: were two outputs given for one
  input, a lookup's generator may take an earlier pair (`lookup.rs:200-218`) than
  the last, which is the one that multiplicities count (`prover.rs:66-79`). Rows of
  lookups are placed one slot at a time, tables in the order of their indices.
  `Computed` changes no value; it makes TLC evaluate a function once.
* `GateRows`: a comparison's numbers fit its chunks and the chunks fit the field.
  For u32 gates the inputs are words, except where the gate is what checks that.
* `GoldilocksWords`: `Radix` stands for 2^32; all other constants are derived
  from it as in the code. Additions the code does not wrap are not wrapped, and
  are proved to fit where it relies on it. AVX2 and AVX-512 code is one lane of
  the vector, with masks as conditions.

## Runs

| Run | Question | States |
|---|---|---|
| `present_library` | With the library's provers: do guard and circuit agree, does each list open its proof, do redactions survive precomputed partitions, and can every holder answer every challenge, over a full, a padded and an ambiguous credential, with bitmaps shorter and longer than the list? | 230 784 |
| `any_witness` | When provers choose statement and witness, are genuine proofs signed and within their cap, do caps and redactions of ancestors bind, is all of it the tree of grants, and is everything a verifier accepts signed? | 33 882 |
| `extract_claims` | Is the list an owner holds the one R_Base commits to, can what the library accepts be proved, and is every admitted reading a member of the payload, over signed, saved, loaded and foreign credentials? | 22 386 |
| `signed_message` | Is the text that R_Base reads the one that was signed, for every buffer the constraints admit, and can every credential of the layout be proved? | 1 075 |
| `ecdsa_circuit` | Do the gadgets compute the multiples they claim, is the verdict the native one, and is the witness stuck at the exceptional points only? | 40 886 |
| `generate_witness` | Does the forest hold the connected targets, is no generator forgotten, does the result satisfy all of them, does the loop end, and does it solve whatever firing in any order solves? | 38 416 |
| `cobuild` | Do R_Del and all wrappers get one shape, is one rebuild enough, is the dummy found exactly when there is one, and does blinding cover the openings? | 16 117 |
| `fiat_shamir` | Do the three transcripts agree, is each challenge bound to all that precedes it, is none drawn from a stale buffer, and is a proof admitted with the prover's queries the one that was sent? | 10 600 |
| `fri_queries` | Do both verifiers accept honest openings, and is a compressed proof restored as it was? | 597 478 |
| `gate_rows` | Do the rows that generators fill hold, in the prover's form and in the verifier circuit's, and does every complete row that holds mean the gate's operation? | 62 866 |
| `prove_circuit` | Is a trace that satisfies the circuit proved and accepted by both verifiers, and does a trace that does not, lead to no accepted proof? | 589 |
| `doc_blinders` | A comment that the code does not bear out (below). | violation |

**Bounds.** The instances of delegation and presentation use levels of two bits
in a field of nine elements. That is the least field in which two level-sized
values and their sum do not meet, and it makes every wraparound happen: level 8
is P - 1, and differences of out-of-range values land both inside and outside
the range. `LevelBound` is 3 in `present_library`, so that two proofs reach the
unbounded cap, and 4 in `any_witness`. Two leaves are enough for slots to differ
and for padding; one leaf where the run enumerates every statement. `DelId`
bounds the number of R_Del proofs, `BitmapLen` the bitmaps, `MaxPres` and
`MaxPartition` presentations. Two R_Del proofs are a parent and a child, which
is all a constraint ever relates; the theorems below cover chains of any length.
`ForgedStatement` holds the counterfeits that matter (of a wrapper proof, of a
mid-chain proof under either key, of a level just below the modulus), `Attempt`
every statement a prover could want from the instance. `DelId` is a symmetry
set: its members are compared only.

The others:

* `MCClaimExtraction`: values up to 12 bytes, `iss` and `iat` up to 4; keys that
  collide with the standard claims and with members of `cnf`, values that
  contain quotes, escapes and whole entries, legacy payloads with a key twice,
  a nested key, and numbers.
* `MCSignedMessage`: every payload of up to four bytes over three values, and
  longer ones up to a byte more than the layout has room for, so that the
  message ends at every place of a block, the padding takes a block of its own,
  and the length field holds the marker's value.
* `MCEcdsaCircuit`: eight digests (two of them no scalars), four keys, eight
  nonces (half of whose points have a coordinate above the scalar order),
  three blinding multiples and six alterations. The exceptional cases are in:
  a key and a digest whose sums meet. This module also evaluates, for a
  `Radix` of 32, what the theorems say of words, on words around every boundary.
* `MCWitnessGeneration`: five targets in the field of three elements, sequences
  of three copy constraints in every order, five lists of generators that read
  each other, fail, contradict or draw random values, four inputs.
* `MCCoBuild`: the FRI parameters of `standard_recursion_zk_config`, the goal
  degree of 18 bits and a greatest of 20; row counts on both sides of every
  count where blinding moves a circuit to the next degree.
* `MCTranscript`: a rate of three elements; 36 shapes with and without lookups,
  with up to two reductions, on the way up to three caps of them (so that one more
  than the reductions is met with each number, and each number of missing ones),
  caps of one to three elements and two lengths of
  the final polynomial, so that every draw falls at every place of a block.
* `MCFriQueries`: six shapes of four and eight values, no, one and two
  reductions, caps of one hash, several and a whole layer; three queries, which
  may coincide or share parts of their paths; a field of nine elements encoded
  in four bits, so small ones have two encodings.
* `MCGateRows`: the field of 13 elements, which is 4^2 - 4 + 1 as Goldilocks is
  in 2^32, with words of two bits; every gate in a configuration it just fits,
  with every input where a row is small and boundary values where it is not.
  Poseidon has three cells, two full rounds on each side and two partial rounds.
* `MCProveCircuit`: nine circuits of four to sixteen rows over the field of 769
  elements, with degree factors 3, 4 and 8 (several partial products and sums, and
  one), one selector polynomial and several, one and two challenges, no, one and
  two tables; alterations of single wires and of all copies of one, among
  them sets of wires that leave sums unchanged; zeta inside and outside the
  subgroup. States are few and each holds a proof.

**Deadlock** is not checked: when all identities of an instance are used, or
a proof is verified, the system stops.

**Fairness and liveness.** A library that is called or not promises no
progress, and none is asked of holders; that they are never *unable* to go on is
a state property (`HolderCanPresent`, `GuardIsExact`, `HandoverOpens`,
`CredentialCanBeProved`). Two loops are promises, though: one thread runs
`generate_partial_witness` and one the co-build, from start to end, with no
await and no lock. That justifies `WF_vars(Next)` in `WitnessGeneration`, and in
`CoBuild` `WF_vars(Build)`, which leaves out `Attach` and `BuildDummyProof`
since no caller has to ask for them. Under it `Termination` is checked of both,
and `Solves` includes that the abstract choice of generators comes to its end.

### What disagrees with comments of the code

The run `doc_blinders` exhibits one: `present.rs:462-463` says that ZK blinders
are sampled inside `prove_with_partition_witness`. Blinding rows are filled by
random-value generators, which run when the partition is computed; only the
salts of Merkle leaves are drawn for each proof. Two proofs made from one
partition share their blinding rows.

The following were met while modelling. They are wording, or lie outside what a
run's property could say.

* `delegate.rs:189-190` says mask bits of padding slots are forced false when
  proving. They are false only when the bitmap is no longer than the list:
  `resize` keeps what the caller passed. The commitment is the same either way.
* `delegate.rs:253-254` says the range check on the cap keeps a level from
  wrapping past it. The three range checks alone admit level P - 1 under a
  small cap, over an inner proof of another key that claims level P - 2. What
  excludes it is that a chain on R_Del's own key starts at level 1 and counts,
  which is what `DepthCapHolds` proves.
* `delegate.rs:671` says that a single iteration suffices. It does when the
  rebuilt R_Del keeps its degree and the gate sets close, which is what
  `OneIterationSuffices` states and `MCCoBuild`'s facts go beyond; otherwise
  it bails out with the error it has for that, or an assertion fails.
* `present.rs:384` lists the level among the public inputs of a presentation;
  it is none, as `present.rs:97` says.
* `json_parse.rs:403`: the check that a key is at the top level also passes
  inside the `cnf` block.
* `circuit_builder.rs`, in `blind`: "enforce a copy constraint between them";
  the second wire is filled by a copying generator and nothing connects the
  two. They are blinding rows and are read by no gate.
* `jwt_wrapper.rs:72` speaks of the order in which gates are registered;
  `build` sorts them.
* Numbers of blinding rows fall when the degree rises. The degree itself is
  monotone (`DegreeGrows`), but a circuit of 118 043 to 120 226 rows is given
  the blinding of 2^18 rows and then fits in 2^17, which has more openings than
  that. `BlindingCovers` states what holds below that degree.
* A nonnative sum that equals the modulus is left unreduced, and the prover
  stops there; a digest of the scalar order or more, and an `r` whose point's
  coordinate exceeds it, cannot be proved although the native verifier accepts
  them. `StuckExactlyAtExceptions` and `VerdictIsNative` state exactly these
  cases. For P-256 all are improbable; the first to be met is a digest not below
  the order, one in 2^32.
* `validate_shape.rs:42-45` checks the height of every commit-phase cap and not
  how many there are, and `fri/challenges.rs:47-53` observes each and draws a
  challenge after it. So the native verifier admits a proof with more caps than
  reductions, whose further caps no round reads; filling one into a circuit is an
  error (`witness_util.rs:49-53`). With fewer caps the first query round takes one
  that is not there and stops (`fri/verifier.rs:223`), while a circuit's missing
  caps are filled with zeros. `ChallengesAgree` states the first; that such a
  proof cannot have the prover's query indices is `AdmittedIsSent`, and that both
  bind their challenges is `ChallengesBind`.
* In the SHA-256 circuit the zeros of the padding and its length field are the
  prover's. `SignedTextIsRead` shows what makes that harmless for tokens: no
  byte of theirs is the marker.

## Proofs

Everything is proved from the constants' assumptions only, which TLC evaluates
on the instances.

* Pipeline: leaves of distinct attributes differ and none is the zero leaf, two
  level-sized values fit in the field with room to spare, the circuits' names
  are distinct, types read between one and `NumMax` claims.
* Messages (`MessageAssumption`): the alphabet of base64 encodes one to one and
  holds neither the padding marker nor the dot, no header holds a dot, and the
  length field is shorter than a block.
* Claims (`TextAssumption`, `ExtractionAssumption`): no key is a structural
  character, the values the library makes up itself (issuer, time, coordinates)
  hold no quote, and window lengths are multiples of four. What holders or
  foreign issuers put in other values is any text.
* Building: costs are natural numbers (`FactsAssumption`), sizes grow with the
  degree (`BlindingAssumption`), the largest degree has room for what is built
  (`CapacityAssumption`, `DummyAssumption`). `DropAssumption` says how far
  blinding counts may fall from one degree to the next, which is a fact about the
  FRI parameters.
* Witnesses: circuits are finite (`CircuitAssumption`, `TargetAssumption`).
* Transcripts: sizes are positive and names are of one thing each; of a shape
  (`ParamsAssumption`), what `CommonCircuitData` and `validate_shape.rs` say of
  lengths: openings come in extension elements, a circuit without tables has no
  lookup openings, one with them has as many at the next point. One cap height
  holds for all trees, and no cap is empty, so that the caps a proof has are those
  up to the last that is not.
* Queries: the field's order fits its width (`FieldAssumption`), and reductions
  leave a codeword no smaller than a cap (`ShapeAssumption`), as
  `MerkleTree::new` asserts of every tree; there is at least one query
  (`QueriesAssumption`), as `compress_merkle_proofs` asserts.
* Signatures: residues modulo either order are a field (`FieldAssumption`) and
  the multiples of the generator add up as a cyclic group of `ScalarOrder` points
  does (`GroupAssumption`), which is what makes P-256 a curve to sign with; the
  curve's `CurveA` is not zero and its field has more than three elements
  (`CurveAssumption`; P-256 has A = -3). A window is part of a limb and smaller
  than the scalar order (`WindowAssumption`). A column of a product has no more
  addends than the gate takes, as `num_ops` of `add_many_u32.rs` asserts
  (`ColumnAssumption`; P-256 has 16 of 16). A digest has as many limbs as a scalar
  (`InstanceAssumption`), and the constant the windowed product starts from has
  all its limbs (`StartAssumption`): a shorter one leaves no limb for the
  quotient of its square, and every witness would be stuck at its doubling.

The number of proofs, types, issuers, leaves, targets and generators and the
length of chains, payloads, values and proofs are arbitrary, and so are
`Attempt`, `ForgedStatement` and the look-alike circuits: the theorems speak of
`Spec` and `PresSpec`, where provers choose their witnesses.

| Theorem | States |
|---|---|
| `TypeCorrect` | `Spec => []TypeOK` |
| `DepthCapHolds` | `Spec => []LevelWithinCap` |
| `GuardAgreesWithCircuit` | `Spec => []GuardIsExact` |
| `Provenance` | `Spec => []ClaimsAreSigned` |
| `ChainsOnlyTighten` | `Spec => []AncestorsBind` |
| `ListsOpenTheirProofs` | `Spec => []HandoverOpens` |
| `Refinement` | `Spec => ImplementsGrants` |
| `PresTypeCorrect` | `PresSpec => []PresTypeOK` |
| `DisclosureHolds` | `PresSpec => []DisclosureIsSigned` |
| `RedactionHolds` | `PresSpec => []RedactedStaysHidden` |
| `HoldersCanPresent` | `PresSpec => []HolderCanPresent` |
| `WakeupsKept` | `Spec => []NoLostWakeup` (`WitnessGeneration`) |
| `WitnessHolds` | `Spec => []FinishedHolds` (`WitnessGeneration`) |
| `PartitionRight` | `Spec => []PartitionIsConnectivity` (`WitnessGeneration`) |
| `LoopSolves` | initial states and steps of `WitnessGeneration` are those of `WitnessSolution` |
| `SearchIsRight` | `Spec => []SearchIsExact` (`CoBuild`) |
| `ShapesAgree` | `Spec => []OneShape` (`CoBuild`) |
| `SingleIteration` | `Spec => []OneIterationSuffices` (`CoBuild`) |
| `BlindingSuffices` | `Spec => []BlindingCovers` (`CoBuild`) |
| `DegreeGrows`, `BuiltDegreeGrows` | the degree, estimated and built, grows with the rows before blinding |
| `SignedText` | `Spec => []SignedTextIsRead` (`SignedMessage`) |
| `CredentialProvable` | `Spec => []CredentialCanBeProved` (`SignedMessage`) |
| `ListOpens` | `Spec => []ListOpensBase` (`ClaimExtraction`) |
| `AcceptedIsProvable` | `Spec => []AcceptedCanBeProved` (`ClaimExtraction`) |
| `ReloadsAsSigned` | `Spec => []ReloadIsIdentity` (`ClaimExtraction`) |
| `ReadingsShown` | `Spec => []ReadingsAreMembers` (`ClaimExtraction`) |
| `TranscriptInvariant` | `Spec => []IInv` (`Transcript`): every verdict is a run of its transcript |
| `Agreement` | `Spec => []ChallengesAgree` (`Transcript`) |
| `Binding` | `Spec => []ChallengesBind` (`Transcript`) |
| `Admission` | `Spec => []AdmittedIsSent` (`Transcript`) |
| `Freshness` | `Spec => []ChallengesFresh` (`Transcript`) |
| `RunsAlike` | both challengers draw the same, for every program of observations and draws |
| `FriInvariant` | `Spec => []IInv` (`FriQueries`): every verdict is its verifier's on rounds of a round's form |
| `AcceptsCommitted` | `Spec => []AcceptsOpenings` (`FriQueries`) |
| `CircuitAcceptsCommitted` | `Spec => []CircuitAccepts` (`FriQueries`) |
| `CompressionRestores` | `Spec => []CompressionIsLossless` (`FriQueries`) |
| `EcdsaResults` | `Spec => []ResultsAreMultiples` (`EcdsaCircuit`) |
| `EcdsaVerdict` | `Spec => []VerdictIsNative` (`EcdsaCircuit`) |
| `EcdsaStuck` | `Spec => StuckExactlyAtExceptions` (`EcdsaCircuit`) |
| `AddIsSum`, `SubIsDifference`, `MulIsProduct`, `Square64IsSquare` | scalar arithmetic on any two words gives a word for the right element |
| `Avx2AddIsSum`, `Avx2MulIsProduct`, `Avx512MulIsProduct` | the same of the vector code |
| `QuadraticProduct`, `QuarticProduct`, `QuinticProduct` | unreduced products in the extensions are those of the polynomials |
| `InverseIsFermat` | `try_inverse` raises to the order less two, for 2^32 |
| `MdsLayerIsMatrix` | the frequency-domain MDS layer is the circulant matrix |

**Delegation.** `LevelWithinCap` is not inductive. A step whose parent is an
unconstrained proof may state any level, so the invariant has to say where
proofs come from: `Sources` says that base proofs are of signed credentials,
that the library's wrapper proofs are wrapper proofs, and that every proof in
the chain is R_Del's, whoever made it. The inductive invariant is
`IInv == TypeOK /\ Sources /\ LevelWithinCap`.

The four ways to make an R_Del proof then collapse into one fact, `GenuineStep`:
a *genuine* new proof either follows an R_Wrap proof of its digest's type
(`RootOf`) or follows a *genuine* parent (`ChildOf`). The key tie does the work:
the new proof's key is R_Del, so the inner proof verified under R_Del and
carries R_Del as its key; and in the base branch a digest that names a type
means the wrapper slot held that type's R_Wrap. `Follows` states what one step
of constraints gives: same issuer, level one more, the range checks, a
redaction. Each property is then two cases. The cap: `RootLevel` evaluates the
range checks at level 1 under no cap, `ChildLevel` shows that between a parent
within its cap and a field with room, modular differences in range mean the
comparisons they stand for. Provenance and `AncestorsBind` use that redaction
is transitive. The refinement maps a root to `Grants!Root`, a child to
`Grants!Extend`, signing and preparing to `Grants!Sign`, and proofs that are
not genuine to stuttering.

`ListsOpenTheirProofs` rests on `MaskThenPad`: padding the list and masking it
with a resized bitmap, as the prover does, is masking the list and padding it
later, as the holder does, whenever `mask_attributes` accepts the bitmap.

Presenting leaves the delegation state alone, so `PresSpec` implies `Spec` and
its theorems carry over (`PresImplementsDelegation`). What is added is that
every presentation and every kept partition is `Verified`: about a proof that
was made, anchored on R_Del, with the same issuer and digest, disclosing a
redaction of its commitment. It is inductive because proofs never change once
made (`ProofsStay`), which is why a partition proved late is as good as one
proved at once. `Verified` and `ClaimsAreSigned` give `DisclosureIsSigned`,
`Verified` and `AncestorsBind` give `RedactedStaysHidden`, and `HandoverOpens`
gives `HolderCanPresent`.

**Witness generation.** Whether a generator may be left out of both queues
depends on the values present, and values are only set on representatives, so
the inductive invariant joins the typing of forest, values and queues,
`Untouched` (before the inputs are set nothing is known and every generator is
queued), `NoLostWakeup` and `FinishedHolds`. A finished generator gives values
to targets that had none; a generator that becomes ready by that watches one of
them and is queued by the same step. Values once set stay, so what held of a
finished generator goes on holding.

`PartitionRight` needs of the forest that following parents ends. `ForestInv`
says so with two functions, a representative and a height below it (`Hangs`);
merging hangs one tree under another, compressing changes heights only. The
relation the copies generate is stated by closed sets: two targets are joined
when no set that every copy respects separates them. `LoopSolves` maps `Finish`
to `Fire`, or to `Contradict` when a target already has another value, and the
end of a pass in which nothing was woken to the abstraction's `Finish`. That
last step is allowed only when no generator can fire, which is `NoLostWakeup`
once more.

**Building.** `SearchIsRight` keeps the binary search's two bounds on their
sides of the answer. It needs that the answer's side is decided by one
comparison, which is `DegreeGrows`: blinding rows are fewer at a greater degree,
yet no circuit gets a smaller degree by growing, since a greater degree was
needed only because the smaller one had no room for its own blinding.
`ShapesAgree` strengthens `OneShape` by what the build has established at each
stage: in "wrap" and "ready" R_Del built against its own shape is that shape.

`SingleIteration` is about costs that leave `Room`: R_Del has the seed's degree
when no gate type is registered and when every one is. In between it has it
too, since rows only grow with the gate types registered and the built degree
grows with the rows (`BuiltDegreeGrows`). `RoomIInv` then follows the build: the
trial is built against the seed, R_Del against the trial's shape with the
wrapper's gates registered, which is what it yields again, so neither the
bail-out nor the assertion is reached. That the built degree grows needs
`DropAssumption`: blinding counts fall where one more FRI reduction is made, and
must not fall by more than the circuit has grown. `BlindingSuffices` uses its
other half, which holds below 2^17.

**Signed messages.** `SignedText` shows that the length a prover claims is the
real one. The digest fixes the blocks and their number. A byte at the claimed
end has to be the marker: no byte of the header, the separator or the payload
is, so the claim is not shorter; behind the real marker come zeros, and the
range check keeps the claim out of the length field, which may hold a byte like
the marker, so it is not longer either. The header constraint admits the one
header, since no header has a separator in it, and within a group of four
characters the splitting constraints admit one way to cut each value. The
provers know nothing of a power but its name; its laws are proved by counting
subsets. `CredentialProvable` shows of the three forms in which the code computes
the number of blocks that they agree, whether or not the padding takes a block
of its own.

**Claims.** All four theorems rest on one fact of a payload's text: a key's
opening, a quote, the key, a quote and a colon, is found only where a member
opens, or x and y in `cnf`. A quote within a value is escaped, so what follows it
is never a key's opening. The invariant says of each text held that it is laid
out from members in this way (`Object`, `Held`). A foreign payload may have a key
twice, which is why `ReadingsShown` concludes "a member", and loading takes the
first. `AcceptedIsProvable` adds that a window which begins within the payload
fits in the padded text.

**Transcripts.** `IInv` says that every verdict is the run of its verifier's
transcript; the properties then relate two runs, part by part and step by step.

* The circuit's challenger and the native one: the circuit's sponge is what it
  will be once its buffer is absorbed in chunks, of which the native one has
  permuted the full ones already. They draw the same (`RunsAlike`), for every
  program and not only these transcripts.
* Two proofs of the same lengths: their challengers stand at the same place of
  a block, and where the sponges are equal all blocks were, since a sponge is the
  blocks it absorbed. So a challenge tells the parts before it (`Binding`).
* A proof with more caps than reductions has a transcript that is longer than the
  prover's. Up to the first cap that is too many it is compared as above with that
  of the proof without the further ones (`Trimmed`); from there on its sponge has
  been fed more elements than the prover's ever is (`FedMore`), and a sponge's
  blocks tell how many. So the queries differ (`LastDiffers`), and no challenge is
  the prover's before its messages are (`MoreCaps`).
* Prover and verifier: they differ at most in what the search found, and what
  the search takes for the response is what the challenger yields once the
  witness is observed, wherever in a block it falls (`Agreement`).

The rest is about lengths. The native verifier knows them of every part except
for the number of caps (`ShapeValid`). The circuit knows those of its targets: a proof that fills them
(`Fillable`) has, once filled, parts of these lengths, except that openings are
copied batch by batch, and then their batches have. Openings of known lengths
are told by their batches, which is what `Admission` adds to `Binding`; it is
there that `lookup_zs_next` must be as long as `lookup_zs`, for without lookups
the batch leaves it out. `Freshness` orders draws by the sponge they are made from
and by the outputs left in its buffer; no two agree in both.

**Queries.** `AcceptsOpenings` follows from what a round is, once it is known
that the rounds still have the form of rounds, whatever was altered in them, and
that a verdict was reached on the rounds that are there: that is `IInv`. The
work is in what a round is (`RoundAccepts`), from the bottom:

* The buffer of digests. `BufferLaid`: below every node, the roots of pair p of
  layer j are at `Entry(p, j, 0)` and `Entry(p, j, 1)`. It goes up the heights:
  a left half keeps its entries, a right half's move by a half's length and two.
  `PathIs` puts together the search for the subtree under the cap, the place
  `SiblingIndex` computes and this layout: `Path` holds the tree's siblings.
* The climb. `ClimbMeets`: it reaches the root of its subtree if and only if the
  leaf and each sibling are the tree's, at each step because hashing tells its
  arguments apart. It is stated for any sequence of digests that climbs, so that
  it serves the native verifier, who divides the index, and the circuit, which
  is given bits and the number of the cap's entry.
* The reductions. `IndexIs` and `MiddleBits`: dividing by one arity after the
  other, dropping that many bits, and the bits in between all name the leaf and
  the place in the coset; the value there is the one folded from the layer
  before (`OpenedIsConsistent`), so an honest round passes, and a round that
  passes has the tree's cosets.

The circuit splits a field element into as many bits as a word has, so an
element below 2^`FieldBits` - `FieldOrder` has two encodings and its low bits
are the witness' choice. `CircuitAcceptsCommitted` says what is accepted for
either, and that the verdicts agree where there is one (`OneEncoding`).

`CompressionRestores` has an invariant of its own, `CompressionInv`: rounds that
nobody altered open the indices drawn, a compressed proof is what `Compress`
makes of them, a restored one is those rounds. What is left to show is that
`Decompress` undoes `Compress` on openings (`RoundsRestored`), though the two go
through a tree in different orders, path by path and layer by layer:

* Siblings. `PathsCompressed`: of query q's siblings those stay, in order, that
  neither lie on a path (`OnPaths`) nor are siblings on a path before q's.
  Decompression knows a sibling, when it comes to layer j of query q, in just
  those cases: from the layers below it, which reached every path's node at layer
  j (`FillKeeps`), or from a query before q at the same layer. For that, one node
  must not be met at two layers (`LayersDiffer`: a node's number has its layer's
  power of two). So the next sibling kept is the one missing (`TreeRestored`),
  and where nodes carry their digests, hashing upwards writes digests.
* Values. `InferredIs`: the elements inferred are the codewords' values at the
  cosets met first, query by query and reduction by reduction. A query stops at
  a coset seen before, while decompression goes on and looks each coset up; they
  agree because once two queries share a coset they share all after it
  (`FreshBefore`). So each element is inserted in the coset it was removed from
  (`CompleteKeeps`, `CosetsAre`, `PutBack`).
* Of queries with one index or coset the first is kept (`FirstAt`), and its
  siblings are all that later ones need: those have nothing left to keep.

**Signatures.** First, whatever a gadget yields is shown to be right or stuck,
which carries the results and the verdict. From the bottom:

* `IsNumber(a, v)`: the limbs `a` are those of `v`, with or without zeros above.
  A generator computes from its operands' values and sets what its constraints
  then check, so a result that is not stuck is the generator's: a sum congruent to
  the operands', and differences, products and inverses as residues (`AddIs`,
  `SubIs`, `MulIs`, `InvIs`).
* Slopes are quotients of such residues, which a congruence determines, so
  `curve_add` and `curve_double` yield the sums of the library's affine addition
  although their coordinates pass through unreduced sums (`SumIs`, `DoubleIs`).
  Equal coordinates have no slope: a sum of points that meet is stuck.
* `IsMultiple(p, k)`: `p` holds k times the generator, and no multiple of the
  order. `GroupAssumption` turns sums of points into sums of such k.
* Windows are bits of the scalar (`WindowIs`: two-bit digits, joined in pairs,
  limb by limb), so one window more is the next digit (`WindowStep`). The fixed
  product grows from its starting point by windows of increasing weight, the
  windowed one by doublings from above.

`IInv` says of each stage which multiple each target holds, and of the scalars
that they are the quotients by s (`ScalarsInv`). It carries `VerdictIsNative`,
which speaks of stages that have forgotten the loops: at the comparison the
point is `VerifiedPoint`, and r equals its coordinate as it is, or not.

Then it is shown *when* each is stuck, for `EcdsaStuck`. That is about lengths,
which the values do not show:

* Columns. Limbs with carries are those of what they add up to (`CarriesAre`,
  `ColumnsAre`), a carry stays below the number of addends (`CarryBound`), and a
  product's columns, summed in whatever order, weigh what the product does
  (`ColumnsWeighed`). So `add_biguint`, `sub_biguint`, `cmp_biguint` and
  `mul_biguint` are stuck on no numbers of a residue's length, except at a
  difference below zero.
* Residues. A quotient has as many limbs as its dividend has more than the
  modulus, so a product of two residues is there when one of them has all its
  limbs (`IsFull`), not when both are short (`ProductOfFull`). The generator of a
  sum leaves one that comes to just the modulus (`IsModulus`, `PlusIs`). The
  next sum takes it for zero (`PlusModulus`), a difference is stuck on it and a
  product too, unless the other factor is zero (`MinusModulus`, `TimesModulus`).
  The cases that come of it are those of `SumFails`, `DoubleFails` and the key's
  check, to which `Exceptional` refers.
* Points. A sum needs coordinates within the modulus' limbs (`Tidy`,
  `SumExact`). A doubling squares its x, which must have all of them; the
  windowed product's has from its start, and after sums and doublings, which
  give their results all limbs. No multiple of the
  generator has a vertical tangent, since the group's order is odd
  (`NoVerticalTangent`).

`ShapeInv` says these lengths of the points the loops hold. With `IInv`, which says
the multiples they are of, one lemma per action (`…Exact`) shows that its step is
stuck if and only if `Exceptional` holds, and keeps `ShapeInv`.

**Field arithmetic.** The assumption is that `Radix` is even and at least 32
(for the MDS layer, at least 1 024). An element may have two words, so the
theorems say `SameElement`: equal up to a multiple of `ORDER`. All reductions
rest on one fact, that a whole word's worth of overflow is `EPSILON`: from it
come the single corrections of additions, why the second correction of
`reduce128` does not overflow, and that the rare second overflow of an addition
of two words that are not canonical is caught. The AVX2 reduction is shown equal
to the scalar one, with its comparisons of shifted words. Products in extensions
add up before they reduce; their sums are shown to fit the 160 bits reserved.

**Only model-checked.** That the relations are satisfiable, that every action
happens, that each property notices the mutation it is paired with, and:

* liveness, and refinement under fairness, which this prover does not reach
  (`Termination`, and of `Solves` that the abstraction comes to its end);
* what the folds of the remaining models compute: the gates (`GeneratedRowsHold`,
  `RowsMeanWhatTheyCompute`) and the identity at a point (`SatisfiedIsProved`,
  `ProvedIsSatisfied`). The provers have no induction. What is proved of
  recursive functions above goes by a least counterexample (`LeastNatural`,
  `Counting`), anew for each function.

## Not modelled, and why

* Keccak and the SHA-256 compression function, and Poseidon for particular
  processors (the AVX2 assembly is commented out in the code, NEON is for
  aarch64): straight-line arithmetic on large values, with no control for a
  state machine to speak of. Square roots, sampling, conversions to big integers
  and the packed and generic extension types around the products.
* Serialization: generic readers and writers, one line per field; no part of
  the pipeline stores a proof or a circuit.
* Batch FRI, verifiers of several degrees, secp256k1 with its GLV decomposition
  and the multi-scalar product: vendored and never called by the pipeline.
* That FRI accepts no polynomial of too high a degree: a statement of
  probability.
* `compute_merkle_proof`, `generate_dummy_jwt`, printing, timing, benchmarks.
* Unlinkability and zero knowledge are properties of distributions, not of
  behaviours.
* The verifier's session (challenges, replay of a presentation): the crate has
  no verifier with a state.

## Plan

Done: the pipeline and its refinement; R_Base's message, claims and signature;
building, witness generation, transcripts and queries; gates, the polynomial
argument and the field's words. What is left is mostly proof.

1. `NonNative`: carries between limbs, and the u32 gates: that a pair of halves
   under the gate's guard is the only one, as lemmas on division by the base.
2. Gates without recursion over data (arithmetic, selection by a bit, one step
   of the access by an index): that a row that holds means its operation.
3. The abstract promise of a presentation, with `Presentation` refining it.
