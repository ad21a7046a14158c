----------------------------- MODULE ProofSystem -----------------------------
(***************************************************************************)
(* The proof system of src/src/proof.rs: parameters set up for one         *)
(* circuit, and a cache of proofs shared by every clone of the object.     *)
(*                                                                         *)
(* Clones prove and verify at the same time. The cache's lock is taken for *)
(* one look-up or one insertion only, and nothing else is shared, so these *)
(* are the atomic steps: a batch looks its proofs up one by one, in an     *)
(* order of rayon's choosing, between the steps of others.                 *)
(*                                                                         *)
(* Groth16 is a library: it is taken to answer whether a proof was made    *)
(* for the parameters from a satisfied circuit.                            *)
(***************************************************************************)
EXTENDS VMCircuit, FiniteSets, SequencesExt

CONSTANTS
  Circuits,   \* the circuits that are set up or proved
  CacheSize,  \* the 1000 of setup, or the builder's cache_size
  Inputs,     \* the public inputs a ProofData may be given
  MaxProofs,  \* bound: proofs made
  MaxBatch    \* bound: proofs in a batch

VARIABLES
  params,   \* the shape of the circuit of the setup
  cache,    \* the cached proofs with their hashes, the latest used last
  made,     \* history: what prove returned, in order
  batch,    \* the batch under verification: what is left of it, and its answer
  last      \* the latest answer, and what was asked

vars == <<params, cache, made, batch, last>>

ASSUME CircuitsAssumption ==
  /\ CacheSize \in Nat \ {0} /\ {MaxProofs, MaxBatch} \subseteq Nat
  /\ <<>> \in Inputs
  /\ Circuits \subseteq CircuitType

-----------------------------------------------------------------------------
(* Proofs. create_random_proof draws fresh randomness: every proof differs.  *)

Proof == [id : 1 .. MaxProofs, valid : BOOLEAN]

\* hash_proof: over the proof's three elements and the public inputs.
HashProof(proof, inputs) == <<proof.id, inputs>>

\* Mutant of CollectPublicInputs: the constant one, which bellman adds itself.
CollectOne(c) == <<1>>

\* collect_public_inputs: a placeholder, there are none.
CollectPublicInputs(c) == <<>>

\* ProofData; its fields are public.
ProofData(proof, inputs, hash) == [proof |-> proof, public_inputs |-> inputs, hash |-> hash]

\* verify_proof of the library: no circuit has an input, so there is an error
\* if inputs are given.
VerifyProof(proof, inputs) ==
  IF inputs # <<>> THEN "error" ELSE IF proof.valid THEN "valid" ELSE "invalid"

\* Answers it may give to a proof of c: if the constraint system is not the one
\* of the setup, any.
MayBeValid(b) ==
  IF Shape(b) = params THEN {Satisfied(b)} ELSE BOOLEAN

-----------------------------------------------------------------------------
(* The cache. A look-up makes the entry the latest used.                   *)

Hashes == {cache[i].hash : i \in DOMAIN cache}

Place(hash) == CHOOSE i \in DOMAIN cache : cache[i].hash = hash
Entry(hash) == cache[Place(hash)]

\* Mutant of Touched: the old place is kept.
TouchedTwice(hash) == IF hash \in Hashes THEN Append(cache, Entry(hash)) ELSE cache

Touched(hash) ==
  IF hash \in Hashes
    THEN Append(RemoveAt(cache, Place(hash)), Entry(hash))
    ELSE cache

\* Mutant of Put: nothing is evicted.
Keep(entry) == Append(cache, entry)

\* LruCache::put of a new key: the entry that was used longest ago goes.
Put(entry) ==
  Append(IF Len(cache) >= CacheSize THEN Tail(cache) ELSE cache, entry)

\* Mutant of IsCached: the hash alone decides.
IsCachedHash(pd) == pd.hash \in Hashes

IsCached(pd) == pd.hash \in Hashes /\ Entry(pd.hash).proof = pd.proof

HashValid(pd) == HashProof(pd.proof, pd.public_inputs) = pd.hash

\* verify: a cached proof is accepted as it is, with any public inputs.
VerifyAnswer(pd) ==
  IF IsCached(pd) THEN "valid"
  ELSE LET answer == VerifyProof(pd.proof, pd.public_inputs)
       IN  IF answer = "valid" /\ ~HashValid(pd) THEN "invalid" ELSE answer

\* Mutant of BatchAnswer: only cached proofs are accepted.
BatchFromCache(pd) == IF IsCached(pd) THEN "valid" ELSE "invalid"

\* batch_verify, for one proof: another proof under a cached hash is rejected,
\* the hash of one that is not cached is not compared, an error is a no.
BatchAnswer(pd) ==
  IF pd.hash \in Hashes
    THEN IF IsCached(pd) THEN "valid" ELSE "invalid"
    ELSE IF VerifyProof(pd.proof, pd.public_inputs) = "valid" THEN "valid" ELSE "invalid"

-----------------------------------------------------------------------------
NoBatch == [todo |-> {}, asked |-> {}, answer |-> "none"]

\* setup: the circuit is synthesized without values. There is no object if that
\* panics or the system is refused.
SetUpAnswer(c) ==
  LET b == Synthesize(c, FALSE)
  IN  IF b.fault # "none" THEN b.fault
      ELSE IF Constrained(b) THEN "ok" ELSE "UnconstrainedVariable"

Parameters(c) == Shape(Synthesize(c, FALSE))

SetUp(c) == SetUpAnswer(c) = "ok" /\ params = Parameters(c)

\* setup, or build of the builder, which differs in the size of the cache; its
\* other two options are never read.
Init ==
  /\ \E c \in Circuits : SetUp(c)
  /\ cache = <<>> /\ made = <<>>
  /\ batch = NoBatch
  /\ last = [asked |-> {}, answer |-> "none"]

\* prove: an error or a panic leaves everything as it is.
Prove(c) ==
  LET b == Synthesize(c, TRUE)
  IN  /\ Len(made) < MaxProofs
      /\ \/ /\ b.fault # "none"
            /\ last' = [asked |-> {}, answer |-> b.fault]
            /\ UNCHANGED <<cache, made>>
         \/ /\ b.fault = "none" /\ Shape(b) # params
            /\ last' = [asked |-> {}, answer |-> "error"]
            /\ UNCHANGED <<cache, made>>
         \/ /\ b.fault = "none"
            /\ \E valid \in MayBeValid(b) :
                 LET proof  == [id |-> Len(made) + 1, valid |-> valid]
                     inputs == CollectPublicInputs(c)
                     hash   == HashProof(proof, inputs)
                 IN  /\ cache' = Put([hash |-> hash, proof |-> proof])
                     /\ made' = Append(made, ProofData(proof, inputs, hash))
            /\ last' = [asked |-> {}, answer |-> "proof"]
      /\ UNCHANGED <<params, batch>>

\* What callers hold: what prove returned, the public inputs changed or not,
\* under the hash of this proof or of another one.
Held ==
  {ProofData(made[i].proof, inputs, made[j].hash) :
     i \in DOMAIN made, j \in DOMAIN made, inputs \in Inputs}

Verify(pd) ==
  /\ last' = [asked |-> {pd}, answer |-> VerifyAnswer(pd)]
  /\ cache' = Touched(pd.hash)
  /\ UNCHANGED <<params, made, batch>>

\* batch_verify is called.
StartBatch(proofs) ==
  /\ batch = NoBatch
  /\ batch' = [todo |-> proofs, asked |-> proofs, answer |-> "valid"]
  /\ UNCHANGED <<params, cache, made, last>>

\* One proof of the batch is looked up and, if need be, verified.
VerifyOne(pd) ==
  /\ pd \in batch.todo
  /\ batch' = [batch EXCEPT !.todo = @ \ {pd},
                            !.answer = IF BatchAnswer(pd) = "valid" THEN @ ELSE "invalid"]
  /\ cache' = Touched(pd.hash)
  /\ UNCHANGED <<params, made, last>>

\* All are done: the answers are joined.
EndBatch ==
  /\ batch # NoBatch /\ batch.todo = {}
  /\ last' = [asked |-> batch.asked, answer |-> batch.answer]
  /\ batch' = NoBatch
  /\ UNCHANGED <<params, cache, made>>

Next ==
  \/ \E c \in Circuits : Prove(c)
  \/ \E pd \in Held : Verify(pd)
  \/ \E proofs \in SUBSET Held : Cardinality(proofs) <= MaxBatch /\ StartBatch(proofs)
  \/ \E pd \in batch.todo : VerifyOne(pd)
  \/ EndBatch

Spec == Init /\ [][Next]_vars

-----------------------------------------------------------------------------
(* Properties.                                                             *)

TypeOK ==
  /\ params.variables \in Nat
  /\ Len(cache) <= CacheSize
  /\ \A i \in DOMAIN made : made[i].proof \in Proof
  /\ last.answer \in {"none", "proof", "valid", "invalid", "error", "panic",
                      "AssignmentMissing"}

\* However often entries are touched and evicted, the cache holds proofs that
\* prove returned, each once and under its own hash.
CacheIsMade ==
  /\ \A i \in DOMAIN cache : \E j \in DOMAIN made :
       cache[i] = [hash |-> made[j].hash, proof |-> made[j].proof]
  /\ \A i, j \in DOMAIN cache : cache[i].hash = cache[j].hash => i = j

Unchanged(pd) == \E i \in DOMAIN made : pd = made[i]

\* A proof that is valid and was not changed is accepted, alone or in a batch,
\* in the cache or evicted from it, whatever other threads do.
HonestAccepted ==
  last.asked # {} /\ (\A pd \in last.asked : Unchanged(pd) /\ pd.proof.valid)
    => last.answer = "valid"

\* What verify accepts is valid for its inputs under its hash, or was made
\* here under that hash.
Justified(pd) ==
  \/ VerifyProof(pd.proof, pd.public_inputs) = "valid" /\ HashValid(pd)
  \/ \E i \in DOMAIN made : made[i].hash = pd.hash /\ made[i].proof = pd.proof
AcceptedIsJustified == \A pd \in Held : VerifyAnswer(pd) = "valid" => Justified(pd)

\* A batch accepts what verify accepts, and nothing else, at every moment: only
\* a wrong hash that is not in the cache, which batch_verify never compares, makes
\* them differ.
BatchAgrees ==
  \A pd \in Held :
    /\ VerifyAnswer(pd) = "valid" => BatchAnswer(pd) = "valid"
    /\ BatchAnswer(pd) = "valid" /\ (HashValid(pd) \/ pd.hash \in Hashes)
         => VerifyAnswer(pd) = "valid"

\* Every step allocates a variable for its opcode that no constraint mentions,
\* and setup refuses such a system: a circuit that fits parameters and satisfies
\* them runs no step of its program and ends in the state it began in.
ProofsShowNoStep ==
  \A c \in Circuits :
    LET b == Synthesize(c, TRUE)
    IN  b.fault = "none" /\ Shape(b) = params /\ Satisfied(b)
          => c.max_steps = 0 /\ c.final = c.initial

\* test_invalid_proof_rejection (src/tests/proof_tests.rs): a proof whose public
\* inputs were changed is not accepted.
TamperedRejected ==
  \A pd \in last.asked :
    (\E i \in DOMAIN made : pd = [made[i] EXCEPT !.public_inputs = pd.public_inputs])
      /\ ~Unchanged(pd)
    => last.answer # "valid"

=============================================================================
