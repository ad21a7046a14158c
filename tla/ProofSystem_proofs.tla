------------------------- MODULE ProofSystem_proofs -------------------------
(***************************************************************************)
(* Theorems about ProofSystem, for any circuits, public inputs, size of    *)
(* the cache and numbers of proofs, and any order of a batch's look-ups.   *)
(***************************************************************************)
EXTENDS ProofSystem, DataLemmas

-----------------------------------------------------------------------------
(* What prove returns.                                                     *)

\* The n-th proof made: numbered, without public inputs, under its own hash.
ProofNumber(n, valid) ==
  ProofData([id |-> n, valid |-> valid], <<>>, <<n, <<>>>>)

MadeData == {ProofNumber(n, valid) : n \in Nat, valid \in BOOLEAN}

MadeInv ==
  /\ made \in Seq(MadeData)
  /\ \A i \in 1 .. Len(made) : made[i].proof.id = i

LEMMA MadeFacts ==
  ASSUME MadeInv
  PROVE  /\ Len(made) \in Nat /\ DOMAIN made = 1 .. Len(made)
         /\ \A i \in 1 .. Len(made) :
              /\ made[i] = ProofData(made[i].proof, <<>>, <<i, <<>>>>)
              /\ made[i].proof.id = i /\ made[i].public_inputs = <<>>
              /\ made[i].hash = <<i, <<>>>>
<1>1. Len(made) \in Nat /\ DOMAIN made = 1 .. Len(made)
  BY LenProperties DEF MadeInv
<1>2. ASSUME NEW i \in 1 .. Len(made)
      PROVE  /\ made[i] = ProofData(made[i].proof, <<>>, <<i, <<>>>>)
             /\ made[i].proof.id = i /\ made[i].public_inputs = <<>>
             /\ made[i].hash = <<i, <<>>>>
  <2>1. made[i] \in MadeData /\ made[i].proof.id = i
    BY ElementOfSeq DEF MadeInv
  <2>2. PICK n \in Nat, valid \in BOOLEAN : made[i] = ProofNumber(n, valid)
    BY <2>1 DEF MadeData
  <2>3. n = i
    BY <2>1, <2>2 DEF ProofNumber, ProofData
  <2> QED
    BY <2>2, <2>3 DEF ProofNumber, ProofData
<1> QED
  BY <1>1, <1>2

\* prove makes at most one proof, the next one.
LEMMA ProveEffect ==
  ASSUME MadeInv, NEW c, Prove(c)
  PROVE  /\ UNCHANGED <<params, batch>> /\ last'.asked = {}
         /\ \/ UNCHANGED <<cache, made>>
            \/ \E valid \in BOOLEAN :
                 LET pd == ProofNumber(Len(made) + 1, valid)
                 IN  /\ made' = Append(made, pd)
                     /\ cache' = Put([hash |-> pd.hash, proof |-> pd.proof])
<1>1. \A b : Satisfied(b) \in BOOLEAN
  BY DEF Satisfied
<1>2. \A b : MayBeValid(b) \subseteq BOOLEAN
  BY <1>1 DEF MayBeValid
<1>3. UNCHANGED <<params, batch>> /\ last'.asked = {}
  <2>1. UNCHANGED <<params, batch>>
    BY DEF Prove
  <2>2. \E answer : last' = [asked |-> {}, answer |-> answer]
    BY Zenon DEF Prove
  <2> QED
    BY <2>1, <2>2
<1>4. CASE ~UNCHANGED <<cache, made>>
  <2>1. PICK valid \in BOOLEAN :
          LET proof  == [id |-> Len(made) + 1, valid |-> valid]
              inputs == CollectPublicInputs(c)
              hash   == HashProof(proof, inputs)
          IN  /\ cache' = Put([hash |-> hash, proof |-> proof])
              /\ made' = Append(made, ProofData(proof, inputs, hash))
    BY <1>2, <1>4 DEF Prove
  <2> QED
    BY <1>3, <2>1 DEF CollectPublicInputs, HashProof, ProofNumber, ProofData
<1> QED
  BY <1>3, <1>4

LEMMA OthersEffect ==
  ASSUME [Next]_vars, \A c \in Circuits : ~Prove(c)
  PROVE  made' = made
BY DEF Next, Verify, StartBatch, VerifyOne, EndBatch, vars

LEMMA MadeInit == Init => MadeInv
BY EmptySeq DEF Init, MadeInv

LEMMA MadeStep == MadeInv /\ [Next]_vars => MadeInv'
<1> SUFFICES ASSUME MadeInv, [Next]_vars PROVE MadeInv'
  OBVIOUS
<1>1. CASE made' = made
  BY <1>1 DEF MadeInv
<1>2. ASSUME NEW c \in Circuits, Prove(c), ~(made' = made)
      PROVE  MadeInv'
  <2>1. PICK valid \in BOOLEAN : made' = Append(made, ProofNumber(Len(made) + 1, valid))
    BY <1>2, ProveEffect
  <2> DEFINE pd == ProofNumber(Len(made) + 1, valid)
  <2>2. Len(made) \in Nat
    BY MadeFacts
  <2>3. pd \in MadeData /\ pd.proof.id = Len(made) + 1
    BY <2>2 DEF MadeData, ProofNumber, ProofData
  <2> HIDE DEF pd
  <2>4. /\ made' \in Seq(MadeData) /\ Len(made') = Len(made) + 1
        /\ \A i \in 1 .. Len(made) + 1 :
             made'[i] = IF i = Len(made) + 1 THEN pd ELSE made[i]
    BY <2>1, <2>3, AppendProperties DEF MadeInv, pd
  <2> QED
    BY <2>2, <2>3, <2>4 DEF MadeInv
<1> QED
  BY <1>1, <1>2, OthersEffect

-----------------------------------------------------------------------------
(* The cache.                                                              *)

Entries == {[hash |-> made[j].hash, proof |-> made[j].proof] : j \in 1 .. Len(made)}

EachOnce == \A i, j \in 1 .. Len(cache) : cache[i].hash = cache[j].hash => i = j

CacheInv == cache \in Seq(Entries) /\ EachOnce

\* A look-up moves an entry: nothing appears, nothing appears twice.
LEMMA TouchedProperties ==
  ASSUME CacheInv, NEW hash
  PROVE  /\ Touched(hash) \in Seq(Entries) /\ Len(Touched(hash)) = Len(cache)
         /\ \A i, j \in 1 .. Len(Touched(hash)) :
              Touched(hash)[i].hash = Touched(hash)[j].hash => i = j
<1>1. Len(cache) \in Nat /\ DOMAIN cache = 1 .. Len(cache)
  BY LenProperties DEF CacheInv
<1>2. CASE hash \notin Hashes
  BY <1>2 DEF Touched, CacheInv, EachOnce
<1>3. CASE hash \in Hashes
  <2> DEFINE k == Place(hash)
             rest == RemoveAt(cache, k)
  <2>1. k \in 1 .. Len(cache)
    <3>1. \E i \in DOMAIN cache : cache[i].hash = hash
      BY <1>3 DEF Hashes
    <3> QED
      BY <1>1, <3>1 DEF Place
  <2> HIDE DEF k
  <2>2. /\ rest \in Seq(Entries) /\ Len(rest) = Len(cache) - 1
        /\ \A j \in 1 .. Len(cache) - 1 : rest[j] = IF j < k THEN cache[j] ELSE cache[j + 1]
    BY <2>1, RemoveAtProperties DEF CacheInv
  <2>3. cache[k] \in Entries
    BY <2>1, ElementOfSeq DEF CacheInv
  <2>4. Touched(hash) = Append(rest, cache[k])
    BY <1>3 DEF Touched, Entry, k
  <2> HIDE DEF rest
  <2>5. /\ Touched(hash) \in Seq(Entries) /\ Len(Touched(hash)) = Len(cache)
        /\ \A j \in 1 .. Len(cache) :
             Touched(hash)[j] = IF j = Len(cache) THEN cache[k] ELSE rest[j]
    <3>1. /\ Append(rest, cache[k]) \in Seq(Entries)
          /\ Len(Append(rest, cache[k])) = Len(rest) + 1
          /\ \A j \in 1 .. Len(rest) + 1 :
               Append(rest, cache[k])[j] = IF j = Len(rest) + 1 THEN cache[k] ELSE rest[j]
      BY <2>2, <2>3, AppendProperties
    <3>2. Len(rest) + 1 = Len(cache)
      BY <1>1, <2>2
    <3> QED
      BY <2>4, <3>1, <3>2
  \* Where the entry at j was before.
  <2> DEFINE From(j) == IF j = Len(cache) THEN k ELSE IF j < k THEN j ELSE j + 1
  <2>6. ASSUME NEW j \in 1 .. Len(cache)
        PROVE  From(j) \in 1 .. Len(cache) /\ Touched(hash)[j] = cache[From(j)]
    <3>1. CASE j = Len(cache)
      BY <2>1, <2>5, <3>1
    <3>2. CASE j # Len(cache)
      <4>1. Len(cache) \in Nat
        BY <1>1
      <4>2. j \in 1 .. Len(cache) - 1
        BY <3>2, <4>1
      <4>3. Touched(hash)[j] = IF j < k THEN cache[j] ELSE cache[j + 1]
        BY <2>2, <2>5, <3>2, <4>2
      <4>4. From(j) = IF j < k THEN j ELSE j + 1
        BY <3>2
      <4>5. From(j) \in 1 .. Len(cache)
        BY <4>1, <4>2, <4>4
      <4> QED
        BY <4>3, <4>4, <4>5
    <3> QED
      BY <3>1, <3>2
  <2>7. ASSUME NEW i \in 1 .. Len(cache), NEW j \in 1 .. Len(cache), From(i) = From(j)
        PROVE  i = j
    <3>1. i \in Nat /\ j \in Nat /\ k \in Nat /\ k <= Len(cache)
      BY <1>1, <2>1
    <3>2. i <= Len(cache) /\ j <= Len(cache) /\ Len(cache) \in Nat
      BY <1>1
    <3> QED
      BY <2>7, <3>1, <3>2
  <2> HIDE DEF From
  <2>8. ASSUME NEW i \in 1 .. Len(cache), NEW j \in 1 .. Len(cache),
               Touched(hash)[i].hash = Touched(hash)[j].hash
        PROVE  i = j
    <3>1. cache[From(i)].hash = cache[From(j)].hash
      BY <2>6, <2>8
    <3>2. From(i) = From(j)
      BY <2>6, <3>1 DEF CacheInv, EachOnce
    <3> QED
      BY <2>7, <3>2
  <2> QED
    BY <2>5, <2>8
<1> QED
  BY <1>2, <1>3

\* A new entry goes to the end; at most the first one leaves.
LEMMA PutProperties ==
  ASSUME NEW S, cache \in Seq(S), EachOnce, NEW entry \in S,
         \A i \in 1 .. Len(cache) : cache[i].hash # entry.hash
  PROVE  /\ Put(entry) \in Seq(S)
         /\ \A i, j \in 1 .. Len(Put(entry)) :
              Put(entry)[i].hash = Put(entry)[j].hash => i = j
<1> DEFINE kept == IF Len(cache) >= CacheSize THEN Tail(cache) ELSE cache
           gone == IF Len(cache) >= CacheSize THEN 1 ELSE 0
<1>1. Len(cache) \in Nat
  BY LenProperties
<1>2. /\ kept \in Seq(S) /\ Len(kept) = Len(cache) - gone
      /\ \A i \in 1 .. Len(kept) : kept[i] = cache[i + gone]
  <2>1. CASE Len(cache) >= CacheSize
    <3>1. cache # <<>>
      BY <2>1, CircuitsAssumption, EmptySeq
    <3> QED
      BY <2>1, <3>1, HeadTailProperties
  <2>2. CASE ~(Len(cache) >= CacheSize)
    BY <1>1, <2>2
  <2> QED
    BY <2>1, <2>2
<1>3. Put(entry) = Append(kept, entry)
  BY DEF Put
<1>4. gone \in {0, 1}
  OBVIOUS
<1>5. Len(cache) - gone \in Nat
  BY <1>2, LenProperties
<1> HIDE DEF kept, gone
<1>6. /\ Put(entry) \in Seq(S) /\ Len(Put(entry)) = Len(kept) + 1
      /\ \A i \in 1 .. Len(kept) + 1 :
           Put(entry)[i] = IF i = Len(kept) + 1 THEN entry ELSE kept[i]
  BY <1>2, <1>3, AppendProperties
<1>7. ASSUME NEW i \in 1 .. Len(kept) + 1, NEW j \in 1 .. Len(kept) + 1,
             Put(entry)[i].hash = Put(entry)[j].hash
      PROVE  i = j
  <2>1. \A n \in 1 .. Len(kept) : n + gone \in 1 .. Len(cache)
    BY <1>1, <1>2, <1>4, <1>5
  <2>2. CASE i = Len(kept) + 1 \/ j = Len(kept) + 1
    BY <1>2, <1>5, <1>6, <1>7, <2>1, <2>2
  <2>3. CASE i # Len(kept) + 1 /\ j # Len(kept) + 1
    <3>1. i \in 1 .. Len(kept) /\ j \in 1 .. Len(kept)
      <4>1. Len(kept) \in Nat
        BY <1>2, <1>5
      <4> QED
        BY <2>3, <4>1
    <3>2. i + gone = j + gone
      BY <1>2, <1>6, <1>7, <2>1, <2>3, <3>1 DEF EachOnce
    <3>3. i \in Nat /\ j \in Nat /\ gone \in Nat
      BY <1>4, <1>5, <3>1
    <3> QED
      BY <3>2, <3>3
  <2> QED
    BY <2>2, <2>3
<1> QED
  BY <1>6, <1>7

LEMMA CacheInit == Init => CacheInv
<1> SUFFICES ASSUME Init PROVE CacheInv
  OBVIOUS
<1>1. cache = <<>>
  BY DEF Init
<1> QED
  BY <1>1, EmptySeq DEF CacheInv, EachOnce

LEMMA CacheStep == MadeInv /\ CacheInv /\ [Next]_vars => CacheInv'
<1> SUFFICES ASSUME MadeInv, CacheInv, [Next]_vars PROVE CacheInv'
  OBVIOUS
<1>1. CASE UNCHANGED <<cache, made>>
  BY <1>1 DEF CacheInv, Entries, EachOnce
<1>2. ASSUME NEW hash, cache' = Touched(hash), made' = made
      PROVE  CacheInv'
  <2>1. Entries' = Entries
    BY <1>2 DEF Entries
  <2> QED
    BY <1>2, <2>1, TouchedProperties DEF CacheInv, EachOnce
<1>3. ASSUME NEW c \in Circuits, Prove(c), ~UNCHANGED <<cache, made>>
      PROVE  CacheInv'
  <2>1. PICK valid \in BOOLEAN :
          LET pd == ProofNumber(Len(made) + 1, valid)
          IN  /\ made' = Append(made, pd)
              /\ cache' = Put([hash |-> pd.hash, proof |-> pd.proof])
    BY <1>3, ProveEffect
  <2> DEFINE pd == ProofNumber(Len(made) + 1, valid)
             entry == [hash |-> pd.hash, proof |-> pd.proof]
  <2>2. Len(made) \in Nat
    BY MadeFacts
  <2>3. pd \in MadeData /\ pd.hash = <<Len(made) + 1, <<>>>> /\ entry.hash = pd.hash
    BY <2>2 DEF MadeData, ProofNumber, ProofData
  <2> HIDE DEF pd
  <2>4. /\ Len(made') = Len(made) + 1
        /\ \A i \in 1 .. Len(made) + 1 :
             made'[i] = IF i = Len(made) + 1 THEN pd ELSE made[i]
    BY <2>1, <2>3, AppendProperties DEF MadeInv, pd
  <2>5. Entries \subseteq Entries' /\ entry \in Entries'
    BY <2>2, <2>4 DEF Entries
  <2>6. cache \in Seq(Entries')
    BY <2>5, SeqMonotonic DEF CacheInv
  <2>7. ASSUME NEW i \in 1 .. Len(cache)
        PROVE  cache[i].hash # entry.hash
    <3>1. cache[i] \in Entries
      BY ElementOfSeq DEF CacheInv
    <3>2. PICK j \in 1 .. Len(made) : cache[i].hash = made[j].hash
      BY <3>1 DEF Entries
    <3>3. cache[i].hash = <<j, <<>>>>
      BY <3>2, MadeFacts
    <3>4. j # Len(made) + 1
      BY <2>2
    <3> QED
      BY <2>3, <3>3, <3>4
  <2> HIDE DEF entry
  <2>8. /\ Put(entry) \in Seq(Entries')
        /\ \A i, j \in 1 .. Len(Put(entry)) :
             Put(entry)[i].hash = Put(entry)[j].hash => i = j
    BY <2>5, <2>6, <2>7, PutProperties DEF CacheInv
  <2>9. cache' = Put(entry)
    BY <2>1 DEF pd, entry
  <2> QED
    BY <2>8, <2>9 DEF CacheInv, EachOnce
<1>4. CASE \E c \in Circuits : Prove(c)
  BY <1>1, <1>3, <1>4
<1>5. CASE \A c \in Circuits : ~Prove(c)
  BY <1>1, <1>2, <1>5 DEF Next, Verify, StartBatch, VerifyOne, EndBatch, vars
<1> QED
  BY <1>4, <1>5

LEMMA CachedWasMade ==
  ASSUME MadeInv, CacheInv
  PROVE  CacheIsMade
<1>1. Len(cache) \in Nat /\ DOMAIN cache = 1 .. Len(cache) /\ DOMAIN made = 1 .. Len(made)
  BY LenProperties, MadeFacts DEF CacheInv
<1>2. ASSUME NEW i \in 1 .. Len(cache)
      PROVE  \E j \in 1 .. Len(made) :
               cache[i] = [hash |-> made[j].hash, proof |-> made[j].proof]
  <2>1. cache[i] \in Entries
    BY ElementOfSeq DEF CacheInv
  <2> QED
    BY <2>1 DEF Entries
<1> QED
  BY <1>1, <1>2 DEF CacheIsMade, CacheInv, EachOnce

\* However often entries are touched and evicted, and however many clones work on
\* the cache, it holds proofs that prove returned, each once and under its own hash.
THEOREM CacheStaysMade == Spec => []CacheIsMade
<1>1. MadeInv /\ CacheInv => CacheIsMade
  BY CachedWasMade
<1> QED
  BY <1>1, MadeInit, MadeStep, CacheInit, CacheStep, PTL DEF Spec

-----------------------------------------------------------------------------
(* Answers.                                                                *)

\* Under a cached hash lies the proof that was made under it.
LEMMA EntryWasMade ==
  ASSUME MadeInv, CacheInv, NEW hash \in Hashes
  PROVE  \E j \in 1 .. Len(made) : hash = <<j, <<>>>> /\ Entry(hash).proof = made[j].proof
<1>1. DOMAIN cache = 1 .. Len(cache)
  BY LenProperties DEF CacheInv
<1>2. Place(hash) \in 1 .. Len(cache) /\ cache[Place(hash)].hash = hash
  <2>1. \E i \in DOMAIN cache : cache[i].hash = hash
    BY DEF Hashes
  <2> QED
    BY <1>1, <2>1 DEF Place
<1>3. cache[Place(hash)] \in Entries
  BY <1>2, ElementOfSeq DEF CacheInv
<1>4. PICK j \in 1 .. Len(made) :
        cache[Place(hash)] = [hash |-> made[j].hash, proof |-> made[j].proof]
  BY <1>3 DEF Entries
<1>5. made[j].hash = <<j, <<>>>>
  BY MadeFacts
<1> QED
  BY <1>2, <1>4, <1>5 DEF Entry

\* What callers hold: a proof that was made, under the hash of one that was made.
LEMMA HeldFacts ==
  ASSUME MadeInv, NEW pd \in Held
  PROVE  /\ \E i \in 1 .. Len(made) : pd.proof = made[i].proof /\ pd.proof.id = i
         /\ \E j \in 1 .. Len(made) : pd.hash = <<j, <<>>>>
         /\ pd = ProofData(pd.proof, pd.public_inputs, pd.hash)
<1>1. PICK i \in DOMAIN made, j \in DOMAIN made, inputs \in Inputs :
        pd = ProofData(made[i].proof, inputs, made[j].hash)
  BY DEF Held
<1>2. i \in 1 .. Len(made) /\ j \in 1 .. Len(made)
  BY <1>1, MadeFacts
<1>3. pd.proof = made[i].proof /\ pd.public_inputs = inputs /\ pd.hash = made[j].hash
  BY <1>1 DEF ProofData
<1>4. made[i].proof.id = i /\ made[j].hash = <<j, <<>>>>
  BY <1>2, MadeFacts
<1> QED
  BY <1>1, <1>2, <1>3, <1>4

\* Data under its own hash was not changed.
LEMMA OwnHash ==
  ASSUME MadeInv, NEW pd \in Held, HashValid(pd)
  PROVE  /\ pd.public_inputs = <<>>
         /\ \E j \in 1 .. Len(made) : pd.hash = <<j, <<>>>> /\ pd.proof = made[j].proof
<1>1. PICK i \in 1 .. Len(made) : pd.proof = made[i].proof /\ pd.proof.id = i
  BY HeldFacts
<1>2. PICK j \in 1 .. Len(made) : pd.hash = <<j, <<>>>>
  BY HeldFacts
<1>3. <<i, pd.public_inputs>> = <<j, <<>>>>
  BY <1>1, <1>2 DEF HashValid, HashProof
<1>4. i = j /\ pd.public_inputs = <<>>
  BY <1>3
<1> QED
  BY <1>1, <1>2, <1>4

\* What verify accepts, from the cache or not, is valid for its inputs under its
\* hash, or was made here under that hash.
THEOREM AcceptedStaysJustified == Spec => []AcceptedIsJustified
<1>1. MadeInv /\ CacheInv => AcceptedIsJustified
  <2> SUFFICES ASSUME MadeInv, CacheInv, NEW pd \in Held, VerifyAnswer(pd) = "valid"
               PROVE  Justified(pd)
    BY DEF AcceptedIsJustified
  <2>1. CASE IsCached(pd)
    <3>1. PICK j \in 1 .. Len(made) :
            pd.hash = <<j, <<>>>> /\ Entry(pd.hash).proof = made[j].proof
      BY <2>1, EntryWasMade DEF IsCached
    <3>2. j \in DOMAIN made /\ made[j].hash = pd.hash
      BY <3>1, MadeFacts
    <3> QED
      BY <2>1, <3>1, <3>2 DEF IsCached, Justified
  <2>2. CASE ~IsCached(pd)
    BY <2>2 DEF VerifyAnswer, Justified
  <2> QED
    BY <2>1, <2>2
<1> QED
  BY <1>1, MadeInit, MadeStep, CacheInit, CacheStep, PTL DEF Spec

\* A batch accepts what verify accepts, whatever is cached, and nothing else but
\* under a wrong hash that is not in the cache.
THEOREM BatchAlwaysAgrees == Spec => []BatchAgrees
<1>1. MadeInv /\ CacheInv => BatchAgrees
  <2> SUFFICES ASSUME MadeInv, CacheInv, NEW pd \in Held
               PROVE  /\ VerifyAnswer(pd) = "valid" => BatchAnswer(pd) = "valid"
                      /\ BatchAnswer(pd) = "valid" /\ (HashValid(pd) \/ pd.hash \in Hashes)
                           => VerifyAnswer(pd) = "valid"
    BY DEF BatchAgrees
  <2>1. ASSUME HashValid(pd), pd.hash \in Hashes
        PROVE  IsCached(pd)
    <3>1. PICK j \in 1 .. Len(made) : pd.hash = <<j, <<>>>> /\ pd.proof = made[j].proof
      BY <2>1, OwnHash
    <3>2. PICK k \in 1 .. Len(made) :
            pd.hash = <<k, <<>>>> /\ Entry(pd.hash).proof = made[k].proof
      BY <2>1, EntryWasMade
    <3> QED
      BY <2>1, <3>1, <3>2 DEF IsCached
  <2>2. CASE pd.hash \in Hashes
    <3>1. BatchAnswer(pd) = "valid" <=> IsCached(pd)
      BY <2>2 DEF BatchAnswer
    <3>2. VerifyAnswer(pd) = "valid" <=> IsCached(pd)
      BY <2>1, <2>2 DEF VerifyAnswer
    <3> QED
      BY <3>1, <3>2
  <2>3. CASE pd.hash \notin Hashes
    BY <2>3 DEF BatchAnswer, VerifyAnswer, IsCached
  <2> QED
    BY <2>2, <2>3
<1> QED
  BY <1>1, MadeInit, MadeStep, CacheInit, CacheStep, PTL DEF Spec

\* A proof that is valid and was not changed is accepted, cached or not.
LEMMA HonestAnswer ==
  ASSUME MadeInv, CacheInv, NEW pd, Unchanged(pd), pd.proof.valid
  PROVE  VerifyAnswer(pd) = "valid" /\ BatchAnswer(pd) = "valid"
<1>1. PICK i \in 1 .. Len(made) : pd = made[i]
  BY MadeFacts DEF Unchanged
<1>2. /\ pd.hash = <<i, <<>>>> /\ pd.public_inputs = <<>> /\ pd.proof = made[i].proof
      /\ pd.proof.id = i
  BY <1>1, MadeFacts
<1>3. VerifyProof(pd.proof, pd.public_inputs) = "valid" /\ HashValid(pd)
  BY <1>2 DEF VerifyProof, HashValid, HashProof
<1>4. CASE pd.hash \in Hashes
  <2>1. PICK k \in 1 .. Len(made) :
          pd.hash = <<k, <<>>>> /\ Entry(pd.hash).proof = made[k].proof
    BY <1>4, EntryWasMade
  <2>2. IsCached(pd)
    BY <1>2, <1>4, <2>1 DEF IsCached
  <2> QED
    BY <1>4, <2>2 DEF VerifyAnswer, BatchAnswer
<1>5. CASE pd.hash \notin Hashes
  BY <1>3, <1>5 DEF VerifyAnswer, BatchAnswer, IsCached
<1> QED
  BY <1>4, <1>5

\* The strengthening: what is asked was made before it was asked, so no later proof
\* makes it unchanged; and the batch so far answers like its honest proofs.
Known(asked) == \A pd \in asked : pd.proof.id \in 1 .. Len(made)
Honest(asked) == asked # {} /\ \A pd \in asked : Unchanged(pd) /\ pd.proof.valid

BatchInv ==
  /\ DOMAIN batch = {"todo", "asked", "answer"}
  /\ batch.todo \subseteq batch.asked
  /\ Known(batch.asked) /\ Known(last.asked)
  /\ Honest(batch.asked) => batch.answer = "valid"
  /\ Honest(last.asked) => last.answer = "valid"

LEMMA BatchInit == Init => BatchInv
BY DEF Init, NoBatch, BatchInv, Known, Honest

\* Proofs are added behind those made.
LEMMA MadeGrows ==
  ASSUME MadeInv, MadeInv', [Next]_vars
  PROVE  \A asked : Known(asked) => Known(asked)' /\ (Honest(asked)' => Honest(asked))
<1>1. /\ Len(made) \in Nat /\ Len(made') \in Nat /\ Len(made) <= Len(made')
      /\ \A i \in 1 .. Len(made) : made'[i] = made[i]
  <2>1. Len(made) \in Nat
    BY MadeFacts
  <2>2. CASE made' = made
    BY <2>1, <2>2
  <2>3. ASSUME NEW c \in Circuits, Prove(c), ~(made' = made)
        PROVE  /\ Len(made') = Len(made) + 1
               /\ \A i \in 1 .. Len(made) : made'[i] = made[i]
    <3>1. PICK valid \in BOOLEAN : made' = Append(made, ProofNumber(Len(made) + 1, valid))
      BY <2>3, ProveEffect
    <3>0. Len(made) + 1 \in Nat
      BY <2>1
    <3>2. ProofNumber(Len(made) + 1, valid) \in MadeData
      BY <3>0, <3>1 DEF MadeData
    <3>3. /\ Len(made') = Len(made) + 1
          /\ \A i \in 1 .. Len(made) + 1 :
               made'[i] = IF i = Len(made) + 1 THEN ProofNumber(Len(made) + 1, valid) ELSE made[i]
      BY <3>1, <3>2, AppendProperties DEF MadeInv
    <3> QED
      BY <2>1, <3>3
  <2> QED
    BY <2>1, <2>2, <2>3, OthersEffect
<1>2. /\ \A i \in 1 .. Len(made) : made[i].proof.id = i
      /\ \A i \in 1 .. Len(made') : made'[i].proof.id = i
      /\ DOMAIN made = 1 .. Len(made) /\ DOMAIN made' = 1 .. Len(made')
  BY LenProperties DEF MadeInv
<1>3. ASSUME NEW pd, pd.proof.id \in 1 .. Len(made)
      PROVE  pd.proof.id \in 1 .. Len(made') /\ (Unchanged(pd)' => Unchanged(pd))
  <2>1. pd.proof.id \in 1 .. Len(made')
    BY <1>1, <1>3
  <2>2. ASSUME NEW i \in 1 .. Len(made'), pd = made'[i]
        PROVE  Unchanged(pd)
    <3>1. i \in 1 .. Len(made)
      BY <1>2, <1>3, <2>2
    <3> QED
      BY <1>1, <1>2, <2>2, <3>1 DEF Unchanged
  <2> QED
    BY <1>2, <2>1, <2>2 DEF Unchanged
<1> QED
  BY <1>3 DEF Known, Honest

LEMMA BatchStep == MadeInv /\ MadeInv' /\ CacheInv /\ BatchInv /\ [Next]_vars => BatchInv'
<1> SUFFICES ASSUME MadeInv, MadeInv', CacheInv, BatchInv, [Next]_vars PROVE BatchInv'
  OBVIOUS
<1>1. /\ \A pd \in Held : pd.proof.id \in 1 .. Len(made)
      /\ \A asked : Known(asked) => Known(asked)' /\ (Honest(asked)' => Honest(asked))
  BY HeldFacts, MadeGrows
<1>2. CASE UNCHANGED <<batch, last>>
  BY <1>1, <1>2 DEF BatchInv
<1>3. ASSUME NEW c \in Circuits, Prove(c)
      PROVE  BatchInv'
  <2>1. batch' = batch /\ last'.asked = {}
    BY <1>3, ProveEffect
  <2> QED
    BY <1>1, <2>1 DEF BatchInv, Known, Honest
<1>4. ASSUME NEW pd \in Held, Verify(pd)
      PROVE  BatchInv'
  <2>1. batch' = batch /\ last'.asked = {pd} /\ last'.answer = VerifyAnswer(pd)
    BY <1>4 DEF Verify
  <2>2. Known({pd})
    BY <1>1 DEF Known
  <2>3. Honest({pd}) => VerifyAnswer(pd) = "valid"
    BY HonestAnswer DEF Honest
  <2> QED
    BY <1>1, <2>1, <2>2, <2>3 DEF BatchInv
<1>5. ASSUME NEW proofs \in SUBSET Held, StartBatch(proofs)
      PROVE  BatchInv'
  <2>1. batch' = [todo |-> proofs, asked |-> proofs, answer |-> "valid"] /\ last' = last
    BY <1>5 DEF StartBatch
  <2>2. Known(proofs)
    BY <1>1 DEF Known
  <2> QED
    BY <1>1, <2>1, <2>2 DEF BatchInv
<1>6. ASSUME NEW pd \in batch.todo, VerifyOne(pd)
      PROVE  BatchInv'
  <2>1. /\ DOMAIN batch' = {"todo", "asked", "answer"} /\ last' = last
        /\ batch'.asked = batch.asked /\ batch'.todo \subseteq batch.todo
        /\ batch'.answer = IF BatchAnswer(pd) = "valid" THEN batch.answer ELSE "invalid"
    BY <1>6 DEF VerifyOne, BatchInv
  <2>2. Honest(batch.asked) => BatchAnswer(pd) = "valid"
    BY HonestAnswer DEF Honest, BatchInv
  <2> QED
    BY <1>1, <2>1, <2>2 DEF BatchInv
<1>7. CASE EndBatch
  <2>1. /\ last'.asked = batch.asked /\ last'.answer = batch.answer
        /\ batch' = NoBatch
    BY <1>7 DEF EndBatch
  <2> QED
    BY <1>1, <2>1 DEF BatchInv, NoBatch, Known, Honest
<1> QED
  BY <1>2, <1>3, <1>4, <1>5, <1>6, <1>7 DEF Next, vars

\* An unchanged valid proof is accepted, alone or in a batch, in the cache or
\* evicted from it, whatever clones do between the look-ups of the batch.
THEOREM HonestIsAccepted == Spec => []HonestAccepted
<1>1. BatchInv => HonestAccepted
  BY DEF BatchInv, Honest, HonestAccepted
<1> QED
  BY <1>1, MadeInit, MadeStep, CacheInit, CacheStep, BatchInit, BatchStep, PTL DEF Spec

-----------------------------------------------------------------------------
(* Synthesis. What matters is how many variables there are: the values are *)
(* anything, so a sequence is one of whatever its elements are.            *)

IsSequence(s) == s \in Seq({s[i] : i \in 1 .. Len(s)})

LEMMA SequenceOf ==
  ASSUME NEW S, NEW s \in Seq(S)
  PROVE  IsSequence(s) /\ Len(s) \in Nat
<1>1. Len(s) \in Nat /\ s \in [1 .. Len(s) -> S]
  BY LenProperties
<1>2. s \in [1 .. Len(s) -> {s[i] : i \in 1 .. Len(s)}]
  BY <1>1
<1> QED
  BY <1>1, <1>2, SeqDef DEF IsSequence

LEMMA Constructed ==
  ASSUME NEW n \in Nat, NEW s, DOMAIN s = 1 .. n, s = [i \in DOMAIN s |-> s[i]]
  PROVE  IsSequence(s) /\ Len(s) = n
<1>1. s \in [1 .. n -> {s[i] : i \in 1 .. n}]
  OBVIOUS
<1>2. s \in Seq({s[i] : i \in 1 .. n})
  BY <1>1, SeqDef
<1>3. Len(s) \in Nat /\ DOMAIN s = 1 .. Len(s)
  BY <1>2, LenProperties
<1>4. Len(s) = n
  BY <1>3
<1> QED
  BY <1>2, <1>4 DEF IsSequence

LEMMA Appended ==
  ASSUME NEW s, IsSequence(s), NEW v
  PROVE  IsSequence(Append(s, v)) /\ Len(s) \in Nat /\ Len(Append(s, v)) = Len(s) + 1
<1> DEFINE T == {s[i] : i \in 1 .. Len(s)} \cup {v}
<1>1. s \in Seq(T) /\ v \in T
  BY SeqMonotonic DEF IsSequence
<1> HIDE DEF T
<1>2. Append(s, v) \in Seq(T) /\ Len(Append(s, v)) = Len(s) + 1
  BY <1>1, AppendProperties
<1> QED
  BY <1>1, <1>2, SequenceOf, LenProperties

LEMMA Concatenated ==
  ASSUME NEW s, IsSequence(s), NEW t, IsSequence(t)
  PROVE  IsSequence(s \o t) /\ Len(s) \in Nat /\ Len(t) \in Nat /\ Len(s \o t) = Len(s) + Len(t)
<1> DEFINE T == {s[i] : i \in 1 .. Len(s)} \cup {t[i] : i \in 1 .. Len(t)}
<1>1. s \in Seq(T) /\ t \in Seq(T)
  BY SeqMonotonic DEF IsSequence
<1> HIDE DEF T
<1>2. s \o t \in Seq(T) /\ Len(s \o t) = Len(s) + Len(t)
  BY <1>1, ConcatProperties
<1> QED
  BY <1>1, <1>2, SequenceOf, LenProperties

LEMMA WithoutTwo ==
  ASSUME NEW s, IsSequence(s), Len(s) >= 2
  PROVE  IsSequence(SubSeq(s, 1, Len(s) - 2))
<1> DEFINE T == {s[i] : i \in 1 .. Len(s)}
<1>1. s \in Seq(T) /\ Len(s) \in Nat
  BY LenProperties DEF IsSequence
<1>2. \A i \in 1 .. Len(s) - 2 : s[i] \in T
  BY <1>1
<1> HIDE DEF T
<1>3. SubSeq(s, 1, Len(s) - 2) \in Seq(T)
  BY <1>1, <1>2, SubSeqProperties
<1> QED
  BY <1>3, SequenceOf

\* A synthesis under way.
Running(b) ==
  /\ DOMAIN b = {"aux", "stack", "memory", "program_counter", "constraints", "fault"}
  /\ IsSequence(b.aux) /\ IsSequence(b.stack) /\ IsSequence(b.memory)
  /\ b.fault \in {"none", "AssignmentMissing", "panic"}

LEMMA AllocRuns ==
  ASSUME NEW b, Running(b), NEW v
  PROVE  /\ Running(Alloc(b, v)) /\ Alloc(b, v).aux = Append(b.aux, v)
         /\ Len(b.aux) \in Nat /\ Newest(Alloc(b, v)) = Len(b.aux) + 1
         /\ Alloc(b, v).stack = b.stack /\ Alloc(b, v).memory = b.memory
         /\ Alloc(b, v).program_counter = b.program_counter
         /\ Alloc(b, v).constraints = b.constraints /\ Alloc(b, v).fault = b.fault
<1>1. IsSequence(Append(b.aux, v)) /\ Len(b.aux) \in Nat /\ Len(Append(b.aux, v)) = Len(b.aux) + 1
  BY Appended DEF Running
<1> QED
  BY <1>1 DEF Alloc, Newest, Running

LEMMA EnforceRuns ==
  ASSUME NEW b, Running(b), NEW k
  PROVE  /\ Running(Enforce(b, k)) /\ Enforce(b, k).constraints = Append(b.constraints, k)
         /\ Enforce(b, k).aux = b.aux
         /\ Enforce(b, k).stack = b.stack /\ Enforce(b, k).memory = b.memory
         /\ Enforce(b, k).program_counter = b.program_counter
         /\ Enforce(b, k).fault = b.fault
BY DEF Enforce, Running

LEMMA FailRuns ==
  ASSUME NEW b, Running(b), NEW fault \in {"AssignmentMissing", "panic"}
  PROVE  Running(Fail(b, fault)) /\ Fail(b, fault).fault = fault
BY DEF Fail, Running

\* Pushing a variable, in place of the two topmost ones or not.
LEMMA StackRuns ==
  ASSUME NEW b, Running(b), NEW s, IsSequence(s)
  PROVE  /\ Running([b EXCEPT !.stack = s]) /\ [b EXCEPT !.stack = s].stack = s
         /\ [b EXCEPT !.stack = s].aux = b.aux /\ [b EXCEPT !.stack = s].memory = b.memory
         /\ [b EXCEPT !.stack = s].program_counter = b.program_counter
         /\ [b EXCEPT !.stack = s].constraints = b.constraints
         /\ [b EXCEPT !.stack = s].fault = b.fault
BY DEF Running

\* Every arm of a step leaves a synthesis under way.
LEMMA FetchRuns ==
  ASSUME NEW c, NEW b, Running(b), NEW proving
  PROVE  Running(FetchOpcode(c, b, proving))
BY AllocRuns, FailRuns DEF FetchOpcode

LEMMA PushRuns ==
  ASSUME NEW c, NEW b, Running(b), NEW final, NEW step, NEW proving
  PROVE  Running(SynthesizePush(c, b, final, step, proving))
<1> DEFINE v == IF step + 1 < Len(c.program) THEN c.program[step + 2] ELSE 0
           d == Alloc(b, v)
           s == Append(d.stack, Newest(d))
           e == [d EXCEPT !.stack = s]
           k == <<b.program_counter, 0, final.program_counter>>
<1>1. Running(d)
  BY AllocRuns
<1>2. IsSequence(s)
  BY <1>1, Appended DEF Running
<1>3. [d EXCEPT !.stack = Append(@, Newest(d))] = e
  OBVIOUS
<1> HIDE DEF d, s
<1>4. Running(e)
  BY <1>1, <1>2, StackRuns
<1> HIDE DEF e
<1>5. Running(Enforce(e, k)) /\ Running(Fail(b, "panic"))
  BY <1>4, EnforceRuns, FailRuns
<1> QED
  BY <1>3, <1>5 DEF SynthesizePush, d, v

LEMMA PoppedPushed ==
  ASSUME NEW b, Running(b), Len(b.stack) >= 2, NEW v
  PROVE  IsSequence(Popped(b)) /\ IsSequence(Append(Popped(b), v))
<1>1. IsSequence(Popped(b))
  BY WithoutTwo DEF Popped, Running
<1> QED
  BY <1>1, Appended

LEMMA ArithmeticRuns ==
  ASSUME NEW c, NEW b, Running(b), Len(b.stack) >= 2, NEW proving, NEW value
  PROVE  Running(SynthesizeArithmetic(c, b, proving, value))
<1> DEFINE d == Alloc(b, value % Modulus)
           s == Append(Popped(b), Newest(d))
           e == [d EXCEPT !.stack = s]
           k == <<Top(b, 1), Top(b, 2), Newest(d)>>
<1>1. Running(d) /\ IsSequence(s)
  BY AllocRuns, PoppedPushed
<1> HIDE DEF s
<1>2. Running(e)
  BY <1>1, StackRuns
<1> HIDE DEF e
<1>3. Running(Enforce(e, k)) /\ Running(Fail(b, "panic"))
  BY <1>2, EnforceRuns, FailRuns
<1> QED
  BY <1>3 DEF SynthesizeArithmetic, e, s

LEMMA StoreRuns ==
  ASSUME NEW b, Running(b), Len(b.stack) >= 2, NEW step \in Nat
  PROVE  Running(SynthesizeStore(b, step))
<1> DEFINE zeros == IF Len(b.memory) <= step THEN step + 1 - Len(b.memory) ELSE 0
           new   == [i \in 1 .. zeros |-> Len(b.aux) + i]
           none  == [i \in 1 .. zeros |-> 0]
           cells == b.memory \o new
           mem   == [cells EXCEPT ![step + 1] = Top(b, 1)]
           e     == [b EXCEPT !.aux = @ \o none, !.memory = mem, !.stack = Popped(b)]
           k     == <<Top(b, 2), 0, Top(b, 1)>>
<1>1. Len(b.memory) \in Nat /\ zeros \in Nat
  BY SequenceOf DEF Running, IsSequence
<1>2. IsSequence(new) /\ IsSequence(none)
  BY <1>1, Constructed
<1> HIDE DEF zeros, new, none
<1>3. IsSequence(cells) /\ IsSequence(b.aux \o none) /\ IsSequence(Popped(b))
  BY <1>2, Concatenated, PoppedPushed DEF Running
<1> HIDE DEF cells
<1>4. Len(cells) \in Nat /\ DOMAIN cells = 1 .. Len(cells)
  BY <1>3, LenProperties DEF IsSequence
<1>5. DOMAIN mem = 1 .. Len(cells) /\ mem = [i \in DOMAIN mem |-> mem[i]]
  BY <1>4
<1> HIDE DEF mem
<1>6. IsSequence(mem)
  BY <1>4, <1>5, Constructed
<1>7. Running(e)
  BY <1>3, <1>6 DEF Running
<1> HIDE DEF e
<1>8. Running(Enforce(e, k))
  BY <1>7, EnforceRuns
<1> QED
  BY <1>8 DEF SynthesizeStore, e, mem, cells, none, new, zeros

LEMMA Sha3Runs ==
  ASSUME NEW c, NEW b, Running(b), Len(b.stack) >= 2
  PROVE  Running(SynthesizeSha3(c, b))
<1> DEFINE d(v) == Alloc(b, v)
           s(v) == Append(Popped(b), Newest(d(v)))
<1>1. ASSUME NEW v
      PROVE  Running([d(v) EXCEPT !.stack = s(v)])
  <2>1. Running(d(v)) /\ IsSequence(s(v))
    BY AllocRuns, PoppedPushed
  <2> HIDE DEF d, s
  <2> QED
    BY <2>1, StackRuns
<1>2. Running(Fail(b, "panic"))
  BY FailRuns
<1> QED
  BY <1>1, <1>2 DEF SynthesizeSha3

LEMMA StepRuns ==
  ASSUME NEW c, NEW b, Running(b), NEW final, NEW step \in Nat, NEW proving
  PROVE  Running(SynthesizeStep(c, b, final, step, proving))
<1> DEFINE d == FetchOpcode(c, b, proving)
           x == TopTwo(c)[1]
           y == TopTwo(c)[2]
<1>1. Running(d)
  BY FetchRuns
<1> HIDE DEF d
<1>2. Running(SynthesizePush(c, d, final, step, proving))
  BY <1>1, PushRuns
<1>3. Len(d.stack) >= 2 =>
        /\ Running(SynthesizeArithmetic(c, d, proving, x + y))
        /\ Running(SynthesizeArithmetic(c, d, proving, x * y))
        /\ Running(SynthesizeStore(d, step)) /\ Running(SynthesizeSha3(c, d))
  BY <1>1, ArithmeticRuns, StoreRuns, Sha3Runs
<1> QED
  BY <1>1, <1>2, <1>3 DEF SynthesizeStep, d

\* The arms of SynthesizeStep.
Arms(c, d, final, step, proving, result) ==
  LET op  == IF step < Len(c.program) THEN c.program[step + 1] ELSE 0
      two == Len(d.stack) >= 2
  IN  /\ op = 1 => result = SynthesizePush(c, d, final, step, proving)
      /\ op \in {2, 3} /\ two =>
           \E value : result = SynthesizeArithmetic(c, d, proving, value)
      /\ op = 4 /\ two => result = SynthesizeStore(d, step)
      /\ op = 14 /\ two => result = SynthesizeSha3(c, d)
      /\ op # 1 /\ ~(op \in {2, 3, 4, 14} /\ two) => result = d

LEMMA StepArms ==
  ASSUME NEW c, NEW b, NEW final, NEW step, NEW proving,
         FetchOpcode(c, b, proving).fault = "none"
  PROVE  Arms(c, FetchOpcode(c, b, proving), final, step, proving,
              SynthesizeStep(c, b, final, step, proving))
<1> DEFINE d  == FetchOpcode(c, b, proving)
           op == IF step < Len(c.program) THEN c.program[step + 1] ELSE 0
           result == SynthesizeStep(c, b, final, step, proving)
<1> DEFINE x == TopTwo(c)[1]
           y == TopTwo(c)[2]
           two == Len(d.stack) >= 2
<1>1. result =
        CASE op = 1          -> SynthesizePush(c, d, final, step, proving)
          [] op = 2 /\ two   -> SynthesizeArithmetic(c, d, proving, x + y)
          [] op = 3 /\ two   -> SynthesizeArithmetic(c, d, proving, x * y)
          [] op = 4 /\ two   -> SynthesizeStore(d, step)
          [] op = 14 /\ two  -> SynthesizeSha3(c, d)
          [] OTHER           -> d
  BY DEF SynthesizeStep
<1> HIDE DEF x, y, two, d, op, result
<1>2. op = 1 => result = SynthesizePush(c, d, final, step, proving)
  BY <1>1
<1>3. op = 2 /\ two => result = SynthesizeArithmetic(c, d, proving, x + y)
  BY <1>1
<1>4. op = 3 /\ two => result = SynthesizeArithmetic(c, d, proving, x * y)
  BY <1>1
<1>5. op = 4 /\ two => result = SynthesizeStore(d, step)
  BY <1>1
<1>6. op = 14 /\ two => result = SynthesizeSha3(c, d)
  BY <1>1
<1>7. op # 1 /\ ~(op \in {2, 3, 4, 14} /\ two) => result = d
  BY <1>1
<1> QED
  BY <1>2, <1>3, <1>4, <1>5, <1>6, <1>7 DEF Arms, two, d, op, result

\* What `after` of Synthesize is: the syntheses after 0 .. m steps.
Steps(f, c, proving, start, final, m) ==
  f = [n \in 0 .. m |->
         IF n = 0 THEN start
         ELSE IF f[n - 1].fault # "none" THEN f[n - 1]
         ELSE SynthesizeStep(c, f[n - 1], final, n - 1, proving)]

LEMMA StepsExist ==
  ASSUME NEW c, NEW proving, NEW start, NEW final, NEW m \in Nat
  PROVE  \E f : Steps(f, c, proving, start, final, m)
<1> DEFINE P(f, n) == Steps(f, c, proving, start, final, n)
           Step(b, n) == IF b.fault # "none" THEN b ELSE SynthesizeStep(c, b, final, n - 1, proving)
           D == {n \in Nat : \E f : P(f, n)}
<1>1. 0 \in D
  <2>1. P([n \in 0 .. 0 |-> start], 0)
    BY DEF Steps
  <2> HIDE DEF P
  <2> QED
    BY <2>1
<1>2. ASSUME NEW n \in Nat, n \in D
      PROVE  n + 1 \in D
  <2>1. PICK f : P(f, n)
    BY <1>2
  <2>2. f = [k \in 0 .. n |-> IF k = 0 THEN start ELSE Step(f[k - 1], k)]
    BY <2>1 DEF Steps
  <2> HIDE DEF Step
  <2> DEFINE g == [k \in 0 .. n + 1 |-> IF k = n + 1 THEN Step(f[n], n + 1) ELSE f[k]]
  <2>3. ASSUME NEW k \in 0 .. n + 1
        PROVE  g[k] = IF k = 0 THEN start ELSE Step(g[k - 1], k)
    <3>1. CASE k = n + 1
      <4>1. k - 1 = n /\ n \in 0 .. n + 1 /\ n # n + 1 /\ k # 0
        BY <3>1
      <4>2. g[n] = f[n] /\ g[k] = Step(f[n], n + 1)
        BY <3>1, <4>1
      <4> HIDE DEF g
      <4> QED
        BY <3>1, <4>1, <4>2
    <3>2. CASE k = 0
      BY <2>2, <3>2
    <3>3. CASE k \in 1 .. n
      <4>1. g[k] = f[k] /\ g[k - 1] = f[k - 1]
        BY <3>3
      <4>2. f[k] = Step(f[k - 1], k)
        BY <2>2, <3>3
      <4> HIDE DEF g
      <4> QED
        BY <3>3, <4>1, <4>2
    <3> QED
      BY <3>1, <3>2, <3>3
  <2>4. g = [k \in 0 .. n + 1 |-> g[k]]
    OBVIOUS
  <2> HIDE DEF g
  <2>5. g = [k \in 0 .. n + 1 |-> IF k = 0 THEN start ELSE Step(g[k - 1], k)]
    BY <2>3, <2>4
  <2>6. P(g, n + 1)
    BY <2>5 DEF Steps, Step
  <2> HIDE DEF P
  <2> QED
    BY <2>6
<1> HIDE DEF D
<1>3. m \in D
  BY <1>1, <1>2, Induction
<1> QED
  BY <1>3 DEF D

\* Where Synthesize starts.
Initially(c) == Allocated(c.initial, 0)
Finally(c)   == Allocated(c.final, Len(Values(c.initial)))
Start(c, proving) ==
  [aux |-> Values(c.initial) \o Values(c.final), stack |-> Initially(c).stack,
   memory |-> Initially(c).memory, program_counter |-> Initially(c).program_counter,
   constraints |-> <<>>,
   fault |-> IF proving /\ ~(c.initial.witness /\ c.final.witness)
               THEN "AssignmentMissing" ELSE "none"]
WithFinals(end, c) ==
  [end EXCEPT !.constraints = @ \o Finals(end, Initially(c), Finally(c))]

LEMMA SynthesizeSteps ==
  ASSUME NEW c, c.max_steps \in Nat, NEW proving
  PROVE  \E f : /\ Steps(f, c, proving, Start(c, proving), Finally(c), c.max_steps)
                /\ Synthesize(c, proving) = WithFinals(f[c.max_steps], c)
<1> DEFINE f == CHOOSE f : Steps(f, c, proving, Start(c, proving), Finally(c), c.max_steps)
<1>1. Steps(f, c, proving, Start(c, proving), Finally(c), c.max_steps)
  BY StepsExist
<1>2. Synthesize(c, proving) = WithFinals(f[c.max_steps], c)
  BY DEF Synthesize, WithFinals, Steps, Start, Initially, Finally
<1> QED
  BY <1>1, <1>2

LEMMA StepsRun ==
  ASSUME NEW f, NEW c, NEW proving, NEW start, NEW final, NEW m \in Nat,
         Steps(f, c, proving, start, final, m), Running(start)
  PROVE  \A n \in 0 .. m : Running(f[n])
<1> DEFINE D == {n \in Nat : n <= m => Running(f[n])}
<1>1. 0 \in D
  BY DEF Steps
<1>2. ASSUME NEW n \in Nat, n \in D
      PROVE  n + 1 \in D
  <2> SUFFICES ASSUME n + 1 <= m
               PROVE  Running(f[n + 1])
    OBVIOUS
  <2>1. Running(f[n])
    BY <1>2
  <2>2. n + 1 \in 0 .. m /\ n + 1 # 0 /\ (n + 1) - 1 = n
    OBVIOUS
  <2>3. f[n + 1] = IF f[n].fault # "none" THEN f[n] ELSE SynthesizeStep(c, f[n], final, n, proving)
    BY <2>2 DEF Steps
  <2>4. Running(SynthesizeStep(c, f[n], final, n, proving))
    BY <2>1, StepRuns
  <2> QED
    BY <2>1, <2>3, <2>4
<1> HIDE DEF D
<1>3. \A n \in Nat : n \in D
  BY <1>1, <1>2, Induction
<1> QED
  BY <1>3 DEF D

LEMMA ValuesSequence ==
  ASSUME NEW s, IsSequence(s.stack), IsSequence(s.memory), IsSequence(s.storage)
  PROVE  /\ IsSequence(Values(s))
         /\ Len(Values(s)) = Len(s.stack) + Len(s.memory) + Len(s.storage) + 2
<1> DEFINE pair == <<s.program_counter, s.gas_remaining>>
           st1 == s.stack \o s.memory
           st2 == st1 \o s.storage
<1>1. IsSequence(pair) /\ Len(pair) = 2
  <2>1. DOMAIN pair = 1 .. 2 /\ pair = [i \in DOMAIN pair |-> pair[i]]
    OBVIOUS
  <2> HIDE DEF pair
  <2> QED
    BY <2>1, Constructed
<1>2. Values(s) = st2 \o pair
  BY DEF Values
<1> HIDE DEF pair
<1>3. IsSequence(st1) /\ Len(st1) = Len(s.stack) + Len(s.memory)
  BY Concatenated
<1> HIDE DEF st1
<1>4. IsSequence(st2) /\ Len(st2) = Len(st1) + Len(s.storage)
  BY <1>3, Concatenated
<1> HIDE DEF st2
<1>5. IsSequence(st2 \o pair) /\ Len(st2 \o pair) = Len(st2) + 2
  BY <1>1, <1>4, Concatenated
<1> QED
  BY <1>2, <1>3, <1>4, <1>5

LEMMA StartRuns ==
  ASSUME NEW c \in CircuitType, NEW proving
  PROVE  Running(Start(c, proving))
<1>1. /\ IsSequence(c.initial.stack) /\ IsSequence(c.initial.memory)
      /\ IsSequence(c.initial.storage)
      /\ IsSequence(c.final.stack) /\ IsSequence(c.final.memory) /\ IsSequence(c.final.storage)
  BY SequenceOf DEF CircuitType, VMState
<1>2. IsSequence(Values(c.initial) \o Values(c.final))
  BY <1>1, ValuesSequence, Concatenated
<1>3. /\ IsSequence(Initially(c).stack) /\ IsSequence(Initially(c).memory)
  <2> DEFINE n == Len(c.initial.stack)
             k == Len(c.initial.memory)
             stack == [i \in DOMAIN c.initial.stack |-> 0 + i]
             mem   == [i \in DOMAIN c.initial.memory |-> (0 + n) + i]
  <2>1. /\ n \in Nat /\ DOMAIN c.initial.stack = 1 .. n
        /\ k \in Nat /\ DOMAIN c.initial.memory = 1 .. k
    BY <1>1, LenProperties DEF IsSequence
  <2>2. /\ DOMAIN stack = 1 .. n /\ stack = [i \in DOMAIN stack |-> stack[i]]
        /\ DOMAIN mem = 1 .. k /\ mem = [i \in DOMAIN mem |-> mem[i]]
    BY <2>1
  <2>3. Initially(c).stack = stack /\ Initially(c).memory = mem
    BY DEF Initially, Allocated
  <2> HIDE DEF n, k, stack, mem
  <2> QED
    BY <2>1, <2>2, <2>3, Constructed
<1> QED
  BY <1>2, <1>3 DEF Start, Running

LEMMA FinalsRun ==
  ASSUME NEW b, Running(b), NEW c
  PROVE  /\ Running(WithFinals(b, c)) /\ WithFinals(b, c).aux = b.aux
         /\ WithFinals(b, c).fault = b.fault
         /\ WithFinals(b, c).constraints =
              b.constraints \o Finals(b, Initially(c), Finally(c))
BY DEF WithFinals, Running

LEMMA SynthesizeRuns ==
  ASSUME NEW c \in CircuitType, NEW proving
  PROVE  Running(Synthesize(c, proving))
<1>1. c.max_steps \in Nat
  BY DEF CircuitType
<1>2. PICK f : /\ Steps(f, c, proving, Start(c, proving), Finally(c), c.max_steps)
               /\ Synthesize(c, proving) = WithFinals(f[c.max_steps], c)
  BY <1>1, SynthesizeSteps
<1>3. Running(f[c.max_steps])
  BY <1>1, <1>2, StartRuns, StepsRun
<1> QED
  BY <1>2, <1>3, FinalsRun

-----------------------------------------------------------------------------
(* What setup refuses. Variable v is not one of a synthesis's constraints, *)
(* and cannot become one: it is not on the stack, in memory or the counter. *)

Others(v) == Nat \ {v}
Clean(v)  == Others(v) \X Others(v) \X Others(v)

\* v is the next variable, or one before it.
Near(b, v) ==
  /\ Running(b)
  /\ b.stack \in Seq(Others(v)) /\ b.memory \in Seq(Others(v))
  /\ b.program_counter \in Others(v)
  /\ b.constraints \in Seq(Clean(v))
  /\ Len(b.aux) + 1 >= v

Avoids(b, v) == Near(b, v) /\ Len(b.aux) >= v

LEMMA AllocAvoids ==
  ASSUME NEW v \in Nat, NEW b, Near(b, v), NEW w
  PROVE  /\ Avoids(Alloc(b, w), v)
         /\ Avoids(b, v) => Newest(Alloc(b, w)) \in Others(v)
<1>1. Running(b)
  BY DEF Near
<1>2. /\ Running(Alloc(b, w)) /\ Len(b.aux) \in Nat /\ Len(Alloc(b, w).aux) = Len(b.aux) + 1
      /\ Newest(Alloc(b, w)) = Len(b.aux) + 1
      /\ Alloc(b, w).stack = b.stack /\ Alloc(b, w).memory = b.memory
      /\ Alloc(b, w).program_counter = b.program_counter
      /\ Alloc(b, w).constraints = b.constraints
  BY <1>1, AllocRuns DEF Newest
<1> QED
  BY <1>2 DEF Avoids, Near, Others

LEMMA EnforceAvoids ==
  ASSUME NEW v \in Nat, NEW b, Avoids(b, v), NEW k \in Clean(v)
  PROVE  Avoids(Enforce(b, k), v)
<1>1. Running(b) /\ b.constraints \in Seq(Clean(v))
  BY DEF Avoids, Near
<1>2. Append(b.constraints, k) \in Seq(Clean(v))
  BY <1>1, AppendProperties
<1> QED
  BY <1>1, <1>2, EnforceRuns DEF Avoids, Near

LEMMA FailAvoids ==
  ASSUME NEW v, NEW b, Avoids(b, v)
  PROVE  Avoids(Fail(b, "panic"), v)
<1>1. Running(b) /\ Running(Fail(b, "panic"))
  BY FailRuns DEF Avoids, Near
<1> QED
  BY <1>1 DEF Avoids, Near, Fail, Running

LEMMA StackAvoids ==
  ASSUME NEW v, NEW b, Avoids(b, v), NEW s \in Seq(Others(v))
  PROVE  Avoids([b EXCEPT !.stack = s], v)
<1>1. Running(b) /\ IsSequence(s)
  BY SequenceOf DEF Avoids, Near
<1> QED
  BY <1>1, StackRuns DEF Avoids, Near

\* The two topmost variables, and what is left without them.
LEMMA PoppedAvoids ==
  ASSUME NEW v, NEW b, Avoids(b, v), Len(b.stack) >= 2
  PROVE  /\ Top(b, 1) \in Others(v) /\ Top(b, 2) \in Others(v)
         /\ Popped(b) \in Seq(Others(v))
         /\ \A e \in Others(v) : Append(Popped(b), e) \in Seq(Others(v))
<1>1. b.stack \in Seq(Others(v)) /\ Len(b.stack) \in Nat
  BY LenProperties DEF Avoids, Near
<1>2. \A i \in 1 .. Len(b.stack) : b.stack[i] \in Others(v)
  BY <1>1, ElementOfSeq
<1>3. Popped(b) \in Seq(Others(v))
  <2>1. \A i \in 1 .. Len(b.stack) - 2 : b.stack[i] \in Others(v)
    BY <1>1, <1>2
  <2> QED
    BY <1>1, <2>1, SubSeqProperties DEF Popped
<1> QED
  BY <1>1, <1>2, <1>3, AppendProperties DEF Top

\* The first opcode makes v the variable before the next one.
LEMMA FetchAvoids ==
  ASSUME NEW v \in Nat, NEW c, NEW b, Near(b, v), NEW proving,
         FetchOpcode(c, b, proving).fault = "none"
  PROVE  Avoids(FetchOpcode(c, b, proving), v)
<1>1. Fail(b, "AssignmentMissing").fault # "none"
  BY FailRuns DEF Near
<1> QED
  BY <1>1, AllocAvoids DEF FetchOpcode

LEMMA PushAvoids ==
  ASSUME NEW v \in Nat \ {0}, NEW c, NEW b, Avoids(b, v),
         NEW final, final.program_counter \in Others(v), NEW step, NEW proving
  PROVE  Avoids(SynthesizePush(c, b, final, step, proving), v)
<1> DEFINE w == IF step + 1 < Len(c.program) THEN c.program[step + 2] ELSE 0
           d == Alloc(b, w)
           s == Append(d.stack, Newest(d))
           e == [d EXCEPT !.stack = s]
           k == <<b.program_counter, 0, final.program_counter>>
<1>1. Avoids(d, v) /\ Newest(d) \in Others(v)
  BY AllocAvoids DEF Avoids
<1>2. s \in Seq(Others(v))
  BY <1>1, AppendProperties DEF Avoids, Near
<1>3. [d EXCEPT !.stack = Append(@, Newest(d))] = e
  OBVIOUS
<1>4. k \in Clean(v)
  BY DEF Clean, Others, Avoids, Near
<1> HIDE DEF d, s, k
<1>5. Avoids(e, v)
  BY <1>1, <1>2, StackAvoids
<1> HIDE DEF e
<1>6. Avoids(Enforce(e, k), v) /\ Avoids(Fail(b, "panic"), v)
  BY <1>4, <1>5, EnforceAvoids, FailAvoids
<1> QED
  BY <1>3, <1>6 DEF SynthesizePush, d, w, k

LEMMA ArithmeticAvoids ==
  ASSUME NEW v \in Nat, NEW c, NEW b, Avoids(b, v), Len(b.stack) >= 2,
         NEW proving, NEW value
  PROVE  Avoids(SynthesizeArithmetic(c, b, proving, value), v)
<1> DEFINE d == Alloc(b, value % Modulus)
           s == Append(Popped(b), Newest(d))
           e == [d EXCEPT !.stack = s]
           k == <<Top(b, 1), Top(b, 2), Newest(d)>>
<1>1. Avoids(d, v) /\ Newest(d) \in Others(v)
  BY AllocAvoids DEF Avoids
<1>2. s \in Seq(Others(v)) /\ k \in Clean(v)
  BY <1>1, PoppedAvoids DEF Clean
<1> HIDE DEF d, s, k
<1>3. Avoids(e, v)
  BY <1>1, <1>2, StackAvoids
<1> HIDE DEF e
<1>4. Avoids(Enforce(e, k), v) /\ Avoids(Fail(b, "panic"), v)
  BY <1>2, <1>3, EnforceAvoids, FailAvoids
<1> QED
  BY <1>4 DEF SynthesizeArithmetic, e, s, d, k

LEMMA StoreAvoids ==
  ASSUME NEW v \in Nat \ {0}, NEW b, Avoids(b, v), Len(b.stack) >= 2, NEW step \in Nat
  PROVE  Avoids(SynthesizeStore(b, step), v)
<1> DEFINE zeros == IF Len(b.memory) <= step THEN step + 1 - Len(b.memory) ELSE 0
           new   == [i \in 1 .. zeros |-> Len(b.aux) + i]
           none  == [i \in 1 .. zeros |-> 0]
           cells == b.memory \o new
           mem   == [cells EXCEPT ![step + 1] = Top(b, 1)]
           e     == [b EXCEPT !.aux = @ \o none, !.memory = mem, !.stack = Popped(b)]
           k     == <<Top(b, 2), 0, Top(b, 1)>>
<1>0. Running(b) /\ b.memory \in Seq(Others(v)) /\ Len(b.aux) >= v
  BY DEF Avoids, Near
<1>1. Len(b.memory) \in Nat /\ Len(b.aux) \in Nat /\ zeros \in Nat
      /\ Len(b.memory) + zeros >= step + 1
  <2>1. Len(b.memory) \in Nat /\ Len(b.aux) \in Nat
    BY <1>0, SequenceOf DEF Running, IsSequence
  <2>2. CASE Len(b.memory) <= step
    BY <2>1, <2>2
  <2>3. CASE ~(Len(b.memory) <= step)
    BY <2>1, <2>3
  <2> QED
    BY <2>2, <2>3
<1>2. \A i \in 1 .. zeros : Len(b.aux) + i \in Others(v)
  BY <1>0, <1>1 DEF Others
<1> HIDE DEF zeros
<1>3. new \in Seq(Others(v)) /\ Len(new) = zeros /\ IsSequence(none) /\ Len(none) = zeros
  <2>1. new \in [1 .. zeros -> Others(v)]
    BY <1>2
  <2>2. new \in Seq(Others(v))
    BY <1>1, <2>1, SeqDef
  <2> QED
    BY <1>1, <2>2, Constructed
<1> HIDE DEF new, none
<1>4. cells \in Seq(Others(v)) /\ Len(cells) = Len(b.memory) + zeros
  BY <1>0, <1>3, ConcatProperties
<1>5. Top(b, 1) \in Others(v) /\ Popped(b) \in Seq(Others(v)) /\ k \in Clean(v)
  BY PoppedAvoids DEF Clean, Others
<1> HIDE DEF cells, k
<1>6. mem \in Seq(Others(v))
  <2>1. step + 1 \in 1 .. Len(cells)
    BY <1>1, <1>4
  <2> QED
    BY <1>4, <1>5, <2>1, ExceptSeq
<1> HIDE DEF mem
<1>7. IsSequence(b.aux \o none) /\ Len(b.aux \o none) = Len(b.aux) + zeros
  BY <1>0, <1>3, Concatenated DEF Running
<1>8. IsSequence(mem) /\ IsSequence(Popped(b))
  BY <1>5, <1>6, SequenceOf
<1>9. /\ DOMAIN e = DOMAIN b /\ e.aux = b.aux \o none /\ e.memory = mem /\ e.stack = Popped(b)
      /\ e.program_counter = b.program_counter /\ e.constraints = b.constraints
      /\ e.fault = b.fault
  BY <1>0 DEF Running
<1> HIDE DEF e
<1>10. Running(e)
  BY <1>0, <1>7, <1>8, <1>9 DEF Running
<1>11. Len(e.aux) >= v
  BY <1>0, <1>1, <1>7, <1>9
<1>12. Avoids(e, v)
  BY <1>1, <1>5, <1>6, <1>7, <1>9, <1>10, <1>11 DEF Avoids, Near
<1>13. Avoids(Enforce(e, k), v)
  BY <1>5, <1>12, EnforceAvoids
<1> QED
  BY <1>13 DEF SynthesizeStore, e, mem, cells, none, new, zeros, k

LEMMA Sha3Avoids ==
  ASSUME NEW v \in Nat, NEW c, NEW b, Avoids(b, v), Len(b.stack) >= 2
  PROVE  Avoids(SynthesizeSha3(c, b), v)
<1> DEFINE d(w) == Alloc(b, w)
           s(w) == Append(Popped(b), Newest(d(w)))
<1>1. ASSUME NEW w
      PROVE  Avoids([d(w) EXCEPT !.stack = s(w)], v)
  <2>1. Avoids(d(w), v) /\ Newest(d(w)) \in Others(v)
    BY AllocAvoids DEF Avoids
  <2>2. s(w) \in Seq(Others(v))
    BY <2>1, PoppedAvoids
  <2> HIDE DEF d, s
  <2> QED
    BY <2>1, <2>2, StackAvoids
<1>2. Avoids(Fail(b, "panic"), v)
  BY FailAvoids
<1> QED
  BY <1>1, <1>2 DEF SynthesizeSha3

LEMMA StepAvoids ==
  ASSUME NEW v \in Nat \ {0}, NEW c, NEW b, Near(b, v), NEW final,
         final.program_counter \in Others(v), NEW step \in Nat, NEW proving,
         SynthesizeStep(c, b, final, step, proving).fault = "none"
  PROVE  Avoids(SynthesizeStep(c, b, final, step, proving), v)
<1> DEFINE d == FetchOpcode(c, b, proving)
           result == SynthesizeStep(c, b, final, step, proving)
<1>1. d.fault = "none"
  BY DEF SynthesizeStep
<1>2. Avoids(d, v)
  BY <1>1, FetchAvoids
<1>3. Arms(c, d, final, step, proving, result)
  BY <1>1, StepArms, Zenon
<1> HIDE DEF d, result
<1>4. Avoids(SynthesizePush(c, d, final, step, proving), v)
  BY <1>2, PushAvoids
<1>5. Len(d.stack) >= 2 =>
        /\ \A value : Avoids(SynthesizeArithmetic(c, d, proving, value), v)
        /\ Avoids(SynthesizeStore(d, step), v) /\ Avoids(SynthesizeSha3(c, d), v)
  BY <1>2, ArithmeticAvoids, StoreAvoids, Sha3Avoids
<1> DEFINE op == IF step < Len(c.program) THEN c.program[step + 1] ELSE 0
<1>6. CASE op = 1
  BY <1>3, <1>4, <1>6 DEF Arms, result
<1>7. CASE op \in {2, 3} /\ Len(d.stack) >= 2
  BY <1>3, <1>5, <1>7 DEF Arms, result
<1>8. CASE op = 4 /\ Len(d.stack) >= 2
  BY <1>3, <1>5, <1>8 DEF Arms, result
<1>9. CASE op = 14 /\ Len(d.stack) >= 2
  BY <1>3, <1>5, <1>9 DEF Arms, result
<1>10. CASE op # 1 /\ ~(op \in {2, 3, 4, 14} /\ Len(d.stack) >= 2)
  BY <1>2, <1>3, <1>10 DEF Arms, result
<1> QED
  BY <1>6, <1>7, <1>8, <1>9, <1>10

\* From a start that avoids no more than the next variable, every step avoids it.
LEMMA StepsAvoid ==
  ASSUME NEW v \in Nat \ {0}, NEW f, NEW c, NEW proving, NEW start, Near(start, v),
         NEW final, final.program_counter \in Others(v), NEW m \in Nat,
         Steps(f, c, proving, start, final, m)
  PROVE  \A n \in 1 .. m : f[n].fault = "none" => Avoids(f[n], v)
<1> DEFINE D == {n \in Nat : n <= m /\ f[n].fault = "none" =>
                               Near(f[n], v) /\ (n > 0 => Avoids(f[n], v))}
<1>1. 0 \in D
  BY DEF Steps
<1>2. ASSUME NEW n \in Nat, n \in D
      PROVE  n + 1 \in D
  <2> SUFFICES ASSUME n + 1 <= m, f[n + 1].fault = "none"
               PROVE  Avoids(f[n + 1], v)
    BY DEF Avoids
  <2>1. n + 1 \in 0 .. m /\ n + 1 # 0 /\ (n + 1) - 1 = n
    OBVIOUS
  <2>2. f[n + 1] = IF f[n].fault # "none" THEN f[n] ELSE SynthesizeStep(c, f[n], final, n, proving)
    BY <2>1 DEF Steps
  <2>3. f[n].fault = "none"
    BY <2>2
  <2>4. Near(f[n], v)
    BY <1>2, <2>3
  <2>5. f[n + 1] = SynthesizeStep(c, f[n], final, n, proving)
    BY <2>2, <2>3
  <2> QED
    BY <2>4, <2>5, StepAvoids
<1> HIDE DEF D
<1>3. \A n \in Nat : n \in D
  BY <1>1, <1>2, Induction
<1> QED
  BY <1>3 DEF D

-----------------------------------------------------------------------------
(* The constraints of the final state.                                     *)

\* The pairs that are enforced to be equal, of what two sequences hold.
PairsOf(s, t) == {<<s[i], 0, t[i]>> : i \in {n \in 1 .. Len(s) : n <= Len(t)}}

FinalPairs(b, initial, final) ==
  {<<b.program_counter, 0, final.program_counter>>,
   <<initial.gas_remaining, 0, final.gas_remaining>>}
  \cup PairsOf(b.stack, final.stack) \cup PairsOf(b.memory, final.memory)
  \cup PairsOf(initial.storage, final.storage)

\* s lists the elements of S.
Lists(s, S) == IsSequence(s) /\ {s[i] : i \in 1 .. Len(s)} = S

LEMMA ListsConcat ==
  ASSUME NEW s, NEW S, Lists(s, S), NEW t, NEW T, Lists(t, T)
  PROVE  Lists(s \o t, S \cup T)
<1> DEFINE u == s \o t
           U == S \cup T
<1>1. s \in Seq(S) /\ t \in Seq(T) /\ IsSequence(u)
  <2>1. s \in Seq(S) /\ t \in Seq(T)
    BY Zenon DEF Lists, IsSequence
  <2>2. IsSequence(u)
    BY Concatenated DEF Lists
  <2> QED
    BY <2>1, <2>2
<1>2. s \in Seq(U) /\ t \in Seq(U)
  BY <1>1, SeqMonotonic
<1>3. /\ u \in Seq(U) /\ Len(u) = Len(s) + Len(t) /\ Len(s) \in Nat /\ Len(t) \in Nat
      /\ \A i \in 1 .. Len(s) + Len(t) : u[i] = IF i <= Len(s) THEN s[i] ELSE t[i - Len(s)]
  BY <1>2, ConcatProperties, LenProperties
<1> HIDE DEF u
<1>4. ASSUME NEW e \in S
      PROVE  \E i \in 1 .. Len(u) : u[i] = e
  <2>1. PICK i \in 1 .. Len(s) : s[i] = e
    BY DEF Lists
  <2>2. i \in 1 .. Len(s) + Len(t) /\ i <= Len(s)
    BY <1>3
  <2> QED
    BY <1>3, <2>1, <2>2
<1>5. ASSUME NEW e \in T
      PROVE  \E i \in 1 .. Len(u) : u[i] = e
  <2>1. PICK i \in 1 .. Len(t) : t[i] = e
    BY DEF Lists
  <2>2. /\ Len(s) + i \in 1 .. Len(s) + Len(t) /\ ~(Len(s) + i <= Len(s))
        /\ (Len(s) + i) - Len(s) = i
    BY <1>3
  <2> QED
    BY <1>3, <2>1, <2>2
<1>6. \A i \in 1 .. Len(u) : u[i] \in U
  BY <1>3, ElementOfSeq
<1> QED
  BY <1>1, <1>4, <1>5, <1>6 DEF Lists, u

LEMMA ListsPairs ==
  ASSUME NEW s, IsSequence(s), NEW t, IsSequence(t)
  PROVE  Lists(EqualPairs(s, t), PairsOf(s, t))
<1> DEFINE n == IF Len(s) < Len(t) THEN Len(s) ELSE Len(t)
           p == EqualPairs(s, t)
<1>1. n \in Nat /\ 1 .. n = {i \in 1 .. Len(s) : i <= Len(t)}
  <2>1. Len(s) \in Nat /\ Len(t) \in Nat
    BY SequenceOf DEF IsSequence
  <2> QED
    BY <2>1
<1>2. p = [i \in 1 .. n |-> <<s[i], 0, t[i]>>]
  BY DEF EqualPairs
<1> HIDE DEF n, p
<1>3. IsSequence(p) /\ Len(p) = n
  BY <1>1, <1>2, Constructed
<1> QED
  BY <1>1, <1>2, <1>3 DEF Lists, PairsOf, p

LEMMA ListsFinals ==
  ASSUME NEW b, NEW initial, NEW final, IsSequence(b.stack), IsSequence(b.memory),
         IsSequence(initial.storage), IsSequence(final.stack), IsSequence(final.memory),
         IsSequence(final.storage)
  PROVE  Lists(Finals(b, initial, final), FinalPairs(b, initial, final))
<1> DEFINE x == <<b.program_counter, 0, final.program_counter>>
           y == <<initial.gas_remaining, 0, final.gas_remaining>>
           two == <<x, y>>
           p == EqualPairs(b.stack, final.stack)
           q == EqualPairs(b.memory, final.memory)
           r == EqualPairs(initial.storage, final.storage)
           P == PairsOf(b.stack, final.stack)
           Q == PairsOf(b.memory, final.memory)
           R == PairsOf(initial.storage, final.storage)
<1>1. Lists(p, P) /\ Lists(q, Q) /\ Lists(r, R)
  BY ListsPairs
<1>2. Finals(b, initial, final) = two \o p \o q \o r
  BY DEF Finals
<1>3. FinalPairs(b, initial, final) = {x, y} \cup P \cup Q \cup R
  BY DEF FinalPairs
<1> HIDE DEF x, y, p, q, r, P, Q, R
<1>4. Lists(two, {x, y})
  <2>1. DOMAIN two = 1 .. 2 /\ two = [i \in DOMAIN two |-> two[i]] /\ two[1] = x /\ two[2] = y
    OBVIOUS
  <2> HIDE DEF two
  <2>2. IsSequence(two) /\ Len(two) = 2
    BY <2>1, Constructed
  <2>3. 1 .. 2 = {1, 2}
    OBVIOUS
  <2>4. {two[i] : i \in {1, 2}} = {x, y}
    BY <2>1
  <2> QED
    BY <2>2, <2>3, <2>4 DEF Lists
<1> HIDE DEF two
<1>5. Lists(two \o p, {x, y} \cup P)
  BY <1>1, <1>4, ListsConcat
<1> DEFINE tp == two \o p
           TP == {x, y} \cup P
<1> HIDE DEF tp, TP
<1>6. Lists(tp \o q, TP \cup Q)
  BY <1>1, <1>5, ListsConcat DEF tp, TP
<1> DEFINE tq == tp \o q
           TQ == TP \cup Q
<1> HIDE DEF tq, TQ
<1>7. Lists(tq \o r, TQ \cup R)
  BY <1>1, <1>6, ListsConcat DEF tq, TQ
<1> QED
  BY <1>2, <1>3, <1>7 DEF tp, TP, tq, TQ

LEMMA Joined ==
  ASSUME NEW S, NEW s \in Seq(S), NEW t \in Seq(S), NEW n, Len(s) = n, NEW k, Len(t) = k
  PROVE  /\ s \o t \in Seq(S) /\ Len(s \o t) = n + k
         /\ \A i \in 1 .. n + k : (s \o t)[i] = IF i <= n THEN s[i] ELSE t[i - n]
BY ConcatProperties

\* The variables of a state: numbered in the order of its values.
LEMMA AllocatedProperties ==
  ASSUME NEW s \in VMState, NEW used \in Nat
  PROVE  LET a == Allocated(s, used)
             n == Len(s.stack)
             k == Len(s.memory)
             l == Len(s.storage)
         IN  /\ n \in Nat /\ k \in Nat /\ l \in Nat
             /\ IsSequence(a.stack) /\ Len(a.stack) = n
             /\ IsSequence(a.memory) /\ Len(a.memory) = k
             /\ IsSequence(a.storage) /\ Len(a.storage) = l
             /\ \A i \in 1 .. n : a.stack[i] = used + i
             /\ \A i \in 1 .. k : a.memory[i] = used + n + i
             /\ \A i \in 1 .. l : a.storage[i] = used + n + k + i
             /\ a.program_counter = used + n + k + l + 1
             /\ a.gas_remaining = used + n + k + l + 2
<1> DEFINE a == Allocated(s, used)
           n == Len(s.stack)
           k == Len(s.memory)
           l == Len(s.storage)
           p == [i \in DOMAIN s.stack |-> used + i]
           q == [i \in DOMAIN s.memory |-> (used + n) + i]
           r == [i \in DOMAIN s.storage |-> ((used + n) + k) + i]
<1>1. /\ n \in Nat /\ DOMAIN s.stack = 1 .. n /\ k \in Nat /\ DOMAIN s.memory = 1 .. k
      /\ l \in Nat /\ DOMAIN s.storage = 1 .. l
  BY LenProperties DEF VMState
<1>2. /\ a.stack = p /\ a.memory = q /\ a.storage = r
      /\ a.program_counter = (((used + n) + k) + l) + 1
      /\ a.gas_remaining = (((used + n) + k) + l) + 2
  BY DEF Allocated
<1> HIDE DEF a, n, k, l
<1>3. /\ DOMAIN p = 1 .. n /\ p = [i \in DOMAIN p |-> p[i]]
      /\ DOMAIN q = 1 .. k /\ q = [i \in DOMAIN q |-> q[i]]
      /\ DOMAIN r = 1 .. l /\ r = [i \in DOMAIN r |-> r[i]]
  BY <1>1
<1>4. /\ \A i \in 1 .. n : p[i] = used + i
      /\ \A i \in 1 .. k : q[i] = used + n + i
      /\ \A i \in 1 .. l : r[i] = used + n + k + i
  BY <1>1
<1> HIDE DEF p, q, r
<1>5. /\ IsSequence(p) /\ Len(p) = n /\ IsSequence(q) /\ Len(q) = k
      /\ IsSequence(r) /\ Len(r) = l
  BY <1>1, <1>3, Constructed
<1>6. /\ n \in Nat /\ k \in Nat /\ l \in Nat
      /\ IsSequence(a.stack) /\ Len(a.stack) = n
      /\ IsSequence(a.memory) /\ Len(a.memory) = k
      /\ IsSequence(a.storage) /\ Len(a.storage) = l
      /\ \A i \in 1 .. n : a.stack[i] = used + i
      /\ \A i \in 1 .. k : a.memory[i] = used + n + i
      /\ \A i \in 1 .. l : a.storage[i] = used + n + k + i
      /\ a.program_counter = used + n + k + l + 1
      /\ a.gas_remaining = used + n + k + l + 2
  BY <1>1, <1>2, <1>4, <1>5
<1> QED
  BY <1>6 DEF a, n, k, l

\* The values of a state, by their numbers.
LEMMA ValuesProperties ==
  ASSUME NEW s \in VMState
  PROVE  LET n == Len(s.stack)
             k == Len(s.memory)
             l == Len(s.storage)
         IN  /\ Values(s) \in Seq(Field) /\ Len(Values(s)) = n + k + l + 2
             /\ \A i \in 1 .. n : Values(s)[i] = s.stack[i]
             /\ \A i \in 1 .. k : Values(s)[n + i] = s.memory[i]
             /\ \A i \in 1 .. l : Values(s)[n + k + i] = s.storage[i]
             /\ Values(s)[n + k + l + 1] = s.program_counter
             /\ Values(s)[n + k + l + 2] = s.gas_remaining
<1> DEFINE n == Len(s.stack)
           k == Len(s.memory)
           l == Len(s.storage)
           pair == <<s.program_counter, s.gas_remaining>>
           x == s.stack \o s.memory
           y == x \o s.storage
           z == y \o pair
<1>1. /\ s.stack \in Seq(Field) /\ s.memory \in Seq(Field) /\ s.storage \in Seq(Field)
      /\ s.program_counter \in Field /\ s.gas_remaining \in Field
  BY DEF VMState
<1>2. n \in Nat /\ k \in Nat /\ l \in Nat
  BY <1>1, LenProperties
<1>3. /\ pair \in Seq(Field) /\ Len(pair) = 2
      /\ pair[1] = s.program_counter /\ pair[2] = s.gas_remaining
  BY <1>1
<1>4. Values(s) = z
  BY DEF Values
<1>5. /\ x \in Seq(Field) /\ Len(x) = n + k
      /\ \A i \in 1 .. n + k : x[i] = IF i <= n THEN s.stack[i] ELSE s.memory[i - n]
  BY <1>1, ConcatProperties
<1> HIDE DEF x, pair
<1>6. /\ y \in Seq(Field) /\ Len(y) = n + k + l
      /\ \A i \in 1 .. n + k + l : y[i] = IF i <= n + k THEN x[i] ELSE s.storage[i - (n + k)]
  <2> DEFINE m == n + k
             storage == s.storage
  <2>1. Len(x) = m /\ x \in Seq(Field) /\ storage \in Seq(Field) /\ Len(storage) = l
    BY <1>1, <1>5
  <2>2. y = x \o storage
    OBVIOUS
  <2> HIDE DEF m, l, storage, y
  <2>3. /\ y \in Seq(Field) /\ Len(y) = m + l
        /\ \A i \in 1 .. m + l : y[i] = IF i <= m THEN x[i] ELSE storage[i - m]
    BY <2>1, <2>2, Joined
  <2> QED
    BY <2>3 DEF m, storage
<1> HIDE DEF y
<1>7. /\ z \in Seq(Field) /\ Len(z) = n + k + l + 2
      /\ \A i \in 1 .. n + k + l + 2 :
           z[i] = IF i <= n + k + l THEN y[i] ELSE pair[i - (n + k + l)]
  <2> DEFINE m == n + k + l
             two == 2
  <2>1. /\ Len(y) = m /\ y \in Seq(Field)
        /\ Len(pair) = two /\ pair \in Seq(Field)
    BY <1>3, <1>6
  <2>2. z = y \o pair
    OBVIOUS
  <2> HIDE DEF m, two, z
  <2>3. /\ z \in Seq(Field) /\ Len(z) = m + two
        /\ \A i \in 1 .. m + two : z[i] = IF i <= m THEN y[i] ELSE pair[i - m]
    BY <2>1, <2>2, Joined
  <2> QED
    BY <2>3 DEF m, two
<1> HIDE DEF z, n, k, l
<1>8. ASSUME NEW i \in 1 .. n PROVE z[i] = s.stack[i]
  <2>1. i \in 1 .. n + k /\ i \in 1 .. n + k + l /\ i \in 1 .. n + k + l + 2
        /\ i <= n /\ i <= n + k /\ i <= n + k + l
    BY <1>2
  <2> QED
    BY <1>5, <1>6, <1>7, <2>1
<1>9. ASSUME NEW i \in 1 .. k PROVE z[n + i] = s.memory[i]
  <2>1. n + i \in 1 .. n + k /\ n + i \in 1 .. n + k + l /\ n + i \in 1 .. n + k + l + 2
        /\ ~(n + i <= n) /\ n + i <= n + k /\ n + i <= n + k + l /\ (n + i) - n = i
    BY <1>2
  <2> QED
    BY <1>5, <1>6, <1>7, <2>1
<1>10. ASSUME NEW i \in 1 .. l PROVE z[n + k + i] = s.storage[i]
  <2>1. n + k + i \in 1 .. n + k + l /\ n + k + i \in 1 .. n + k + l + 2
        /\ ~(n + k + i <= n + k) /\ n + k + i <= n + k + l /\ (n + k + i) - (n + k) = i
    BY <1>2
  <2> QED
    BY <1>6, <1>7, <2>1
<1>11. z[n + k + l + 1] = s.program_counter /\ z[n + k + l + 2] = s.gas_remaining
  <2> DEFINE m == n + k + l
  <2>1. m \in Nat /\ \A i \in 1 .. m + 2 : z[i] = IF i <= m THEN y[i] ELSE pair[i - m]
    BY <1>2, <1>7
  <2> HIDE DEF m
  <2>2. m + 1 \in 1 .. m + 2 /\ m + 2 \in 1 .. m + 2 /\ ~(m + 1 <= m) /\ ~(m + 2 <= m)
        /\ (m + 1) - m = 1 /\ (m + 2) - m = 2
    BY <2>1
  <2>3. z[m + 1] = s.program_counter /\ z[m + 2] = s.gas_remaining
    BY <1>3, <2>1, <2>2
  <2> QED
    BY <2>3 DEF m
<1>12. /\ Values(s) \in Seq(Field) /\ Len(Values(s)) = n + k + l + 2
       /\ \A i \in 1 .. n : Values(s)[i] = s.stack[i]
       /\ \A i \in 1 .. k : Values(s)[n + i] = s.memory[i]
       /\ \A i \in 1 .. l : Values(s)[n + k + i] = s.storage[i]
       /\ Values(s)[n + k + l + 1] = s.program_counter
       /\ Values(s)[n + k + l + 2] = s.gas_remaining
  BY <1>4, <1>7, <1>8, <1>9, <1>10, <1>11
<1> QED
  BY <1>12 DEF n, k, l

-----------------------------------------------------------------------------
(* A circuit whose system is not refused.                                  *)

\* A variable that no element of a list of constraints mentions.
LEMMA NotMentioned ==
  ASSUME NEW v, NEW b, b.constraints \in Seq(Clean(v)), Constrained(b), Len(b.aux) \in Nat,
         v \in 1 .. Len(b.aux)
  PROVE  FALSE
<1>1. PICK k \in DOMAIN b.constraints, j \in 1 .. 3 : b.constraints[k][j] = v
  BY DEF Constrained
<1>2. b.constraints[k] \in Clean(v)
  BY LenProperties
<1> QED
  BY <1>1, <1>2 DEF Clean, Others

LEMMA StartFacts ==
  ASSUME NEW c \in CircuitType
  PROVE  /\ c.initial \in VMState /\ c.final \in VMState /\ c.max_steps \in Nat
         /\ Len(Values(c.initial)) \in Nat /\ Len(Values(c.final)) \in Nat
         /\ \A proving :
              Len(Start(c, proving).aux) = Len(Values(c.initial)) + Len(Values(c.final))
<1>1. c.initial \in VMState /\ c.final \in VMState /\ c.max_steps \in Nat
  BY DEF CircuitType
<1>2. Values(c.initial) \in Seq(Field) /\ Values(c.final) \in Seq(Field)
  BY <1>1, ValuesProperties
<1> QED
  BY <1>1, <1>2, ConcatProperties, LenProperties DEF Start

\* The variables of the two states are all before v.
LEMMA StatesAvoid ==
  ASSUME NEW c \in CircuitType, NEW v, v = Len(Values(c.initial)) + Len(Values(c.final)) + 1
  PROVE  /\ v \in Nat \ {0}
         /\ \A a \in {Initially(c), Finally(c)} :
              /\ a.stack \in Seq(Others(v)) /\ a.memory \in Seq(Others(v))
              /\ a.storage \in Seq(Others(v))
              /\ a.program_counter \in Others(v) /\ a.gas_remaining \in Others(v)
<1>1. v \in Nat \ {0}
  BY StartFacts
<1>2. ASSUME NEW s \in VMState, NEW used \in Nat, used + Len(Values(s)) < v
      PROVE  LET a == Allocated(s, used)
             IN  /\ a.stack \in Seq(Others(v)) /\ a.memory \in Seq(Others(v))
                 /\ a.storage \in Seq(Others(v))
                 /\ a.program_counter \in Others(v) /\ a.gas_remaining \in Others(v)
  <2> DEFINE n == Len(s.stack)
             k == Len(s.memory)
             l == Len(s.storage)
             a == Allocated(s, used)
  <2>1. /\ n \in Nat /\ k \in Nat /\ l \in Nat
        /\ IsSequence(a.stack) /\ Len(a.stack) = n
        /\ IsSequence(a.memory) /\ Len(a.memory) = k
        /\ IsSequence(a.storage) /\ Len(a.storage) = l
        /\ \A i \in 1 .. n : a.stack[i] = used + i
        /\ \A i \in 1 .. k : a.memory[i] = used + n + i
        /\ \A i \in 1 .. l : a.storage[i] = used + n + k + i
        /\ a.program_counter = used + n + k + l + 1
        /\ a.gas_remaining = used + n + k + l + 2
    BY AllocatedProperties
  <2>2. used + n + k + l + 2 < v
    <3>1. Len(Values(s)) = n + k + l + 2
      BY ValuesProperties
    <3>2. used + (n + k + l + 2) < v
      BY <1>2, <3>1
    <3> HIDE DEF n, k, l
    <3> QED
      BY <1>1, <2>1, <3>2
  <2> HIDE DEF n, k, l, a
  <2>3. a.program_counter \in Others(v) /\ a.gas_remaining \in Others(v)
    BY <1>1, <2>1, <2>2 DEF Others
  <2>4. /\ \A i \in 1 .. n : a.stack[i] \in Others(v)
        /\ \A i \in 1 .. k : a.memory[i] \in Others(v)
        /\ \A i \in 1 .. l : a.storage[i] \in Others(v)
    <3>1. ASSUME NEW i \in 1 .. n PROVE a.stack[i] \in Others(v)
      BY <1>1, <2>1, <2>2 DEF Others
    <3>2. ASSUME NEW i \in 1 .. k PROVE a.memory[i] \in Others(v)
      BY <1>1, <2>1, <2>2 DEF Others
    <3>3. ASSUME NEW i \in 1 .. l PROVE a.storage[i] \in Others(v)
      BY <1>1, <2>1, <2>2 DEF Others
    <3> QED
      BY <3>1, <3>2, <3>3
  <2>5. ASSUME NEW t, IsSequence(t), \A i \in 1 .. Len(t) : t[i] \in Others(v)
        PROVE  t \in Seq(Others(v))
    <3>1. t \in Seq({t[i] : i \in 1 .. Len(t)}) /\ {t[i] : i \in 1 .. Len(t)} \subseteq Others(v)
      BY <2>5 DEF IsSequence
    <3> QED
      BY <3>1, SeqMonotonic
  <2>6. a.stack \in Seq(Others(v)) /\ a.memory \in Seq(Others(v)) /\ a.storage \in Seq(Others(v))
    BY <2>1, <2>4, <2>5
  <2> QED
    BY <2>3, <2>6 DEF a
<1>3. /\ 0 + Len(Values(c.initial)) < v
      /\ Len(Values(c.initial)) + Len(Values(c.final)) < v
  BY StartFacts
<1> QED
  BY <1>1, <1>2, <1>3, StartFacts DEF Initially, Finally

LEMMA PairsAvoid ==
  ASSUME NEW v \in Nat \ {0}, NEW s \in Seq(Others(v)), NEW t \in Seq(Others(v))
  PROVE  PairsOf(s, t) \subseteq Clean(v)
BY ElementOfSeq, LenProperties DEF PairsOf, Clean, Others

\* A step, any step, leaves a variable that no constraint mentions.
LEMMA SteppedUnconstrained ==
  ASSUME NEW c \in CircuitType, NEW proving, Synthesize(c, proving).fault = "none",
         Constrained(Synthesize(c, proving))
  PROVE  c.max_steps = 0
<1> SUFFICES ASSUME c.max_steps # 0 PROVE FALSE
  OBVIOUS
<1> DEFINE v == Len(Values(c.initial)) + Len(Values(c.final)) + 1
           m == c.max_steps
           start == Start(c, proving)
           final == Finally(c)
<1>1. m \in Nat \ {0}
  BY StartFacts
<1>2. /\ v \in Nat \ {0}
      /\ start.stack \in Seq(Others(v)) /\ start.memory \in Seq(Others(v))
      /\ start.program_counter \in Others(v)
      /\ final.stack \in Seq(Others(v)) /\ final.memory \in Seq(Others(v))
      /\ final.storage \in Seq(Others(v)) /\ Initially(c).storage \in Seq(Others(v))
      /\ final.program_counter \in Others(v) /\ final.gas_remaining \in Others(v)
      /\ Initially(c).gas_remaining \in Others(v)
  BY StatesAvoid DEF Start
<1>3. Near(start, v)
  <2>1. Running(start) /\ start.constraints = <<>>
    BY StartRuns DEF Start
  <2>2. start.constraints \in Seq(Clean(v))
    BY <2>1, EmptySeq
  <2>3. Len(start.aux) + 1 >= v
    BY StartFacts
  <2> QED
    BY <1>2, <2>1, <2>2, <2>3 DEF Near
<1>4. PICK f : /\ Steps(f, c, proving, start, final, m)
               /\ Synthesize(c, proving) = WithFinals(f[m], c)
  BY <1>1, SynthesizeSteps
<1> HIDE DEF v, start, m
<1>5. Running(f[m])
  <2>1. Running(start)
    BY <1>3 DEF Near
  <2>2. \A n \in 0 .. m : Running(f[n])
    BY <1>1, <1>4, <2>1, StepsRun, Zenon
  <2> QED
    BY <1>1, <2>2
<1>6. f[m].fault = "none"
  BY <1>4, <1>5, FinalsRun
<1>7. Avoids(f[m], v)
  <2>1. \A n \in 1 .. m : f[n].fault = "none" => Avoids(f[n], v)
    BY <1>1, <1>2, <1>3, <1>4, StepsAvoid
  <2> QED
    BY <1>1, <1>6, <2>1
<1> DEFINE b == f[m]
           finals == Finals(b, Initially(c), final)
<1>8. finals \in Seq(Clean(v))
  <2>1. Lists(finals, FinalPairs(b, Initially(c), final))
    BY <1>2, <1>7, ListsFinals, SequenceOf DEF Avoids, Near
  <2>2. FinalPairs(b, Initially(c), final) \subseteq Clean(v)
    <3>1. /\ b.stack \in Seq(Others(v)) /\ b.memory \in Seq(Others(v))
          /\ b.program_counter \in Others(v) /\ 0 \in Others(v)
      BY <1>2, <1>7 DEF Avoids, Near, Others
    <3> HIDE DEF b, final
    <3>2. /\ PairsOf(b.stack, final.stack) \subseteq Clean(v)
          /\ PairsOf(b.memory, final.memory) \subseteq Clean(v)
          /\ PairsOf(Initially(c).storage, final.storage) \subseteq Clean(v)
      BY <1>2, <3>1, PairsAvoid
    <3>3. /\ <<b.program_counter, 0, final.program_counter>> \in Clean(v)
          /\ <<Initially(c).gas_remaining, 0, final.gas_remaining>> \in Clean(v)
      BY <1>2, <3>1 DEF Clean
    <3> QED
      BY <3>2, <3>3 DEF FinalPairs
  <2> QED
    BY <2>1, <2>2, SeqMonotonic DEF Lists, IsSequence
<1> HIDE DEF b, finals
<1>9. /\ Synthesize(c, proving).aux = b.aux
      /\ Synthesize(c, proving).constraints = b.constraints \o finals
  <2>1. /\ WithFinals(b, c).aux = b.aux
        /\ WithFinals(b, c).constraints = b.constraints \o Finals(b, Initially(c), Finally(c))
    BY <1>5, FinalsRun, Zenon DEF b
  <2> QED
    BY <1>4, <2>1, Zenon DEF b, finals, final
<1>10. Synthesize(c, proving).constraints \in Seq(Clean(v))
  BY <1>7, <1>8, <1>9, ConcatProperties DEF Avoids, Near, b
<1>11. v \in 1 .. Len(b.aux) /\ Len(b.aux) \in Nat
  <2>1. Len(b.aux) \in Nat
    BY <1>5, SequenceOf DEF Running, IsSequence, b
  <2> QED
    BY <1>2, <1>7, <2>1 DEF Avoids, b
<1> QED
  BY <1>9, <1>10, <1>11, NotMentioned

\* Without steps: what the synthesis is.
LEMMA Stepless ==
  ASSUME NEW c \in CircuitType, c.max_steps = 0, NEW proving
  PROVE  LET b == Synthesize(c, proving)
         IN  /\ b.aux = Values(c.initial) \o Values(c.final)
             /\ b.fault = Start(c, proving).fault
             /\ Lists(b.constraints, FinalPairs(Initially(c), Initially(c), Finally(c)))
<1> DEFINE start == Start(c, proving)
           finals == Finals(start, Initially(c), Finally(c))
           pairs  == FinalPairs(start, Initially(c), Finally(c))
<1>1. PICK f : /\ Steps(f, c, proving, start, Finally(c), 0)
               /\ Synthesize(c, proving) = WithFinals(f[0], c)
  BY SynthesizeSteps
<1>2. f[0] = start
  BY <1>1 DEF Steps
<1>3. Running(start)
  BY StartRuns
<1>4. /\ start.constraints = <<>> /\ start.aux = Values(c.initial) \o Values(c.final)
      /\ start.stack = Initially(c).stack /\ start.memory = Initially(c).memory
      /\ start.program_counter = Initially(c).program_counter
  BY DEF Start
<1>5. /\ IsSequence(Initially(c).stack) /\ IsSequence(Initially(c).memory)
      /\ IsSequence(Initially(c).storage) /\ IsSequence(Finally(c).stack)
      /\ IsSequence(Finally(c).memory) /\ IsSequence(Finally(c).storage)
  BY StartFacts, AllocatedProperties DEF Initially, Finally
<1>6. Lists(finals, pairs)
  BY <1>4, <1>5, ListsFinals
<1>7. pairs = FinalPairs(Initially(c), Initially(c), Finally(c))
  BY <1>4 DEF FinalPairs
<1> HIDE DEF start, finals, pairs
<1>8. <<>> \o finals = finals
  BY <1>6, ConcatEmptySeq DEF Lists, IsSequence
<1>9. /\ WithFinals(start, c).aux = start.aux /\ WithFinals(start, c).fault = start.fault
      /\ WithFinals(start, c).constraints = start.constraints \o finals
  BY <1>3, FinalsRun, Zenon DEF finals
<1>10. Synthesize(c, proving) = WithFinals(start, c)
  BY <1>1, <1>2
<1>11. /\ Synthesize(c, proving).aux = Values(c.initial) \o Values(c.final)
       /\ Synthesize(c, proving).fault = start.fault
       /\ Synthesize(c, proving).constraints = finals
  BY <1>4, <1>8, <1>9, <1>10, Zenon
<1> QED
  BY <1>6, <1>7, <1>11, Zenon DEF start

\* Of the two states, each variable is in one pair only: the last one of the
\* longer stack, memory or storage is in none.
LEMMA SameLengths ==
  ASSUME NEW c \in CircuitType, c.max_steps = 0, NEW proving,
         Constrained(Synthesize(c, proving))
  PROVE  /\ Len(c.initial.stack) = Len(c.final.stack)
         /\ Len(c.initial.memory) = Len(c.final.memory)
         /\ Len(c.initial.storage) = Len(c.final.storage)
<1> DEFINE n == Len(c.initial.stack)
           k == Len(c.initial.memory)
           l == Len(c.initial.storage)
           p == Len(c.final.stack)
           q == Len(c.final.memory)
           r == Len(c.final.storage)
           N == n + k + l + 2
           a == Initially(c)
           z == Finally(c)
           b == Synthesize(c, proving)
<1>1. /\ n \in Nat /\ k \in Nat /\ l \in Nat
      /\ Len(a.stack) = n /\ Len(a.memory) = k /\ Len(a.storage) = l
      /\ \A i \in 1 .. n : a.stack[i] = i
      /\ \A i \in 1 .. k : a.memory[i] = n + i
      /\ \A i \in 1 .. l : a.storage[i] = n + k + i
      /\ a.program_counter = n + k + l + 1
      /\ a.gas_remaining = n + k + l + 2
  <2> DEFINE none == 0
             y == Allocated(c.initial, none)
  <2>1. c.initial \in VMState /\ none \in Nat /\ a = y
    BY StartFacts DEF Initially
  <2> HIDE DEF none, a
  <2>2. /\ n \in Nat /\ k \in Nat /\ l \in Nat
        /\ Len(y.stack) = n /\ Len(y.memory) = k /\ Len(y.storage) = l
        /\ \A i \in 1 .. n : y.stack[i] = none + i
        /\ \A i \in 1 .. k : y.memory[i] = none + n + i
        /\ \A i \in 1 .. l : y.storage[i] = none + n + k + i
        /\ y.program_counter = none + n + k + l + 1
        /\ y.gas_remaining = none + n + k + l + 2
    BY <2>1, AllocatedProperties
  <2>3. none = 0
    BY DEF none
  <2> HIDE DEF y, n, k, l
  <2> QED
    BY <2>1, <2>2, <2>3
<1>2. Len(Values(c.initial)) = N /\ Len(Values(c.final)) = p + q + r + 2
  BY StartFacts, ValuesProperties
<1>n. N \in Nat
  <2> HIDE DEF n, k, l
  <2> QED
    BY <1>1
<1>3. /\ p \in Nat /\ q \in Nat /\ r \in Nat
      /\ Len(z.stack) = p /\ Len(z.memory) = q /\ Len(z.storage) = r
      /\ \A i \in 1 .. p : z.stack[i] = N + i
      /\ \A i \in 1 .. q : z.memory[i] = N + p + i
      /\ \A i \in 1 .. r : z.storage[i] = N + p + q + i
      /\ z.program_counter = N + p + q + r + 1
      /\ z.gas_remaining = N + p + q + r + 2
  <2> DEFINE y == Allocated(c.final, N)
  <2>1. c.final \in VMState /\ z = y
    BY <1>2, StartFacts DEF Finally
  <2> HIDE DEF N, z
  <2>2. /\ p \in Nat /\ q \in Nat /\ r \in Nat
        /\ Len(y.stack) = p /\ Len(y.memory) = q /\ Len(y.storage) = r
        /\ \A i \in 1 .. p : y.stack[i] = N + i
        /\ \A i \in 1 .. q : y.memory[i] = N + p + i
        /\ \A i \in 1 .. r : y.storage[i] = N + p + q + i
        /\ y.program_counter = N + p + q + r + 1
        /\ y.gas_remaining = N + p + q + r + 2
    BY <1>n, <2>1, AllocatedProperties
  <2> HIDE DEF y, p, q, r
  <2> QED
    BY <2>1, <2>2
<1>4. Len(b.aux) = N + (p + q + r + 2)
  <2>1. b.aux = Values(c.initial) \o Values(c.final)
    BY Stepless
  <2>2. Values(c.initial) \in Seq(Field) /\ Values(c.final) \in Seq(Field)
    BY StartFacts, ValuesProperties
  <2>3. Len(b.aux) = Len(Values(c.initial)) + Len(Values(c.final))
    BY <2>1, <2>2, ConcatProperties
  <2> HIDE DEF b, N, p, q, r
  <2> QED
    BY <1>2, <2>3
<1>5. Lists(b.constraints, FinalPairs(a, a, z))
  BY Stepless
\* What a pair is of, by its number.
<1> DEFINE Mentioned(v) ==
             \/ v \in {n + k + l + 1, N + p + q + r + 1, n + k + l + 2, N + p + q + r + 2}
             \/ \E i \in 1 .. n : i <= p /\ v \in {i, N + i}
             \/ \E i \in 1 .. k : i <= q /\ v \in {n + i, N + p + i}
             \/ \E i \in 1 .. l : i <= r /\ v \in {n + k + i, N + p + q + i}
<1> HIDE DEF b, n, k, l, p, q, r, a, z
<1>6. ASSUME NEW v \in 1 .. N + (p + q + r + 2)
      PROVE  Mentioned(v)
  <2>1. v \in 1 .. Len(b.aux)
    BY <1>4
  <2>2. PICK i \in DOMAIN b.constraints, j \in 1 .. 3 : b.constraints[i][j] = v
    BY <2>1 DEF Constrained, b
  <2> DEFINE t == b.constraints[i]
  <2>3. t \in FinalPairs(a, a, z)
    <3>1. i \in 1 .. Len(b.constraints)
      BY <1>5, <2>2, LenProperties DEF Lists, IsSequence
    <3> QED
      BY <1>5, <3>1 DEF Lists
  <2>4. v \in {t[1], t[2], t[3]} /\ v # 0
    <3>1. j \in {1, 2, 3}
      OBVIOUS
    <3> QED
      BY <2>2, <3>1
  <2> HIDE DEF t
  <2>5. CASE t \in PairsOf(a.stack, z.stack)
    <3>1. PICK e \in 1 .. n : e <= p /\ t = <<a.stack[e], 0, z.stack[e]>>
      BY <1>1, <1>3, <2>5 DEF PairsOf
    <3>2. e \in 1 .. p
      BY <1>3, <3>1
    <3>3. v \in {e, N + e}
      BY <1>1, <1>3, <2>4, <3>1, <3>2
    <3> QED
      BY <3>1, <3>3
  <2>6. CASE t \in PairsOf(a.memory, z.memory)
    <3>0. Len(a.memory) = k /\ Len(z.memory) = q
      BY <1>1, <1>3
    <3>1. PICK e \in 1 .. k : e <= q /\ t = <<a.memory[e], 0, z.memory[e]>>
      BY <2>6, <3>0 DEF PairsOf
    <3>2. e \in 1 .. q
      BY <1>3, <3>1
    <3>3. v \in {n + e, N + p + e}
      BY <1>1, <1>3, <2>4, <3>1, <3>2
    <3> QED
      BY <3>1, <3>3
  <2>7. CASE t \in PairsOf(a.storage, z.storage)
    <3>0. Len(a.storage) = l /\ Len(z.storage) = r
      BY <1>1, <1>3
    <3>1. PICK e \in 1 .. l : e <= r /\ t = <<a.storage[e], 0, z.storage[e]>>
      BY <2>7, <3>0 DEF PairsOf
    <3>2. e \in 1 .. r
      BY <1>3, <3>1
    <3>3. v \in {n + k + e, N + p + q + e}
      BY <1>1, <1>3, <2>4, <3>1, <3>2
    <3> QED
      BY <3>1, <3>3
  <2>8. CASE t \in {<<a.program_counter, 0, z.program_counter>>,
                    <<a.gas_remaining, 0, z.gas_remaining>>}
    BY <1>1, <1>3, <2>4, <2>8
  <2> QED
    BY <2>3, <2>5, <2>6, <2>7, <2>8 DEF FinalPairs
<1>8. ASSUME n > p PROVE FALSE
  <2>1. n \in 1 .. N + (p + q + r + 2)
    BY <1>1, <1>3, <1>8
  <2>2. ~Mentioned(n)
    BY <1>1, <1>3, <1>8
  <2> QED
    BY <1>6, <2>1, <2>2
<1>9. ASSUME n < p PROVE FALSE
  <2>1. N + p \in 1 .. N + (p + q + r + 2)
    BY <1>1, <1>3, <1>9
  <2>2. ~Mentioned(N + p)
    BY <1>1, <1>3, <1>9
  <2> QED
    BY <1>6, <2>1, <2>2
<1>10. ASSUME k > q PROVE FALSE
  <2>1. n + k \in 1 .. N + (p + q + r + 2)
    BY <1>1, <1>3, <1>10
  <2>2. ~Mentioned(n + k)
    BY <1>1, <1>3, <1>10
  <2> QED
    BY <1>6, <2>1, <2>2
<1>11. ASSUME k < q PROVE FALSE
  <2>1. N + p + q \in 1 .. N + (p + q + r + 2)
    BY <1>1, <1>3, <1>11
  <2>2. ~Mentioned(N + p + q)
    BY <1>1, <1>3, <1>11
  <2> QED
    BY <1>6, <2>1, <2>2
<1>12. ASSUME l > r PROVE FALSE
  <2>1. n + k + l \in 1 .. N + (p + q + r + 2)
    BY <1>1, <1>3, <1>12
  <2>2. ~Mentioned(n + k + l)
    BY <1>1, <1>3, <1>12
  <2> QED
    BY <1>6, <2>1, <2>2
<1>13. ASSUME l < r PROVE FALSE
  <2>1. N + p + q + r \in 1 .. N + (p + q + r + 2)
    BY <1>1, <1>3, <1>13
  <2>2. ~Mentioned(N + p + q + r)
    BY <1>1, <1>3, <1>13
  <2> QED
    BY <1>6, <2>1, <2>2
<1>14. n = p /\ k = q /\ l = r
  BY <1>1, <1>3, <1>8, <1>9, <1>10, <1>11, <1>12, <1>13
<1> QED
  BY <1>14 DEF n, k, l, p, q, r

\* With stacks, memories and storages of the same lengths, the i-th variable of
\* the first state is enforced to be the i-th of the second.
LEMMA SamePairs ==
  ASSUME NEW c \in CircuitType,
         Len(c.initial.stack) = Len(c.final.stack),
         Len(c.initial.memory) = Len(c.final.memory),
         Len(c.initial.storage) = Len(c.final.storage),
         NEW N, N = Len(Values(c.initial)), NEW i \in 1 .. N
  PROVE  <<i, 0, N + i>> \in FinalPairs(Initially(c), Initially(c), Finally(c))
<1> DEFINE n == Len(c.initial.stack)
           k == Len(c.initial.memory)
           l == Len(c.initial.storage)
           none == 0
           a == Allocated(c.initial, none)
           z == Allocated(c.final, N)
<1>1. N = n + k + l + 2
  BY StartFacts, ValuesProperties
<1>2. c.initial \in VMState /\ c.final \in VMState /\ N \in Nat /\ none \in Nat
  BY StartFacts
<1>3. Initially(c) = a /\ Finally(c) = z
  BY DEF Initially, Finally
<1> HIDE DEF none
<1>4. /\ n \in Nat /\ k \in Nat /\ l \in Nat
      /\ Len(a.stack) = n /\ Len(a.memory) = k /\ Len(a.storage) = l
      /\ \A j \in 1 .. n : a.stack[j] = none + j
      /\ \A j \in 1 .. k : a.memory[j] = none + n + j
      /\ \A j \in 1 .. l : a.storage[j] = none + n + k + j
      /\ a.program_counter = none + n + k + l + 1
      /\ a.gas_remaining = none + n + k + l + 2
  BY <1>2, AllocatedProperties
<1>5. /\ Len(z.stack) = n /\ Len(z.memory) = k /\ Len(z.storage) = l
      /\ \A j \in 1 .. n : z.stack[j] = N + j
      /\ \A j \in 1 .. k : z.memory[j] = N + n + j
      /\ \A j \in 1 .. l : z.storage[j] = N + n + k + j
      /\ z.program_counter = N + n + k + l + 1
      /\ z.gas_remaining = N + n + k + l + 2
  <2> DEFINE p == Len(c.final.stack)
             q == Len(c.final.memory)
             r == Len(c.final.storage)
  <2>1. /\ Len(z.stack) = p /\ Len(z.memory) = q /\ Len(z.storage) = r
        /\ \A j \in 1 .. p : z.stack[j] = N + j
        /\ \A j \in 1 .. q : z.memory[j] = N + p + j
        /\ \A j \in 1 .. r : z.storage[j] = N + p + q + j
        /\ z.program_counter = N + p + q + r + 1
        /\ z.gas_remaining = N + p + q + r + 2
    BY <1>2, AllocatedProperties
  <2>2. p = n /\ q = k /\ r = l
    OBVIOUS
  <2> HIDE DEF p, q, r, n, k, l, z
  <2> QED
    BY <2>1, <2>2
<1>6. none = 0
  BY DEF none
<1> HIDE DEF n, k, l, a, z
<1> DEFINE t == <<i, 0, N + i>>
<1>7. CASE i \in 1 .. n
  <2>1. t = <<a.stack[i], 0, z.stack[i]>>
    BY <1>2, <1>4, <1>5, <1>6, <1>7
  <2>2. i \in 1 .. Len(a.stack) /\ i <= Len(z.stack)
    BY <1>4, <1>5, <1>7
  <2> HIDE DEF t
  <2>3. t \in PairsOf(a.stack, z.stack)
    BY <2>1, <2>2 DEF PairsOf
  <2> QED
    BY <1>3, <2>3 DEF FinalPairs, t
<1>8. CASE i \in n + 1 .. n + k
  <2> DEFINE j == i - n
  <2>0. j \in 1 .. k /\ n + j = i /\ N + n + j = N + i /\ none + n + j = i
    BY <1>2, <1>4, <1>6, <1>8
  <2> HIDE DEF j
  <2>1. t = <<a.memory[j], 0, z.memory[j]>>
    BY <1>4, <1>5, <2>0
  <2>2. j \in 1 .. Len(a.memory) /\ j <= Len(z.memory)
    BY <1>4, <1>5, <2>0
  <2> HIDE DEF t
  <2>3. t \in PairsOf(a.memory, z.memory)
    BY <2>1, <2>2 DEF PairsOf
  <2> QED
    BY <1>3, <2>3 DEF FinalPairs, t
<1>9. CASE i \in n + k + 1 .. n + k + l
  <2> DEFINE j == i - (n + k)
  <2>0. j \in 1 .. l /\ n + k + j = i /\ N + n + k + j = N + i /\ none + n + k + j = i
    BY <1>2, <1>4, <1>6, <1>9
  <2> HIDE DEF j
  <2>1. t = <<a.storage[j], 0, z.storage[j]>>
    BY <1>4, <1>5, <2>0
  <2>2. j \in 1 .. Len(a.storage) /\ j <= Len(z.storage)
    BY <1>4, <1>5, <2>0
  <2> HIDE DEF t
  <2>3. t \in PairsOf(a.storage, z.storage)
    BY <2>1, <2>2 DEF PairsOf
  <2> QED
    BY <1>3, <2>3 DEF FinalPairs, t
<1>10. CASE i = n + k + l + 1
  <2>1. t = <<a.program_counter, 0, z.program_counter>>
    BY <1>2, <1>4, <1>5, <1>6, <1>10
  <2> HIDE DEF t
  <2> QED
    BY <1>3, <2>1 DEF FinalPairs, t
<1>11. CASE i = n + k + l + 2
  <2>1. t = <<a.gas_remaining, 0, z.gas_remaining>>
    BY <1>2, <1>4, <1>5, <1>6, <1>11
  <2> HIDE DEF t
  <2> QED
    BY <1>3, <2>1 DEF FinalPairs, t
<1> QED
  BY <1>1, <1>4, <1>7, <1>8, <1>9, <1>10, <1>11

LEMMA Reduced ==
  ASSUME NEW x \in Field
  PROVE  (x * 1) % Modulus = x
<1>1. x \in Nat /\ x < Modulus /\ Modulus \in Nat /\ Modulus > 0
  BY FieldAssumption DEF Field
<1>2. x * 1 = x
  BY <1>1
<1>3. x % Modulus = x
  BY <1>1
<1> QED
  BY <1>2, <1>3

\* A circuit without steps that is satisfied ends in the state it begins in.
LEMMA SatisfiedEqual ==
  ASSUME NEW c \in CircuitType, c.max_steps = 0, Synthesize(c, TRUE).fault = "none",
         Len(c.initial.stack) = Len(c.final.stack),
         Len(c.initial.memory) = Len(c.final.memory),
         Len(c.initial.storage) = Len(c.final.storage),
         Satisfied(Synthesize(c, TRUE))
  PROVE  c.final = c.initial
<1> DEFINE b == Synthesize(c, TRUE)
           V == Values(c.initial)
           W == Values(c.final)
           N == Len(V)
           n == Len(c.initial.stack)
           k == Len(c.initial.memory)
           l == Len(c.initial.storage)
<1>1. c.initial \in VMState /\ c.final \in VMState
  BY StartFacts
<1>2. /\ V \in Seq(Field) /\ N = n + k + l + 2
      /\ \A i \in 1 .. n : V[i] = c.initial.stack[i]
      /\ \A i \in 1 .. k : V[n + i] = c.initial.memory[i]
      /\ \A i \in 1 .. l : V[n + k + i] = c.initial.storage[i]
      /\ V[n + k + l + 1] = c.initial.program_counter
      /\ V[n + k + l + 2] = c.initial.gas_remaining
  BY <1>1, ValuesProperties
<1>3. /\ W \in Seq(Field) /\ Len(W) = n + k + l + 2
      /\ \A i \in 1 .. n : W[i] = c.final.stack[i]
      /\ \A i \in 1 .. k : W[n + i] = c.final.memory[i]
      /\ \A i \in 1 .. l : W[n + k + i] = c.final.storage[i]
      /\ W[n + k + l + 1] = c.final.program_counter
      /\ W[n + k + l + 2] = c.final.gas_remaining
  <2> DEFINE p == Len(c.final.stack)
             q == Len(c.final.memory)
             r == Len(c.final.storage)
  <2>1. /\ W \in Seq(Field) /\ Len(W) = p + q + r + 2
        /\ \A i \in 1 .. p : W[i] = c.final.stack[i]
        /\ \A i \in 1 .. q : W[p + i] = c.final.memory[i]
        /\ \A i \in 1 .. r : W[p + q + i] = c.final.storage[i]
        /\ W[p + q + r + 1] = c.final.program_counter
        /\ W[p + q + r + 2] = c.final.gas_remaining
    BY <1>1, ValuesProperties
  <2>2. p = n /\ q = k /\ r = l
    OBVIOUS
  <2> HIDE DEF p, q, r, n, k, l, W
  <2> QED
    BY <2>1, <2>2
<1>4. n \in Nat /\ k \in Nat /\ l \in Nat
  BY <1>1, LenProperties DEF VMState
<1>5. /\ b.aux = V \o W /\ b.fault = Start(c, TRUE).fault
      /\ Lists(b.constraints, FinalPairs(Initially(c), Initially(c), Finally(c)))
  BY Stepless
<1>6. c.initial.witness = TRUE /\ c.final.witness = TRUE
  <2>1. Start(c, TRUE).fault = "none"
    BY <1>5
  <2>2. c.initial.witness /\ c.final.witness
    BY <2>1 DEF Start
  <2>3. c.initial.witness \in BOOLEAN /\ c.final.witness \in BOOLEAN
    BY <1>1 DEF VMState
  <2> QED
    BY <2>2, <2>3
<1>7. N \in Nat /\ Len(W) = N
  <2> HIDE DEF V, W, n, k, l
  <2> QED
    BY <1>2, <1>3, <1>4
<1>8. ASSUME NEW i \in 1 .. N
      PROVE  V[i] = W[i]
  <2> DEFINE t == <<i, 0, N + i>>
  <2>1. t \in FinalPairs(Initially(c), Initially(c), Finally(c))
    BY SamePairs
  <2>2. PICK j \in 1 .. Len(b.constraints) : b.constraints[j] = t
    BY <1>5, <2>1 DEF Lists
  <2>3. j \in DOMAIN b.constraints
    BY <1>5, <2>2, LenProperties DEF Lists, IsSequence
  <2>4. (b.aux[i] * 1) % Modulus = b.aux[N + i]
    <3>1. /\ t[1] = i /\ t[2] = 0 /\ t[3] = N + i /\ i # 0 /\ N + i # 0
      BY <1>7
    <3> HIDE DEF t, b, N
    <3> QED
      BY <2>2, <2>3, <3>1 DEF Satisfied, b
  <2>5. b.aux[i] = V[i] /\ b.aux[N + i] = W[i]
    <3>0. V \in Seq(Field) /\ W \in Seq(Field) /\ Len(V) = N /\ Len(W) = N
      BY <1>2, <1>3, <1>7
    <3> HIDE DEF V, W, N
    <3>1. \A h \in 1 .. N + N : (V \o W)[h] = IF h <= N THEN V[h] ELSE W[h - N]
      BY <3>0, Joined
    <3>2. i \in 1 .. N + N /\ N + i \in 1 .. N + N /\ i <= N /\ ~(N + i <= N) /\ (N + i) - N = i
      BY <1>7
    <3> QED
      BY <1>5, <3>1, <3>2
  <2>6. V[i] \in Field
    BY <1>2, ElementOfSeq
  <2> HIDE DEF V, W, N, b
  <2>7. (V[i] * 1) % Modulus = V[i]
    BY <2>6, Reduced
  <2> QED
    BY <2>4, <2>5, <2>7
<1> HIDE DEF V, W, N, b
<1>9. /\ \A i \in 1 .. n : c.initial.stack[i] = c.final.stack[i]
      /\ \A i \in 1 .. k : c.initial.memory[i] = c.final.memory[i]
      /\ \A i \in 1 .. l : c.initial.storage[i] = c.final.storage[i]
      /\ c.initial.program_counter = c.final.program_counter
      /\ c.initial.gas_remaining = c.final.gas_remaining
  <2> HIDE DEF n, k, l
  <2>1. ASSUME NEW i \in 1 .. n PROVE c.initial.stack[i] = c.final.stack[i]
    <3>1. i \in 1 .. N
      BY <1>2, <1>4
    <3> QED
      BY <1>2, <1>3, <1>8, <3>1
  <2>2. ASSUME NEW i \in 1 .. k PROVE c.initial.memory[i] = c.final.memory[i]
    <3>1. n + i \in 1 .. N
      BY <1>2, <1>4
    <3> QED
      BY <1>2, <1>3, <1>8, <3>1
  <2>3. ASSUME NEW i \in 1 .. l PROVE c.initial.storage[i] = c.final.storage[i]
    <3>1. n + k + i \in 1 .. N
      BY <1>2, <1>4
    <3> QED
      BY <1>2, <1>3, <1>8, <3>1
  <2>4. n + k + l + 1 \in 1 .. N /\ n + k + l + 2 \in 1 .. N
    BY <1>2, <1>4
  <2> QED
    BY <1>2, <1>3, <1>8, <2>1, <2>2, <2>3, <2>4
<1>10. /\ c.initial.stack = c.final.stack /\ c.initial.memory = c.final.memory
       /\ c.initial.storage = c.final.storage
  <2>1. /\ c.initial.stack \in Seq(Field) /\ c.final.stack \in Seq(Field)
        /\ c.initial.memory \in Seq(Field) /\ c.final.memory \in Seq(Field)
        /\ c.initial.storage \in Seq(Field) /\ c.final.storage \in Seq(Field)
    BY <1>1 DEF VMState
  <2>2. c.initial.stack = c.final.stack
    BY <1>9, <2>1, SeqEqual
  <2>3. c.initial.memory = c.final.memory
    BY <1>9, <2>1, SeqEqual
  <2>4. c.initial.storage = c.final.storage
    BY <1>9, <2>1, SeqEqual
  <2> QED
    BY <2>2, <2>3, <2>4
<1>11. \A s \in VMState :
         s = [witness |-> s.witness, stack |-> s.stack, memory |-> s.memory,
              storage |-> s.storage, program_counter |-> s.program_counter,
              gas_remaining |-> s.gas_remaining]
  BY DEF VMState
<1> QED
  BY <1>1, <1>6, <1>9, <1>10, <1>11

\* Setup refuses every circuit with a step: its first step allocates the variable of
\* an opcode that no constraint mentions, then or later.
THEOREM OnlyStepless ==
  \A c \in Circuits : SetUpAnswer(c) = "ok" => c.max_steps = 0
<1> SUFFICES ASSUME NEW c \in Circuits, SetUpAnswer(c) = "ok"
             PROVE  c.max_steps = 0
  OBVIOUS
<1>1. Synthesize(c, FALSE).fault = "none" /\ Constrained(Synthesize(c, FALSE))
  <2>1. Running(Synthesize(c, FALSE))
    BY SynthesizeRuns, CircuitsAssumption
  <2> QED
    BY <2>1 DEF SetUpAnswer, Running
<1> QED
  BY <1>1, SteppedUnconstrained, CircuitsAssumption

\* The parameters are those of a system that was not refused.
Unrefused == \E b : params = Shape(b) /\ Constrained(b)

LEMMA ShapeConstrained ==
  ASSUME NEW b, NEW d, Shape(b) = Shape(d), Constrained(b)
  PROVE  Constrained(d)
<1>1. Len(b.aux) = Len(d.aux) /\ b.constraints = d.constraints
  BY DEF Shape
<1> QED
  BY <1>1 DEF Constrained

\* A circuit that fits the parameters and satisfies them runs no step, and ends in
\* the state it began in: no other valid proof can be made for them.
THEOREM NoStepIsShown == Spec => []ProofsShowNoStep
<1>1. Init => Unrefused
  <2> SUFFICES ASSUME Init PROVE Unrefused
    OBVIOUS
  <2>1. PICK c \in Circuits : SetUp(c)
    BY DEF Init
  <2>2. Running(Synthesize(c, FALSE))
    BY SynthesizeRuns, CircuitsAssumption
  <2> QED
    BY <2>1, <2>2 DEF SetUp, SetUpAnswer, Parameters, Unrefused, Running
<1>2. Unrefused /\ [Next]_vars => Unrefused'
  <2>1. [Next]_vars => params' = params
    BY DEF Next, Prove, Verify, StartBatch, VerifyOne, EndBatch, vars
  <2> QED
    BY <2>1 DEF Unrefused
<1>3. Unrefused => ProofsShowNoStep
  <2> SUFFICES ASSUME Unrefused, NEW c \in Circuits, Synthesize(c, TRUE).fault = "none",
                      Shape(Synthesize(c, TRUE)) = params, Satisfied(Synthesize(c, TRUE))
               PROVE  c.max_steps = 0 /\ c.final = c.initial
    BY DEF ProofsShowNoStep
  <2>1. c \in CircuitType
    BY CircuitsAssumption
  <2>2. Constrained(Synthesize(c, TRUE))
    BY ShapeConstrained DEF Unrefused
  <2>3. c.max_steps = 0
    BY <2>1, <2>2, SteppedUnconstrained
  <2>4. /\ Len(c.initial.stack) = Len(c.final.stack)
        /\ Len(c.initial.memory) = Len(c.final.memory)
        /\ Len(c.initial.storage) = Len(c.final.storage)
    BY <2>1, <2>2, <2>3, SameLengths
  <2> QED
    BY <2>1, <2>3, <2>4, SatisfiedEqual
<1> QED
  BY <1>1, <1>2, <1>3, PTL DEF Spec

-----------------------------------------------------------------------------
(* Types.                                                                  *)

LEMMA PutBounded ==
  ASSUME CacheInv, Len(cache) <= CacheSize, NEW entry
  PROVE  Len(Put(entry)) <= CacheSize
<1> DEFINE kept == IF Len(cache) >= CacheSize THEN Tail(cache) ELSE cache
<1>1. CacheSize \in Nat \ {0} /\ Len(cache) \in Nat
  BY CircuitsAssumption, LenProperties DEF CacheInv
<1>2. kept \in Seq(Entries) /\ Len(kept) + 1 <= CacheSize
  <2>1. CASE Len(cache) >= CacheSize
    <3>1. cache # <<>>
      BY <1>1, <2>1, EmptySeq
    <3>2. Tail(cache) \in Seq(Entries) /\ Len(Tail(cache)) = Len(cache) - 1
      BY <3>1, HeadTailProperties DEF CacheInv
    <3> QED
      BY <1>1, <2>1, <3>2
  <2>2. CASE ~(Len(cache) >= CacheSize)
    BY <1>1, <2>2 DEF CacheInv
  <2> QED
    BY <2>1, <2>2
<1>3. Put(entry) = Append(kept, entry)
  BY DEF Put
<1> HIDE DEF kept
<1>4. Len(Append(kept, entry)) = Len(kept) + 1
  BY <1>2, SequenceOf, Appended
<1> QED
  BY <1>2, <1>3, <1>4

Answers == {"none", "proof", "valid", "invalid", "error", "panic", "AssignmentMissing"}

\* The strengthening: proofs are numbered within the bound, and a batch that is
\* under way has an answer already.
TypeInv ==
  /\ params.variables \in Nat
  /\ Len(cache) <= CacheSize /\ Len(made) <= MaxProofs
  /\ last.answer \in Answers /\ batch.answer \in Answers

LEMMA TypeInvType ==
  ASSUME MadeInv, TypeInv
  PROVE  TypeOK
<1>1. ASSUME NEW i \in DOMAIN made
      PROVE  made[i].proof \in Proof
  <2>1. i \in 1 .. Len(made) /\ Len(made) \in Nat /\ MaxProofs \in Nat
    BY MadeFacts, CircuitsAssumption
  <2>2. made[i] \in MadeData /\ made[i].proof.id = i
    BY <2>1, ElementOfSeq DEF MadeInv
  <2>3. PICK n \in Nat, valid \in BOOLEAN : made[i].proof = [id |-> n, valid |-> valid]
    BY <2>2 DEF MadeData, ProofNumber, ProofData
  <2>4. n \in 1 .. MaxProofs
    BY <2>1, <2>2, <2>3 DEF TypeInv
  <2> QED
    BY <2>3, <2>4 DEF Proof
<1> QED
  BY <1>1 DEF TypeOK, TypeInv, Answers

LEMMA TypeInit == Init => TypeInv
<1> SUFFICES ASSUME Init PROVE TypeInv
  OBVIOUS
<1>1. PICK c \in Circuits : SetUp(c)
  BY DEF Init
<1>2. Running(Synthesize(c, FALSE))
  BY <1>1, SynthesizeRuns, CircuitsAssumption
<1>3. Len(Synthesize(c, FALSE).aux) \in Nat
  BY <1>2, SequenceOf DEF Running, IsSequence
<1>4. params.variables \in Nat
  BY <1>1, <1>3 DEF SetUp, Parameters, Shape
<1>5. Len(cache) = 0 /\ Len(made) = 0 /\ CacheSize \in Nat /\ MaxProofs \in Nat
  BY EmptySeq, CircuitsAssumption DEF Init
<1> QED
  BY <1>4, <1>5 DEF Init, TypeInv, NoBatch, Answers

LEMMA VerifyAnswers == \A pd : VerifyAnswer(pd) \in Answers
BY DEF VerifyAnswer, VerifyProof, Answers

LEMMA ProveAnswers ==
  ASSUME NEW c \in Circuits, Prove(c)
  PROVE  last'.answer \in Answers
<1>1. Running(Synthesize(c, TRUE))
  BY SynthesizeRuns, CircuitsAssumption
<1>2. Synthesize(c, TRUE).fault \in Answers
  BY <1>1 DEF Running, Answers
<1>3. \E answer \in {Synthesize(c, TRUE).fault, "error", "proof"} :
        last' = [asked |-> {}, answer |-> answer]
  BY Zenon DEF Prove
<1>4. {Synthesize(c, TRUE).fault, "error", "proof"} \subseteq Answers
  BY <1>2 DEF Answers
<1>5. PICK answer \in Answers : last' = [asked |-> {}, answer |-> answer]
  BY <1>3, <1>4, Zenon
<1> QED
  BY <1>5

LEMMA TypeStep == MadeInv /\ CacheInv /\ BatchInv /\ TypeInv /\ [Next]_vars => TypeInv'
<1> SUFFICES ASSUME MadeInv, CacheInv, BatchInv, TypeInv, [Next]_vars PROVE TypeInv'
  OBVIOUS
<1>1. CASE UNCHANGED vars
  BY <1>1 DEF TypeInv, vars
<1>2. ASSUME NEW c \in Circuits, Prove(c)
      PROVE  TypeInv'
  <2>1. /\ UNCHANGED <<params, batch>>
        /\ \/ UNCHANGED <<cache, made>>
           \/ \E valid \in BOOLEAN :
                LET pd == ProofNumber(Len(made) + 1, valid)
                IN  /\ made' = Append(made, pd)
                    /\ cache' = Put([hash |-> pd.hash, proof |-> pd.proof])
    BY <1>2, ProveEffect
  <2>2. last'.answer \in Answers
    BY <1>2, ProveAnswers
  <2>3. Len(made) < MaxProofs /\ MaxProofs \in Nat /\ Len(made) \in Nat
    BY <1>2, CircuitsAssumption, MadeFacts DEF Prove
  <2>4. Len(cache') <= CacheSize
    BY <2>1, PutBounded DEF TypeInv
  <2>5. \A v : Len(Append(made, v)) = Len(made) + 1
    BY SequenceOf, Appended DEF MadeInv
  <2>6. Len(made') <= MaxProofs
    <3>1. CASE made' = made
      BY <3>1 DEF TypeInv
    <3>2. CASE made' # made
      <4>1. PICK v : made' = Append(made, v)
        BY <2>1, <3>2
      <4> QED
        BY <2>3, <2>5, <4>1
    <3> QED
      BY <3>1, <3>2
  <2> QED
    BY <2>1, <2>2, <2>4, <2>6 DEF TypeInv
<1>3. ASSUME NEW pd \in Held, Verify(pd)
      PROVE  TypeInv'
  <2>1. Len(cache') <= CacheSize
    BY <1>3, TouchedProperties DEF Verify, TypeInv
  <2> QED
    BY <1>3, <2>1, VerifyAnswers DEF Verify, TypeInv
<1>4. ASSUME NEW proofs, StartBatch(proofs)
      PROVE  TypeInv'
  BY <1>4 DEF StartBatch, TypeInv, Answers
<1>5. ASSUME NEW pd, VerifyOne(pd)
      PROVE  TypeInv'
  <2>1. Len(cache') <= CacheSize
    BY <1>5, TouchedProperties DEF VerifyOne, TypeInv
  <2>2. batch'.answer \in {batch.answer, "invalid"}
    BY <1>5 DEF VerifyOne, BatchInv
  <2> QED
    BY <1>5, <2>1, <2>2 DEF VerifyOne, TypeInv, Answers
<1>6. CASE EndBatch
  BY <1>6 DEF EndBatch, TypeInv, NoBatch, Answers
<1> QED
  BY <1>1, <1>2, <1>3, <1>4, <1>5, <1>6 DEF Next

\* Type correctness: the parameters are those of a synthesis, the cache never
\* outgrows its size, whatever is touched and put, proofs are numbered within the
\* bound, and every call ends with one of its answers.
THEOREM TypeCorrect == Spec => []TypeOK
<1>1. MadeInv /\ TypeInv => TypeOK
  BY TypeInvType
<1> QED
  BY <1>1, MadeInit, MadeStep, CacheInit, CacheStep, BatchInit, BatchStep, TypeInit,
     TypeStep, PTL DEF Spec

=============================================================================
