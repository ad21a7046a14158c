----------------------- MODULE ConsensusEngine_proofs -----------------------
(***************************************************************************)
(* Theorems about ConsensusEngine, for every set of nodes, every validator *)
(* map with fewer than a third of dishonest members, and every bound.      *)
(***************************************************************************)
EXTENDS ConsensusEngine, FiniteSetTheorems, SequenceTheorems, TLAPS

\* Everything counted in a vote set was cast by an eligible validator.
VotesAreBallots == \A b \in DOMAIN votes : votes[b] \subseteq Supporters(b)

\* What MayVote makes of the history: an honest node backs one block a height.
HonestVoteOnce ==
  \A v \in Honest, b, c \in Blocks :
    <<v, b>> \in ballots /\ <<v, c>> \in ballots /\ Number[b] = Number[c] => b = c

\* The inductive invariant of voting, on top of TypeOK. FinalizedJustified is
\* not inductive alone: that counted votes are real ballots, and that an honest
\* node casts one per height, is what keeps it and what Agreement rests on.
VotingInv ==
  /\ PendingAwaitsVotes
  /\ VotesAreBallots
  /\ FinalizedJustified
  /\ HonestVoteOnce

-----------------------------------------------------------------------------
(* Validator maps and quorums.                                             *)

\* Every validator map holds nodes only, and finitely many.
LEMMA MembersFinite ==
  ASSUME validators \in ValidatorMaps
  PROVE  /\ validators \in Seq(Nodes)
         /\ Members \subseteq Nodes
         /\ IsFiniteSet(Members)
         /\ Cardinality(Members) \in Nat
<1>1. validators \in Seq(Nodes)
  BY NodesAssumption
<1>2. Members \subseteq Nodes
  BY <1>1 DEF Members, Range
<1>3. IsFiniteSet(Members)
  BY <1>2, NodesAssumption, FS_Subset
<1> QED
  BY <1>1, <1>2, <1>3, FS_CardinalityType

\* A quorum stays one when voters are added.
LEMMA QuorumGrows ==
  ASSUME validators \in ValidatorMaps,
         NEW S \in SUBSET Members, NEW T \in SUBSET Members,
         S \subseteq T, Quorum(S)
  PROVE  Quorum(T)
<1>1. /\ IsFiniteSet(T)
      /\ Cardinality(S) \in Nat /\ Cardinality(T) \in Nat
      /\ Cardinality(S) <= Cardinality(T)
  BY MembersFinite, FS_Subset, FS_CardinalityType
<1> QED
  BY <1>1, MembersFinite DEF Quorum

\* No set of voters without a member is a quorum.
LEMMA EmptyIsNoQuorum ==
  ASSUME validators \in ValidatorMaps
  PROVE  ~Quorum({})
BY MembersFinite, FS_EmptySet DEF Quorum

\* Any two quorums have an honest validator in common.
LEMMA QuorumsShareHonest ==
  ASSUME validators \in ValidatorMaps,
         NEW S \in SUBSET Members, NEW T \in SUBSET Members,
         Quorum(S), Quorum(T)
  PROVE  \E v \in S \cap T : v \in Honest
<1> DEFINE Dishonest == Members \ Honest
<1>1. /\ IsFiniteSet(S) /\ IsFiniteSet(T)
      /\ IsFiniteSet(S \cap T) /\ IsFiniteSet(S \cup T) /\ IsFiniteSet(Dishonest)
  BY MembersFinite, FS_Subset
<1>2. /\ Cardinality(S) \in Nat /\ Cardinality(T) \in Nat
      /\ Cardinality(S \cap T) \in Nat /\ Cardinality(S \cup T) \in Nat
      /\ Cardinality(Dishonest) \in Nat
  BY <1>1, FS_CardinalityType
<1>3. Cardinality(S \cup T) = Cardinality(S) + Cardinality(T) - Cardinality(S \cap T)
  BY <1>1, FS_Union
<1>4. Cardinality(S \cup T) <= Cardinality(Members)
  BY MembersFinite, FS_Subset
<1>5. 3 * Cardinality(S \cap T) > Cardinality(Members)
  BY <1>2, <1>3, <1>4, MembersFinite DEF Quorum
<1>6. validators # <<>>
  <2>1. SUFFICES ASSUME validators = <<>> PROVE FALSE
    OBVIOUS
  <2>2. Members = {}
    BY <2>1 DEF Members, Range
  <2>3. S = {}
    BY <2>2
  <2> QED
    BY <2>3, EmptyIsNoQuorum
<1>7. 3 * Cardinality(Dishonest) < Cardinality(Members)
  BY <1>6, HonestMajority DEF Members
<1>8. ~(S \cap T \subseteq Dishonest)
  <2>1. SUFFICES ASSUME S \cap T \subseteq Dishonest PROVE FALSE
    OBVIOUS
  <2>2. Cardinality(S \cap T) <= Cardinality(Dishonest)
    BY <2>1, <1>1, FS_Subset
  <2> QED
    BY <2>2, <1>2, <1>5, <1>7, MembersFinite
<1> QED
  BY <1>8

\* check_consensus holds of the size of a vote set exactly when it is a quorum.
LEMMA CheckConsensusIsQuorum ==
  ASSUME validators \in ValidatorMaps, NEW S \in SUBSET Members
  PROVE  CheckConsensus(Cardinality(S)) <=> Quorum(S)
<1>1. Cardinality(S) \in Nat
  BY MembersFinite, FS_Subset, FS_CardinalityType
<1> QED
  BY <1>1, MembersFinite DEF CheckConsensus, Quorum

-----------------------------------------------------------------------------
(* Type correctness.                                                       *)

\* The proposer a round selects is a node.
LEMMA ProposerIsNode ==
  ASSUME validators \in ValidatorMaps, NEW r, NEW p \in Proposers(r)
  PROVE  p \in Nodes
<1>1. PICK i \in 1 .. Len(validators) : p = validators[i]
  BY DEF Proposers
<1> QED
  BY <1>1, MembersFinite

\* Taking the oldest transactions keeps the pool, and what left it, typed and
\* in the order of acceptance.
LEMMA TakeOldestKeepsOrder ==
  ASSUME pending_transactions \in Seq(Transactions), removed \in Seq(Transactions),
         NEW k \in 0 .. Len(pending_transactions), TakeOldest(k)
  PROVE  /\ pending_transactions' \in Seq(Transactions)
         /\ removed' \in Seq(Transactions)
         /\ removed' \o pending_transactions' = removed \o pending_transactions
<1> DEFINE pool == pending_transactions
           taken == SubSeq(pool, 1, k)
           rest  == SubSeq(pool, k + 1, Len(pool))
<1>1. taken \in Seq(Transactions) /\ rest \in Seq(Transactions)
  <2>1. /\ Len(pool) \in Nat
        /\ \A i \in 1 .. Len(pool) : pool[i] \in Transactions
    BY LenProperties, ElementOfSeq
  <2>2. taken \in Seq(Transactions)
    BY <2>1, SubSeqProperties
  <2>3. rest \in Seq(Transactions)
    BY <2>1, SubSeqProperties
  <2> QED
    BY <2>2, <2>3
<1>2. taken \o rest = pool
  <2>1. /\ Len(pool) \in Nat
        /\ 1 \in 1 .. Len(pool) + 1
        /\ k \in 1 - 1 .. Len(pool)
        /\ Len(pool) \in k .. Len(pool)
    BY LenProperties
  <2>2. taken \o rest = SubSeq(pool, 1, Len(pool))
    BY <2>1, ConcatAdjacentSubSeq
  <2> QED
    BY <2>2, SubSeqFull
<1>3. removed' = removed \o taken /\ pending_transactions' = rest
  BY Zenon DEF TakeOldest
<1> HIDE DEF pool, taken, rest
<1>4. (removed \o taken) \o rest = removed \o (taken \o rest)
  <2>1. /\ removed \in Seq(Transactions)
        /\ taken \in Seq(Transactions)
        /\ rest \in Seq(Transactions)
    BY <1>1
  <2> QED
    BY <2>1, ConcatAssociative
<1>5. removed \o taken \in Seq(Transactions)
  BY <1>1, ConcatProperties
<1>6. removed' \o pending_transactions' = removed \o pool
  BY <1>2, <1>3, <1>4
<1> QED
  BY <1>1, <1>3, <1>5, <1>6 DEF pool

\* cleanup takes a number of transactions that the pool has.
LEMMA CleanupTakesOldest ==
  ASSUME pending_transactions \in Seq(Transactions), Cleanup
  PROVE  \E k \in 0 .. Len(pending_transactions) : TakeOldest(k)
<1>1. Len(pending_transactions) \in Nat /\ MaxPendingTx \in Nat
  BY BoundsAssumption, LenProperties
<1> DEFINE k == IF Len(pending_transactions) > MaxPendingTx
                  THEN Len(pending_transactions) - MaxPendingTx ELSE 0
<1>2. k \in 0 .. Len(pending_transactions)
  BY <1>1
<1>3. TakeOldest(k)
  BY DEF Cleanup
<1> QED
  BY <1>2, <1>3

\* The engine starts well typed.
LEMMA InitTypeOK == Init => TypeOK
BY BoundsAssumption DEF Init, TypeOK, timer

\* Every step keeps the types.
LEMMA NextTypeOK == TypeOK /\ [Next]_vars => TypeOK'
<1> SUFFICES ASSUME TypeOK, [Next]_vars PROVE TypeOK'
  OBVIOUS
<1> USE DEF TypeOK
<1>1. ASSUME NEW t \in Transactions, ProcessTransaction(t) PROVE TypeOK'
  BY <1>1 DEF ProcessTransaction, timer, voting
<1>2. ASSUME NEW b \in Blocks, ProcessBlock(b) PROVE TypeOK'
  BY <1>2 DEF ProcessBlock, ResetVotes, timer, txs
<1>3. ASSUME NEW v \in Nodes, NEW b \in Blocks, SubmitVote(v, b) PROVE TypeOK'
  <2>1. ballots' \subseteq Nodes \X Blocks
    BY <1>3 DEF SubmitVote
  <2>2. CASE ~(Eligible(v) /\ b \in DOMAIN votes)
    BY <1>3, <2>1, <2>2 DEF SubmitVote, txs
  <2>3. CASE Eligible(v) /\ b \in DOMAIN votes
    <3>1. CountVote(v, b)
      BY <1>3, <2>3 DEF SubmitVote
    <3>2. /\ DOMAIN votes' \subseteq Blocks
          /\ votes' \in [DOMAIN votes' -> SUBSET Nodes]
      BY <3>1, <2>3 DEF CountVote
    <3>3. /\ pending_blocks' \subseteq Blocks
          /\ DOMAIN finalized_blocks' \subseteq Nat
          /\ finalized_blocks' \in [DOMAIN finalized_blocks' -> Blocks]
          /\ \A n \in DOMAIN finalized_blocks' : Number[finalized_blocks'[n]] = n
          /\ elapsed' \in 0 .. TimeoutTicks + 1
      <4>1. CASE UNCHANGED <<pending_blocks, finalized_blocks, elapsed>>
        BY <4>1
      <4>2. CASE Finalize(b)
        <5>1. Number[b] \in Nat
          BY BlocksAssumption
        <5>2. finalized_blocks' =
                [n \in DOMAIN finalized_blocks \cup {Number[b]} |->
                   IF n = Number[b] THEN b ELSE finalized_blocks[n]]
          BY <4>2, Zenon DEF Finalize, InsertFinalized
        <5>3. pending_blocks' \subseteq Blocks /\ elapsed' \in 0 .. TimeoutTicks + 1
          BY <4>2, BoundsAssumption DEF Finalize
        <5> QED
          BY <5>1, <5>2, <5>3
      <4> QED
        BY <3>1, <4>1, <4>2 DEF CountVote
    <3> QED
      BY <1>3, <2>1, <3>2, <3>3 DEF SubmitVote, txs
  <2> QED
    BY <2>2, <2>3
<1>4. ASSUME Elapse PROVE TypeOK'
  <2>1. TimeoutTicks \in Nat
    BY BoundsAssumption
  <2>2. due' \in Nat /\ elapsed' \in 0 .. TimeoutTicks + 1
    BY <1>4, <2>1 DEF Elapse
  <2> QED
    BY <1>4, <2>2 DEF Elapse, txs, voting
<1>5. ASSUME Tick PROVE TypeOK'
  BY <1>5 DEF Tick, txs, voting
<1>6. ASSUME ProcessRound PROVE TypeOK'
  <2> DEFINE round == (current_round + 1) % RoundModulus
  <2>1. current_round' \in 0 .. RoundModulus - 1
    BY <1>6, BoundsAssumption DEF ProcessRound
  <2>2. CASE UNCHANGED <<created, removed, pending_transactions>>
             /\ pc' \in {"panicked", "stopped"}
    BY <1>6, <2>1, <2>2 DEF ProcessRound, timer, voting
  <2>3. ASSUME NEW p \in Proposers(round), CreateBlock(p), pc' = "finalization"
        PROVE  TypeOK'
    <3>1. PICK k \in 0 .. Len(pending_transactions) : TakeOldest(k)
      BY <2>3 DEF CreateBlock
    <3>2. /\ pending_transactions' \in Seq(Transactions)
          /\ removed' \in Seq(Transactions)
      BY <3>1, TakeOldestKeepsOrder
    <3>3. p \in Nodes /\ ParentHash \in Blocks \cup {NoBlock}
      BY ProposerIsNode DEF ParentHash
    <3>4. created' \in CreatedBlocks
      BY <2>3, <3>3 DEF CreateBlock, CreatedBlocks, CurrentHeight
    <3> QED
      BY <1>6, <2>1, <2>3, <3>2, <3>4 DEF ProcessRound, timer, voting
  <2> QED
    BY <1>6, <2>2, <2>3 DEF ProcessRound
<1>7. ASSUME CheckFinalization PROVE TypeOK'
  BY <1>7 DEF CheckFinalization, timer, txs, voting
<1>8. ASSUME Cleanup PROVE TypeOK'
  <2>1. PICK k \in 0 .. Len(pending_transactions) : TakeOldest(k)
    BY <1>8, CleanupTakesOldest
  <2>2. /\ pending_transactions' \in Seq(Transactions)
        /\ removed' \in Seq(Transactions)
    BY <2>1, TakeOldestKeepsOrder
  <2>3. /\ DOMAIN votes' \subseteq Blocks
        /\ votes' \in [DOMAIN votes' -> SUBSET Nodes]
    BY <1>8 DEF Cleanup, VotesToKeep, Restrict
  <2> QED
    BY <1>8, <2>2, <2>3 DEF Cleanup, timer
<1>9. CASE UNCHANGED vars
  BY <1>9 DEF vars, timer, txs, voting
<1> QED
  BY <1>1, <1>2, <1>3, <1>4, <1>5, <1>6, <1>7, <1>8, <1>9 DEF Next, Loop

\* Every variable of the engine keeps its type.
THEOREM TypeCorrect == Spec => []TypeOK
BY InitTypeOK, NextTypeOK, PTL DEF Spec

-----------------------------------------------------------------------------
(* The transaction pool.                                                   *)

\* Transactions leave the pool in the order in which they were accepted, and
\* none is lost or duplicated on the way.
THEOREM PoolOrdered == Spec => []PoolIsFIFO
<1>1. Init => PoolIsFIFO
  BY SMT DEF Init, PoolIsFIFO
<1>2. TypeOK /\ PoolIsFIFO /\ [Next]_vars => PoolIsFIFO'
  <2> SUFFICES ASSUME TypeOK, PoolIsFIFO, [Next]_vars PROVE PoolIsFIFO'
    OBVIOUS
  <2> USE DEF PoolIsFIFO
  <2>1. ASSUME NEW t \in Transactions, ProcessTransaction(t) PROVE PoolIsFIFO'
    <3>1. /\ <<t>> \in Seq(Transactions)
          /\ accepted' = accepted \o <<t>>
          /\ pending_transactions' = pending_transactions \o <<t>>
          /\ removed' = removed
      BY <2>1, AppendProperties DEF ProcessTransaction, TypeOK
    <3>2. (removed \o pending_transactions) \o <<t>>
            = removed \o (pending_transactions \o <<t>>)
      BY <3>1, ConcatAssociative DEF TypeOK
    <3> QED
      BY <3>1, <3>2
  <2>2. ASSUME NEW k \in 0 .. Len(pending_transactions), TakeOldest(k),
               UNCHANGED accepted
        PROVE  PoolIsFIFO'
    BY <2>2, TakeOldestKeepsOrder DEF TypeOK
  <2>3. CASE UNCHANGED txs
    BY <2>3 DEF txs
  <2>4. ASSUME ProcessRound PROVE PoolIsFIFO'
    BY <2>2, <2>3, <2>4 DEF ProcessRound, CreateBlock, txs
  <2>5. ASSUME Cleanup PROVE PoolIsFIFO'
    <3>1. PICK k \in 0 .. Len(pending_transactions) : TakeOldest(k)
      BY <2>5, CleanupTakesOldest DEF TypeOK
    <3> QED
      BY <2>2, <2>5, <3>1 DEF Cleanup
  <2> QED
    BY <2>1, <2>3, <2>4, <2>5
    DEF Next, Loop, vars, ProcessBlock, SubmitVote, Elapse, Tick, CheckFinalization
<1> QED
  BY TypeCorrect, <1>1, <1>2, PTL DEF Spec

-----------------------------------------------------------------------------
(* Votes and finalized blocks.                                             *)

LEMMA InitVoting == Init => VotingInv
BY DEF Init, VotingInv, PendingAwaitsVotes, VotesAreBallots, FinalizedJustified,
       HonestVoteOnce

\* A block delivered, for the first time or again, has no votes.
LEMMA ProcessBlockKeepsVoting ==
  ASSUME TypeOK, VotingInv, NEW b \in Blocks, ProcessBlock(b)
  PROVE  VotingInv'
<1> USE DEF VotingInv
<1>1. /\ validators' = validators /\ ballots' = ballots
      /\ finalized_blocks' = finalized_blocks
      /\ pending_blocks' = pending_blocks \cup {b}
      /\ DOMAIN votes' = DOMAIN votes \cup {b}
      /\ votes'[b] = {}
      /\ \A c \in DOMAIN votes : c # b => votes'[c] = votes[c]
  BY Zenon DEF ProcessBlock, ResetVotes, TypeOK
<1>2. \A c \in Blocks : Supporters(c)' = Supporters(c)
  BY <1>1 DEF Supporters, Members
<1>4. PendingAwaitsVotes'
  <2>1. ~Quorum({})'
    BY <1>1, EmptyIsNoQuorum DEF TypeOK, Quorum, Members
  <2> QED
    BY <1>1, <2>1 DEF PendingAwaitsVotes, Quorum, Members
<1>5. VotesAreBallots'
  BY <1>1, <1>2 DEF VotesAreBallots, TypeOK
<1>6. FinalizedJustified'
  BY <1>1, <1>2 DEF FinalizedJustified, Quorum, Members, TypeOK
<1>7. HonestVoteOnce'
  BY <1>1 DEF HonestVoteOnce
<1> QED
  BY <1>4, <1>5, <1>6, <1>7

\* cleanup forgets only vote sets of blocks that are not pending.
LEMMA CleanupKeepsVoting ==
  ASSUME TypeOK, VotingInv, Cleanup
  PROVE  VotingInv'
<1> USE DEF VotingInv
<1>1. /\ validators' = validators /\ ballots' = ballots
      /\ finalized_blocks' = finalized_blocks
      /\ pending_blocks' = pending_blocks
      /\ DOMAIN votes' = DOMAIN votes \cap pending_blocks
      /\ \A c \in DOMAIN votes' : votes'[c] = votes[c]
  BY DEF Cleanup, VotesToKeep, Restrict
<1> QED
  BY <1>1 DEF PendingAwaitsVotes, VotesAreBallots, FinalizedJustified,
              HonestVoteOnce, Supporters, Members, Quorum

\* A vote, counted or not, is one more ballot.
LEMMA SubmitVoteKeepsBallots ==
  ASSUME TypeOK, VotingInv, NEW v \in Nodes, NEW b \in Blocks, SubmitVote(v, b)
  PROVE  /\ validators' = validators
         /\ HonestVoteOnce'
         /\ VotesAreBallots'
         /\ \A c \in Blocks : /\ Supporters(c) \subseteq Supporters(c)'
                              /\ Supporters(c)' \in SUBSET Members
<1>1. /\ validators' = validators
      /\ ballots' = ballots \cup {<<v, b>>}
  BY DEF SubmitVote
<1>2. HonestVoteOnce'
  BY <1>1 DEF HonestVoteOnce, VotingInv, SubmitVote, MayVote
<1>3. \A c \in Blocks : /\ Supporters(c) \subseteq Supporters(c)'
                        /\ Supporters(c)' \in SUBSET Members
  BY <1>1 DEF Supporters, Members
<1>4. VotesAreBallots'
  <2>1. CASE ~(Eligible(v) /\ b \in DOMAIN votes)
    BY <1>3, <2>1 DEF SubmitVote, VotingInv, VotesAreBallots, TypeOK
  <2>2. CASE Eligible(v) /\ b \in DOMAIN votes
    <3>1. votes' = [votes EXCEPT ![b] = @ \cup {v}]
      BY <2>2 DEF SubmitVote, CountVote
    <3>2. v \in Supporters(b)'
      BY <1>1, <2>2 DEF Supporters, Members, Eligible
    <3> QED
      BY <1>3, <3>1, <3>2 DEF VotingInv, VotesAreBallots, TypeOK
  <2> QED
    BY <2>1, <2>2
<1> QED
  BY <1>1, <1>2, <1>3, <1>4

\* Finalizing block b under its number, as submit_vote does: b then has a
\* quorum of supporters.
LEMMA FinalizeIsJustified ==
  ASSUME TypeOK, VotingInv, NEW v \in Nodes, NEW b \in Blocks, SubmitVote(v, b),
         finalized_blocks' # finalized_blocks
  PROVE  /\ Finalize(b)
         /\ Quorum(Supporters(b)')
<1>1. CountVote(v, b) /\ Eligible(v) /\ b \in DOMAIN votes
  BY DEF SubmitVote
<1>2. /\ Finalize(b)
      /\ CheckConsensus(Cardinality(votes[b] \cup {v}))
  BY <1>1 DEF CountVote
<1>3. votes[b] \cup {v} = votes'[b] /\ b \in DOMAIN votes'
  BY <1>1 DEF CountVote
<1>4. votes[b] \cup {v} \subseteq Supporters(b)' /\ Supporters(b)' \in SUBSET Members
  BY <1>3, SubmitVoteKeepsBallots DEF VotesAreBallots
<1>5. Quorum(votes[b] \cup {v})
  BY <1>2, <1>4, CheckConsensusIsQuorum DEF TypeOK
<1> QED
  BY <1>2, <1>4, <1>5, QuorumGrows DEF TypeOK

\* Voting keeps all of it: an old finalized block keeps its supporters, a new
\* one has a quorum, and a block that stays pending had not reached one.
LEMMA SubmitVoteKeepsVoting ==
  ASSUME TypeOK, VotingInv, NEW v \in Nodes, NEW b \in Blocks, SubmitVote(v, b)
  PROVE  VotingInv'
<1>1. validators' = validators /\ validators \in ValidatorMaps
  BY SubmitVoteKeepsBallots DEF TypeOK
<1>2. TypeOK'
  BY NextTypeOK DEF Next
<1>3. ASSUME NEW c \in Blocks, Quorum(Supporters(c)) PROVE Quorum(Supporters(c)')
  <2>1. /\ Supporters(c) \in SUBSET Members
        /\ Supporters(c)' \in SUBSET Members
        /\ Supporters(c) \subseteq Supporters(c)'
    BY SubmitVoteKeepsBallots DEF Supporters
  <2> QED
    BY <1>1, <1>3, <2>1, QuorumGrows
<1>4. FinalizedJustified'
  <2>1. SUFFICES ASSUME NEW n \in DOMAIN finalized_blocks'
                 PROVE  Quorum(Supporters(finalized_blocks[n]))'
    BY DEF FinalizedJustified
  <2>2. PICK d \in Blocks : d = finalized_blocks'[n]
    BY <1>2 DEF TypeOK
  <2>3. Quorum(Supporters(d)')
    <3>1. CASE finalized_blocks' = finalized_blocks
      BY <1>3, <2>2, <3>1 DEF VotingInv, FinalizedJustified
    <3>2. CASE finalized_blocks' # finalized_blocks
      <4>1. Finalize(b) /\ Quorum(Supporters(b)')
        BY <3>2, FinalizeIsJustified
      <4>2. CASE n = Number[b]
        BY <2>2, <4>1, <4>2 DEF Finalize, InsertFinalized
      <4>3. CASE n # Number[b]
        <5>1. n \in DOMAIN finalized_blocks /\ d = finalized_blocks[n]
          BY <2>2, <4>1, <4>3 DEF Finalize, InsertFinalized
        <5> QED
          BY <1>3, <5>1 DEF VotingInv, FinalizedJustified
      <4> QED
        BY <4>2, <4>3
    <3> QED
      BY <3>1, <3>2
  <2> QED
    BY <1>1, <2>2, <2>3 DEF Quorum, Supporters, Members
<1>5. PendingAwaitsVotes'
  <2>1. SUFFICES ASSUME NEW c \in pending_blocks'
                 PROVE  c \in DOMAIN votes' /\ ~Quorum(votes'[c])
    BY <1>1 DEF PendingAwaitsVotes, Quorum, Members
  <2>2. c \in pending_blocks /\ c \in DOMAIN votes /\ ~Quorum(votes[c])
    BY DEF SubmitVote, CountVote, Finalize, VotingInv, PendingAwaitsVotes
  <2>3. DOMAIN votes' = DOMAIN votes
    BY DEF SubmitVote, CountVote
  <2>4. CASE votes'[c] = votes[c]
    BY <2>2, <2>3, <2>4
  <2>5. CASE votes'[c] # votes[c]
    <3>1. /\ b = c /\ CountVote(v, c)
          /\ votes'[c] = votes[c] \cup {v}
      BY <2>2, <2>5 DEF SubmitVote, CountVote
    <3>2. ~CheckConsensus(Cardinality(votes[c] \cup {v}))
      BY <2>2, <3>1 DEF CountVote, Finalize
    <3>3. votes'[c] \in SUBSET Members
      <4>1. votes'[c] \subseteq Supporters(c)'
        BY <2>2, <2>3, SubmitVoteKeepsBallots DEF VotesAreBallots
      <4>2. Supporters(c)' \in SUBSET Members
        BY <3>1, SubmitVoteKeepsBallots
      <4> QED
        BY <4>1, <4>2
    <3> QED
      BY <1>1, <2>2, <2>3, <3>1, <3>2, <3>3, CheckConsensusIsQuorum
  <2> QED
    BY <2>4, <2>5
<1> QED
  BY <1>4, <1>5, SubmitVoteKeepsBallots DEF VotingInv

LEMMA NextVoting == TypeOK /\ VotingInv /\ [Next]_vars => VotingInv'
<1> SUFFICES ASSUME TypeOK, VotingInv, [Next]_vars PROVE VotingInv'
  OBVIOUS
<1>1. ASSUME NEW b \in Blocks, ProcessBlock(b) PROVE VotingInv'
  BY <1>1, ProcessBlockKeepsVoting
<1>2. ASSUME NEW v \in Nodes, NEW b \in Blocks, SubmitVote(v, b) PROVE VotingInv'
  BY <1>2, SubmitVoteKeepsVoting
<1>3. CASE Cleanup
  BY <1>3, CleanupKeepsVoting
<1>4. CASE UNCHANGED <<validators, voting>>
  BY <1>4 DEF voting, VotingInv, PendingAwaitsVotes, VotesAreBallots,
     FinalizedJustified, HonestVoteOnce, Supporters, Quorum, Members
<1> QED
  BY <1>1, <1>2, <1>3, <1>4
  DEF Next, Loop, vars, ProcessTransaction, Elapse, Tick, ProcessRound, CheckFinalization

LEMMA VotingInvariant == Spec => [](TypeOK /\ VotingInv)
<1>1. Init => VotingInv
  BY InitVoting
<1>2. TypeOK /\ VotingInv /\ [Next]_vars => VotingInv'
  BY NextVoting
<1> QED
  BY <1>1, <1>2, TypeCorrect, PTL DEF Spec

\* Every finalized block has the ballots of more than two thirds of the
\* validators, all of them eligible.
THEOREM Justified == Spec => []FinalizedJustified
BY VotingInvariant, PTL DEF VotingInv

\* No block waits for votes it already has or in vain.
THEOREM Awaiting == Spec => []PendingAwaitsVotes
BY VotingInvariant, PTL DEF VotingInv

-----------------------------------------------------------------------------
(* Agreement.                                                              *)

\* A step decides one new height or none: were a height decided again with
\* another block, the two quorums would share an honest validator that voted
\* for both.
LEMMA StepDecides ==
  TypeOK /\ VotingInv /\ [Next]_vars
    => (\E b \in Blocks : Decisions!Decide(b)) \/ UNCHANGED finalized_blocks
<1> SUFFICES ASSUME TypeOK, VotingInv, [Next]_vars,
                    finalized_blocks' # finalized_blocks
             PROVE  \E b \in Blocks : Decisions!Decide(b)
  OBVIOUS
<1>1. PICK v \in Nodes, b \in Blocks : SubmitVote(v, b)
  BY DEF Next, Loop, vars, voting, ProcessTransaction, ProcessBlock, Elapse, Tick,
         ProcessRound, CheckFinalization, Cleanup
<1>2. Finalize(b) /\ Quorum(Supporters(b)')
  BY <1>1, FinalizeIsJustified
<1>3. validators' = validators /\ HonestVoteOnce'
      /\ \A c \in Blocks : /\ Supporters(c) \subseteq Supporters(c)'
                           /\ Supporters(c)' \in SUBSET Members
  BY <1>1, SubmitVoteKeepsBallots
<1>4. ASSUME Number[b] \in DOMAIN finalized_blocks,
             finalized_blocks[Number[b]] # b
      PROVE  FALSE
  <2>1. PICK c \in Blocks : c = finalized_blocks[Number[b]]
    BY <1>4 DEF TypeOK
  <2>2. c # b /\ Number[c] = Number[b] /\ Quorum(Supporters(c))
    BY <1>4, <2>1 DEF TypeOK, VotingInv, FinalizedJustified
  <2>3. Supporters(c) \in SUBSET Members
    BY DEF Supporters
  <2>4. PICK h \in Supporters(c) \cap Supporters(b)' : h \in Honest
    BY <1>2, <1>3, <2>2, <2>3, QuorumsShareHonest DEF TypeOK
  <2>5. <<h, c>> \in ballots' /\ <<h, b>> \in ballots'
    BY <1>3, <2>4 DEF Supporters
  <2> QED
    BY <1>3, <2>2, <2>4, <2>5 DEF HonestVoteOnce
<1>5. Number[b] \notin DOMAIN finalized_blocks
  <2>1. SUFFICES ASSUME Number[b] \in DOMAIN finalized_blocks,
                        finalized_blocks[Number[b]] = b
                 PROVE  FALSE
    BY <1>4
  <2>2. finalized_blocks'
          = [m \in DOMAIN finalized_blocks |-> finalized_blocks[m]]
    BY <1>2, <2>1, Zenon DEF Finalize, InsertFinalized
  <2>3. finalized_blocks = [m \in DOMAIN finalized_blocks |-> finalized_blocks[m]]
    BY DEF TypeOK
  <2> QED
    BY <2>2, <2>3
<1> QED
  BY <1>2, <1>5 DEF Finalize, InsertFinalized, Decisions!Decide

\* The engine implements Finality: each height is decided once, for ever.
THEOREM Agreement == Spec => ImplementsFinality
<1>1. Init => Decisions!Init
  BY DEF Init, Decisions!Init
<1>2. TypeOK /\ VotingInv /\ [Next]_vars => [Decisions!Next]_finalized_blocks
  BY StepDecides DEF Decisions!Next
<1> QED
  BY <1>1, <1>2, VotingInvariant, PTL DEF Spec, ImplementsFinality, Decisions!Spec

\* The parent that a round's block names is the finalized block of the height
\* below, and agreement keeps it so.
THEOREM ParentStable == Spec => []ParentStaysFinalized
<1>1. Init => ParentStaysFinalized
  BY DEF Init, ParentStaysFinalized
<1>2. TypeOK /\ VotingInv /\ ParentStaysFinalized /\ [Next]_vars => ParentStaysFinalized'
  <2> SUFFICES ASSUME TypeOK, VotingInv, ParentStaysFinalized, [Next]_vars
               PROVE  ParentStaysFinalized'
    OBVIOUS
  <2>1. CASE UNCHANGED <<created, finalized_blocks>>
    BY <2>1 DEF ParentStaysFinalized
  <2>2. CASE created' = created /\ finalized_blocks' # finalized_blocks
    <3>1. PICK b \in Blocks : Decisions!Decide(b)
      BY <2>2, StepDecides
    <3>2. \A n \in DOMAIN finalized_blocks :
            /\ n \in DOMAIN finalized_blocks'
            /\ finalized_blocks'[n] = finalized_blocks[n]
      BY <3>1 DEF Decisions!Decide
    <3> QED
      BY <2>2, <3>2 DEF ParentStaysFinalized
  <2>3. ASSUME created' # created PROVE ParentStaysFinalized'
    <3>1. /\ finalized_blocks' = finalized_blocks
          /\ created'.number = CurrentHeight + 1 /\ created'.parent = ParentHash
      BY <2>3 DEF Next, Loop, vars, ProcessTransaction, ProcessBlock, SubmitVote, Elapse,
         Tick, ProcessRound, CreateBlock, CheckFinalization, Cleanup, voting
    <3> QED
      BY <3>1 DEF ParentStaysFinalized, ParentHash, CurrentHeight
  <2> QED
    BY <2>1, <2>2, <2>3
<1> QED
  BY <1>1, <1>2, VotingInvariant, PTL DEF Spec

\* A block that stays pending loses votes only by being delivered again.
THEOREM VotesStay == Spec => VotesKept
<1> DEFINE Lost(b) == b \in DOMAIN votes /\ ~(b \in DOMAIN votes' /\ votes[b] \subseteq votes'[b])
<1>1. TypeOK /\ VotingInv /\ [Next]_vars
        => [\A b \in pending_blocks \cap pending_blocks' : Lost(b) => ProcessBlock(b)]_vars
  <2> SUFFICES ASSUME TypeOK, VotingInv, Next,
                      NEW b \in pending_blocks \cap pending_blocks', Lost(b)
               PROVE  ProcessBlock(b)
    OBVIOUS
  <2>1. ASSUME NEW c \in Blocks, ProcessBlock(c) PROVE ProcessBlock(b)
    <3>1. CASE c = b
      BY <2>1, <3>1
    <3>2. CASE c # b
      BY <2>1, <3>2 DEF ProcessBlock, ResetVotes
    <3> QED
      BY <3>1, <3>2
  <2>2. ASSUME NEW v \in Nodes, NEW c \in Blocks, SubmitVote(v, c) PROVE FALSE
    BY <2>2 DEF SubmitVote, CountVote, TypeOK
  <2>3. ASSUME Cleanup PROVE FALSE
    BY <2>3 DEF Cleanup, VotesToKeep, Restrict
  <2>4. ASSUME UNCHANGED votes PROVE FALSE
    BY <2>4
  <2> QED
    BY <2>1, <2>2, <2>3, <2>4
    DEF Next, Loop, voting, ProcessTransaction, Elapse, Tick, ProcessRound, CheckFinalization
<1> QED
  BY <1>1, VotingInvariant, PTL DEF Spec, VotesKept

=============================================================================
