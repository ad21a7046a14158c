--------------------------- MODULE ConsensusEngine ---------------------------
(***************************************************************************)
(* One node's consensus engine, src/src/network/consensus.rs: the pool of  *)
(* transactions, the blocks waiting for votes, the vote sets, the          *)
(* finalized blocks, and the timer loop started by `start`.                *)
(*                                                                         *)
(* Every handler holds the RwLock of ConsensusState from its first to its  *)
(* last line and awaits nothing in between, so each is one atomic action.  *)
(* The loop takes the lock anew for process_round, check_finalization and  *)
(* cleanup, so handlers run between them: `pc` is where the loop stands.   *)
(***************************************************************************)
EXTENDS Naturals, Sequences, FiniteSets, FiniteSetsExt, Functions

CONSTANTS
  Nodes,          \* whoever may submit a vote, validator or not
  Honest,         \* the nodes that never vote for two blocks of one height
  ValidatorMaps,  \* the validator maps a run may start with, each as the
                  \* sequence of its keys in HashMap iteration order
  Stake,          \* Stake[v]: ValidatorInfo.stake
  StakeThreshold, \* config.validator_stake_threshold
  Blocks,         \* the blocks the network may deliver; a block is its hash
  Number,         \* Number[b]: header.number
  NoBlock,        \* Hash::default(), the parent of a block without parent
  Transactions,
  TxSize,         \* TxSize[t]: length of the serialized transaction
  MaxBlockSize,   \* config.max_block_size
  MaxPendingTx,   \* the 10000 of cleanup
  TimeoutTicks,   \* the 60 seconds of check_finalization, in block times
  RoundModulus,   \* width of current_round: it wraps at this value
  MaxDue,         \* bound: timer ticks the loop may be behind
  MaxSubmitted    \* bound: transactions submitted in a behaviour

VARIABLES
  validators,           \* the validator map; no code changes it
  current_round,
  pending_transactions,
  pending_blocks,
  finalized_blocks,
  votes,
  elapsed,              \* block times begun since last_finalized_time
  due,                  \* ticks of the interval not yet consumed
  pc,                   \* where the loop of `start` stands
  created,              \* the block of the last round, a local of process_round
  ballots,              \* history: every <<validator, block>> submitted
  accepted,             \* history: every transaction accepted, in order
  removed               \* history: every transaction that left the pool

timer   == <<elapsed, due>>
txs     == <<pending_transactions, accepted, removed>>
voting  == <<pending_blocks, finalized_blocks, votes, ballots>>
vars == <<validators, current_round, timer, txs, voting, pc, created>>

Members == Range(validators)

\* No statement of the source assigns current_height after ConsensusState::new.
CurrentHeight == 0

ASSUME NodesAssumption ==
  /\ IsFiniteSet(Nodes)
  /\ \A m \in ValidatorMaps : m \in Seq(Nodes)
  /\ Stake \in [Nodes -> Nat]
  /\ StakeThreshold \in Nat

ASSUME BlocksAssumption ==
  /\ Number \in [Blocks -> Nat]
  /\ NoBlock \notin Blocks

\* Fewer than a third of the validators are dishonest, whichever map is used.
ASSUME HonestMajority ==
  \A m \in ValidatorMaps :
    m # <<>> => 3 * Cardinality(Range(m) \ Honest) < Cardinality(Range(m))

ASSUME BoundsAssumption ==
  /\ TxSize \in [Transactions -> Nat]
  /\ {MaxBlockSize, MaxPendingTx, TimeoutTicks, MaxDue, MaxSubmitted} \subseteq Nat
  /\ RoundModulus \in Nat \ {0}

-----------------------------------------------------------------------------
(* Pure helpers of the engine.                                             *)

\* Mutant of Eligible: the stake is not looked at.
AnyMember(v) == v \in Members

\* is_valid_validator
Eligible(v) == v \in Members /\ Stake[v] >= StakeThreshold

\* Mutant of CheckConsensus: a third is enough.
OneThird(n) == n * 3 > Cardinality(Members)

\* check_consensus: more than two thirds of all members, eligible or not.
CheckConsensus(n) == n * 3 > Cardinality(Members) * 2

StakeUpTo(i) == MapThenSumSet(LAMBDA j : Stake[validators[j]], 1 .. i)

\* select_proposer: the first validator in iteration order whose stake, added
\* to that of the validators before it, exceeds the value; none if there is no
\* such validator.
Proposers(round) ==
  LET n     == Len(validators)
      value == (round * StakeUpTo(n)) % n
  IN  {validators[i] : i \in {j \in 1 .. n : /\ value < StakeUpTo(j)
                                             /\ StakeUpTo(j - 1) <= value}}

PoolSize(k) ==
  MapThenSumSet(LAMBDA i : TxSize[pending_transactions[i]], 1 .. k)

\* Mutant of FitsExactly: a transaction that would fill the block is refused.
FitsStrictly(k) ==
  /\ k = 0 \/ PoolSize(k) < MaxBlockSize
  /\ k < Len(pending_transactions) => PoolSize(k + 1) >= MaxBlockSize

\* create_block takes the k oldest transactions: it stops at the first one
\* that does not fit, or at the end of the pool.
FitsExactly(k) ==
  /\ PoolSize(k) <= MaxBlockSize
  /\ k < Len(pending_transactions) => PoolSize(k + 1) > MaxBlockSize

\* get_parent_hash
ParentHash ==
  IF CurrentHeight \in DOMAIN finalized_blocks
    THEN finalized_blocks[CurrentHeight] ELSE NoBlock

\* The block of a round; transactions_root and the like are left out.
CreatedBlocks == [author : Nodes, number : Nat, parent : Blocks \cup {NoBlock}]

LoopEnded == pc \in {"stopped", "panicked"}

-----------------------------------------------------------------------------
Init ==
  /\ validators \in ValidatorMaps
  /\ current_round = 0
  /\ pending_transactions = <<>>
  /\ pending_blocks = {}
  /\ finalized_blocks = <<>>
  /\ votes = <<>>
  /\ elapsed = 1 /\ due = 1   \* the first tick of an interval is immediate
  /\ pc = "tick"
  /\ created = NoBlock
  /\ ballots = {}
  /\ accepted = <<>> /\ removed = <<>>

-----------------------------------------------------------------------------
(* The handlers the network calls.                                         *)

\* process_transaction: validate_transaction accepts everything.
ProcessTransaction(t) ==
  /\ Len(accepted) < MaxSubmitted
  /\ pending_transactions' = Append(pending_transactions, t)
  /\ accepted' = Append(accepted, t)
  /\ UNCHANGED <<validators, current_round, timer, removed, voting, pc, created>>

\* Mutant of ResetVotes: a block delivered again keeps its votes.
KeepVotes(b) ==
  votes' = [c \in DOMAIN votes \cup {b} |-> IF c \in DOMAIN votes THEN votes[c] ELSE {}]

\* "Initialize vote set": whatever votes the block had are gone.
ResetVotes(b) ==
  votes' = [c \in DOMAIN votes \cup {b} |-> IF c = b THEN {} ELSE votes[c]]

\* process_block: a block may be delivered any number of times; a finalized
\* block becomes pending again.
ProcessBlock(b) ==
  /\ pending_blocks' = pending_blocks \cup {b}
  /\ ResetVotes(b)
  /\ UNCHANGED <<validators, current_round, timer, txs, finalized_blocks,
                 ballots, pc, created>>

\* Environment: an honest node votes for one block of a height, as often as
\* it likes.
MayVote(v, b) ==
  v \in Honest =>
    \A c \in Blocks : <<v, c>> \in ballots /\ Number[c] = Number[b] => c = b

\* Insert block b under height n, over the block that may be there.
InsertFinalized(n, b) ==
  finalized_blocks' = [m \in DOMAIN finalized_blocks \cup {n} |->
                         IF m = n THEN b ELSE finalized_blocks[m]]

\* Mutant of Finalize: the block goes under the engine's next height.
FinalizeNext(b) ==
  /\ pending_blocks' = pending_blocks \ {b}
  /\ InsertFinalized(CurrentHeight + 1, b)
  /\ elapsed' = 0

\* The end of submit_vote when the votes suffice and the block is pending.
Finalize(b) ==
  /\ pending_blocks' = pending_blocks \ {b}
  /\ InsertFinalized(Number[b], b)
  /\ elapsed' = 0

\* submit_vote once b is known to have a vote set.
CountVote(v, b) ==
  /\ votes' = [votes EXCEPT ![b] = @ \cup {v}]
  /\ IF CheckConsensus(Cardinality(votes[b] \cup {v})) /\ b \in pending_blocks
       THEN Finalize(b)
       ELSE UNCHANGED <<pending_blocks, finalized_blocks, elapsed>>

\* submit_vote: a voter that is not eligible gets an error; a vote for a block
\* without a vote set is answered Ok and forgotten.
SubmitVote(v, b) ==
  /\ MayVote(v, b)
  /\ ballots' = ballots \cup {<<v, b>>}
  /\ IF Eligible(v) /\ b \in DOMAIN votes
       THEN CountVote(v, b)
       ELSE UNCHANGED <<votes, pending_blocks, finalized_blocks, elapsed>>
  /\ UNCHANGED <<validators, current_round, due, txs, pc, created>>

-----------------------------------------------------------------------------
(* The timer and the loop of `start`.                                      *)

\* One block time passes: a tick falls due.
Elapse ==
  /\ due < MaxDue
  /\ due' = due + 1
  /\ elapsed' = IF elapsed > TimeoutTicks THEN elapsed ELSE elapsed + 1
  /\ UNCHANGED <<validators, current_round, txs, voting, pc, created>>

Tick ==
  /\ pc = "tick" /\ due > 0
  /\ due' = due - 1
  /\ pc' = "round"
  /\ UNCHANGED <<validators, current_round, elapsed, txs, voting, created>>

\* Mutant of TakeOldest: the newest k transactions are taken (pop_back).
TakeNewest(k) ==
  LET rest == Len(pending_transactions) - k
  IN  /\ removed' = removed \o
                      SubSeq(pending_transactions, rest + 1, Len(pending_transactions))
      /\ pending_transactions' = SubSeq(pending_transactions, 1, rest)

\* k times pop_front.
TakeOldest(k) ==
  /\ removed' = removed \o SubSeq(pending_transactions, 1, k)
  /\ pending_transactions' =
       SubSeq(pending_transactions, k + 1, Len(pending_transactions))

\* create_block; process_round drops the block it gets.
CreateBlock(proposer) ==
  /\ \E k \in 0 .. Len(pending_transactions) : FitsExactly(k) /\ TakeOldest(k)
  /\ created' = [author |-> proposer,
                 number |-> CurrentHeight + 1,
                 parent |-> ParentHash]

\* process_round. Without validators the remainder by zero panics; without a
\* proposer the error ends the loop.
ProcessRound ==
  LET round == (current_round + 1) % RoundModulus
  IN  /\ pc = "round"
      /\ current_round' = round
      /\ \/ /\ validators = <<>>
            /\ pc' = "panicked"
            /\ UNCHANGED <<created, removed, pending_transactions>>
         \/ /\ validators # <<>> /\ Proposers(round) = {}
            /\ pc' = "stopped"
            /\ UNCHANGED <<created, removed, pending_transactions>>
         \/ /\ validators # <<>>
            /\ \E p \in Proposers(round) : CreateBlock(p)
            /\ pc' = "finalization"
      /\ UNCHANGED <<validators, timer, accepted, voting>>

\* Mutant of CheckFinalization: the timeout is never noticed.
NeverTimesOut ==
  /\ pc = "finalization"
  /\ pc' = "cleanup"
  /\ UNCHANGED <<validators, current_round, timer, txs, voting, created>>

\* check_finalization. The true time since the last finalization lies between
\* elapsed - 1 and elapsed + 1 block times, so at TimeoutTicks either outcome
\* is possible.
CheckFinalization ==
  /\ pc = "finalization"
  /\ \/ elapsed <= TimeoutTicks /\ pc' = "cleanup"
     \/ elapsed >= TimeoutTicks /\ pc' = "stopped"
  /\ UNCHANGED <<validators, current_round, timer, txs, voting, created>>

\* Mutant of VotesToKeep: the condition of retain is negated.
VotesToDrop == DOMAIN votes \ pending_blocks

VotesToKeep == DOMAIN votes \cap pending_blocks

\* cleanup
Cleanup ==
  LET length == Len(pending_transactions)
  IN  /\ pc = "cleanup"
      /\ votes' = Restrict(votes, VotesToKeep)
      /\ TakeOldest(IF length > MaxPendingTx THEN length - MaxPendingTx ELSE 0)
      /\ pc' = "tick"
      /\ UNCHANGED <<validators, current_round, timer, accepted, pending_blocks,
                     finalized_blocks, ballots, created>>

Loop == Tick \/ ProcessRound \/ CheckFinalization \/ Cleanup

Next ==
  \/ \E t \in Transactions : ProcessTransaction(t)
  \/ \E b \in Blocks : ProcessBlock(b)
  \/ \E v \in Nodes, b \in Blocks : SubmitVote(v, b)
  \/ Elapse
  \/ Loop

Spec == Init /\ [][Next]_vars

\* Time passes and the runtime keeps polling the task of `start`; nothing is
\* assumed of the network: blocks, votes and transactions may stop coming.
FairSpec == Spec /\ WF_vars(Elapse) /\ WF_vars(Loop)

-----------------------------------------------------------------------------
(* Properties.                                                             *)

TypeOK ==
  /\ validators \in ValidatorMaps
  /\ current_round \in 0 .. RoundModulus - 1
  /\ pending_transactions \in Seq(Transactions)
  /\ pending_blocks \subseteq Blocks
  /\ DOMAIN finalized_blocks \subseteq Nat
  /\ finalized_blocks \in [DOMAIN finalized_blocks -> Blocks]
  /\ \A n \in DOMAIN finalized_blocks : Number[finalized_blocks[n]] = n
  /\ DOMAIN votes \subseteq Blocks
  /\ votes \in [DOMAIN votes -> SUBSET Nodes]
  /\ elapsed \in 0 .. TimeoutTicks + 1
  /\ due \in Nat
  /\ pc \in {"tick", "round", "finalization", "cleanup", "stopped", "panicked"}
  /\ created \in CreatedBlocks \cup {NoBlock}
  /\ ballots \subseteq Nodes \X Blocks
  /\ accepted \in Seq(Transactions) /\ removed \in Seq(Transactions)

\* A set of voters is a quorum: more than two thirds of the validator map.
Quorum(S) == 3 * Cardinality(S) > 2 * Cardinality(Members)

\* The validators with enough stake that ever voted for b.
Supporters(b) ==
  {v \in Members : Stake[v] >= StakeThreshold /\ <<v, b>> \in ballots}

\* Every finalized block was voted for by more than two thirds of the
\* validator map, each of them staked enough, whatever blocks were delivered
\* again (which empties vote sets) and whatever cleanup threw away.
FinalizedJustified ==
  \A n \in DOMAIN finalized_blocks : Quorum(Supporters(finalized_blocks[n]))

\* A pending block always has a vote set (otherwise its votes would be
\* silently dropped) and never already a quorum in it (otherwise it could wait
\* for ever: only a further vote looks at the count).
PendingAwaitsVotes ==
  \A b \in pending_blocks : b \in DOMAIN votes /\ ~Quorum(votes[b])

\* The parent hash a round puts in its block still names the finalized block
\* of the height below: nothing finalized later replaced it.
ParentStaysFinalized ==
  created # NoBlock /\ created.parent # NoBlock =>
    /\ created.number - 1 \in DOMAIN finalized_blocks
    /\ finalized_blocks[created.number - 1] = created.parent

\* Transactions leave the pool, into a block or evicted by cleanup, in the
\* order in which they were accepted, and none vanishes or is duplicated.
PoolIsFIFO == accepted = removed \o pending_transactions

\* Votes counted for a block that stays pending are lost only when the
\* block itself is delivered again.
VotesKept ==
  [][\A b \in pending_blocks \cap pending_blocks' :
       b \in DOMAIN votes /\ ~(b \in DOMAIN votes' /\ votes[b] \subseteq votes'[b])
         => ProcessBlock(b)]_vars

\* Every height is finalized once: the engine implements Finality.
Decisions == INSTANCE Finality WITH finalized <- finalized_blocks
ImplementsFinality == Decisions!Spec

\* The loop ends, or blocks are finalized again and again: it never runs on
\* without finalizing anything.
FinalizesOrEnds == <>LoopEnded \/ []<>(elapsed = 0)

\* The oldest transaction fits no block: process_transaction admits it, and
\* create_block stops at it.
Oversized ==
  /\ pending_transactions # <<>>
  /\ TxSize[Head(pending_transactions)] > MaxBlockSize

\* Every accepted transaction leaves the pool, unless the loop ends first or
\* one larger than a block stays in front of it for good: whatever else
\* arrives, transactions that do fit are never starved by anything else, and
\* an oversized one holds them up only as long as cleanup does not evict it.
PoolDrains ==
  \A k \in 1 .. MaxSubmitted :
    Len(accepted) >= k ~> (Len(removed) >= k \/ LoopEnded \/ []Oversized)

=============================================================================
