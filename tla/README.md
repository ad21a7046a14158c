# Verification of the ZKMIPS node

TLA+ models, model-checking runs and machine-checked proofs for the program in
`src/` (a zero-knowledge virtual machine in Rust with a peer-to-peer network
layer, 26 files). Every definition is translated from the source; `PROJECT.json`
maps each one to the lines it stands for. Paths below are those of the
repository as it lies under `src/`.

## 1. Inventory

| Component | State | Operations | Interacts with | Hard behaviour | What makes it correct |
|---|---|---|---|---|---|
| **Consensus engine** `src/src/network/consensus.rs` | validator map, round, transaction pool, pending blocks, finalized blocks, vote sets, time of the last finalization | `process_transaction`, `process_block`, `submit_vote`, and the loop of `start`: `process_round`, `check_finalization`, `cleanup` | network manager (delivers blocks and transactions); votes have no message type, only direct callers | handlers interleave with the three parts of the loop; redelivered blocks; dishonest validators; timer falling behind; timeout racing a vote | a height is finalized once; what is finalized had its votes; no block is stuck with a quorum; pool order; the loop does not spin without finalizing |
| **State synchronisation** `.../sync.rs` | status, requests in flight per peer, completed and failed requests, queue, time of last progress | `start_sync`, `handle_request`, `handle_response`, `handle_peer_disconnected` | network manager | timeouts, retries, answers that race them, peers that leave, a call that fails half-way through the queue | no request lost or multiplied; batches bounded; nothing in flight without retries left; an answer completes its request |
| **Virtual machine** `src/src/vm.rs` | stack, memory, program counter, gas, call frames, state root | `execute` and its eleven opcodes | `ZKVM`, debugger | errors and panics in the middle of an instruction; calling `execute` again; limits and overflow | stack limit, gas bounds execution, paid contracts, a success is final, fatal errors are permanent |
| Network manager `.../network/mod.rs` | peer map, swarm, message channel | event loop `start`, connect, disconnect, dispatch, broadcast | consensus, sync | any error of a handler ends the loop | one bad message does not stop the node; peer map and sync agree |
| Peers `.../peer.rs` | peers, bans, reputation, ping statistics | add, remove, ban, reputation | (used by nothing) | capacity, ban that is overwritten | a banned peer is not used |
| Messages `.../message.rs` | none | hash, verify | network | - | - |
| ZKVM facade `src/src/lib.rs` | VM, circuit (taken once), trace | execute, prove, verify | VM, circuit, proof system | an error of the setup; circuit consumed by the first proof, even a failed one, and made before there is a witness | a facade can be made; what was executed can be proved |
| Proof system `src/src/proof.rs` | LRU cache of 1000 proofs | prove, verify, batch_verify | bellman | cache answers instead of verifying | the cache is transparent |
| Circuit `src/src/circuit.rs` | program, trace bounds | synthesize | bellman | pure | every variable is constrained; constraints agree with the VM |
| State manager `src/src/state/` | trie, storage, caches, snapshots, pending updates | get, update, revert, transactions | storage (missing from the repository) | lock taken twice; futures of one update in any order; partial update on error; stale storage cache | caches agree with the trie, what is stale is bounded, the root has a snapshot |
| Memory manager `src/src/memory/` | segments, page table, permissions, LRU cache, collector | allocate, deallocate, read, write, protect | debugger | lock taken twice; overlapping reads and writes; segment numbers shift; old addresses | the cache agrees with the page table, no page is lost or given out twice, calls end |
| Debugger `src/src/debug/mod.rs` | breakpoints, trace, profile | step, continue, inspect | VM, memory | lock taken twice | step returns |
| Cryptography, binary, build, benchmarks | none | - | - | - | - |

All handlers of the consensus engine and of the state synchronisation take one
`tokio::sync::RwLock` in their first line, keep it to their last and await
nothing else while they hold it. A handler is therefore one atomic action; what
interleaves is handlers, the parts of the consensus loop (which takes the lock
three times per round) and the passing of time. `VM::execute` keeps its context
locked too; its instructions are single steps because each can be the last one
of a call that fails and leaves the context as it is.

`PROJECT.json` lists the hazards this gives rise to, each at its line with the
properties aimed at it.

## 2. Plan

Done, in this order:

1. `Finality` (abstract) and `ConsensusEngine`, with `ConsensusEngine_proofs`.
2. `VM`, with `VM_proofs`.
3. `StateSync`, with `StateSync_proofs`.
4. `NetworkManager`, which composes it with the peer map and the event loop,
   with `NetworkManager_proofs`: it implements `StateSync`.
5. `VMCircuit` (a function) and `ProofSystem`, which uses it, with
   `ProofSystem_proofs`.
6. `MemoryManager`, lock by lock, with `MemoryManager_proofs`.
7. `StateManager`, with `StateManager_proofs`.
8. `ZKVM`, which composes `VM`, `VMCircuit` and `ProofSystem`.

Left, most important first:

9. The facade behind `new`, once a setup of its circuit succeeds: then its steps
   are steps of `VM` and of `ProofSystem`, and what `execute` and `generate_proof`
   promise can be checked.
10. `VMCircuit` compared with `VM` over short programs (ADD is enforced as a
   product, line 209 of `circuit.rs`; no constraint relates the gas or the
   counter of two steps).
11. `PeerManager`, should the network manager come to use it.

## 3. Modules

| Module | Kind | Models |
|---|---|---|
| `Finality` | abstract specification | decides at most one block per height and never takes it back |
| `ConsensusEngine` | component | `consensus.rs` |
| `MCConsensusEngine` | instances | validator maps, stakes and blocks for TLC |
| `ConsensusEngine_proofs` | proofs | seven theorems about `ConsensusEngine` |
| `VM` | component | `vm.rs` |
| `MCVM` | instances | sets of programs |
| `VM_proofs` | proofs | six theorems about `VM` |
| `StateSync` | component | `sync.rs` |
| `MCStateSync` | instances | keys and peers |
| `StateSync_proofs` | proofs | four theorems about `StateSync` and the inductive invariant `Inv` |
| `NetworkManager` | composition | `network/mod.rs`; extends `StateSync` |
| `MCNetworkManager` | instances | peers |
| `NetworkManager_proofs` | proofs | seven theorems about `NetworkManager`, among them that it implements `StateSync` |
| `VMCircuit` | functions | `circuit.rs` |
| `ProofSystem` | component | `proof.rs`; extends `VMCircuit` |
| `MCProofSystem` | instances | circuits and public inputs |
| `ProofSystem_proofs` | proofs | seven theorems about `ProofSystem`, and lemmas about `Synthesize` |
| `MemoryManager` | component | `memory/mod.rs`, `page_table.rs`, `gc.rs`, and what they use of `segment.rs` and `permissions.rs` |
| `MCMemoryManager` | instances | (constants are set in the configuration) |
| `MemoryManager_proofs` | proofs | four theorems about `MemoryManager` |
| `StateManager` | component | `state/mod.rs`, `state/trie.rs` |
| `MCStateManager` | instances | account updates |
| `StateManager_proofs` | proofs | five theorems about `StateManager` |
| `ZKVM` | composition | `lib.rs`; extends `VM`, instantiates `VMCircuit` and `ProofSystem` |
| `MCZKVM` | instances | a program |
| `DataLemmas` | proofs | induction over numbers and finite sets, sums, recursion, `FlattenSeq` and `RemoveAt`, for the proofs above |

Definitions whose comment begins with "Mutant of" are used by no specification.
Each is the changed form of a definition below it, and shows that a property
notices the change (`PROJECT.json`, "mutants").

### 3.1 ConsensusEngine

Variables carry the field names of `ConsensusState`; `pc` is where the loop of
`start` stands, `due` the ticks of its interval that are not consumed yet,
`elapsed` the block times begun since `last_finalized_time`, `created` the local
variable of `process_round`. `ballots`, `accepted` and `removed` are history.

- The actions are the handlers (`ProcessTransaction`, `ProcessBlock`,
  `SubmitVote`), the loop (`Tick`, `ProcessRound`, `CheckFinalization`,
  `Cleanup`) and the clock (`Elapse`). `SubmitVote` contains finalization,
  `ProcessRound` proposer selection and block creation.
- A block is its hash with a number. The validator map is the sequence of its
  keys in the iteration order of the hash map, because `select_proposer` depends
  on that order; no code but the tests ever fills it, so it is a constant of a
  behaviour, and the empty map (the one a real node has) is one of the values.
- Real time is abstracted to block times. The true time since the last
  finalization is within one block time of `elapsed`, so at the limit both
  outcomes of `check_finalization` are possible.
- `MayVote` is the environment, not the code: honest validators vote for one
  block per height, fewer than a third are dishonest (`HonestMajority`). The
  engine does nothing against a validator that votes twice (line 138), so
  without this assumption two blocks of a height can be finalized.
- `current_round` wraps at `RoundModulus` (2^64 in a release build; a debug build
  would panic after 2^64 rounds). The sum of the stakes is not wrapped.
- Left out: the contents of a block beyond author, number and parent, the
  validation functions (which accept everything) and `get_status`.

### 3.2 VM

`Execute` is a call, `Step` one instruction of it. The result of a call stays
in `status` and the context is left as the code leaves it: an instruction that
fails has paid its gas and popped its operands down to the one that was missing
or of the wrong kind (`Underflow`). Index errors and, in a debug build,
overflows are panics; the lock is `parking_lot`'s, which a panic releases without
poisoning, so the object can be used again and the model lets it. `Arithmetic`
offers both the panic and the wrapped result. A hash is known by what was hashed;
the one place where its bits matter, the first byte of an address used as memory
slot, is the parameter `Slot`. Storage and logs are left out: no instruction
writes them. `Half` is 2^63 in the code.

### 3.3 StateSync

Variables carry the field names of `SyncState`; `now` is the clock that
`Instant::now` reads, `submitted` and `abandoned` count, for each request, how
often it was given to `handle_request` and dropped at its retry limit. Two
requests are equal only if their timestamps are, as the derived `PartialEq` has
it; `handle_response` makes up a request with the current time.

`process_sync_queue` and `check_timeouts`, in which both request handlers end,
are stated by their result. For some iteration order of the hash map, late
requests are appended to the queue and counted (`Requeued`, `Failures`), then the
queue is worked off from the front: completely (`EmptyQueue`), up to a request
without retries left (`GiveUp`: the call fails, the rest of the queue stays), or
up to one no peer has room for (`Postpone`). The sending of requests is a comment
in the code. `target_block` is always 0 and left out. `Filter` is what `retain` and
`filter` leave of a vector.

### 3.4 NetworkManager

`start` borrows the manager mutably for as long as its loop runs, so no other
method can be called meanwhile, and each event or message is handled to its end
before the next: `HandlePeerConnected`, `HandleConnectionClosed` and
`HandleMessage` conjoin the change of the peer map with the action of
`StateSync` the handler calls. `loop` tells whether the loop runs. An error
ends it: a peer beyond the capacity (`Refuse`; the capacity is tested for known
peers too), or a request given up (`AfterMessage`). `Start` may be called again
and finds what the handler that failed left behind. `connections` is what the
swarm (libp2p) has, possibly several per peer; the code looks at none of its
counts. Handlers of blocks and transactions cannot fail and touch nothing here.
`broadcast` only hands a message to `NetworkBehaviour`, which the repository
lacks.

### 3.5 VMCircuit and ProofSystem

`Synthesize(c, proving)` is `synthesize` as bellman runs it: to set parameters
up no value is computed, to prove every allocation needs one. The result has
the values of the variables, the constraints (triples of variable numbers) and
the fault that ended it: `AssignmentMissing` without a witness, a panic of an
index. The loop is a recursive function of the number of steps. Storage is kept
as the flat sequence of its keys and values.

`SetUpAnswer` is what `generate_random_parameters` answers for a circuit. Besides a
panic of the synthesis it can be bellman's `UnconstrainedVariable`: a variable that
no constraint mentions has no entry in the proving key, and bellman refuses the
system (`Constrained`). The variable of a step's opcode (`circuit.rs:161`) is such a
one, so a setup succeeds only for circuits without steps (the theorem `OnlyStepless`).
There are parameters, and everything that follows from having them, for
these circuits alone. Circuits with steps are still synthesized by `prove`, which
then ends with an error, a panic or, where bellman does not notice that the
constraint system is another one, a proof with any answer.

`ProofSystem` has the shape the parameters were made for (`params`), the cache in
the order of use, and the batch under verification. `ProofSystem` is `Clone` and
its clones share the cache; its lock covers a single look-up or insertion, so
these are the steps that interleave, those of a batch in any order. (The code calls
`LruCache::get` under a read lock; it is modelled with its documented effect, a
change of the order.) What Groth16 does is assumed: a proof verifies if it comes
from a satisfied circuit of the shape of the setup; for another shape proving
fails or gives a proof with any answer; public inputs no circuit asked for are
an error. Proofs are random, so all differ, and hashes are injective.

### 3.6 MemoryManager

A `MemoryManager` is shared by reference between threads. `pc[t]` is where
thread `t` stands in its call, `req[t]` what the call works on. The locks of
`segments` and `page_table` are held over several steps; who holds them is
read off `pc`. `permissions`, `cache`, `gc` and `stats` are locked for a single
step. So `allocate` is `LockSegments`, `LockPages`, `Allocate`; `deallocate` is
`LockSegments`, `Deallocate`; `read` is `ReadCached`, `CheckPermission`, `ReadPage`
(which takes the page table's read lock), `ReadInsert`; `write` is
`CheckPermission`, `WritePage`, `WriteInvalidate`, and other threads act between
these.

- `reentrant` is a constant of a behaviour: `FALSE` is what a lock does when its
  holder asks for it again (it waits), and then `allocate` never gets past
  `should_collect_garbage` (line 82), whose read lock is the one of
  `segments` it already has for writing. `TRUE` is the lock the code needs; the
  rest of the module's behaviour is only there because of it.
- Addresses are those `allocate` returned (`handed`); `MemoryAddress` has no
  public field and is `Clone`, so old ones can be used at any time.
- The collector removes every segment from the first one that is no root, because
  indices shift under `sweep`; `allocate` makes no roots, so it removes all. It
  frees no pages.
- A panic (`Vec::remove` out of range) ends the call and releases its guards: the
  code uses them without `unwrap`, as locks without poisoning are used.
- `fits` says whether offset and size lie in one page. A page holds one value.
- Left out: resizing, sharing and reference counts of segments and the setters of
  page flags, which nothing calls; the counters of `MemoryStats`.

Visible in the model, although no document contradicts it: a cached read is
answered whatever the permissions and the size asked for, also after the address
was deallocated; an `allocate` that runs out of pages keeps the segment and the
pages it got; two readers that miss both put the address on the LRU list, so the
list may name it twice and the cache may exceed its capacity by an entry that
the pop of the other copy did not remove.

### 3.7 StateManager

`update_state` and `revert_to_snapshot` take `&mut self`, so nothing overlaps
them. `Start` is the beginning of `update_state`, `UpdateAccount(a)` the
future of one account (`buffer_unordered` lets them end in any order, each
succeeding or failing), `FinishUpdate` the rest. An account that is not cached
makes its future ask for a read lock of the trie that `update_state` has locked for
writing (`MayRead`); `reentrant` is as above, and `FALSE` means that no account is
ever stored.

- A hash is known by what was hashed: a root is the contents of the trie, the
  storage root of an account is its storage. `Broken` is a trie whose root is not
  in its database: `from_root`, used by `revert_to_snapshot`, makes a trie with
  an empty one. Reading it fails; writing to it makes a root of what was written.
- The storage manager and the snapshot manager are missing from the repository.
  They are modelled from their use here: storage is found by its root, a
  snapshot is kept per block number, the later one wins, and each call may fail.
- `commit_transaction` is an update of the latest snapshot's block that updates no
  account, because nothing adds to `pending_updates`. For the same reason
  `begin_transaction` and `rollback_transaction` change nothing.
- Block numbers of updates do not go back, and readers do not ask for blocks
  ahead of the updates; this is an assumption about the callers.
- Left out: balances, key hashes and code, which are written over as the nonce
  is; `get_code` (entries are found by their own hash); proofs and queries.

### 3.8 ZKVM

`New` is `ZKVM::new`: the circuit is `VMCircuit::new`'s, without a witness, and
the proof system is set up for it; `built` is what it answered. That is an error
(see findings), so no run gets past it. The other actions are the translation of the rest
of `lib.rs`, to be checked when it does, and show nothing yet. `execute` runs `VM` to its end (`ZExecute`,
`ZStep`) before the facade goes on (`Record`); `generate_proof` takes the
circuit and then calls `prove` of `ProofSystem`. Verification is that of
`ProofSystem`. `gas_used` gets the gas that *remains*, as in line 74.

## 4. Runs

| Run | Expects | What it shows |
|---|---|---|
| `voting` | pass | two blocks for one height, four validators of which one is dishonest or has too little stake, redelivery, late votes, `cleanup` at any time |
| `loop` | pass | liveness and pool of the timer loop, with validator maps that are empty, without stake, or mixed in both orders |
| `programs` | pass | all programs of up to 3 bytes over 13 opcodes, 15 longer ones, three calls of `execute` each |
| `vm_tests` | violation | the repository's VM tests expect an addressing mode the code does not have |
| `requests` | pass | two peers, requests of four ages, answers, departures, retries |
| `sync_flow` | violation | an answer does not complete the request it answers |
| `network` | pass | three peers for two places, repeated connections, failing messages, restarts of the loop |
| `proofs` | pass | circuits that are refused, unfit, unprovable, unsatisfied and good; proofs evicted and verified alone and in batches |
| `tampered` | violation | changed public inputs are not noticed while the proof is cached |
| `memory` | pass | two threads, five overlapping calls, pages that run out and are freed with old addresses, a cache of two entries |
| `state` | pass | updates of two accounts that succeed or fail in any order, reverts, empty transactions, cached reads of three block numbers |
| `zkvm` | violation | no facade can be made: the setup of its circuit is refused |

### Properties

*Consensus.* `FinalizedJustified`: every finalized block was voted for by more
than two thirds of the validators, each staked enough. It is not immediate:
delivering a block again empties its vote set, and `cleanup` drops sets.
`PendingAwaitsVotes`: no pending block lacks a vote set or already has a quorum
in it; only a further vote would look at it. `ParentStaysFinalized`: the parent
hash of the last created block still names the finalized block of that height.
`VotesKept`: votes of a block that stays pending are lost only by its redelivery.
`ImplementsFinality`: the refinement of `Finality` by `finalized_blocks`.
`PoolIsFIFO`: transactions leave in the order of arrival, none is lost between
pool, blocks and eviction. `FinalizesOrEnds`, `PoolDrains`: see fairness.

*VM.* `StackBounded`: only PUSH tests the limit, and the other instructions
never exceed it. `GasPaysForSteps`: over all calls, failed ones included, every
instruction is paid at least the base price of 2, STOP among them (which
`test_gas_accounting` would have free, see findings).
`ContractsPaid`: no contract in reach without its CREATE paid in full.
`PermanentErrors`: running out of gas, an unknown opcode or a full stack is
never made good by calling again. (A stack underflow can be: the retried
instruction has popped its operands and finds others.) `SuccessIsFinal`: after a
success later calls change nothing but gas.

*StateSync.* `NothingLost`: every submitted copy of a request that is not
completed is in the queue, in flight at one peer or given up, exactly once.
`BatchesBounded`, and `InFlightIsAlive`: nothing in flight is completed or out of
retries.

*NetworkManager.* `PeersAgree`: the peer map and the synchronisation know the same
peers, all connected, although they are updated by two objects and either
handler may end early. `StatusCountsPeers`: the status never
reports more peers than there are (it may report fewer: it starts at one and
counts every closed connection). `GivenUpEndLoops`: every request given up costs
a start of the loop.

*ProofSystem.* `CacheIsMade`: the cache holds what `prove` returned, each once and
under its own hash. `HonestAccepted`: an unchanged valid proof is accepted, alone
or in a batch, cached or evicted, whatever other clones do in between.
`AcceptedIsJustified`: what is accepted is valid, or was made here under that hash
(the second part is needed: proofs of unsatisfied circuits are accepted as long
as they are cached). `BatchAgrees`: a batch accepts what `verify` accepts; what only
a batch accepts is under a wrong hash that is not cached, which `batch_verify`
never compares (`proof.rs:83-86`). `ProofsShowNoStep`: a circuit that fits the
parameters and satisfies its constraints runs no step of its program and ends in the
state it began in, which is all that a proof can show.

*MemoryManager.* `PagesAccounted`: no page is given out twice and none is lost to
the table, whatever is freed again with an old address. `CacheCoherent`: a cached
page that was never freed is what the page table holds, unless the write that
changed it is about to remove it. It rests on the order of guards: `read` fills
the cache before it gives back the page table, `write` removes the entry before
it does. (A page that was freed and given out again can be in the cache with its
old contents; the property says nothing of those.) `CachedAreListed`: what is
cached can be found and evicted, although list and map are updated apart.
Two readers that miss put an address on the list twice. `CallsEnd`: but for the lock
that is taken twice, no circle of threads waits for itself.

*StateManager.* `CacheIsTrie`: a cached account is the one of the trie, whichever
futures of an update failed. `StaleOnlyInItsBlock`: no update drops a cached storage
value, so it may differ from the trie, but only for readers of the block that
last changed the account or of an earlier one. `RootIsSnapshotted`: the root is that
of a snapshot, unless accounts were changed by an update that ended without
one. `NothingStored`: the lock that is taken twice.

*Violated.* `TestsSucceed`, `AnswerCompletes`, `TamperedRejected` and
`NewSucceeds` (of `ZKVM`) are what tests of the repository assert; see findings.

### Bounds

- `voting`: two blocks of one height and four validators are the least with a
  quorum of three and one dishonest validator; a third block or height would
  only repeat them. Transactions and stakes play no part. `MaxDue`,
  `TimeoutTicks` and `RoundModulus` are 1, so that the loop keeps running
  through all its parts.
- `loop`: one block, two validators, three submitted transactions of sizes 1, 2 and 3
  with a block that holds size 2 and a pool cut at 2, so that full blocks, left
  over transactions, one that fits no block with another behind it, and its
  eviction all happen; up to two ticks behind.
- `programs`: limits are scaled so that short programs reach them (a stack of 5,
  integers of 9 bits, gas of 5, 420 and 32600, which ends the first PUSHes, the
  first CREATE and the second).
- `requests`: batches of two at two peers, four submissions, two retries, a
  clock of four readings with a timeout of one and a stall after two. One key is
  enough because requests also differ by timestamp. The peers are symmetric.

- `network`: capacity two and three peers, so that one is refused; two connections
  for each, so that a known peer connects again and one of two closes; two
  requests, one retry and a clock of three readings give handlers that fail, and
  three starts of the loop let it go on twice. The peers are symmetric.
- `proofs`: sixteen circuits. Six have no steps: without witness, with equal states, with
  other ones, with the elements of one swapped, and with states of different size, whose setup
  is refused. Ten have steps (every instruction, every fault, a witness or none).
  A cache of one entry so that the second proof evicts the first, batches of two. A field of 257 elements holds every byte and small
  products without wrapping; steps of the circuits are at most five.

- `memory`: two threads give every pair of overlapping calls; five calls are the
  least for allocating, freeing, allocating the page anew and using both
  addresses. Pages of two bytes and segments of 0, 1 and 3 bytes make segments
  that are refused, of one and of two pages; three page numbers run out; the
  collector starts at three bytes; with a cache of two entries two readers that
  miss list an address twice, and the next address evicts.
- `state`: two accounts so that one can fail and the other succeed; three updates
  or reverts, so that a failed update is followed by another one or by an empty
  one; blocks 0 to 2; two updates that differ in nonce and storage. The
  accounts are symmetric.
- `zkvm`: one program, six steps for the 1000 of the code; a single step is enough
  for the setup to be refused.

### Fairness

`FairSpec` of `ConsensusEngine` assumes that time passes (`WF(Elapse)`) and that
the runtime polls the task of `start` when its tick is due (`WF(Loop)`). Nothing
is assumed of the network: blocks, votes and transactions may stop coming. Under
this, either the loop ends (timeout, no proposer, panic without validators) or
blocks are finalized again and again (`FinalizesOrEnds`), and every accepted
transaction leaves the pool, the loop ends, or from some time on a transaction larger
than a block stays at the head of the pool (`PoolDrains`): `process_transaction` admits
it and `create_block` stops at it (line 247), so that only eviction frees
what is behind it.

`FairSpec` of `MemoryManager` assumes that a thread which can take its next step
takes it (`WF(Step(t))`). A lock that is free again and again, but not for long,
could keep a thread waiting under this; with a bounded number of calls it does
not, so `CallsEnd` says that no set of threads waits for itself, not that the
locks are fair. The other modules have no liveness property: nothing calls them by
itself, and in particular no timer works on the queue of `StateSync`.

## 5. Findings

- `vm_tests`: the tests of the VM give STORE and LOAD an immediate address; the
  code pops the address, so these programs end in `StackUnderflow`. One of them,
  `test_gas_accounting`, disagrees with the code in a second thing, hidden
  behind the first: it says "0 gas" of STOP (`vm_tests.rs:127`) and adds the prices up to
  31 without it (line 134). In the code STOP has no price of its own and is
  charged the base price of 2 (`vm.rs:191`); so is it in `VM`, and `GasPaysForSteps`
  counts on it. With STORE costing what the test says, the run would use 33.
- `sync_flow`: `handle_response` compares with a request stamped now, so the
  answered request stays in flight until it times out, and is retried; the test
  `test_sync_flow` expects `Idle`.
- `tampered`: `verify` answers from the cache without looking at the public
  inputs; `test_invalid_proof_rejection` expects a changed one to be rejected.
- `zkvm`: `ZKVM::new` sets up a circuit of 1000 steps, each with an opcode variable
  that no constraint mentions, so bellman refuses the setup and `new` returns an error
  for every program. Every test of `proof_tests.rs` begins by unwrapping
  `ZKVM::new`. (Behind this, `generate_proof` would take a circuit without
  witness, and take it whether or not a proof results.)

As `new` fails, `tampered` shows its trace on `ProofSystem` itself, with a circuit
without steps.

The comment over `select_proposer` (`consensus.rs:218`) promises stake *and last
proposed time*; `last_proposed` is never read or written. The model translates
the code.

## 6. Proofs

Checked by TLAPS for all values of the constants that satisfy the named
assumptions (`NodesAssumption`, `BlocksAssumption`, `HonestMajority`,
`BoundsAssumption` in `ConsensusEngine`; `ProgramsAssumption`,
`NumbersAssumption` in `VM`; `SyncAssumption` in `StateSync` and
`NetworkAssumption` in `NetworkManager`; `MemoryAssumption` in `MemoryManager`;
`StateAssumption` in `StateManager`; `FieldAssumption` in `VMCircuit` and
`CircuitsAssumption` in `ProofSystem`). Two of these deserve a word.
`SyncAssumption` has finitely many peers and keys, since the properties add up
over all of them; a run of the node only ever meets finitely many.
`CircuitsAssumption` gives circuits the types of `VMCircuit` and `VMState`;
nothing is assumed of the hash function `Blake`. That there are parameters
is the initial condition of `ProofSystem`: without them there is no object.

*ConsensusEngine.* `TypeCorrect` is inductive by itself and is used by the rest.
`PoolOrdered` needs only that and facts about subsequences. The voting theorems
rest on one inductive invariant, `VotingInv`:

- `PendingAwaitsVotes`,
- `VotesAreBallots`: the members of a vote set are staked validators that
  submitted a ballot for that block (redelivery empties sets, so sets are
  smaller than ballots, never larger),
- `FinalizedJustified`,
- `HonestVoteOnce`: honest nodes have ballots for one block per height.

`FinalizedJustified` alone is not inductive: a step finalizes by counting a vote
set, and only `VotesAreBallots` ties the set to ballots. `Agreement` (the
refinement of `Finality`) then follows from the lemma `QuorumsShareHonest`: two
sets of more than two thirds of the validators share an honest one, by counting,
under `HonestMajority`. When a block is finalized at a height that has one, both
are supported by quorums, the shared honest validator voted once, so they are
the same block. `ParentStable` uses the same step; `VotesStay` goes through the
actions.

*VM.* `VMInv` joins the type invariant with the stack limit and the gas account.
`StackLimit` needs the case analysis over instructions: those that push without
a test pop at least as much, except CREATE, which replaces two by two.
`SuccessStays` adds that a machine with a computed state root stands at STOP or at
the end of its program; `ErrorsArePermanent` adds, for each permanent error in the
history, why the instruction at the counter fails again (not enough gas, an
opcode that is not implemented, a stack that is still full). `ContractsArePaid`
counts a set: each instruction is shown either to bring no contract into reach
and to give no gas back (`NoNewContract`), or to be a CREATE, which adds at most
one and pays its price (`NewContractPaid`).

*StateSync.* `Inv` is the conjunction of the type invariant, `BatchesBounded`,
`InFlightIsAlive` and `NothingLost`. None of the last three is inductive alone: that
nothing is lost needs the sequences to be sequences of requests, and a request
stays alive in flight because a failure is only counted for copies that leave
the batch at the same time. Every handler that processes the queue goes through
one lemma for each way that can end (`EmptyQueue`, `GiveUp`, `Postpone`), and these
count copies: timed-out copies move one for one from the batches to the queue (the
lemma `FlattenSteps` and sums over peers), completed ones are dropped, the others go
to the cut of the peer they are assigned to.

*NetworkManager.* `NetInv` joins the four properties. Of the processing of the
queue the proof needs only what `ProcessKeepsPeers` says: the peers are those it
was given, and the status is the given one, an error or `Idle`; so nothing has to
be known of sequences. The type of the batches and the queue is not part of it.
`StatusNeverOvercounts` is inductive only together with the agreement of the two
peer sets: a start with status 1 needs the peer to be in the map.
`NetworkImplementsSync` maps each step to a step of `StateSync` or a stutter, so the
invariants of the synchronisation hold here as well (`NetKeepsRequests`).
`GivenUpEndTheLoop` rests on the lemma `GivesUpAtMostOne`: a call gives up one
request at most, and if so it returns the error that ends the loop.

*MemoryManager.* `TypeCorrect` comes first; its work is in the sequences (LRU list,
free list, segments). `CachedAreListed` is inductive by itself. `PagesAccounted` is
not: what an address frees has to be known, so
`PagesInv` adds that addresses share a page only if it was freed in between, that a
page stays in the table until it is freed (`OneAddressPerPage`, `HandedLive`)
and that what is on the free list was freed. `CacheInv` strengthens `CacheCoherent`
by what the locks promise: a page table being written is not read or written by
another thread (`PagesLocked`), and what a reader is about to cache is what the
table holds (`ReaderUpToDate`), which is why the read guard has to last.

*StateManager.* `CacheIsTrie` is inductive by itself: the lemma `GotIsTrie` says that
an account read from the cache or the trie is the trie's. `NothingStored` is
strengthened with empty caches and snapshots, since a cached account would spare
`update_account` the lock. `RootInv` adds to `RootIsSnapshotted` that accounts are
cached only while the root is the one of the trie's contents: then an update
that changes nothing leaves the root as it was. `StorageInv` adds to
`StaleOnlyInItsBlock` that no storage is cached for a block ahead of the updates,
and that the accounts of an update under way are of the highest block.

*ProofSystem.* `MadeInv` says that the n-th proof is numbered n, without public
inputs, under its own hash; so a hash names one proof. `CacheInv` adds that the
cache is a sequence of entries of made proofs with different hashes; a look-up
removes one place and appends its entry (the lemma `RemoveAtProperties`), an
insertion into a full cache drops the first. `AcceptedStaysJustified` and
`BatchAlwaysAgrees` follow from these two. `HonestIsAccepted` is not inductive
alone, as a batch is answered over many steps: `BatchInv` adds that whatever is
asked was made before, so that later proofs cannot make it unchanged, and that a
batch of honest proofs is answered "valid" so far. `TypeCorrect` adds the bounds and
that every synthesis ends with a sequence of variables and one of three faults
(`SynthesizeRuns`).

`OnlyStepless` follows one variable through the synthesis: the one the first step
allocates for its opcode. The constraints of a step mention the constant, what is on the
stack and in memory, and variables allocated after the opcode's; pushing, popping and storing
keep the variable off stack and memory (`StepAvoids`, and `StepsAvoid` along the loop),
and the final constraints mention stack, memory and the variables of the two states
(`NotMentioned`). So it is in no constraint, and `SteppedUnconstrained` says that
setup does not accept the circuit. `NoStepIsShown` then has a circuit with the shape of a
circuit without steps. That all its variables are constrained makes it one
itself (`ShapeConstrained`, `SteppedUnconstrained`), and the lists of its two states equally
long: the longer would have an element that `zip` leaves unconstrained (`SameLengths`).
A satisfied constraint on a pair makes its two elements equal (`SatisfiedEqual`), as
all values are in the field.

Induction. The library's induction theorems cannot be instantiated by the provers
at hand, so `DataLemmas` proves induction over numbers and finite sets for sets
(`Induction`, `SetInduction`: a set that has 0 and with each number the next one has
every number), from the well-founded order of the numbers. Recursive functions
(`Filter`, `Synthesize`, `FlattenSeq`, `SumFunction`) are shown to exist that way, and
what they return is proved along their steps.

## 7. What is only model-checked, and what is not covered

- Liveness (`FinalizesOrEnds`, `PoolDrains`, `CallsEnd`): properties under fairness are out of
  the prover's reach.
- What contradicts the code's tests (`TestsSucceed`, `AnswerCompletes`,
  `TamperedRejected`, `NewSucceeds`): TLC's counterexamples. `ZKVM`, whose only
  property is one of these, has no theorem.
- The components marked `not_modelled` in `PROJECT.json`, with the reasons there.
- Hash functions and signatures are taken to be injective and correct; memory
  exhaustion, cancellation of futures and more than one caller of
  `ConsensusEngine::start` are not modelled.
