---------------------------- MODULE StateManager ----------------------------
(***************************************************************************)
(* The account state of src/src/state: the trie, its caches, snapshots and *)
(* the update of several accounts at once.                                 *)
(*                                                                         *)
(* update_state and revert_to_snapshot borrow the manager mutably, so no   *)
(* other call overlaps them; the reading calls change nothing but caches   *)
(* that nobody writes meanwhile. A call is therefore one step, except      *)
(* update_state, whose accounts are updated by futures that complete in    *)
(* any order (buffer_unordered), each for itself.                          *)
(*                                                                         *)
(* A hash is known by what was hashed: a root is the contents of the trie, *)
(* a storage root the contents of the account's storage. An Option is a    *)
(* set of at most one element. `reentrant` is as in MemoryManager: FALSE   *)
(* is what the lock of tokio does when its holder asks again.              *)
(***************************************************************************)
EXTENDS Integers, FiniteSets, FiniteSetsExt, Functions

CONSTANTS
  Addresses,
  Keys,             \* storage keys
  AccountUpdates,   \* AccountUpdate: an optional nonce, and storage to write
  MaxBlock,         \* bound: block numbers
  MaxUpdates        \* bound: updates

VARIABLES
  trie,             \* MerklePatriciaTrie.db: what it holds
  root,             \* MerklePatriciaTrie.root
  snapshots,        \* SnapshotManager: block number -> root
  accounts,         \* StateCache.accounts: address -> (account, block number)
  storage,          \* StateCache.storage: (address, key) -> (value, block number)
  update,           \* the update_state under way: address -> AccountUpdate
  block,            \* its block number
  todo,             \* addresses whose future is not finished
  failed,           \* one of its results is an error
  running,          \* update_state is under way
  reentrant,
  updates,          \* calls of update_state and revert so far
  height,           \* history: highest block number of an update
  torn              \* history: the trie changed after its last snapshot

caches  == <<accounts, storage>>
call    == <<update, block, todo, failed, running>>
vars == <<trie, root, snapshots, caches, call, reentrant, updates, height, torn>>

IsStorage(s) == s \in [DOMAIN s -> Nat] /\ DOMAIN s \subseteq Keys
IsAccount(a) ==
  /\ DOMAIN a = {"nonce", "storage", "last_modified_block"}
  /\ a.nonce \in Nat /\ IsStorage(a.storage) /\ a.last_modified_block \in Nat

ASSUME StateAssumption ==
  /\ \A u \in AccountUpdates :
       /\ DOMAIN u = {"nonce", "storage"}
       /\ u.nonce \subseteq Nat /\ IsStorage(u.storage)
  /\ MaxBlock \in Nat /\ MaxUpdates \in Nat

-----------------------------------------------------------------------------
(* The trie and its caches.                                                *)

\* f with x mapped to v.
With(f, x, v) == [y \in DOMAIN f \cup {x} |-> IF y = x THEN v ELSE f[y]]

\* get fails when the nodes of the root are not in the database: from_root
\* makes a trie with an empty one.
Broken == root # {} /\ root # {trie}
Stored(a) == root # {} /\ a \in DOMAIN trie

IsCached(cached, x, number) == x \in DOMAIN cached /\ cached[x].block >= number

\* What get_account leaves in its cache, and whether it finds an account.
Fetched(a, number) ==
  IF ~IsCached(accounts, a, number) /\ ~Broken /\ Stored(a)
    THEN With(accounts, a, [account |-> trie[a], block |-> number])
    ELSE accounts
Found(a, number) == IsCached(accounts, a, number) \/ (~Broken /\ Stored(a))
Got(a, number) ==
  IF IsCached(accounts, a, number) THEN accounts[a].account ELSE trie[a]

\* update_account on an account: nonce and storage are written over.
Fresh(number) == [nonce |-> 0, storage |-> <<>>, last_modified_block |-> number]

\* Mutant of Updated: the block of the change is not noted.
UpdatedUnmarked(account, u, number) ==
  [nonce |-> IF u.nonce = {} THEN account.nonce ELSE CHOOSE n \in u.nonce : TRUE,
   storage |-> [k \in DOMAIN account.storage \cup DOMAIN u.storage |->
                  IF k \in DOMAIN u.storage THEN u.storage[k] ELSE account.storage[k]],
   last_modified_block |-> account.last_modified_block]

Updated(account, u, number) ==
  [nonce |-> IF u.nonce = {} THEN account.nonce ELSE CHOOSE n \in u.nonce : TRUE,
   storage |-> [k \in DOMAIN account.storage \cup DOMAIN u.storage |->
                  IF k \in DOMAIN u.storage THEN u.storage[k] ELSE account.storage[k]],
   last_modified_block |-> number]

-----------------------------------------------------------------------------
Init ==
  /\ trie = <<>> /\ root = {}
  /\ snapshots = <<>>
  /\ accounts = <<>> /\ storage = <<>>
  /\ update = <<>> /\ block = 0 /\ todo = {} /\ failed = FALSE /\ running = FALSE
  /\ reentrant \in BOOLEAN
  /\ updates = 0 /\ height = 0 /\ torn = FALSE

\* The blocks callers ask for are not ahead of the updates.
GetAccount(a, number) ==
  /\ ~running /\ number <= height
  /\ accounts' = Fetched(a, number)
  /\ UNCHANGED <<trie, root, snapshots, storage, call, reentrant, updates, height, torn>>

\* A storage entry is dropped by no update.
GetStorage(a, k, number) ==
  /\ ~running /\ number <= height
  /\ \/ /\ IsCached(storage, <<a, k>>, number)
        /\ UNCHANGED caches
     \/ /\ ~IsCached(storage, <<a, k>>, number)
        /\ accounts' = Fetched(a, number)
        /\ \/ /\ Found(a, number)
              /\ k \in DOMAIN Got(a, number).storage
              /\ storage' = With(storage, <<a, k>>,
                   [value |-> Got(a, number).storage[k], block |-> number])
           \/ /\ Found(a, number) => k \notin DOMAIN Got(a, number).storage
              /\ UNCHANGED storage
  /\ UNCHANGED <<trie, root, snapshots, call, reentrant, updates, height, torn>>

\* Mutant of Start: a future for every address, updated or not.
StartAll(u, number) ==
  /\ ~running /\ updates < MaxUpdates
  /\ updates' = updates + 1
  /\ running' = TRUE /\ failed' = FALSE
  /\ update' = u /\ block' = number /\ todo' = Addresses
  /\ UNCHANGED <<trie, root, snapshots, caches, reentrant, torn>>

\* update_state takes the trie's write lock and starts a future per account.
Start(u, number) ==
  /\ ~running /\ updates < MaxUpdates
  /\ updates' = updates + 1
  /\ running' = TRUE /\ failed' = FALSE
  /\ update' = u /\ block' = number /\ todo' = DOMAIN u
  /\ UNCHANGED <<trie, root, snapshots, caches, reentrant, torn>>

\* Block numbers do not go back; a block may be updated again.
UpdateState ==
  \E A \in SUBSET Addresses, number \in height .. MaxBlock :
    \E u \in [A -> AccountUpdates] :
      /\ Start(u, number)
      /\ height' = number

\* commit_transaction: an update of the latest snapshot's block. Nothing ever
\* adds to pending_updates, so it updates no account.
CommitTransaction ==
  /\ DOMAIN snapshots # {}
  /\ Start(<<>>, Max(DOMAIN snapshots))
  /\ UNCHANGED height

\* Mutant of MayRead: update_account reads through the guard it was given.
ReadsItsTrie(a) == TRUE

\* get_account waits for a read lock of the trie unless the cache answers.
MayRead(a) == reentrant \/ IsCached(accounts, a, block)

\* Mutant of Succeed: the cache keeps the account that was read.
SucceedUncached(a) ==
  LET before == IF Found(a, block) THEN Got(a, block) ELSE Fresh(block)
      after  == Updated(before, update[a], block)
  IN  /\ trie' = With(trie, a, after)
      /\ root' = {trie'}
      /\ accounts' = Fetched(a, block)
      /\ UNCHANGED failed

Succeed(a) ==
  LET before == IF Found(a, block) THEN Got(a, block) ELSE Fresh(block)
      after  == Updated(before, update[a], block)
  IN  /\ trie' = With(trie, a, after)
      /\ root' = {trie'}
      /\ accounts' = With(accounts, a, [account |-> after, block |-> block])
      /\ UNCHANGED failed

\* The trie cannot be read, or storage, code store or trie fail later.
Fail(a) ==
  /\ failed' = TRUE
  /\ accounts' = Fetched(a, block)
  /\ UNCHANGED <<trie, root>>

UpdateAccount(a) ==
  /\ running /\ a \in todo
  /\ MayRead(a)
  /\ todo' = todo \ {a}
  /\ \/ (Broken => IsCached(accounts, a, block)) /\ Succeed(a)
     \/ Fail(a)
  /\ torn' = (torn \/ trie' # trie)
  /\ UNCHANGED <<snapshots, storage, update, block, running, reentrant, updates, height>>

Idle ==
  /\ update' = <<>> /\ block' = 0 /\ todo' = {} /\ failed' = FALSE /\ running' = FALSE
  /\ UNCHANGED <<trie, root, caches, reentrant, updates, height>>

\* Mutant of CreateSnapshot: the first snapshot of a block stays.
CreateOnce ==
  /\ snapshots' = IF block \in DOMAIN snapshots THEN snapshots
                  ELSE With(snapshots, block, CHOOSE r \in root : TRUE)
  /\ torn' = FALSE

CreateSnapshot ==
  /\ snapshots' = With(snapshots, block, CHOOSE r \in root : TRUE)
  /\ torn' = FALSE

\* The end of update_state. An error of an account, a trie without a root, a
\* failing proof or snapshot leave what the other accounts did.
FinishUpdate ==
  /\ running /\ todo = {}
  /\ Idle
  /\ \/ ~failed /\ root # {} /\ CreateSnapshot
     \/ UNCHANGED <<snapshots, torn>>

ClearCaches == accounts' = <<>> /\ storage' = <<>>

RevertToSnapshot(number) ==
  /\ ~running /\ updates < MaxUpdates
  /\ number \in DOMAIN snapshots
  /\ trie' = <<>>
  /\ root' = {snapshots[number]}
  /\ ClearCaches
  /\ updates' = updates + 1
  /\ torn' = FALSE
  /\ UNCHANGED <<snapshots, call, reentrant, height>>

Next ==
  \/ \E a \in Addresses, number \in 0 .. MaxBlock :
       GetAccount(a, number) \/ \E k \in Keys : GetStorage(a, k, number)
  \/ UpdateState \/ CommitTransaction \/ FinishUpdate
  \/ \E a \in Addresses : UpdateAccount(a)
  \/ \E number \in 0 .. MaxBlock : RevertToSnapshot(number)

Spec == Init /\ [][Next]_vars

-----------------------------------------------------------------------------
(* Properties.                                                             *)

TypeOK ==
  /\ DOMAIN trie \subseteq Addresses /\ \A a \in DOMAIN trie : IsAccount(trie[a])
  /\ DOMAIN snapshots \subseteq 0 .. MaxBlock
  /\ DOMAIN accounts \subseteq Addresses
  /\ \A a \in DOMAIN accounts : IsAccount(accounts[a].account) /\ accounts[a].block \in Nat
  /\ DOMAIN storage \subseteq Addresses \X Keys
  /\ \A x \in DOMAIN storage : storage[x].value \in Nat /\ storage[x].block \in Nat
  /\ DOMAIN update \subseteq Addresses /\ todo \subseteq DOMAIN update
  /\ \A a \in DOMAIN update : update[a] \in AccountUpdates
  /\ failed \in BOOLEAN /\ running \in BOOLEAN
  /\ reentrant \in BOOLEAN /\ torn \in BOOLEAN
  /\ block \in 0 .. MaxBlock /\ height \in 0 .. MaxBlock /\ updates \in 0 .. MaxUpdates

\* A cached account is the one the trie holds, also after updates of which only
\* some accounts succeeded, and after a revert.
CacheIsTrie ==
  \A a \in DOMAIN accounts : Stored(a) /\ accounts[a].account = trie[a]

\* A cached storage value is stale at most for readers of the block that last
\* changed its account: no update drops it, its block number has to.
StaleOnlyInItsBlock ==
  \A x \in DOMAIN storage :
    /\ x[1] \in DOMAIN trie
    /\ storage[x].block > trie[x[1]].last_modified_block =>
         /\ x[2] \in DOMAIN trie[x[1]].storage
         /\ storage[x].value = trie[x[1]].storage[x[2]]

\* Between calls the root is that of a snapshot, unless accounts were changed
\* by an update that ended without one.
RootIsSnapshotted ==
  root # {} /\ ~torn => \E n \in DOMAIN snapshots : root = {snapshots[n]}

\* With a lock that its holder waits for, no account is ever stored.
NothingStored == ~reentrant => trie = <<>> /\ root = {} /\ snapshots = <<>>

=============================================================================
