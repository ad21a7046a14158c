------------------------- MODULE StateManager_proofs -------------------------
(***************************************************************************)
(* Theorems about StateManager, for any accounts, storage keys, updates    *)
(* and numbers of blocks, and whatever a lock does when its holder asks.   *)
(***************************************************************************)
EXTENDS StateManager, WellFoundedInduction, TLAPS

-----------------------------------------------------------------------------
(* Operators.                                                              *)

\* A set of numbers up to a bound has its greatest one.
LEMMA MaxInSet ==
  ASSUME NEW bound \in Nat, NEW I \in SUBSET (0 .. bound), I # {}
  PROVE  Max(I) \in I
<1> DEFINE Less == OpToRel(<, Nat)
           J == {bound - i : i \in I}
<1>1. IsWellFoundedOn(Less, Nat)
  BY NatLessThanWellFounded
<1>2. \A m, n \in Nat : m < n => <<m, n>> \in Less
  BY DEF OpToRel
<1> \A i \in I : i \in Nat /\ i <= bound /\ bound - i \in Nat
  <2>1. I \subseteq 0 .. bound
    OBVIOUS
  <2> QED
    BY <2>1
<1>3. J \subseteq Nat /\ J # {}
  OBVIOUS
<1> HIDE DEF Less
<1>4. PICK j \in J : \A k \in J : ~ (<<k, j>> \in Less)
  <2> HIDE DEF J
  <2> QED
    BY <1>1, <1>3, WFMin
<1>5. PICK m \in I : j = bound - m
  BY <1>4
<1>6. ASSUME NEW n \in I
      PROVE  m >= n
  <2>1. bound - n \in Nat /\ bound - m \in Nat /\ ~(bound - n < bound - m)
    BY <1>2, <1>4, <1>5
  <2> QED
    BY <2>1
<1>7. Max(I) = CHOOSE i \in I : \A n \in I : i >= n
  BY DEF Max
<1> QED
  BY <1>6, <1>7, Zenon

\* An account written over is an account.
LEMMA UpdatedType ==
  ASSUME NEW account, IsAccount(account), NEW u \in AccountUpdates, NEW number \in Nat
  PROVE  IsAccount(Updated(account, u, number))
<1>1. DOMAIN u = {"nonce", "storage"} /\ u.nonce \subseteq Nat /\ IsStorage(u.storage)
  BY StateAssumption
<1>2. u.nonce # {} => (CHOOSE n \in u.nonce : TRUE) \in Nat
  BY <1>1
<1> DEFINE nonce == IF u.nonce = {} THEN account.nonce ELSE CHOOSE n \in u.nonce : TRUE
           cells == [k \in DOMAIN account.storage \cup DOMAIN u.storage |->
                       IF k \in DOMAIN u.storage THEN u.storage[k] ELSE account.storage[k]]
<1>3. nonce \in Nat
  BY <1>2 DEF IsAccount
<1>4. IsStorage(cells)
  BY <1>1 DEF IsAccount, IsStorage
<1>5. Updated(account, u, number)
        = [nonce |-> nonce, storage |-> cells, last_modified_block |-> number]
  BY DEF Updated
<1> HIDE DEF nonce, cells
<1> QED
  BY <1>3, <1>4, <1>5 DEF IsAccount

LEMMA FreshType ==
  ASSUME NEW number \in Nat
  PROVE  IsAccount(Fresh(number))
<1>1. IsStorage(<<>>)
  BY DEF IsStorage
<1> QED
  BY <1>1 DEF IsAccount, Fresh

-----------------------------------------------------------------------------
(* Caches.                                                                 *)

\* What get_account does to the cache: at most, it adds what the trie holds.
LEMMA FetchedIsTrie ==
  ASSUME CacheIsTrie, NEW a, NEW number
  PROVE  /\ DOMAIN accounts \subseteq DOMAIN Fetched(a, number)
         /\ DOMAIN Fetched(a, number) \subseteq DOMAIN accounts \cup {a}
         /\ \A b \in DOMAIN Fetched(a, number) :
              Stored(b) /\ Fetched(a, number)[b].account = trie[b]
         /\ DOMAIN Fetched(a, number) # DOMAIN accounts => Stored(a) /\ ~Broken
<1>1. CASE ~IsCached(accounts, a, number) /\ ~Broken /\ Stored(a)
  BY <1>1 DEF Fetched, With, CacheIsTrie
<1>2. CASE ~(~IsCached(accounts, a, number) /\ ~Broken /\ Stored(a))
  BY <1>2 DEF Fetched, CacheIsTrie
<1> QED
  BY <1>1, <1>2

\* A found account is the one of the trie, from the cache or not.
LEMMA GotIsTrie ==
  ASSUME CacheIsTrie, NEW a, NEW number, Found(a, number)
  PROVE  Stored(a) /\ a \in DOMAIN trie /\ Got(a, number) = trie[a]
BY DEF CacheIsTrie, Found, Got, IsCached, Stored

LEMMA CacheInit == Init => CacheIsTrie
BY DEF Init, CacheIsTrie

LEMMA CacheStep == CacheIsTrie /\ [Next]_vars => CacheIsTrie'
<1> SUFFICES ASSUME CacheIsTrie, [Next]_vars PROVE CacheIsTrie'
  OBVIOUS
<1>1. CASE UNCHANGED <<trie, root, accounts>>
  BY <1>1 DEF CacheIsTrie, Stored
<1>2. ASSUME NEW a, NEW number, accounts' = Fetched(a, number), UNCHANGED <<trie, root>>
      PROVE  CacheIsTrie'
  BY <1>2, FetchedIsTrie DEF CacheIsTrie, Stored
<1>3. ASSUME NEW a \in Addresses, NEW number, GetAccount(a, number)
      PROVE  CacheIsTrie'
  BY <1>2, <1>3 DEF GetAccount
<1>4. ASSUME NEW a \in Addresses, NEW k \in Keys, NEW number, GetStorage(a, k, number)
      PROVE  CacheIsTrie'
  BY <1>1, <1>2, <1>4 DEF GetStorage, caches
<1>5. ASSUME NEW a \in Addresses, UpdateAccount(a)
      PROVE  CacheIsTrie'
  <2>1. CASE Fail(a)
    BY <1>2, <2>1 DEF Fail
  <2>2. CASE Succeed(a)
    <3> DEFINE after == Updated(IF Found(a, block) THEN Got(a, block) ELSE Fresh(block),
                                update[a], block)
    <3>1. /\ trie' = With(trie, a, after) /\ root' = {trie'}
          /\ accounts' = With(accounts, a, [account |-> after, block |-> block])
      BY <2>2 DEF Succeed
    <3> HIDE DEF after
    <3> QED
      BY <3>1 DEF CacheIsTrie, Stored, With
  <2> QED
    BY <1>5, <2>1, <2>2 DEF UpdateAccount
<1>6. ASSUME NEW number, RevertToSnapshot(number)
      PROVE  CacheIsTrie'
  BY <1>6 DEF RevertToSnapshot, ClearCaches, CacheIsTrie
<1>7. CASE UpdateState \/ CommitTransaction \/ FinishUpdate \/ UNCHANGED vars
  BY <1>1, <1>7 DEF UpdateState, CommitTransaction, FinishUpdate, Start, Idle, vars, caches
<1> QED
  BY <1>3, <1>4, <1>5, <1>6, <1>7 DEF Next

\* A cached account is the one the trie holds: also after an update of which some
\* accounts failed, in whatever order their futures end, and after a revert.
THEOREM CacheAgreesWithTrie == Spec => []CacheIsTrie
BY CacheInit, CacheStep, PTL DEF Spec

-----------------------------------------------------------------------------
(* Deadlock.                                                               *)

\* A lock that its holder waits for: nothing is stored, so nothing is cached
\* that would spare update_account the lock.
THEOREM NothingIsStored == Spec => []NothingStored
<1> DEFINE Inv == ~reentrant => /\ DOMAIN trie = {} /\ root = {} /\ DOMAIN snapshots = {}
                                /\ DOMAIN accounts = {}
                                /\ trie = <<>> /\ snapshots = <<>>
<1>1. Init => Inv
  BY DEF Init
<1>2. Inv /\ [Next]_vars => Inv'
  <2> SUFFICES ASSUME Inv, [Next]_vars, ~reentrant' PROVE Inv'
    OBVIOUS
  <2>1. reentrant' = reentrant
    BY DEF Next, GetAccount, GetStorage, UpdateState, CommitTransaction, FinishUpdate,
           UpdateAccount, RevertToSnapshot, Start, Idle, vars
  <2>2. \A a, number : Fetched(a, number) = accounts /\ ~IsCached(accounts, a, number)
    BY <2>1 DEF Fetched, Stored, IsCached
  <2>3. ASSUME NEW a \in Addresses, UpdateAccount(a)
        PROVE  FALSE
    BY <2>1, <2>2, <2>3 DEF UpdateAccount, MayRead
  <2>4. ASSUME NEW number, RevertToSnapshot(number)
        PROVE  FALSE
    BY <2>1, <2>4 DEF RevertToSnapshot
  <2>5. CASE FinishUpdate
    BY <2>1, <2>5 DEF FinishUpdate, Idle, caches
  <2>6. ASSUME NEW a \in Addresses, NEW number, GetAccount(a, number)
        PROVE  Inv'
    BY <2>1, <2>2, <2>6 DEF GetAccount
  <2>7. ASSUME NEW a \in Addresses, NEW k \in Keys, NEW number, GetStorage(a, k, number)
        PROVE  Inv'
    BY <2>1, <2>2, <2>7 DEF GetStorage, caches
  <2>8. CASE UpdateState \/ CommitTransaction \/ UNCHANGED vars
    BY <2>1, <2>8 DEF UpdateState, CommitTransaction, Start, vars, caches
  <2> QED
    BY <2>3, <2>4, <2>5, <2>6, <2>7, <2>8 DEF Next
<1>3. Inv => NothingStored
  BY DEF NothingStored
<1> QED
  BY <1>1, <1>2, <1>3, PTL DEF Spec

-----------------------------------------------------------------------------
(* Types.                                                                  *)

LEMMA UpdateAccountEffect ==
  ASSUME TypeOK, CacheIsTrie, NEW a \in Addresses, UpdateAccount(a), Succeed(a)
  PROVE  \E after :
           /\ IsAccount(after) /\ after.last_modified_block = block
           /\ trie' = With(trie, a, after) /\ root' = {trie'}
           /\ accounts' = With(accounts, a, [account |-> after, block |-> block])
<1> DEFINE before == IF Found(a, block) THEN Got(a, block) ELSE Fresh(block)
           after == Updated(before, update[a], block)
<1>1. /\ trie' = With(trie, a, after) /\ root' = {trie'}
      /\ accounts' = With(accounts, a, [account |-> after, block |-> block])
  BY DEF Succeed
<1>2. block \in Nat /\ update[a] \in AccountUpdates
  BY StateAssumption DEF TypeOK, UpdateAccount
<1>3. IsAccount(before)
  <2>1. CASE Found(a, block)
    BY <2>1, GotIsTrie DEF TypeOK
  <2>2. CASE ~Found(a, block)
    BY <1>2, <2>2, FreshType
  <2> QED
    BY <2>1, <2>2
<1> HIDE DEF before
<1>4. IsAccount(after)
  BY <1>2, <1>3, UpdatedType
<1>5. after.last_modified_block = block
  BY DEF Updated
<1> HIDE DEF after
<1> QED
  BY <1>1, <1>4, <1>5

LEMMA FetchedType ==
  ASSUME TypeOK, CacheIsTrie, NEW a \in Addresses, NEW number \in Nat
  PROVE  /\ DOMAIN Fetched(a, number) \subseteq Addresses
         /\ \A b \in DOMAIN Fetched(a, number) :
              /\ IsAccount(Fetched(a, number)[b].account)
              /\ Fetched(a, number)[b].block \in Nat
<1>1. CASE ~IsCached(accounts, a, number) /\ ~Broken /\ Stored(a)
  <2>1. Fetched(a, number) = [b \in DOMAIN accounts \cup {a} |->
          IF b = a THEN [account |-> trie[a], block |-> number] ELSE accounts[b]]
    BY <1>1 DEF Fetched, With
  <2>2. IsAccount(trie[a])
    BY <1>1 DEF Stored, TypeOK
  <2> QED
    BY <2>1, <2>2 DEF TypeOK
<1>2. CASE ~(~IsCached(accounts, a, number) /\ ~Broken /\ Stored(a))
  <2>1. Fetched(a, number) = accounts
    BY <1>2 DEF Fetched
  <2> QED
    BY <2>1 DEF TypeOK
<1> QED
  BY <1>1, <1>2

LEMMA TypeInit == Init => TypeOK
<1> SUFFICES ASSUME Init PROVE TypeOK
  OBVIOUS
<1>1. /\ DOMAIN trie = {} /\ DOMAIN snapshots = {} /\ DOMAIN accounts = {}
      /\ DOMAIN storage = {} /\ DOMAIN update = {}
  BY DEF Init
<1>2. DOMAIN storage \subseteq Addresses \X Keys
  BY <1>1
<1>3. block \in 0 .. MaxBlock /\ height \in 0 .. MaxBlock /\ updates \in 0 .. MaxUpdates
  BY StateAssumption DEF Init
<1>4. /\ failed \in BOOLEAN /\ running \in BOOLEAN /\ reentrant \in BOOLEAN
      /\ torn \in BOOLEAN /\ todo = {}
  BY DEF Init
<1> QED
  BY <1>1, <1>2, <1>3, <1>4 DEF TypeOK

LEMMA TypeStep == TypeOK /\ CacheIsTrie /\ [Next]_vars => TypeOK'
<1> SUFFICES ASSUME TypeOK, CacheIsTrie, [Next]_vars PROVE TypeOK'
  OBVIOUS
<1> USE StateAssumption
<1>1. CASE UNCHANGED vars
  BY <1>1 DEF vars, caches, call, TypeOK
<1>2. ASSUME NEW a \in Addresses, NEW number \in 0 .. MaxBlock, GetAccount(a, number)
      PROVE  TypeOK'
  <2>1. /\ accounts' = Fetched(a, number)
        /\ UNCHANGED <<trie, root, snapshots, storage, update, block, todo, failed, running,
                       reentrant, updates, height, torn>>
    BY <1>2 DEF GetAccount, call
  <2>2. /\ DOMAIN accounts' \subseteq Addresses
        /\ \A b \in DOMAIN accounts' : IsAccount(accounts'[b].account) /\ accounts'[b].block \in Nat
    BY <2>1, FetchedType
  <2> QED
    BY <2>1, <2>2 DEF TypeOK
<1>3. ASSUME NEW a \in Addresses, NEW k \in Keys, NEW number \in 0 .. MaxBlock,
             GetStorage(a, k, number)
      PROVE  TypeOK'
  <2>1. UNCHANGED <<trie, root, snapshots, update, block, todo, failed, running,
                    reentrant, updates, height, torn>>
    BY <1>3 DEF GetStorage, call
  <2>2. CASE UNCHANGED caches
    BY <2>1, <2>2 DEF caches, TypeOK
  <2>3. CASE accounts' = Fetched(a, number)
    <3>1. /\ DOMAIN accounts' \subseteq Addresses
          /\ \A b \in DOMAIN accounts' : IsAccount(accounts'[b].account) /\ accounts'[b].block \in Nat
      BY <2>3, FetchedType
    <3>2. CASE UNCHANGED storage
      BY <2>1, <3>1, <3>2 DEF TypeOK
    <3>3. CASE /\ Found(a, number)
               /\ k \in DOMAIN Got(a, number).storage
               /\ storage' = With(storage, <<a, k>>,
                    [value |-> Got(a, number).storage[k], block |-> number])
      <4>1. Got(a, number).storage[k] \in Nat
        BY <3>3, GotIsTrie DEF TypeOK, IsAccount, IsStorage
      <4>2. /\ DOMAIN storage' = DOMAIN storage \cup {<<a, k>>}
            /\ \A x \in DOMAIN storage' :
                 storage'[x] = IF x = <<a, k>>
                   THEN [value |-> Got(a, number).storage[k], block |-> number]
                   ELSE storage[x]
        BY <3>3 DEF With
      <4>3. DOMAIN storage' \subseteq Addresses \X Keys
        BY <4>2 DEF TypeOK
      <4>4. \A x \in DOMAIN storage' : storage'[x].value \in Nat /\ storage'[x].block \in Nat
        BY <4>1, <4>2 DEF TypeOK
      <4> QED
        BY <2>1, <3>1, <4>3, <4>4 DEF TypeOK
    <3> QED
      BY <1>3, <2>2, <3>2, <3>3 DEF GetStorage, caches
  <2> QED
    BY <1>3, <2>2, <2>3 DEF GetStorage
<1>4. ASSUME NEW u, NEW number \in 0 .. MaxBlock, Start(u, number),
             DOMAIN u \subseteq Addresses, \A a \in DOMAIN u : u[a] \in AccountUpdates,
             height' \in 0 .. MaxBlock
      PROVE  TypeOK'
  <2>1. /\ UNCHANGED <<trie, root, snapshots, accounts, storage, reentrant, torn>>
        /\ update' = u /\ block' = number /\ todo' = DOMAIN u
        /\ running' = TRUE /\ failed' = FALSE
        /\ updates' = updates + 1 /\ updates < MaxUpdates
    BY <1>4 DEF Start, caches
  <2>2. updates' \in 0 .. MaxUpdates
    BY <2>1 DEF TypeOK
  <2> QED
    BY <1>4, <2>1, <2>2 DEF TypeOK
<1>5. CASE UpdateState
  <2>1. PICK A \in SUBSET Addresses, number \in height .. MaxBlock :
          \E u \in [A -> AccountUpdates] : Start(u, number) /\ height' = number
    BY <1>5 DEF UpdateState
  <2>2. PICK u \in [A -> AccountUpdates] : Start(u, number) /\ height' = number
    BY <2>1
  <2>3. number \in 0 .. MaxBlock
    BY DEF TypeOK
  <2> QED
    BY <1>4, <2>2, <2>3
<1>6. CASE CommitTransaction
  <2>1. Start(<<>>, Max(DOMAIN snapshots)) /\ height' = height /\ DOMAIN snapshots # {}
    BY <1>6 DEF CommitTransaction
  <2>2. Max(DOMAIN snapshots) \in DOMAIN snapshots
    BY <2>1, MaxInSet DEF TypeOK
  <2>3. Max(DOMAIN snapshots) \in 0 .. MaxBlock /\ height' \in 0 .. MaxBlock
    BY <2>1, <2>2 DEF TypeOK
  <2>4. DOMAIN <<>> = {}
    OBVIOUS
  <2> QED
    BY <1>4, <2>1, <2>3, <2>4
<1>7. ASSUME NEW a \in Addresses, UpdateAccount(a)
      PROVE  TypeOK'
  <2>1. /\ todo' = todo \ {a}
        /\ UNCHANGED <<snapshots, storage, update, block, running, reentrant, updates, height>>
    BY <1>7 DEF UpdateAccount
  <2>2. torn' \in BOOLEAN
    BY <1>7 DEF UpdateAccount, TypeOK
  <2>3. CASE Succeed(a)
    <3>1. PICK after :
             /\ IsAccount(after)
             /\ trie' = With(trie, a, after)
             /\ accounts' = With(accounts, a, [account |-> after, block |-> block])
      BY <1>7, <2>3, UpdateAccountEffect
    <3>2. failed' = failed
      BY <2>3 DEF Succeed
    <3>3. DOMAIN trie' \subseteq Addresses /\ \A b \in DOMAIN trie' : IsAccount(trie'[b])
      BY <3>1 DEF With, TypeOK
    <3>4. /\ DOMAIN accounts' \subseteq Addresses
          /\ \A b \in DOMAIN accounts' : IsAccount(accounts'[b].account) /\ accounts'[b].block \in Nat
      BY <3>1 DEF With, TypeOK
    <3> QED
      BY <2>1, <2>2, <3>2, <3>3, <3>4 DEF TypeOK
  <2>4. CASE Fail(a)
    <3>1. block \in Nat
      BY DEF TypeOK
    <3>2. /\ DOMAIN accounts' \subseteq Addresses
          /\ \A b \in DOMAIN accounts' : IsAccount(accounts'[b].account) /\ accounts'[b].block \in Nat
      BY <2>4, <3>1, FetchedType DEF Fail
    <3> QED
      BY <2>1, <2>2, <2>4, <3>2 DEF Fail, TypeOK
  <2> QED
    BY <1>7, <2>3, <2>4 DEF UpdateAccount
<1>8. CASE FinishUpdate
  <2>1. /\ UNCHANGED <<trie, root, accounts, storage, reentrant, updates, height>>
        /\ update' = <<>> /\ block' = 0 /\ todo' = {} /\ failed' = FALSE /\ running' = FALSE
    BY <1>8 DEF FinishUpdate, Idle, caches
  <2>2. DOMAIN snapshots' \subseteq 0 .. MaxBlock /\ torn' \in BOOLEAN
    BY <1>8 DEF FinishUpdate, CreateSnapshot, With, TypeOK
  <2>3. /\ DOMAIN update' \subseteq Addresses /\ todo' \subseteq DOMAIN update'
        /\ \A a \in DOMAIN update' : update'[a] \in AccountUpdates
    <3>1. DOMAIN update' = {}
      BY <2>1
    <3> QED
      BY <2>1, <3>1
  <2>4. block' \in 0 .. MaxBlock
    BY <2>1
  <2>5. /\ DOMAIN trie' \subseteq Addresses /\ \A a \in DOMAIN trie' : IsAccount(trie'[a])
        /\ DOMAIN accounts' \subseteq Addresses
        /\ \A a \in DOMAIN accounts' :
             IsAccount(accounts'[a].account) /\ accounts'[a].block \in Nat
    BY <2>1 DEF TypeOK
  <2>6. /\ DOMAIN storage' \subseteq Addresses \X Keys
        /\ \A x \in DOMAIN storage' : storage'[x].value \in Nat /\ storage'[x].block \in Nat
        /\ height' \in 0 .. MaxBlock /\ updates' \in 0 .. MaxUpdates /\ reentrant' \in BOOLEAN
    BY <2>1 DEF TypeOK
  <2>7. failed' \in BOOLEAN /\ running' \in BOOLEAN
    BY <2>1
  <2> QED
    BY <2>2, <2>3, <2>4, <2>5, <2>6, <2>7 DEF TypeOK
<1>9. ASSUME NEW number, RevertToSnapshot(number)
      PROVE  TypeOK'
  <2>1. /\ trie' = <<>> /\ accounts' = <<>> /\ storage' = <<>> /\ torn' = FALSE
        /\ updates' = updates + 1 /\ updates < MaxUpdates
        /\ UNCHANGED <<snapshots, update, block, todo, failed, running, reentrant, height>>
    BY <1>9 DEF RevertToSnapshot, ClearCaches, call
  <2>2. DOMAIN trie' = {} /\ DOMAIN accounts' = {} /\ DOMAIN storage' = {}
    BY <2>1
  <2>3. updates' \in 0 .. MaxUpdates
    BY <2>1 DEF TypeOK
  <2>4. DOMAIN storage' \subseteq Addresses \X Keys
    BY <2>2
  <2> QED
    BY <2>1, <2>2, <2>3, <2>4 DEF TypeOK
<1> QED
  BY <1>1, <1>2, <1>3, <1>5, <1>6, <1>7, <1>8, <1>9 DEF Next

\* Every variable of the state manager stays in its type: accounts, cached accounts
\* and cached storage are well formed whatever updates are applied.
THEOREM TypeCorrect == Spec => []TypeOK
BY CacheInit, CacheStep, TypeInit, TypeStep, PTL DEF Spec

-----------------------------------------------------------------------------
(* Snapshots.                                                              *)

\* The strengthening: there is at most one root, and an account gets cached only
\* when the trie is the one of the root, which makes every update possible.
RootInv ==
  /\ root = {} \/ \E r \in root : root = {r}
  /\ root = {} => DOMAIN trie = {}
  /\ DOMAIN accounts # {} => root = {trie}
  /\ RootIsSnapshotted

LEMMA RootInit == Init => RootInv
<1> SUFFICES ASSUME Init PROVE RootInv
  OBVIOUS
<1>1. root = {} /\ DOMAIN trie = {} /\ DOMAIN accounts = {}
  BY DEF Init
<1> QED
  BY <1>1 DEF RootInv, RootIsSnapshotted

LEMMA RootStep == RootInv /\ CacheIsTrie /\ [Next]_vars => RootInv'
<1> SUFFICES ASSUME RootInv, CacheIsTrie, [Next]_vars PROVE RootInv'
  OBVIOUS
<1>1. CASE UNCHANGED <<trie, root, snapshots, accounts, torn>>
  BY <1>1 DEF RootInv, RootIsSnapshotted
<1>2. ASSUME NEW a, NEW number, accounts' = Fetched(a, number),
             UNCHANGED <<trie, root, snapshots, torn>>
      PROVE  RootInv'
  <2>1. DOMAIN accounts' # DOMAIN accounts => root = {trie}
    BY <1>2, FetchedIsTrie DEF Stored, Broken
  <2> QED
    BY <1>2, <2>1 DEF RootInv, RootIsSnapshotted
<1>3. ASSUME NEW a \in Addresses, NEW number, GetAccount(a, number)
      PROVE  RootInv'
  BY <1>2, <1>3 DEF GetAccount
<1>4. ASSUME NEW a \in Addresses, NEW k \in Keys, NEW number, GetStorage(a, k, number)
      PROVE  RootInv'
  BY <1>1, <1>2, <1>4 DEF GetStorage, caches
<1>5. ASSUME NEW a \in Addresses, UpdateAccount(a)
      PROVE  RootInv'
  <2>1. CASE Fail(a)
    <3>1. /\ UNCHANGED <<trie, root>> /\ accounts' = Fetched(a, block)
          /\ torn' = (torn \/ trie' # trie) /\ snapshots' = snapshots
      BY <1>5, <2>1 DEF Fail, UpdateAccount
    <3>2. DOMAIN accounts' # DOMAIN accounts => root = {trie}
      BY <3>1, FetchedIsTrie DEF Stored, Broken
    <3> QED
      BY <3>1, <3>2 DEF RootInv, RootIsSnapshotted
  <2>2. CASE (Broken => IsCached(accounts, a, block)) /\ Succeed(a)
    <3>1. /\ a \in DOMAIN trie' /\ root' = {trie'} /\ snapshots' = snapshots
          /\ torn' = (torn \/ trie' # trie)
      BY <1>5, <2>2 DEF Succeed, With, UpdateAccount
    \* An update that leaves the trie as it was leaves its root as well.
    <3>2. trie' = trie => root' = root
      <4>1. trie' = trie => root # {}
        BY <3>1 DEF RootInv
      <4>2. root # {} => root = {trie}
        BY <2>2 DEF Broken, IsCached, RootInv
      <4> QED
        BY <3>1, <4>1, <4>2
    <3> QED
      BY <3>1, <3>2 DEF RootInv, RootIsSnapshotted
  <2> QED
    BY <1>5, <2>1, <2>2 DEF UpdateAccount
<1>6. CASE FinishUpdate
  <2>1. UNCHANGED <<trie, root, accounts>>
    BY <1>6 DEF FinishUpdate, Idle, caches
  <2>2. CASE root # {} /\ CreateSnapshot
    <3>1. PICK r : root = {r}
      BY <2>2 DEF RootInv
    <3>2. (CHOOSE q \in root : TRUE) = r
      BY <3>1
    <3>3. block \in DOMAIN snapshots' /\ root = {snapshots'[block]}
      BY <2>2, <3>1, <3>2 DEF CreateSnapshot, With
    <3> QED
      BY <2>1, <3>3 DEF RootInv, RootIsSnapshotted
  <2> QED
    BY <1>1, <1>6, <2>1, <2>2 DEF FinishUpdate
<1>7. ASSUME NEW number, RevertToSnapshot(number)
      PROVE  RootInv'
  <2>1. /\ number \in DOMAIN snapshots /\ snapshots' = snapshots
        /\ root' = {snapshots[number]} /\ DOMAIN trie' = {} /\ DOMAIN accounts' = {}
    BY <1>7 DEF RevertToSnapshot, ClearCaches
  <2> QED
    BY <2>1 DEF RootInv, RootIsSnapshotted
<1>8. CASE UpdateState \/ CommitTransaction \/ UNCHANGED vars
  BY <1>1, <1>8 DEF UpdateState, CommitTransaction, Start, vars, caches
<1> QED
  BY <1>3, <1>4, <1>5, <1>6, <1>7, <1>8 DEF Next

\* The root is that of a snapshot, until an update that ends without one changes an
\* account: a failed update that changed nothing needs no snapshot.
THEOREM RootHasItsSnapshot == Spec => []RootIsSnapshotted
<1>1. RootInv => RootIsSnapshotted
  BY DEF RootInv
<1> QED
  BY <1>1, CacheInit, CacheStep, RootInit, RootStep, PTL DEF Spec

-----------------------------------------------------------------------------
(* Cached storage.                                                         *)

\* The strengthening: no storage is cached for a block ahead of the updates, and
\* the accounts of an update under way are those of the highest block.
StorageInv ==
  /\ \A x \in DOMAIN storage : storage[x].block <= height
  /\ todo # {} => block = height
  /\ StaleOnlyInItsBlock

LEMMA StorageInit == Init => StorageInv
<1> SUFFICES ASSUME Init PROVE StorageInv
  OBVIOUS
<1>1. DOMAIN storage = {} /\ todo = {}
  BY DEF Init
<1> QED
  BY <1>1 DEF StorageInv, StaleOnlyInItsBlock

LEMMA StorageStep == StorageInv /\ TypeOK /\ CacheIsTrie /\ [Next]_vars => StorageInv'
<1> SUFFICES ASSUME StorageInv, TypeOK, CacheIsTrie, [Next]_vars PROVE StorageInv'
  OBVIOUS
<1> USE StateAssumption
<1>1. CASE UNCHANGED <<trie, storage, todo, block, height>>
  BY <1>1 DEF StorageInv, StaleOnlyInItsBlock
<1>2. ASSUME NEW a \in Addresses, NEW k \in Keys, NEW number \in 0 .. MaxBlock,
             GetStorage(a, k, number)
      PROVE  StorageInv'
  <2>1. UNCHANGED <<trie, todo, block, height>> /\ number <= height
    BY <1>2 DEF GetStorage, call
  <2>2. CASE /\ Found(a, number)
             /\ k \in DOMAIN Got(a, number).storage
             /\ storage' = With(storage, <<a, k>>,
                  [value |-> Got(a, number).storage[k], block |-> number])
    <3>1. a \in DOMAIN trie /\ Got(a, number) = trie[a]
      BY <2>2, GotIsTrie
    <3>2. /\ DOMAIN storage' = DOMAIN storage \cup {<<a, k>>}
          /\ storage'[<<a, k>>] = [value |-> trie[a].storage[k], block |-> number]
          /\ \A x \in DOMAIN storage : x # <<a, k>> => storage'[x] = storage[x]
      BY <2>2, <3>1 DEF With
    <3>3. <<a, k>>[1] \in DOMAIN trie /\ k \in DOMAIN trie[a].storage
      BY <2>2, <3>1
    <3> QED
      BY <2>1, <3>2, <3>3 DEF StorageInv, StaleOnlyInItsBlock
  <2>3. CASE UNCHANGED storage
    BY <1>1, <2>1, <2>3
  <2> QED
    BY <1>2, <2>2, <2>3 DEF GetStorage, caches
<1>3. CASE UpdateState
  <2>1. PICK A \in SUBSET Addresses, number \in height .. MaxBlock :
          \E u \in [A -> AccountUpdates] : Start(u, number) /\ height' = number
    BY <1>3 DEF UpdateState
  <2>2. UNCHANGED <<trie, storage>> /\ block' = number /\ height' = number
    BY <2>1 DEF Start, caches
  <2>3. height \in Nat /\ number \in Nat /\ height <= number
    BY <2>1 DEF TypeOK
  <2>4. \A x \in DOMAIN storage : storage[x].block \in Nat
    BY DEF TypeOK
  <2> QED
    BY <2>2, <2>3, <2>4 DEF StorageInv, StaleOnlyInItsBlock
<1>4. CASE CommitTransaction
  <2>1. UNCHANGED <<trie, storage, height>> /\ todo' = {}
    BY <1>4 DEF CommitTransaction, Start, caches
  <2> QED
    BY <2>1 DEF StorageInv, StaleOnlyInItsBlock
<1>5. ASSUME NEW a \in Addresses, UpdateAccount(a)
      PROVE  StorageInv'
  <2>1. /\ UNCHANGED <<storage, block, height>> /\ block = height /\ todo' \subseteq todo
        /\ a \in todo
    BY <1>5 DEF UpdateAccount, StorageInv
  <2>2. CASE Fail(a)
    BY <2>1, <2>2 DEF Fail, StorageInv, StaleOnlyInItsBlock
  <2>3. CASE Succeed(a)
    <3>1. PICK after :
            after.last_modified_block = block /\ trie' = With(trie, a, after)
      BY <1>5, <2>3, UpdateAccountEffect
    <3>2. /\ DOMAIN trie' = DOMAIN trie \cup {a} /\ trie'[a] = after
          /\ \A b \in DOMAIN trie : b # a => trie'[b] = trie[b]
      BY <3>1 DEF With
    <3>3. \A x \in DOMAIN storage : ~(storage[x].block > height)
      BY DEF StorageInv, TypeOK
    <3> QED
      BY <2>1, <3>1, <3>2, <3>3 DEF StorageInv, StaleOnlyInItsBlock
  <2> QED
    BY <1>5, <2>2, <2>3 DEF UpdateAccount
<1>6. CASE FinishUpdate
  <2>1. UNCHANGED <<trie, storage, height>> /\ todo' = {}
    BY <1>6 DEF FinishUpdate, Idle, caches
  <2> QED
    BY <2>1 DEF StorageInv, StaleOnlyInItsBlock
<1>7. ASSUME NEW number, RevertToSnapshot(number)
      PROVE  StorageInv'
  <2>1. DOMAIN storage' = {} /\ UNCHANGED <<todo, block, height>>
    BY <1>7 DEF RevertToSnapshot, ClearCaches, call
  <2> QED
    BY <2>1 DEF StorageInv, StaleOnlyInItsBlock
<1>8. ASSUME NEW a \in Addresses, NEW number, GetAccount(a, number)
      PROVE  StorageInv'
  BY <1>1, <1>8 DEF GetAccount, call
<1>9. CASE UNCHANGED vars
  BY <1>1, <1>9 DEF vars, caches, call
<1> QED
  BY <1>2, <1>3, <1>4, <1>5, <1>6, <1>7, <1>8, <1>9 DEF Next

\* A cached storage value that differs from the trie is handed out only to readers
\* of the block that last changed its account, or of an earlier one.
THEOREM StorageStaleOnlyInItsBlock == Spec => []StaleOnlyInItsBlock
<1>1. StorageInv => StaleOnlyInItsBlock
  BY DEF StorageInv
<1> QED
  BY <1>1, CacheInit, CacheStep, TypeInit, TypeStep, StorageInit, StorageStep, PTL DEF Spec

=============================================================================
