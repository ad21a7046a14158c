------------------------ MODULE MemoryManager_proofs ------------------------
(***************************************************************************)
(* Theorems about MemoryManager, for any number of threads, any sizes,     *)
(* contents and limits, and whatever a lock does when its holder asks.     *)
(***************************************************************************)
EXTENDS MemoryManager, DataLemmas

-----------------------------------------------------------------------------
(* Operators.                                                              *)

Elements(s) == {s[i] : i \in DOMAIN s}

\* A set of numbers that is not empty has its least one.
LEMMA MinInSet ==
  ASSUME NEW I \in SUBSET Nat, I # {}
  PROVE  Min(I) \in I
<1> DEFINE Less == OpToRel(<, Nat)
<1>1. IsWellFoundedOn(Less, Nat)
  BY NatLessThanWellFounded
<1>2. \A m, n \in Nat : m < n => <<m, n>> \in Less
  BY DEF OpToRel
<1> HIDE DEF Less
<1>3. \E m \in I : \A n \in I : ~ (<<n, m>> \in Less)
  BY <1>1, WFMin
<1>4. \E m \in I : \A n \in I : m <= n
  <2>1. PICK m \in I : \A n \in I : ~ (<<n, m>> \in Less)
    BY <1>3
  <2>2. ASSUME NEW n \in I
        PROVE  m <= n
    <3>1. m \in Nat /\ n \in Nat /\ ~(n < m)
      BY <1>2, <2>1
    <3> QED
      BY <3>1
  <2> QED
    BY <2>2
<1>5. Min(I) = CHOOSE m \in I : \A n \in I : m <= n
  BY DEF Min
<1> QED
  BY <1>4, <1>5, Zenon

\* Taking an address off the list keeps every other address on it.
LEMMA UnlistedProperties ==
  ASSUME NEW S, lru \in Seq(S), NEW a
  PROVE  /\ Unlisted(a) \in Seq(S)
         /\ Listed \ {a} \subseteq Elements(Unlisted(a))
<1>1. /\ Len(lru) \in Nat /\ DOMAIN lru = 1 .. Len(lru)
      /\ Listed = {lru[i] : i \in 1 .. Len(lru)}
  BY LenProperties DEF Listed
<1>2. CASE a \notin Listed
  BY <1>1, <1>2 DEF Unlisted, Elements, Listed
<1>3. CASE a \in Listed
  <2> DEFINE I == {i \in 1 .. Len(lru) : lru[i] = a}
             k == Min(I)
  <2>1. I # {} /\ I \subseteq Nat
    BY <1>1, <1>3
  <2>2. k \in I
    BY <2>1, MinInSet
  <2>3. Unlisted(a) = RemoveAt(lru, k)
    BY <1>1, <1>3, <2>1 DEF Unlisted, RemoveFirst, SelectInSeq
  <2> HIDE DEF k
  <2>4. k \in 1 .. Len(lru) /\ lru[k] = a
    BY <2>2
  <2>5. /\ Unlisted(a) \in Seq(S)
        /\ Len(Unlisted(a)) = Len(lru) - 1
        /\ \A j \in 1 .. Len(lru) - 1 :
             Unlisted(a)[j] = IF j < k THEN lru[j] ELSE lru[j + 1]
    BY <2>3, <2>4, RemoveAtProperties
  <2>6. DOMAIN Unlisted(a) = 1 .. Len(lru) - 1
    BY <2>5, LenProperties
  <2>7. ASSUME NEW i \in 1 .. Len(lru), lru[i] # a
        PROVE  \E j \in 1 .. Len(lru) - 1 : lru[i] = Unlisted(a)[j]
    <3>1. i # k
      BY <2>4, <2>7
    <3>2. CASE i < k
      BY <1>1, <2>4, <2>5, <3>2
    <3>3. CASE i > k
      <4>1. i - 1 \in 1 .. Len(lru) - 1 /\ ~(i - 1 < k) /\ (i - 1) + 1 = i
        BY <1>1, <2>4, <3>3
      <4> QED
        BY <2>5, <4>1
    <3> QED
      BY <1>1, <2>4, <3>1, <3>2, <3>3
  <2>8. Listed \ {a} \subseteq Elements(Unlisted(a))
    BY <1>1, <2>6, <2>7 DEF Elements
  <2> QED
    BY <2>5, <2>8
<1> QED
  BY <1>2, <1>3

\* The collector leaves a sequence of segments.
LEMMA CollectedType ==
  ASSUME segments \in Seq(Segment)
  PROVE  Collected \in Seq(Segment)
<1> DEFINE unmarked == {i \in DOMAIN segments : ~segments[i].root}
           k == CHOOSE i \in unmarked : \A j \in unmarked : i <= j
<1>1. /\ Len(segments) \in Nat /\ DOMAIN segments = 1 .. Len(segments)
      /\ \A i \in 1 .. Len(segments) : segments[i] \in Segment
  BY LenProperties, ElementOfSeq
<1>2. CASE unmarked = {}
  BY <1>2 DEF Collected, Swept
<1>3. CASE unmarked # {}
  <2>1. k = Min(unmarked) /\ unmarked \in SUBSET Nat
    BY <1>1 DEF Min
  <2>2. k \in unmarked
    BY <1>3, <2>1, MinInSet
  <2>3. Swept(segments) = SubSeq(segments, 1, k - 1)
    BY <1>3 DEF Swept
  <2> HIDE DEF k
  <2>4. k \in 1 .. Len(segments)
    BY <1>1, <2>2
  <2> HIDE DEF unmarked
  <2>5. \A i \in 1 .. k - 1 : segments[i] \in Segment
    BY <1>1, <2>4
  <2>6. Swept(segments) \in Seq(Segment)
    BY <1>1, <2>3, <2>4, <2>5, SubSeqProperties
  <2> QED
    BY <2>6 DEF Collected
<1> QED
  BY <1>2, <1>3

\* Pages are counted in natural numbers, and a segment has at least one.
LEMMA PagesNeededType ==
  ASSUME NEW size \in Nat
  PROVE  /\ PagesNeeded(size) \in Nat
         /\ size > 0 => PagesNeeded(size) >= 1
<1>1. PageSize \in Nat /\ PageSize >= 1
  BY MemoryAssumption
<1>2. \A m \in Nat : m \div PageSize \in Nat /\ (m >= PageSize => m \div PageSize >= 1)
  BY <1>1
<1>3. size + PageSize - 1 \in Nat /\ (size > 0 => size + PageSize - 1 >= PageSize)
  BY <1>1
<1> QED
  BY <1>2, <1>3 DEF PagesNeeded

\* What n pages are taken from: the end of the free list, and new numbers.
LEMMA ReusedType ==
  ASSUME TableType, NEW n \in Nat, Obtainable(n)
  PROVE  /\ Reused(n) \in 0 .. Len(free_pages) /\ Reused(n) <= n
         /\ Len(free_pages) \in Nat
         /\ next_page_id + (n - Reused(n)) \in next_page_id .. MaxPageId
         /\ Obtained(n) \subseteq Nat
<1>1. Len(free_pages) \in Nat /\ MaxPageId \in Nat /\ next_page_id \in 0 .. MaxPageId
  BY LenProperties, MemoryAssumption DEF TableType
<1>2. /\ Reused(n) \in 0 .. Len(free_pages) /\ Reused(n) <= n
      /\ next_page_id + (n - Reused(n)) \in next_page_id .. MaxPageId
  BY <1>1 DEF Reused, Obtainable
<1>3. \A i \in Len(free_pages) - Reused(n) + 1 .. Len(free_pages) : free_pages[i] \in Nat
  <2>1. free_pages \in Seq(Nat)
    BY DEF TableType
  <2>2. \A i \in 1 .. Len(free_pages) : free_pages[i] \in Nat
    BY <2>1, ElementOfSeq
  <2>3. Len(free_pages) - Reused(n) + 1 .. Len(free_pages) \subseteq 1 .. Len(free_pages)
    BY <1>1, <1>2
  <2> QED
    BY <2>2, <2>3
<1> QED
  BY <1>1, <1>2, <1>3 DEF Obtained

LEMMA AllocatePagesType ==
  ASSUME TableType, NEW n \in Nat, Obtainable(n), AllocatePages(n)
  PROVE  TableType'
<1>1. /\ Reused(n) \in 0 .. Len(free_pages) /\ Len(free_pages) \in Nat
      /\ next_page_id + (n - Reused(n)) \in next_page_id .. MaxPageId
      /\ Obtained(n) \subseteq Nat
  BY ReusedType
<1>2. /\ pages' = [p \in DOMAIN pages \cup Obtained(n) |->
                     IF p \in Obtained(n) THEN 0 ELSE pages[p]]
      /\ free_pages' = SubSeq(free_pages, 1, Len(free_pages) - Reused(n))
      /\ next_page_id' = next_page_id + (n - Reused(n))
  BY DEF AllocatePages
<1>3. pages' \in [DOMAIN pages' -> Contents] /\ DOMAIN pages' \subseteq Nat
  BY <1>1, <1>2, MemoryAssumption DEF TableType
<1>4. free_pages' \in Seq(Nat)
  <2>1. \A i \in 1 .. Len(free_pages) - Reused(n) : free_pages[i] \in Nat
    BY <1>1, ElementOfSeq DEF TableType
  <2> QED
    BY <1>1, <1>2, <2>1, SubSeqProperties
<1>5. next_page_id' \in 0 .. MaxPageId
  BY <1>1, <1>2, MemoryAssumption DEF TableType
<1> QED
  BY <1>3, <1>4, <1>5 DEF TableType

LEMMA FreePageType ==
  ASSUME TableType, NEW p \in Nat, FreePage(p)
  PROVE  TableType'
<1>1. pages' \in [DOMAIN pages' -> Contents] /\ DOMAIN pages' \subseteq Nat
  BY DEF TableType, FreePage, Restrict
<1>2. free_pages' \in Seq(Nat)
  BY AppendProperties DEF TableType, FreePage
<1> QED
  BY <1>1, <1>2 DEF TableType, FreePage

-----------------------------------------------------------------------------
(* Types.                                                                  *)

LEMMA CacheStays ==
  ASSUME CacheType, UNCHANGED cached, handed \subseteq handed'
  PROVE  CacheType'
BY SeqMonotonic DEF CacheType, cached

LEMMA PermissionStays ==
  ASSUME PermissionType, UNCHANGED permissions, handed \subseteq handed'
  PROVE  PermissionType'
BY DEF PermissionType

LEMMA GrantType ==
  ASSUME PermissionType, handed \subseteq handed', NEW a \in handed',
         NEW perms \in SUBSET Permission, Grant(a, perms)
  PROVE  PermissionType'
BY DEF PermissionType, Grant

LEMMA ReturnType ==
  ASSUME ThreadType, handed \subseteq handed', NEW t \in Threads, Return(t)
  PROVE  ThreadType'
<1>1. pc' \in [Threads -> {"idle"} \cup Allocating \cup Deallocating \cup Accessing]
  BY DEF ThreadType, Return
<1>2. DOMAIN req' = Threads
  BY DEF ThreadType, Return
<1>3. "idle" \notin Allocating \cup Deallocating \cup Accessing
  BY DEF Allocating, Deallocating, Accessing
<1>4. ASSUME NEW u \in Threads
      PROVE  /\ pc'[u] \in Allocating => req'[u] \in [value : Sizes]
             /\ pc'[u] \in Deallocating => req'[u] \in [addr : handed']
             /\ pc'[u] \in Accessing => req'[u] \in [addr : handed', fits : BOOLEAN, value : Contents]
  <2>1. CASE u = t
    BY <1>3, <2>1 DEF ThreadType, Return
  <2>2. CASE u # t
    BY <2>2 DEF ThreadType, Return, Access
  <2> QED
    BY <2>1, <2>2
<1> QED
  BY <1>1, <1>2, <1>4 DEF ThreadType, Access

\* A thread that goes on within its call keeps the type of its request.
LEMMA GoToType ==
  ASSUME ThreadType, handed \subseteq handed', NEW t \in Threads, NEW at, GoTo(t, at),
         \/ pc[t] \in Allocating /\ at \in Allocating
         \/ pc[t] \in Deallocating /\ at \in Deallocating
         \/ pc[t] \in Accessing /\ at \in Accessing
  PROVE  ThreadType'
<1>1. pc' \in [Threads -> {"idle"} \cup Allocating \cup Deallocating \cup Accessing]
  BY DEF ThreadType, GoTo
<1>2. DOMAIN req' = Threads
  BY DEF ThreadType, GoTo
<1>3. /\ Allocating \cap Deallocating = {} /\ Allocating \cap Accessing = {}
      /\ Deallocating \cap Accessing = {}
  BY DEF Allocating, Deallocating, Accessing
<1>4. ASSUME NEW u \in Threads
      PROVE  /\ pc'[u] \in Allocating => req'[u] \in [value : Sizes]
             /\ pc'[u] \in Deallocating => req'[u] \in [addr : handed']
             /\ pc'[u] \in Accessing => req'[u] \in [addr : handed', fits : BOOLEAN, value : Contents]
  <2>1. CASE u = t
    BY <1>3, <2>1 DEF ThreadType, GoTo, Access
  <2>2. CASE u # t
    BY <2>2 DEF ThreadType, GoTo, Access
  <2> QED
    BY <2>1, <2>2
<1> QED
  BY <1>1, <1>2, <1>4 DEF ThreadType, Access

\* A call begins with a request of the type of its place.
LEMMA CallType ==
  ASSUME TypeOK, NEW t \in Threads, NEW at, NEW request, Call(t, at, request),
         \/ at = "allocate" /\ request \in [value : Sizes]
         \/ at = "deallocate" /\ request \in [addr : handed]
         \/ at \in {"read", "write"} /\ request \in Access
  PROVE  TypeOK'
<1>1. /\ UNCHANGED <<segments, pages, free_pages, next_page_id, permissions, cache, lru>>
      /\ UNCHANGED <<reentrant, handed, recycled>>
  BY DEF Call, table, cached, history
<1>2. calls' \in 0 .. MaxCalls
  BY MemoryAssumption DEF TypeOK, Call
<1>3. /\ pc' \in [Threads -> {"idle"} \cup Allocating \cup Deallocating \cup Accessing]
      /\ DOMAIN req' = Threads
  BY DEF TypeOK, ThreadType, Call, Allocating, Deallocating, Accessing
<1>4. ASSUME NEW u \in Threads
      PROVE  /\ pc'[u] \in Allocating => req'[u] \in [value : Sizes]
             /\ pc'[u] \in Deallocating => req'[u] \in [addr : handed]
             /\ pc'[u] \in Accessing => req'[u] \in Access
  <2>1. CASE u = t
    <3>1. pc'[u] = at /\ req'[u] = request
      BY <2>1 DEF TypeOK, ThreadType, Call
    <3> QED
      BY <3>1 DEF Allocating, Deallocating, Accessing
  <2>2. CASE u # t
    <3>1. pc'[u] = pc[u] /\ req'[u] = req[u]
      BY <2>2 DEF TypeOK, ThreadType, Call
    <3> QED
      BY <3>1 DEF TypeOK, ThreadType
  <2> QED
    BY <2>1, <2>2
<1>5. ThreadType'
  BY <1>1, <1>3, <1>4 DEF ThreadType, Access
<1>6. TableType' /\ CacheType' /\ PermissionType'
  BY <1>1 DEF TypeOK, TableType, CacheType, PermissionType
<1> QED
  BY <1>1, <1>2, <1>5, <1>6 DEF TypeOK

LEMMA SingletonSeq ==
  ASSUME NEW S, NEW a \in S
  PROVE  <<a>> \in Seq(S) /\ Len(<<a>>) = 1 /\ <<a>>[1] = a
OBVIOUS

LEMMA TouchType ==
  ASSUME CacheType, NEW a \in handed, Touch(a), handed' = handed
  PROVE  CacheType'
<1>1. lru \in Seq(handed) /\ Unlisted(a) \in Seq(handed)
  BY UnlistedProperties DEF CacheType
<1>2. <<a>> \o Unlisted(a) \in Seq(handed)
  BY <1>1, SingletonSeq, ConcatProperties
<1> QED
  BY <1>1, <1>2 DEF CacheType, Touch

LEMMA InsertType ==
  ASSUME CacheType, NEW a \in handed, NEW v \in Contents, CacheInsert(a, v),
         handed' = handed
  PROVE  CacheType'
<1>1. Ordered \in Seq(handed)
  <2>1. /\ Len(lru) \in Nat
        /\ \A i \in 1 .. Len(lru) - 1 : lru[i] \in handed
    BY LenProperties, ElementOfSeq DEF CacheType
  <2>2. SubSeq(lru, 1, Len(lru) - 1) \in Seq(handed)
    BY <2>1, SubSeqProperties
  <2> QED
    BY <2>2 DEF Ordered, Front, CacheType
<1>2. lru' \in Seq(handed)
  BY <1>1, SingletonSeq, ConcatProperties DEF CacheInsert
<1>3. Kept \subseteq DOMAIN cache
  BY DEF Kept
<1>4. cache' \in [DOMAIN cache' -> Contents] /\ DOMAIN cache' \subseteq handed
  BY <1>3 DEF CacheInsert, CacheType
<1> QED
  BY <1>2, <1>4 DEF CacheType

LEMMA RemoveType ==
  ASSUME CacheType, NEW a, CacheRemove(a), handed' = handed
  PROVE  CacheType'
<1>1. lru' \in Seq(handed)
  BY UnlistedProperties DEF CacheType, CacheRemove
<1>2. cache' \in [DOMAIN cache' -> Contents] /\ DOMAIN cache' \subseteq handed
  BY DEF CacheType, CacheRemove, Restrict
<1> QED
  BY <1>1, <1>2 DEF CacheType

LEMMA AllocateType ==
  ASSUME TypeOK, NEW t \in Threads, Allocate(t)
  PROVE  TypeOK'
<1> DEFINE size == req[t].value
           n    == PagesNeeded(size)
           addr == [segment_id |-> Len(Collected), page_id |-> FirstPage]
           rest == Len(free_pages) + (MaxPageId - next_page_id)
<1>1. pc[t] = "collect" /\ Return(t) /\ UNCHANGED cached /\ recycled' = recycled
  BY DEF Allocate
<1>2. size \in Nat
  BY <1>1, MemoryAssumption DEF TypeOK, ThreadType, Allocating
<1>3. n \in Nat
  BY <1>2, PagesNeededType
<1>4. /\ Collected \in Seq(Segment) /\ Len(Collected) \in Nat
  BY CollectedType, LenProperties DEF TypeOK
<1>5. FirstPage \in Nat
  <2>1. CASE free_pages = <<>>
    BY <2>1, MemoryAssumption DEF TypeOK, TableType, FirstPage
  <2>2. CASE free_pages # <<>>
    <3>1. Len(free_pages) \in 1 .. Len(free_pages)
      BY <2>2, EmptySeq DEF TypeOK, TableType
    <3>2. free_pages[Len(free_pages)] \in Nat
      BY <3>1, ElementOfSeq DEF TypeOK, TableType
    <3> QED
      BY <2>2, <3>2 DEF FirstPage, Last
  <2> QED
    BY <2>1, <2>2
<1>6. addr \in Address
  BY <1>4, <1>5 DEF Address
<1>7. rest \in Nat /\ Obtainable(rest)
  BY LenProperties, MemoryAssumption DEF TypeOK, TableType, Obtainable
<1> HIDE DEF size, n, addr, rest
<1>8. /\ segments' \in Seq(Segment)
      /\ TableType'
      /\ handed \subseteq handed' /\ handed' \subseteq Address
      /\ PermissionType'
  <2>1. CASE size = 0 /\ segments' = Collected /\ UNCHANGED <<table, permissions, handed>>
    <3>1. UNCHANGED <<pages, free_pages, next_page_id, permissions, handed>>
      BY <2>1 DEF table
    <3> QED
      BY <1>4, <2>1, <3>1 DEF TypeOK, TableType, PermissionType
  <2>2. CASE /\ size > 0
             /\ segments' = Append(Collected, [size |-> size, root |-> FALSE])
    <3>1. segments' \in Seq(Segment)
      BY <1>2, <1>4, <2>2, AppendProperties DEF Segment
    <3>2. CASE /\ Obtainable(n) /\ AllocatePages(n) /\ Grant(addr, Permission)
               /\ handed' = handed \cup {addr}
      <4>1. TableType'
        BY <1>3, <3>2, AllocatePagesType DEF TypeOK
      <4>2. handed \subseteq handed' /\ handed' \subseteq Address /\ addr \in handed'
        BY <1>6, <3>2 DEF TypeOK
      <4>3. PermissionType'
        BY <3>2, <4>2, GrantType DEF TypeOK
      <4> QED
        BY <3>1, <4>1, <4>2, <4>3
    <3>3. CASE AllocatePages(rest) /\ UNCHANGED <<permissions, handed>>
      <4>1. TableType'
        BY <1>7, <3>3, AllocatePagesType DEF TypeOK
      <4> QED
        BY <3>1, <3>3, <4>1 DEF TypeOK, PermissionType
    <3> QED
      BY <2>2, <3>2, <3>3 DEF Allocate, size, n, addr, rest
  <2> QED
    BY <2>1, <2>2 DEF Allocate, size, n, addr, rest
<1>9. CacheType'
  BY <1>1, <1>8, CacheStays DEF TypeOK
<1>10. ThreadType'
  BY <1>1, <1>8, ReturnType DEF TypeOK
<1>11. reentrant' \in BOOLEAN /\ calls' \in 0 .. MaxCalls
  BY <1>1 DEF Return, TypeOK
<1> QED
  BY <1>1, <1>8, <1>9, <1>10, <1>11 DEF TypeOK

LEMMA DeallocateType ==
  ASSUME TypeOK, NEW t \in Threads, Deallocate(t)
  PROVE  TypeOK'
<1> DEFINE a == req[t].addr
<1>1. /\ pc[t] = "deallocate_pages" /\ Return(t) /\ UNCHANGED cached /\ handed' = handed
  BY DEF Deallocate
<1>2. a \in handed /\ a \in Address
  BY <1>1 DEF TypeOK, ThreadType, Deallocating
<1>3. a.segment_id \in Nat /\ a.page_id \in Nat
  BY <1>2 DEF Address
<1> HIDE DEF a
<1>4. segments' \in Seq(Segment) /\ TableType' /\ PermissionType' /\ recycled' \subseteq Nat
  <2>1. CASE UNCHANGED <<segments, table, permissions, recycled>>
    <3>1. UNCHANGED <<segments, pages, free_pages, next_page_id, permissions, recycled>>
      BY <2>1 DEF table
    <3> QED
      BY <1>1, <3>1 DEF TypeOK, TableType, PermissionType
  <2>2. CASE /\ a.segment_id < Len(segments)
             /\ segments' = RemoveAt(segments, a.segment_id + 1)
             /\ FreePage(a.page_id)
             /\ permissions' = Restrict(permissions, DOMAIN permissions \ {a})
    <3>1. a.segment_id + 1 \in 1 .. Len(segments)
      BY <1>3, <2>2, LenProperties DEF TypeOK
    <3>2. segments' \in Seq(Segment)
      BY <2>2, <3>1, RemoveAtProperties DEF TypeOK
    <3>3. TableType'
      BY <1>3, <2>2, FreePageType DEF TypeOK
    <3>4. PermissionType'
      BY <1>1, <2>2 DEF TypeOK, PermissionType, Restrict
    <3>5. recycled' \subseteq Nat
      BY <1>3, <2>2 DEF TypeOK, FreePage
    <3> QED
      BY <3>2, <3>3, <3>4, <3>5
  <2> QED
    BY <2>1, <2>2 DEF Deallocate, a
<1>5. CacheType' /\ ThreadType'
  BY <1>1, CacheStays, ReturnType DEF TypeOK
<1> QED
  BY <1>1, <1>4, <1>5 DEF TypeOK, Return

LEMMA AccessType ==
  ASSUME TypeOK, NEW t \in Threads, pc[t] \in Accessing
  PROVE  /\ req[t].addr \in handed /\ req[t].fits \in BOOLEAN /\ req[t].value \in Contents
         /\ req[t].addr.page_id \in Nat
BY DEF TypeOK, ThreadType, Access, Address

\* The steps of read and write.
LEMMA AccessStepType ==
  ASSUME TypeOK, NEW t \in Threads,
         \/ ReadCached(t) \/ CheckPermission(t) \/ ReadPage(t) \/ ReadInsert(t)
         \/ WritePage(t) \/ WriteInvalidate(t)
  PROVE  TypeOK'
<1> DEFINE a == req[t].addr
<1>1. /\ UNCHANGED <<segments, free_pages, next_page_id, permissions, handed, recycled>>
      /\ reentrant' = reentrant /\ calls' = calls
      /\ pc[t] \in Accessing
  BY DEF ReadCached, CheckPermission, ReadPage, ReadInsert, WritePage, WriteInvalidate,
         Return, GoTo, table, history, Accessing
<1>2. /\ a \in handed /\ a.page_id \in Nat
      /\ req[t].fits \in BOOLEAN /\ req[t].value \in Contents
  BY <1>1, AccessType
<1> HIDE DEF a
<1>3. PermissionType'
  BY <1>1, PermissionStays DEF TypeOK
<1>4. TableType'
  <2>1. CASE UNCHANGED pages
    BY <1>1, <2>1 DEF TypeOK, TableType
  <2>2. CASE pages' = [pages EXCEPT ![a.page_id] = req[t].value]
    BY <1>1, <1>2, <2>2 DEF TypeOK, TableType
  <2> QED
    BY <2>1, <2>2 DEF ReadCached, CheckPermission, ReadPage, ReadInsert, WritePage,
                      WriteInvalidate, table, a
<1>5. CacheType'
  <2>1. CASE UNCHANGED cached
    BY <1>1, <2>1, CacheStays DEF TypeOK
  <2>2. CASE Touch(a)
    BY <1>1, <1>2, <2>2, TouchType DEF TypeOK
  <2>3. CASE CacheInsert(a, req[t].value)
    BY <1>1, <1>2, <2>3, InsertType DEF TypeOK
  <2>4. CASE CacheRemove(a)
    BY <1>1, <2>4, RemoveType DEF TypeOK
  <2> QED
    BY <2>1, <2>2, <2>3, <2>4 DEF ReadCached, CheckPermission, ReadPage, ReadInsert,
                                  WritePage, WriteInvalidate, a
<1>6. ThreadType'
  <2>1. CASE Return(t)
    BY <1>1, <2>1, ReturnType DEF TypeOK
  <2>2. CASE \E at \in Accessing : GoTo(t, at)
    BY <1>1, <2>2, GoToType DEF TypeOK
  <2>3. CASE /\ ~PageFault(t)
             /\ pc' = [pc EXCEPT ![t] = "read_insert"]
             /\ req' = [req EXCEPT ![t].value = pages[req[t].addr.page_id]]
    <3>1. pages[req[t].addr.page_id] \in Contents
      BY <2>3 DEF TypeOK, TableType, PageFault
    <3>2. /\ pc' \in [Threads -> {"idle"} \cup Allocating \cup Deallocating \cup Accessing]
          /\ DOMAIN req' = Threads
      BY <2>3 DEF TypeOK, ThreadType, Accessing
    <3>3. req'[t] \in Access
      <4>1. req[t] \in Access /\ DOMAIN req = Threads
        BY <1>1 DEF TypeOK, ThreadType
      <4> QED
        BY <2>3, <3>1, <4>1 DEF Access
    <3>4. pc'[t] = "read_insert"
      BY <2>3 DEF TypeOK, ThreadType
    <3>5. \A u \in Threads \ {t} : pc'[u] = pc[u] /\ req'[u] = req[u]
      BY <2>3 DEF TypeOK, ThreadType
    <3>6. Access' = Access
      BY <1>1 DEF Access
    <3>7. ASSUME NEW u \in Threads
          PROVE  /\ pc'[u] \in Allocating => req'[u] \in [value : Sizes]
                 /\ pc'[u] \in Deallocating => req'[u] \in [addr : handed]
                 /\ pc'[u] \in Accessing => req'[u] \in Access
      <4>1. CASE u = t
        BY <3>3, <3>4, <4>1 DEF Allocating, Deallocating
      <4>2. CASE u # t
        BY <3>5, <4>2 DEF TypeOK, ThreadType
      <4> QED
        BY <4>1, <4>2
    <3> QED
      BY <1>1, <3>2, <3>6, <3>7 DEF ThreadType
  <2>4. {"read_check", "read_page", "write_page", "write_invalidate"} \subseteq Accessing
    BY DEF Accessing
  <2> QED
    BY <2>1, <2>2, <2>3, <2>4 DEF ReadCached, CheckPermission, ReadPage, ReadInsert,
                                  WritePage, WriteInvalidate
<1>7. segments' \in Seq(Segment) /\ handed' \subseteq Address /\ recycled' \subseteq Nat
  BY <1>1 DEF TypeOK
<1>8. reentrant' \in BOOLEAN /\ calls' \in 0 .. MaxCalls
  BY <1>1 DEF TypeOK
<1> QED
  BY <1>3, <1>4, <1>5, <1>6, <1>7, <1>8 DEF TypeOK

LEMMA TypeStep == TypeOK /\ [Next]_vars => TypeOK'
<1> SUFFICES ASSUME TypeOK, [Next]_vars PROVE TypeOK'
  OBVIOUS
<1>1. CASE UNCHANGED vars
  BY <1>1 DEF vars, table, cached, history, TypeOK, TableType, CacheType,
              PermissionType, ThreadType, Access
<1>2. ASSUME NEW t \in Threads,
             CallAllocate(t) \/ CallDeallocate(t) \/ CallRead(t) \/ CallWrite(t)
      PROVE  TypeOK'
  <2>1. CASE CallAllocate(t)
    <3>1. PICK size \in Sizes : Call(t, "allocate", [value |-> size])
      BY <2>1 DEF CallAllocate
    <3> QED
      BY <3>1, CallType
  <2>2. CASE CallDeallocate(t)
    <3>1. PICK a \in handed : Call(t, "deallocate", [addr |-> a])
      BY <2>2 DEF CallDeallocate
    <3> QED
      BY <3>1, CallType
  <2>3. CASE CallRead(t)
    <3>1. PICK a \in handed, fits \in BOOLEAN :
            Call(t, "read", [addr |-> a, fits |-> fits, value |-> 0])
      BY <2>3 DEF CallRead
    <3>2. [addr |-> a, fits |-> fits, value |-> 0] \in Access
      BY MemoryAssumption DEF Access
    <3> QED
      BY <3>1, <3>2, CallType
  <2>4. CASE CallWrite(t)
    <3>1. PICK a \in handed, fits \in BOOLEAN, v \in Contents :
            Call(t, "write", [addr |-> a, fits |-> fits, value |-> v])
      BY <2>4 DEF CallWrite
    <3>2. [addr |-> a, fits |-> fits, value |-> v] \in Access
      BY DEF Access
    <3> QED
      BY <3>1, <3>2, CallType
  <2> QED
    BY <1>2, <2>1, <2>2, <2>3, <2>4
<1>3. ASSUME NEW t \in Threads, Protect(t)
      PROVE  TypeOK'
  <2>1. /\ UNCHANGED <<segments, pages, free_pages, next_page_id, cache, lru>>
        /\ UNCHANGED <<pc, req, reentrant, handed, recycled>>
    BY <1>3 DEF Protect, table, cached, history
  <2>2. PermissionType'
    BY <1>3, <2>1, GrantType DEF Protect, TypeOK
  <2>3. calls' \in 0 .. MaxCalls
    BY <1>3, MemoryAssumption DEF Protect, TypeOK
  <2> QED
    BY <2>1, <2>2, <2>3 DEF TypeOK, TableType, CacheType, ThreadType, Access
<1>4. ASSUME NEW t \in Threads, LockSegments(t) \/ LockPages(t)
      PROVE  TypeOK'
  <2>1. /\ UNCHANGED <<segments, pages, free_pages, next_page_id, permissions, cache, lru>>
        /\ UNCHANGED <<reentrant, calls, handed, recycled>>
    BY <1>4 DEF LockSegments, LockPages, GoTo, table, cached, history
  <2>2. \/ pc[t] \in Allocating /\ \E at \in Allocating : GoTo(t, at)
        \/ pc[t] \in Deallocating /\ \E at \in Deallocating : GoTo(t, at)
    BY <1>4 DEF LockSegments, LockPages, Allocating, Deallocating
  <2>3. ThreadType'
    BY <2>1, <2>2, GoToType DEF TypeOK
  <2> QED
    BY <2>1, <2>3 DEF TypeOK, TableType, CacheType, PermissionType
<1> QED
  BY <1>1, <1>2, <1>3, <1>4, AllocateType, DeallocateType, AccessStepType DEF Next, Step

LEMMA TypeInit == Init => TypeOK
<1> SUFFICES ASSUME Init PROVE TypeOK
  OBVIOUS
<1>1. \A S : <<>> \in Seq(S)
  BY EmptySeq
<1>2. DOMAIN pages = {} /\ DOMAIN permissions = {} /\ DOMAIN cache = {}
  BY DEF Init
<1>3. TableType /\ CacheType /\ PermissionType
  BY <1>1, <1>2, MemoryAssumption DEF Init, TableType, CacheType, PermissionType
<1>4. ThreadType
  BY DEF Init, ThreadType, Allocating, Deallocating, Accessing
<1> QED
  BY <1>1, <1>3, <1>4, MemoryAssumption DEF Init, TypeOK

\* Every variable of the memory manager stays in its type; every address that is
\* cached, listed, protected or worked on was handed out by allocate.
THEOREM TypeCorrect == Spec => []TypeOK
BY TypeInit, TypeStep, PTL DEF Spec

-----------------------------------------------------------------------------
(* Pages, and what is cached of them.                                      *)

\* A thread that writes pages excludes all others that read or write them.
PagesLocked ==
  \A t, u \in Threads : WritesPages(t) /\ (WritesPages(u) \/ ReadsPages(u)) => t = u

\* Addresses that share a page share one that was freed in between.
OneAddressPerPage ==
  \A a, b \in handed : a.page_id = b.page_id /\ a.page_id \notin recycled => a = b

\* A page handed out is in the table until it is freed.
HandedLive ==
  \A a \in handed :
    /\ a.page_id < next_page_id
    /\ a.page_id \notin recycled => a.page_id \in DOMAIN pages

FreeWereRecycled == \A i \in DOMAIN free_pages : free_pages[i] \in recycled

\* What a reader is about to cache is what the page still holds.
ReaderUpToDate ==
  \A t \in Threads :
    pc[t] = "read_insert" /\ req[t].addr.page_id \notin recycled =>
      /\ req[t].addr.page_id \in DOMAIN pages
      /\ req[t].value = pages[req[t].addr.page_id]

PagesInv == PagesAccounted /\ OneAddressPerPage /\ HandedLive /\ FreeWereRecycled
CacheInv == PagesLocked /\ ReaderUpToDate /\ CacheCoherent

LEMMA AllocatePagesAccounted ==
  ASSUME TypeOK, PagesInv, NEW n \in Nat, Obtainable(n), AllocatePages(n), recycled' = recycled
  PROVE  /\ PagesAccounted' /\ FreeWereRecycled'
         /\ next_page_id' >= next_page_id
         /\ DOMAIN pages \subseteq DOMAIN pages'
         /\ \A p \in DOMAIN pages : pages'[p] = pages[p]
         /\ n >= 1 =>
              /\ FirstPage \in DOMAIN pages' /\ FirstPage < next_page_id'
              /\ FirstPage \in recycled \/ FirstPage = next_page_id
<1> DEFINE L == Len(free_pages)
           r == Reused(n)
           new == next_page_id .. next_page_id + (n - r) - 1
           old == {free_pages[i] : i \in L - r + 1 .. L}
           kept == {free_pages[i] : i \in 1 .. L - r}
<1>1. /\ L \in Nat /\ r \in 0 .. L /\ r <= n
      /\ next_page_id \in Nat
      /\ next_page_id' = next_page_id + (n - r) /\ next_page_id' \in Nat
  BY ReusedType, MemoryAssumption DEF TypeOK, TableType, AllocatePages
<1>2. /\ DOMAIN free_pages = 1 .. L
      /\ \A i \in 1 .. L : free_pages[i] \in Nat
  BY LenProperties, ElementOfSeq DEF TypeOK, TableType
<1>3. /\ free_pages' \in Seq(Nat) /\ Len(free_pages') = L - r
      /\ DOMAIN free_pages' = 1 .. L - r
      /\ \A i \in 1 .. L - r : free_pages'[i] = free_pages[i]
  <2>1. \A i \in 1 .. L - r : free_pages[i] \in Nat
    BY <1>1, <1>2
  <2>2. /\ SubSeq(free_pages, 1, L - r) \in Seq(Nat)
        /\ Len(SubSeq(free_pages, 1, L - r)) = IF 1 <= L - r THEN L - r - 1 + 1 ELSE 0
        /\ \A i \in 1 .. L - r - 1 + 1 :
             SubSeq(free_pages, 1, L - r)[i] = free_pages[1 + i - 1]
    BY <1>1, <2>1, SubSeqProperties
  <2>3. free_pages' = SubSeq(free_pages, 1, L - r)
    BY DEF AllocatePages
  <2>4. free_pages' \in Seq(Nat) /\ Len(free_pages') = L - r
    BY <1>1, <2>2, <2>3
  <2>5. DOMAIN free_pages' = 1 .. L - r
    BY <2>4, LenProperties
  <2>6. ASSUME NEW i \in 1 .. L - r PROVE free_pages'[i] = free_pages[i]
    <3>1. i \in 1 .. L - r - 1 + 1 /\ 1 + i - 1 = i
      BY <1>1
    <3> QED
      BY <2>2, <2>3, <3>1
  <2> QED
    BY <2>4, <2>5, <2>6
<1>4. /\ pages' = [p \in DOMAIN pages \cup old \cup new |->
                     IF p \in old \cup new THEN 0 ELSE pages[p]]
      /\ DOMAIN pages' = DOMAIN pages \cup old \cup new
  BY DEF AllocatePages, Obtained
<1>5. /\ \A i, j \in 1 .. L : free_pages[i] = free_pages[j] => i = j
      /\ \A i \in 1 .. L : free_pages[i] \notin DOMAIN pages /\ free_pages[i] \in recycled
      /\ DOMAIN pages \cup {free_pages[i] : i \in 1 .. L} = 0 .. next_page_id - 1
  BY <1>2 DEF PagesInv, PagesAccounted, FreeWereRecycled
<1> HIDE DEF L, r, old, new, kept
<1>6. /\ old \cup kept = {free_pages[i] : i \in 1 .. L}
      /\ old \cap kept = {}
      /\ kept = {free_pages'[i] : i \in 1 .. L - r}
  <2>1. old \cup kept = {free_pages[i] : i \in 1 .. L}
    BY <1>1 DEF old, kept
  <2>2. old \cap kept = {}
    BY <1>1, <1>5 DEF old, kept
  <2>3. kept = {free_pages'[i] : i \in 1 .. L - r}
    BY <1>3 DEF kept
  <2> QED
    BY <2>1, <2>2, <2>3
<1>7. old \cap DOMAIN pages = {} /\ kept \cap DOMAIN pages = {}
  BY <1>5, <1>6
<1>8. /\ (0 .. next_page_id - 1) \cap new = {}
      /\ (0 .. next_page_id - 1) \cup new = 0 .. next_page_id' - 1
  BY <1>1 DEF new
<1>9. PagesAccounted'
  <2>1. \A i, j \in 1 .. L - r : free_pages'[i] = free_pages'[j] => i = j
    BY <1>1, <1>3, <1>5
  <2>2. kept \cap DOMAIN pages' = {}
    BY <1>4, <1>5, <1>6, <1>7, <1>8
  <2>3. DOMAIN pages' \cup kept = 0 .. next_page_id' - 1
    BY <1>4, <1>5, <1>6, <1>8
  <2> QED
    BY <1>3, <1>6, <2>1, <2>2, <2>3 DEF PagesAccounted
<1>10. FreeWereRecycled'
  BY <1>1, <1>3, <1>5 DEF FreeWereRecycled
<1>11. DOMAIN pages \subseteq DOMAIN pages' /\ \A p \in DOMAIN pages : pages'[p] = pages[p]
  <2>1. \A p \in DOMAIN pages : p \notin old /\ p \notin new
    BY <1>5, <1>7, <1>8
  <2> QED
    BY <1>4, <2>1
<1>12. ASSUME n >= 1
       PROVE  /\ FirstPage \in DOMAIN pages' /\ FirstPage < next_page_id'
              /\ FirstPage \in recycled \/ FirstPage = next_page_id
  <2>1. CASE free_pages = <<>>
    <3>1. L = 0 /\ r = 0 /\ FirstPage = next_page_id
      BY <1>1, <2>1, EmptySeq DEF FirstPage, L
    <3>2. next_page_id \in new /\ next_page_id < next_page_id'
      BY <1>1, <1>12, <3>1 DEF new
    <3> QED
      BY <1>4, <3>1, <3>2
  <2>2. CASE free_pages # <<>>
    <3>1. L \in 1 .. L /\ r >= 1
      BY <1>1, <1>12, <2>2, EmptySeq DEF TypeOK, TableType, L, r, Reused
    <3>2. FirstPage = free_pages[L]
      BY <2>2 DEF FirstPage, Last, L
    <3>3. FirstPage \in old /\ FirstPage \in recycled
      BY <1>1, <1>5, <3>1, <3>2 DEF old
    <3>4. FirstPage \in 0 .. next_page_id - 1
      BY <1>5, <3>1, <3>2
    <3> QED
      BY <1>1, <1>4, <3>3, <3>4
  <2> QED
    BY <2>1, <2>2
<1> QED
  BY <1>1, <1>9, <1>10, <1>11, <1>12

LEMMA FreePageAccounted ==
  ASSUME TypeOK, PagesInv, NEW p \in Nat, FreePage(p)
  PROVE  /\ PagesAccounted' /\ FreeWereRecycled'
         /\ \A q \in DOMAIN pages : q # p => q \in DOMAIN pages' /\ pages'[q] = pages[q]
<1> DEFINE L == Len(free_pages)
<1>1. /\ L \in Nat /\ DOMAIN free_pages = 1 .. L
      /\ DOMAIN pages' = DOMAIN pages \ {p}
      /\ next_page_id' = next_page_id /\ recycled' = recycled \cup {p}
  BY LenProperties DEF TypeOK, TableType, FreePage, Restrict
<1>2. \A q \in DOMAIN pages : q # p => q \in DOMAIN pages' /\ pages'[q] = pages[q]
  BY DEF FreePage, Restrict
<1>3. CASE p \notin DOMAIN pages
  <2>1. free_pages' = free_pages /\ DOMAIN pages' = DOMAIN pages
    BY <1>1, <1>3 DEF FreePage
  <2> QED
    BY <1>1, <1>2, <2>1 DEF PagesInv, PagesAccounted, FreeWereRecycled
<1>4. CASE p \in DOMAIN pages
  <2>1. free_pages' = Append(free_pages, p)
    BY <1>4 DEF FreePage
  <2>2. /\ free_pages' \in Seq(Nat) /\ Len(free_pages') = L + 1
        /\ \A i \in 1 .. L : free_pages'[i] = free_pages[i]
        /\ free_pages'[L + 1] = p
    BY <2>1, AppendProperties DEF TypeOK, TableType
  <2>3. DOMAIN free_pages' = 1 .. L + 1
    BY <2>2, LenProperties
  <2> HIDE DEF L
  <2>4. {free_pages'[i] : i \in 1 .. L + 1} = {free_pages[i] : i \in 1 .. L} \cup {p}
    <3>1. \A i \in 1 .. L + 1 : i \in 1 .. L \/ i = L + 1
      BY <1>1
    <3>2. \A i \in 1 .. L : i \in 1 .. L + 1
      BY <1>1
    <3>3. L + 1 \in 1 .. L + 1
      BY <1>1
    <3> QED
      BY <2>2, <3>1, <3>2, <3>3
  <2>5. /\ \A i, j \in 1 .. L : free_pages[i] = free_pages[j] => i = j
        /\ \A i \in 1 .. L : free_pages[i] \notin DOMAIN pages /\ free_pages[i] \in recycled
        /\ DOMAIN pages \cup {free_pages[i] : i \in 1 .. L} = 0 .. next_page_id - 1
    BY <1>1 DEF PagesInv, PagesAccounted, FreeWereRecycled
  <2>6. \A i \in 1 .. L : free_pages[i] # p
    BY <1>4, <2>5
  <2>7. \A i, j \in 1 .. L + 1 : free_pages'[i] = free_pages'[j] => i = j
    <3>1. \A i \in 1 .. L + 1 : i \in 1 .. L \/ i = L + 1
      BY <1>1
    <3> QED
      BY <2>2, <2>5, <2>6, <3>1
  <2>8. \A i \in 1 .. L + 1 : free_pages'[i] \notin DOMAIN pages' /\ free_pages'[i] \in recycled'
    <3>1. \A i \in 1 .. L + 1 : i \in 1 .. L \/ i = L + 1
      BY <1>1
    <3> QED
      BY <1>1, <2>2, <2>5, <3>1
  <2>9. DOMAIN pages' \cup {free_pages'[i] : i \in 1 .. L + 1} = 0 .. next_page_id' - 1
    BY <1>1, <1>4, <2>4, <2>5
  <2> QED
    BY <1>2, <2>3, <2>7, <2>8, <2>9 DEF PagesAccounted, FreeWereRecycled
<1> QED
  BY <1>3, <1>4

\* allocate leaves the pages that are in the table as they are.
LEMMA AllocateKeepsPages ==
  ASSUME TypeOK, PagesInv, NEW t \in Threads, Allocate(t)
  PROVE  /\ PagesInv'
         /\ handed \subseteq handed'
         /\ \A p \in DOMAIN pages : p \in DOMAIN pages' /\ pages'[p] = pages[p]
<1> DEFINE size == req[t].value
           n    == PagesNeeded(size)
           addr == [segment_id |-> Len(Collected), page_id |-> FirstPage]
           rest == Len(free_pages) + (MaxPageId - next_page_id)
<1>1. pc[t] = "collect" /\ recycled' = recycled
  BY DEF Allocate
<1>2. size \in Nat /\ n \in Nat /\ (size > 0 => n >= 1)
  <2>1. size \in Nat
    BY <1>1, MemoryAssumption DEF TypeOK, ThreadType, Allocating
  <2> QED
    BY <2>1, PagesNeededType
<1>3. rest \in Nat /\ Obtainable(rest)
  BY LenProperties, MemoryAssumption DEF TypeOK, TableType, Obtainable
<1>4. \A a \in handed : a.page_id \in Nat /\ a.page_id < next_page_id
  BY DEF TypeOK, Address, PagesInv, HandedLive
<1>5. next_page_id \in Nat
  BY DEF TypeOK, TableType
<1> HIDE DEF size, n, rest
<1>6. CASE UNCHANGED <<table, permissions, handed>>
  <2>1. UNCHANGED <<pages, free_pages, next_page_id, handed, recycled>>
    BY <1>1, <1>6 DEF table
  <2> QED
    BY <2>1 DEF PagesInv, PagesAccounted, OneAddressPerPage, HandedLive, FreeWereRecycled
<1>7. CASE AllocatePages(rest) /\ UNCHANGED <<permissions, handed>>
  <2>1. /\ PagesAccounted' /\ FreeWereRecycled'
        /\ next_page_id' >= next_page_id
        /\ DOMAIN pages \subseteq DOMAIN pages'
        /\ \A p \in DOMAIN pages : pages'[p] = pages[p]
    BY <1>1, <1>3, <1>7, AllocatePagesAccounted
  <2>2. next_page_id' \in Nat
    BY <1>3, <1>7, AllocatePagesType DEF TypeOK, TableType
  <2>3. HandedLive'
    BY <1>1, <1>4, <1>5, <1>7, <2>1, <2>2 DEF PagesInv, HandedLive
  <2>4. OneAddressPerPage'
    BY <1>1, <1>7 DEF PagesInv, OneAddressPerPage
  <2> QED
    BY <1>7, <2>1, <2>3, <2>4 DEF PagesInv
<1>8. CASE /\ size > 0 /\ Obtainable(n) /\ AllocatePages(n)
           /\ handed' = handed \cup {addr}
  <2>1. /\ PagesAccounted' /\ FreeWereRecycled'
        /\ next_page_id' >= next_page_id
        /\ DOMAIN pages \subseteq DOMAIN pages'
        /\ \A p \in DOMAIN pages : pages'[p] = pages[p]
        /\ FirstPage \in DOMAIN pages' /\ FirstPage < next_page_id'
        /\ FirstPage \in recycled \/ FirstPage = next_page_id
    BY <1>1, <1>2, <1>8, AllocatePagesAccounted
  <2>2. next_page_id' \in Nat
    BY <1>2, <1>8, AllocatePagesType DEF TypeOK, TableType
  <2>3. addr.page_id = FirstPage
    OBVIOUS
  <2> HIDE DEF addr
  <2>4. ASSUME NEW a \in handed'
        PROVE  /\ a.page_id < next_page_id'
               /\ a.page_id \notin recycled' => a.page_id \in DOMAIN pages'
    <3>1. CASE a = addr
      BY <2>1, <2>3, <3>1
    <3>2. CASE a \in handed
      BY <1>1, <1>4, <1>5, <2>1, <2>2, <3>2 DEF PagesInv, HandedLive
    <3> QED
      BY <1>8, <3>1, <3>2
  <2>5. ASSUME NEW a \in handed', NEW b \in handed',
               a.page_id = b.page_id, a.page_id \notin recycled'
        PROVE  a = b
    <3>1. CASE a \in handed /\ b \in handed
      BY <1>1, <2>5, <3>1 DEF PagesInv, OneAddressPerPage
    <3>2. CASE a = addr /\ b \in handed
      <4>1. b.page_id = next_page_id /\ b.page_id < next_page_id
        BY <1>1, <1>4, <2>1, <2>3, <2>5, <3>2
      <4> QED
        BY <1>5, <4>1
    <3>3. CASE a \in handed /\ b = addr
      <4>1. a.page_id = next_page_id /\ a.page_id < next_page_id
        BY <1>1, <1>4, <2>1, <2>3, <2>5, <3>3
      <4> QED
        BY <1>5, <4>1
    <3> QED
      BY <1>8, <3>1, <3>2, <3>3
  <2> QED
    BY <1>8, <2>1, <2>4, <2>5 DEF PagesInv, HandedLive, OneAddressPerPage
<1> QED
  BY <1>6, <1>7, <1>8 DEF Allocate, size, n, addr, rest

\* deallocate changes no page but one it puts on record as freed.
LEMMA DeallocateKeepsPages ==
  ASSUME TypeOK, PagesInv, NEW t \in Threads, Deallocate(t)
  PROVE  /\ PagesInv'
         /\ recycled \subseteq recycled' /\ handed' = handed
         /\ \A p \in DOMAIN pages :
              p \notin recycled' => p \in DOMAIN pages' /\ pages'[p] = pages[p]
<1> DEFINE a == req[t].addr
<1>1. pc[t] = "deallocate_pages" /\ handed' = handed
  BY DEF Deallocate
<1>2. a \in handed /\ a.page_id \in Nat
  BY <1>1 DEF TypeOK, ThreadType, Deallocating, Address
<1> HIDE DEF a
<1>3. CASE UNCHANGED <<segments, table, permissions, recycled>>
  <2>1. UNCHANGED <<pages, free_pages, next_page_id, handed, recycled>>
    BY <1>1, <1>3 DEF table
  <2> QED
    BY <2>1 DEF PagesInv, PagesAccounted, OneAddressPerPage, HandedLive, FreeWereRecycled
<1>4. CASE FreePage(a.page_id)
  <2>1. /\ PagesAccounted' /\ FreeWereRecycled'
        /\ \A q \in DOMAIN pages : q # a.page_id => q \in DOMAIN pages' /\ pages'[q] = pages[q]
    BY <1>2, <1>4, FreePageAccounted
  <2>2. recycled' = recycled \cup {a.page_id} /\ next_page_id' = next_page_id
    BY <1>4 DEF FreePage
  <2>3. HandedLive' /\ OneAddressPerPage'
    BY <1>1, <2>1, <2>2 DEF PagesInv, HandedLive, OneAddressPerPage
  <2> QED
    BY <1>1, <2>1, <2>2, <2>3 DEF PagesInv
<1> QED
  BY <1>3, <1>4 DEF Deallocate, a

\* Every other step leaves the numbering of the pages alone.
LEMMA OthersKeepNumbering ==
  ASSUME TypeOK, PagesInv, UNCHANGED <<free_pages, next_page_id, handed, recycled>>,
         DOMAIN pages' = DOMAIN pages
  PROVE  PagesInv'
BY DEF PagesInv, PagesAccounted, OneAddressPerPage, HandedLive, FreeWereRecycled

\* A step of a thread that neither fills the cache nor leaves it to be corrected,
\* and keeps the pages that were not freed.
LEMMA SteadyStep ==
  ASSUME TypeOK, CacheInv, NEW t \in Threads,
         \A u \in Threads \ {t} : pc'[u] = pc[u] /\ req'[u] = req[u],
         pc[t] # "write_invalidate", pc'[t] # "read_insert",
         cache' = cache, recycled \subseteq recycled',
         \A p \in DOMAIN pages :
           p \notin recycled' => p \in DOMAIN pages' /\ pages'[p] = pages[p]
  PROVE  ReaderUpToDate' /\ CacheCoherent'
<1>1. ASSUME NEW u \in Threads, pc'[u] = "read_insert",
             req'[u].addr.page_id \notin recycled'
      PROVE  /\ req'[u].addr.page_id \in DOMAIN pages'
             /\ req'[u].value = pages'[req'[u].addr.page_id]
  <2>1. u # t /\ pc[u] = "read_insert" /\ req'[u] = req[u]
    BY <1>1
  <2> QED
    BY <1>1, <2>1 DEF CacheInv, ReaderUpToDate
<1>2. ASSUME NEW a \in DOMAIN cache, a.page_id \notin recycled'
      PROVE  /\ a.page_id \in DOMAIN pages'
             /\ \/ cache[a] = pages'[a.page_id]
                \/ \E u \in Threads : pc'[u] = "write_invalidate" /\ req'[u].addr = a
  <2>1. /\ a.page_id \in DOMAIN pages
        /\ \/ cache[a] = pages[a.page_id]
           \/ \E u \in Threads : pc[u] = "write_invalidate" /\ req[u].addr = a
    BY <1>2 DEF CacheInv, CacheCoherent
  <2>2. a.page_id \in DOMAIN pages' /\ pages'[a.page_id] = pages[a.page_id]
    BY <1>2, <2>1
  <2>3. ASSUME NEW u \in Threads, pc[u] = "write_invalidate", req[u].addr = a
        PROVE  pc'[u] = "write_invalidate" /\ req'[u].addr = a
    <3>1. u # t
      BY <2>3
    <3> QED
      BY <2>3, <3>1
  <2> QED
    BY <2>1, <2>2, <2>3
<1> QED
  BY <1>1, <1>2 DEF ReaderUpToDate, CacheCoherent

\* Where a step takes its thread.
LEMMA ReturnMoves ==
  ASSUME TypeOK, NEW t \in Threads, Return(t)
  PROVE  /\ \A u \in Threads \ {t} : pc'[u] = pc[u] /\ req'[u] = req[u]
         /\ pc'[t] = "idle"
BY DEF TypeOK, ThreadType, Return

LEMMA GoToMoves ==
  ASSUME TypeOK, NEW t \in Threads, NEW at, GoTo(t, at)
  PROVE  /\ \A u \in Threads \ {t} : pc'[u] = pc[u]
         /\ \A u \in Threads : req'[u] = req[u]
         /\ pc'[t] = at
BY DEF TypeOK, ThreadType, GoTo

LEMMA CallMoves ==
  ASSUME TypeOK, NEW t \in Threads, NEW at, NEW request, Call(t, at, request)
  PROVE  /\ \A u \in Threads \ {t} : pc'[u] = pc[u] /\ req'[u] = req[u]
         /\ pc[t] = "idle" /\ pc'[t] = at
         /\ UNCHANGED <<pages, free_pages, next_page_id, cache, lru, handed, recycled>>
BY DEF TypeOK, ThreadType, Call, table, cached, history

LEMMA ReadPageMoves ==
  ASSUME TypeOK, NEW t \in Threads, ReadPage(t)
  PROVE  /\ \A u \in Threads \ {t} : pc'[u] = pc[u] /\ req'[u] = req[u]
         /\ \/ pc'[t] = "idle"
            \/ /\ pc'[t] = "read_insert" /\ req'[t].addr = req[t].addr
               /\ req[t].addr.page_id \in DOMAIN pages
               /\ req'[t].value = pages[req[t].addr.page_id]
<1>1. CASE Return(t)
  BY <1>1, ReturnMoves
<1>2. CASE /\ ~PageFault(t)
           /\ pc' = [pc EXCEPT ![t] = "read_insert"]
           /\ req' = [req EXCEPT ![t].value = pages[req[t].addr.page_id]]
  <2>1. req[t] \in Access
    BY DEF TypeOK, ThreadType, ReadPage, Accessing
  <2> QED
    BY <1>2, <2>1 DEF TypeOK, ThreadType, PageFault, Access
<1> QED
  BY <1>1, <1>2 DEF ReadPage

\* Only a thread that found the page table free gets to write it, and only one
\* that found no writer to read it.
LEMMA LockStep ==
  ASSUME TypeOK, PagesLocked, NEW t \in Threads,
         \A u \in Threads \ {t} : pc'[u] = pc[u],
         \/ pc'[t] \notin {"collect", "write_invalidate", "read_insert"}
         \/ pc'[t] \in {"collect", "write_invalidate"} /\ PagesFree
         \/ pc'[t] = "read_insert" /\ PagesReadable
  PROVE  PagesLocked'
<1> SUFFICES ASSUME NEW u \in Threads, NEW w \in Threads,
                    pc'[u] \in {"collect", "write_invalidate"},
                    pc'[w] \in {"collect", "write_invalidate", "read_insert"}
             PROVE  u = w
  BY DEF PagesLocked, WritesPages, ReadsPages
<1>1. CASE u # t /\ w # t
  BY <1>1 DEF PagesLocked, WritesPages, ReadsPages
<1>2. CASE u = t /\ w # t
  BY <1>2 DEF PagesFree, WritesPages, ReadsPages
<1>3. CASE u # t /\ w = t
  BY <1>3 DEF PagesFree, PagesReadable, WritesPages, ReadsPages
<1> QED
  BY <1>1, <1>2, <1>3

LEMMA InsertStep ==
  ASSUME TypeOK, PagesInv, CacheInv, NEW t \in Threads, ReadInsert(t)
  PROVE  PagesInv' /\ CacheInv'
<1> DEFINE a == req[t].addr
<1>1. /\ UNCHANGED <<pages, free_pages, next_page_id, handed, recycled>>
      /\ pc[t] = "read_insert" /\ pc'[t] = "idle"
      /\ \A u \in Threads \ {t} : pc'[u] = pc[u] /\ req'[u] = req[u]
      /\ CacheInsert(a, req[t].value)
  BY ReturnMoves DEF ReadInsert, table, history
<1> HIDE DEF a
<1>2. PagesInv'
  BY <1>1, OthersKeepNumbering
<1>3. PagesLocked'
  BY <1>1, LockStep DEF CacheInv
<1>4. ReaderUpToDate'
  BY <1>1 DEF CacheInv, ReaderUpToDate
<1>5. ASSUME NEW b \in DOMAIN cache', b.page_id \notin recycled'
      PROVE  /\ b.page_id \in DOMAIN pages'
             /\ \/ cache'[b] = pages'[b.page_id]
                \/ \E u \in Threads : pc'[u] = "write_invalidate" /\ req'[u].addr = b
  <2>1. CASE b = a
    <3>1. cache'[b] = req[t].value
      BY <1>1, <2>1 DEF CacheInsert
    <3> QED
      BY <1>1, <1>5, <2>1, <3>1 DEF CacheInv, ReaderUpToDate, a
  <2>2. CASE b # a
    <3>1. b \in DOMAIN cache /\ cache'[b] = cache[b]
      BY <1>1, <1>5, <2>2 DEF CacheInsert, Kept
    <3>2. \A u \in Threads : pc[u] = "write_invalidate" => u # t
      BY <1>1
    <3> QED
      BY <1>1, <1>5, <3>1, <3>2 DEF CacheInv, CacheCoherent
  <2> QED
    BY <2>1, <2>2
<1> QED
  BY <1>2, <1>3, <1>4, <1>5 DEF CacheInv, CacheCoherent

LEMMA WriteStep ==
  ASSUME TypeOK, PagesInv, CacheInv, NEW t \in Threads, WritePage(t), ~PageFault(t)
  PROVE  PagesInv' /\ CacheInv'
<1> DEFINE a == req[t].addr
<1>1. /\ UNCHANGED <<free_pages, next_page_id, handed, recycled, cache>>
      /\ pc[t] = "write_page" /\ PagesFree
      /\ GoTo(t, "write_invalidate")
      /\ pages' = [pages EXCEPT ![a.page_id] = req[t].value]
      /\ a.page_id \in DOMAIN pages
  BY DEF WritePage, PageFault, cached, history
<1>2. /\ \A u \in Threads \ {t} : pc'[u] = pc[u]
      /\ \A u \in Threads : req'[u] = req[u]
      /\ pc'[t] = "write_invalidate"
  BY <1>1, GoToMoves
<1>3. a \in handed
  BY <1>1, AccessType DEF Accessing
<1> HIDE DEF a
<1>4. PagesInv'
  BY <1>1, OthersKeepNumbering
<1>5. PagesLocked'
  BY <1>1, <1>2, LockStep DEF CacheInv
<1>6. ReaderUpToDate'
  <2>1. \A u \in Threads : pc'[u] # "read_insert"
    BY <1>1, <1>2 DEF PagesFree, ReadsPages
  <2> QED
    BY <2>1 DEF ReaderUpToDate
<1>7. ASSUME NEW b \in DOMAIN cache, b.page_id \notin recycled
      PROVE  /\ b.page_id \in DOMAIN pages'
             /\ \/ cache[b] = pages'[b.page_id]
                \/ \E u \in Threads : pc'[u] = "write_invalidate" /\ req'[u].addr = b
  <2>1. CASE b = a
    BY <1>1, <1>2, <2>1 DEF a
  <2>2. CASE b # a
    <3>1. b.page_id # a.page_id
      BY <1>3, <1>7, <2>2 DEF TypeOK, CacheType, PagesInv, OneAddressPerPage
    <3>2. DOMAIN pages' = DOMAIN pages /\ pages'[b.page_id] = pages[b.page_id]
      BY <1>1, <3>1 DEF TypeOK, TableType
    <3>3. \A u \in Threads : pc[u] = "write_invalidate" => pc'[u] = "write_invalidate"
      BY <1>1, <1>2
    <3> QED
      BY <1>2, <1>7, <3>2, <3>3 DEF CacheInv, CacheCoherent
  <2> QED
    BY <2>1, <2>2
<1> QED
  BY <1>1, <1>4, <1>5, <1>6, <1>7 DEF CacheInv, CacheCoherent

LEMMA InvalidateStep ==
  ASSUME TypeOK, PagesInv, CacheInv, NEW t \in Threads, WriteInvalidate(t)
  PROVE  PagesInv' /\ CacheInv'
<1> DEFINE a == req[t].addr
<1>1. /\ UNCHANGED <<pages, free_pages, next_page_id, handed, recycled>>
      /\ pc[t] = "write_invalidate" /\ pc'[t] = "idle"
      /\ \A u \in Threads \ {t} : pc'[u] = pc[u] /\ req'[u] = req[u]
      /\ DOMAIN cache' = DOMAIN cache \ {a}
      /\ \A b \in DOMAIN cache' : cache'[b] = cache[b]
  BY ReturnMoves DEF WriteInvalidate, CacheRemove, Restrict, table, history
<1>2. PagesInv'
  BY <1>1, OthersKeepNumbering
<1>3. PagesLocked'
  BY <1>1, LockStep DEF CacheInv
<1>4. ReaderUpToDate'
  BY <1>1 DEF CacheInv, ReaderUpToDate
<1>5. CacheCoherent'
  BY <1>1 DEF CacheInv, CacheCoherent
<1> QED
  BY <1>2, <1>3, <1>4, <1>5 DEF CacheInv

LEMMA CoherenceStep ==
  TypeOK /\ PagesInv /\ CacheInv /\ [Next]_vars => PagesInv' /\ CacheInv'
<1> SUFFICES ASSUME TypeOK, PagesInv, CacheInv, [Next]_vars
             PROVE  PagesInv' /\ CacheInv'
  OBVIOUS
<1>1. CASE UNCHANGED vars
  BY <1>1 DEF vars, table, cached, history, PagesInv, PagesAccounted, OneAddressPerPage,
              HandedLive, FreeWereRecycled, CacheInv, PagesLocked, ReaderUpToDate,
              CacheCoherent, WritesPages, ReadsPages
<1>2. ASSUME NEW t \in Threads, NEW at, NEW request, Call(t, at, request),
             at \in {"allocate", "deallocate", "read", "write"}
      PROVE  PagesInv' /\ CacheInv'
  <2>1. /\ \A u \in Threads \ {t} : pc'[u] = pc[u] /\ req'[u] = req[u]
        /\ pc[t] = "idle" /\ pc'[t] = at
        /\ UNCHANGED <<pages, free_pages, next_page_id, cache, lru, handed, recycled>>
    BY <1>2, CallMoves
  <2>2. ReaderUpToDate' /\ CacheCoherent'
    BY <1>2, <2>1, SteadyStep
  <2>3. PagesLocked'
    BY <1>2, <2>1, LockStep DEF CacheInv
  <2> QED
    BY <2>1, <2>2, <2>3, OthersKeepNumbering DEF CacheInv
<1>3. ASSUME NEW t \in Threads,
             CallAllocate(t) \/ CallDeallocate(t) \/ CallRead(t) \/ CallWrite(t)
      PROVE  PagesInv' /\ CacheInv'
  BY <1>2, <1>3 DEF CallAllocate, CallDeallocate, CallRead, CallWrite
<1>4. ASSUME NEW t \in Threads, Protect(t)
      PROVE  PagesInv' /\ CacheInv'
  <2>1. UNCHANGED <<pages, free_pages, next_page_id, cache, pc, req, handed, recycled>>
    BY <1>4 DEF Protect, table, cached, history
  <2> QED
    BY <2>1 DEF PagesInv, PagesAccounted, OneAddressPerPage, HandedLive, FreeWereRecycled,
                CacheInv, PagesLocked, ReaderUpToDate, CacheCoherent, WritesPages, ReadsPages
<1>5. ASSUME NEW t \in Threads, NEW at, GoTo(t, at),
             UNCHANGED <<pages, free_pages, next_page_id, cache, handed, recycled>>,
             pc[t] # "write_invalidate",
             \/ at \notin {"collect", "write_invalidate", "read_insert"}
             \/ at = "collect" /\ PagesFree
      PROVE  PagesInv' /\ CacheInv'
  <2>1. /\ \A u \in Threads \ {t} : pc'[u] = pc[u] /\ req'[u] = req[u]
        /\ pc'[t] = at
    BY <1>5, GoToMoves
  <2>2. ReaderUpToDate' /\ CacheCoherent'
    BY <1>5, <2>1, SteadyStep
  <2>3. PagesLocked'
    BY <1>5, <2>1, LockStep DEF CacheInv
  <2> QED
    BY <1>5, <2>2, <2>3, OthersKeepNumbering DEF CacheInv
<1>6. ASSUME NEW t \in Threads, Return(t), pc[t] # "write_invalidate",
             cache' = cache, recycled \subseteq recycled',
             \A p \in DOMAIN pages :
               p \notin recycled' => p \in DOMAIN pages' /\ pages'[p] = pages[p]
      PROVE  CacheInv'
  <2>1. /\ \A u \in Threads \ {t} : pc'[u] = pc[u] /\ req'[u] = req[u]
        /\ pc'[t] = "idle"
    BY <1>6, ReturnMoves
  <2>2. ReaderUpToDate' /\ CacheCoherent'
    BY <1>6, <2>1, SteadyStep
  <2>3. PagesLocked'
    BY <2>1, LockStep DEF CacheInv
  <2> QED
    BY <2>2, <2>3 DEF CacheInv
<1>7. ASSUME NEW t \in Threads, LockSegments(t) \/ LockPages(t)
      PROVE  PagesInv' /\ CacheInv'
  <2>1. UNCHANGED <<pages, free_pages, next_page_id, cache, handed, recycled>>
    BY <1>7 DEF LockSegments, LockPages, table, cached, history
  <2> QED
    BY <1>5, <1>7, <2>1 DEF LockSegments, LockPages
<1>8. ASSUME NEW t \in Threads, Allocate(t)
      PROVE  PagesInv' /\ CacheInv'
  <2>1. Return(t) /\ pc[t] = "collect" /\ cache' = cache /\ recycled' = recycled
    BY <1>8 DEF Allocate, cached
  <2> QED
    BY <1>6, <1>8, <2>1, AllocateKeepsPages
<1>9. ASSUME NEW t \in Threads, Deallocate(t)
      PROVE  PagesInv' /\ CacheInv'
  <2>1. Return(t) /\ pc[t] = "deallocate_pages" /\ cache' = cache
    BY <1>9 DEF Deallocate, cached
  <2> QED
    BY <1>6, <1>9, <2>1, DeallocateKeepsPages
<1>10. ASSUME NEW t \in Threads, ReadCached(t) \/ CheckPermission(t)
       PROVE  PagesInv' /\ CacheInv'
  <2>1. /\ UNCHANGED <<pages, free_pages, next_page_id, cache, handed, recycled>>
        /\ pc[t] # "write_invalidate"
    BY <1>10 DEF ReadCached, CheckPermission, Touch, table, cached, history
  <2>2. Return(t) \/ GoTo(t, "read_check") \/ GoTo(t, "read_page") \/ GoTo(t, "write_page")
    BY <1>10 DEF ReadCached, CheckPermission
  <2>3. CASE Return(t)
    BY <1>6, <2>1, <2>3, OthersKeepNumbering
  <2> QED
    BY <1>5, <2>1, <2>2, <2>3
<1>11. ASSUME NEW t \in Threads, ReadPage(t)
       PROVE  PagesInv' /\ CacheInv'
  <2>1. /\ UNCHANGED <<pages, free_pages, next_page_id, cache, handed, recycled>>
        /\ pc[t] = "read_page" /\ PagesReadable
    BY <1>11 DEF ReadPage, table, cached, history
  <2>2. CASE Return(t)
    BY <1>6, <2>1, <2>2, OthersKeepNumbering
  <2>3. CASE ~Return(t)
    <3>1. /\ \A u \in Threads \ {t} : pc'[u] = pc[u] /\ req'[u] = req[u]
          /\ pc'[t] = "idle" \/
               (/\ pc'[t] = "read_insert" /\ req'[t].addr = req[t].addr
                /\ req[t].addr.page_id \in DOMAIN pages
                /\ req'[t].value = pages[req[t].addr.page_id])
      BY <1>11, ReadPageMoves
    <3>2. PagesLocked'
      BY <2>1, <3>1, LockStep DEF CacheInv
    <3>3. ReaderUpToDate'
      BY <2>1, <3>1 DEF CacheInv, ReaderUpToDate
    <3>4. CacheCoherent'
      BY <2>1, <3>1 DEF CacheInv, CacheCoherent
    <3> QED
      BY <2>1, <3>2, <3>3, <3>4, OthersKeepNumbering DEF CacheInv
  <2> QED
    BY <2>2, <2>3
<1>12. ASSUME NEW t \in Threads, WritePage(t)
       PROVE  PagesInv' /\ CacheInv'
  <2>1. CASE ~PageFault(t)
    BY <1>12, <2>1, WriteStep
  <2>2. CASE PageFault(t)
    <3>1. /\ UNCHANGED <<pages, free_pages, next_page_id, cache, handed, recycled>>
          /\ pc[t] = "write_page" /\ Return(t)
      BY <1>12, <2>2 DEF WritePage, cached, history
    <3> QED
      BY <1>6, <3>1, OthersKeepNumbering
  <2> QED
    BY <2>1, <2>2
<1> QED
  BY <1>1, <1>3, <1>4, <1>7, <1>8, <1>9, <1>10, <1>11, <1>12, InsertStep, InvalidateStep
  DEF Next, Step

LEMMA CoherenceInit == Init => PagesInv /\ CacheInv
<1> SUFFICES ASSUME Init PROVE PagesInv /\ CacheInv
  OBVIOUS
<1>1. /\ DOMAIN free_pages = {} /\ DOMAIN pages = {} /\ DOMAIN cache = {}
      /\ handed = {} /\ next_page_id = 0 /\ \A t \in Threads : pc[t] = "idle"
  BY DEF Init
<1> QED
  BY <1>1 DEF PagesInv, PagesAccounted, OneAddressPerPage, HandedLive, FreeWereRecycled,
              CacheInv, PagesLocked, ReaderUpToDate, CacheCoherent, WritesPages, ReadsPages

LEMMA Coherence == Spec => [](PagesInv /\ CacheInv)
BY TypeCorrect, CoherenceInit, CoherenceStep, PTL DEF Spec

\* Every page number given out so far names a page of the table or waits on the
\* free list, once: allocate never gives out a page in use, although deallocate
\* takes addresses that were freed before.
THEOREM EveryPageAccounted == Spec => []PagesAccounted
<1>1. PagesInv => PagesAccounted
  BY DEF PagesInv
<1> QED
  BY <1>1, Coherence, PTL

\* What the cache answers for a page that was not freed is what the page table
\* holds, or a write is about to remove it: read and write of any number of
\* threads agree as long as no address is reused.
THEOREM CacheStaysCoherent == Spec => []CacheCoherent
<1>1. CacheInv => CacheCoherent
  BY DEF CacheInv
<1> QED
  BY <1>1, Coherence, PTL

-----------------------------------------------------------------------------
(* The order of use.                                                       *)

\* A sequence with an element put in front has that element and the others.
LEMMA InFront ==
  ASSUME NEW S, NEW s \in Seq(S), NEW a \in S
  PROVE  {a} \cup Elements(s) \subseteq Elements(<<a>> \o s)
<1>1. /\ <<a>> \in Seq(S) /\ Len(<<a>>) = 1 /\ <<a>>[1] = a
      /\ Len(s) \in Nat /\ DOMAIN s = 1 .. Len(s)
  BY SingletonSeq, LenProperties
<1>2. /\ <<a>> \o s \in Seq(S) /\ Len(<<a>> \o s) = 1 + Len(s)
      /\ \A i \in 1 .. 1 + Len(s) :
           (<<a>> \o s)[i] = IF i <= 1 THEN <<a>>[i] ELSE s[i - 1]
  BY <1>1, ConcatProperties
<1>3. DOMAIN (<<a>> \o s) = 1 .. 1 + Len(s)
  BY <1>2, LenProperties
<1>4. a \in Elements(<<a>> \o s)
  <2>1. 1 \in 1 .. 1 + Len(s) /\ (<<a>> \o s)[1] = a
    BY <1>1, <1>2
  <2> QED
    BY <1>3, <2>1 DEF Elements
<1>5. ASSUME NEW i \in 1 .. Len(s)
      PROVE  s[i] \in Elements(<<a>> \o s)
  <2>1. i + 1 \in 1 .. 1 + Len(s) /\ (<<a>> \o s)[i + 1] = s[i]
    BY <1>1, <1>2
  <2> QED
    BY <1>3, <2>1 DEF Elements
<1> QED
  BY <1>1, <1>4, <1>5 DEF Elements

LEMMA ListedStep == TypeOK /\ CachedAreListed /\ [Next]_vars => CachedAreListed'
<1> SUFFICES ASSUME TypeOK, CachedAreListed, [Next]_vars PROVE CachedAreListed'
  OBVIOUS
<1>1. CASE UNCHANGED cached
  BY <1>1 DEF cached, CachedAreListed, Listed
<1>2. ASSUME NEW a \in handed, Touch(a)
      PROVE  CachedAreListed'
  <2>1. Listed' = Elements(lru')
    BY DEF Listed, Elements
  <2>2. CASE a \notin Listed
    BY <1>2, <2>2 DEF Touch, CachedAreListed, Listed
  <2>3. CASE a \in Listed
    <3>1. Unlisted(a) \in Seq(handed) /\ Listed \ {a} \subseteq Elements(Unlisted(a))
      BY UnlistedProperties DEF TypeOK, CacheType
    <3>2. {a} \cup Elements(Unlisted(a)) \subseteq Elements(lru')
      BY <1>2, <2>3, <3>1, InFront DEF Touch
    <3> QED
      BY <1>2, <2>1, <3>1, <3>2 DEF Touch, CachedAreListed
  <2> QED
    BY <2>2, <2>3
<1>3. ASSUME NEW a \in handed, NEW v, CacheInsert(a, v)
      PROVE  CachedAreListed'
  <2>1. Ordered \in Seq(handed) /\ Kept \subseteq Elements(Ordered)
    <3>1. /\ Len(lru) \in Nat /\ DOMAIN lru = 1 .. Len(lru)
          /\ \A i \in 1 .. Len(lru) : lru[i] \in handed
      BY LenProperties, ElementOfSeq DEF TypeOK, CacheType
    <3>2. CASE ~Full
      BY <3>2 DEF Ordered, Kept, CachedAreListed, Listed, Elements, TypeOK, CacheType
    <3>3. CASE Full
      <4>1. /\ SubSeq(lru, 1, Len(lru) - 1) \in Seq(handed)
            /\ Len(SubSeq(lru, 1, Len(lru) - 1)) = Len(lru) - 1
            /\ \A i \in 1 .. Len(lru) - 1 : SubSeq(lru, 1, Len(lru) - 1)[i] = lru[i]
        <5>1. Len(lru) >= 1
          BY <3>1, <3>3, EmptySeq DEF Full, TypeOK, CacheType
        <5>2. \A i \in 1 .. Len(lru) - 1 : lru[i] \in handed
          BY <3>1
        <5>3. /\ SubSeq(lru, 1, Len(lru) - 1) \in Seq(handed)
              /\ Len(SubSeq(lru, 1, Len(lru) - 1))
                   = IF 1 <= Len(lru) - 1 THEN Len(lru) - 1 - 1 + 1 ELSE 0
              /\ \A i \in 1 .. Len(lru) - 1 - 1 + 1 :
                   SubSeq(lru, 1, Len(lru) - 1)[i] = lru[1 + i - 1]
          BY <3>1, <5>2, SubSeqProperties
        <5> QED
          BY <3>1, <5>1, <5>3
      <4>2. Ordered = SubSeq(lru, 1, Len(lru) - 1)
        BY <3>3 DEF Ordered, Front
      <4>3. DOMAIN Ordered = 1 .. Len(lru) - 1
        BY <4>1, <4>2, LenProperties
      <4>4. ASSUME NEW b \in Kept
            PROVE  b \in Elements(Ordered)
        <5>1. b \in DOMAIN cache /\ b # lru[Len(lru)]
          BY <3>3 DEF Kept, Last
        <5>2. PICK i \in 1 .. Len(lru) : lru[i] = b
          BY <3>1, <5>1 DEF CachedAreListed, Listed
        <5>3. i \in 1 .. Len(lru) - 1
          BY <3>1, <5>1, <5>2
        <5> QED
          BY <4>1, <4>2, <4>3, <5>2, <5>3 DEF Elements
      <4> QED
        BY <4>1, <4>2, <4>4
    <3> QED
      BY <3>2, <3>3
  <2>2. {a} \cup Elements(Ordered) \subseteq Elements(lru')
    BY <1>3, <2>1, InFront DEF CacheInsert
  <2>3. DOMAIN cache' = Kept \cup {a}
    BY <1>3 DEF CacheInsert
  <2> QED
    BY <2>1, <2>2, <2>3 DEF CachedAreListed, Listed, Elements
<1>4. ASSUME NEW a, CacheRemove(a)
      PROVE  CachedAreListed'
  <2>1. Listed \ {a} \subseteq Elements(Unlisted(a))
    BY UnlistedProperties DEF TypeOK, CacheType
  <2>2. DOMAIN cache' = DOMAIN cache \ {a} /\ lru' = Unlisted(a)
    BY <1>4 DEF CacheRemove, Restrict
  <2> QED
    BY <2>1, <2>2 DEF CachedAreListed, Listed, Elements
<1>5. ASSUME NEW t \in Threads,
             ReadCached(t) \/ ReadInsert(t) \/ WriteInvalidate(t)
      PROVE  CachedAreListed'
  <2>1. pc[t] \in Accessing
    BY <1>5 DEF ReadCached, ReadInsert, WriteInvalidate, Accessing
  <2>2. req[t].addr \in handed
    BY <2>1, AccessType
  <2> QED
    BY <1>2, <1>3, <1>4, <1>5, <2>2 DEF ReadCached, ReadInsert, WriteInvalidate
<1>6. ASSUME NEW t \in Threads,
             \/ CallAllocate(t) \/ CallDeallocate(t) \/ CallRead(t) \/ CallWrite(t)
             \/ Protect(t) \/ LockSegments(t) \/ LockPages(t) \/ Allocate(t)
             \/ Deallocate(t) \/ CheckPermission(t) \/ ReadPage(t) \/ WritePage(t)
      PROVE  UNCHANGED cached
  BY <1>6 DEF CallAllocate, CallDeallocate, CallRead, CallWrite, Call, Protect,
              LockSegments, LockPages, Allocate, Deallocate, CheckPermission, ReadPage,
              WritePage
<1>7. CASE UNCHANGED vars
  BY <1>1, <1>7 DEF vars
<1> QED
  BY <1>1, <1>5, <1>6, <1>7 DEF Next, Step

\* Every cached address is on the list of the order of use, so it can be evicted,
\* although concurrent readers may list it twice and writers take it off once.
THEOREM CachedStayListed == Spec => []CachedAreListed
<1>1. Init => CachedAreListed
  BY DEF Init, CachedAreListed
<1> QED
  BY <1>1, ListedStep, TypeCorrect, PTL DEF Spec

=============================================================================
