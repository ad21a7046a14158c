---------------------------- MODULE MemoryManager ----------------------------
(***************************************************************************)
(* The memory manager of src/src/memory: segments, page table, permissions *)
(* and the LRU cache of one MemoryManager that several threads call.       *)
(*                                                                         *)
(* The locks of segments and page table are held over several steps; who   *)
(* holds them follows from `pc`. Permissions, cache, collector and         *)
(* counters are locked for the length of a step. `reentrant` tells what a  *)
(* lock does when its own holder asks again: FALSE is what the locks of    *)
(* parking_lot, tokio and std do (they wait), TRUE what allocate needs.    *)
(***************************************************************************)
EXTENDS Integers, Sequences, FiniteSets, FiniteSetsExt, SequencesExt, Functions

CONSTANTS
  Threads,
  Sizes,        \* sizes segments are asked for, in bytes
  Contents,     \* what a page may hold; 0 is a page of zeros
  PageSize, GcThreshold, CacheSize,   \* MemoryConfig
  MaxPageId,    \* u32::MAX, the first page number that cannot be given out
  MaxCalls      \* bound: calls, by all threads

ASSUME MemoryAssumption ==
  /\ 0 \in Contents
  /\ Sizes \subseteq Nat
  /\ PageSize \in Nat \ {0}
  /\ {GcThreshold, CacheSize, MaxPageId, MaxCalls} \subseteq Nat

VARIABLES
  segments,       \* MemoryManager.segments
  pages,          \* PageTable.pages: what each page holds
  free_pages,     \* PageTable.free_pages
  next_page_id,   \* PageTable.next_page_id
  permissions,    \* MemoryManager.permissions
  cache, lru,     \* LRUCache; the front of lru is its first element
  pc, req,        \* where each thread stands, and what its call works on
  reentrant,
  calls,          \* calls so far
  handed,         \* history: addresses allocate returned
  recycled        \* history: pages that were freed

table   == <<pages, free_pages, next_page_id>>
cached  == <<cache, lru>>
history == <<handed, recycled>>
vars == <<segments, table, permissions, cached, pc, req, reentrant, calls, history>>

\* MemoryAddress has no public field: addresses come from allocate, which
\* makes them with offset 0.
Address    == [segment_id : Nat, page_id : Nat]
Permission == {"Read", "Write"}
Segment    == [size : Nat, root : BOOLEAN]
NoRequest  == <<>>

-----------------------------------------------------------------------------
(* Locks.                                                                  *)

HoldsSegments(t) == pc[t] \in {"allocate_pages", "collect", "deallocate_pages"}
WritesPages(t)   == pc[t] \in {"collect", "write_invalidate"}

\* Mutant of ReadsPages: read gives the page table back before it fills the cache.
ReadsNothing(t) == FALSE

\* Mutant of ReadsPages: write looks the page up first and keeps that guard.
ReadsToWrite(t) == pc[t] \in {"read_insert", "write_page"}

ReadsPages(t)    == pc[t] = "read_insert"

SegmentsFree  == \A t \in Threads : ~HoldsSegments(t)
PagesReadable == \A t \in Threads : ~WritesPages(t)
PagesFree     == \A t \in Threads : ~WritesPages(t) /\ ~ReadsPages(t)

\* The read lock that should_collect_garbage takes while t is in allocate.
MayReadSegments(t) ==
  /\ reentrant
  /\ \A u \in Threads \ {t} : ~HoldsSegments(u)

-----------------------------------------------------------------------------
(* Garbage collection, page table and LRU cache.                           *)

TotalMemory == MapThenSumSet(LAMBDA i : segments[i].size, DOMAIN segments)

\* Sweep removes at an index until the segment there was marked, by its old
\* index: from the first segment that is no root on, all are removed. Pages
\* are not freed.
Swept(segs) ==
  LET unmarked == {i \in DOMAIN segs : ~segs[i].root}
  IN  IF unmarked = {} THEN segs
      ELSE SubSeq(segs, 1, (CHOOSE i \in unmarked : \A j \in unmarked : i <= j) - 1)

Collected == IF TotalMemory >= GcThreshold THEN Swept(segments) ELSE segments

PagesNeeded(size) == (size + PageSize - 1) \div PageSize

\* Calling allocate_page n times: first free pages, the last one freed first,
\* then new ones.
Reused(n) == IF n <= Len(free_pages) THEN n ELSE Len(free_pages)

\* Mutant of Obtainable: the addition to next_page_id is not checked.
Unchecked(n) == n <= Len(free_pages) + (MaxPageId - next_page_id) + 1

Obtainable(n) == n <= Len(free_pages) + (MaxPageId - next_page_id)

FirstPage == IF free_pages # <<>> THEN Last(free_pages) ELSE next_page_id
Obtained(n) ==
  {free_pages[i] : i \in Len(free_pages) - Reused(n) + 1 .. Len(free_pages)}
    \cup (next_page_id .. next_page_id + (n - Reused(n)) - 1)

AllocatePages(n) ==
  /\ pages' = [p \in DOMAIN pages \cup Obtained(n) |->
                 IF p \in Obtained(n) THEN 0 ELSE pages[p]]
  /\ free_pages' = SubSeq(free_pages, 1, Len(free_pages) - Reused(n))
  /\ next_page_id' = next_page_id + (n - Reused(n))

\* Mutant of FreePage: a page that is not there is put on the list too.
FreeAnyPage(p) ==
  /\ pages' = Restrict(pages, DOMAIN pages \ {p})
  /\ free_pages' = Append(free_pages, p)
  /\ recycled' = recycled \cup {p}
  /\ UNCHANGED next_page_id

FreePage(p) ==
  /\ pages' = Restrict(pages, DOMAIN pages \ {p})
  /\ free_pages' = IF p \in DOMAIN pages THEN Append(free_pages, p) ELSE free_pages
  /\ recycled' = recycled \cup {p}
  /\ UNCHANGED next_page_id

Listed == {lru[i] : i \in DOMAIN lru}
Unlisted(a) == IF a \in Listed THEN RemoveFirst(lru, a) ELSE lru

\* Mutant of Touch: a hit takes the address off the list and not back to its front.
TakeOff(a) ==
  /\ lru' = Unlisted(a)
  /\ UNCHANGED cache

Touch(a) ==
  /\ lru' = IF a \in Listed THEN <<a>> \o Unlisted(a) ELSE lru
  /\ UNCHANGED cache

Full == Cardinality(DOMAIN cache) >= CacheSize /\ lru # <<>>

Kept    == IF Full THEN DOMAIN cache \ {Last(lru)} ELSE DOMAIN cache
Ordered == IF Full THEN Front(lru) ELSE lru

CacheInsert(a, v) ==
  /\ cache' = [b \in Kept \cup {a} |-> IF b = a THEN v ELSE cache[b]]
  /\ lru' = <<a>> \o Ordered

CacheRemove(a) ==
  /\ cache' = Restrict(cache, DOMAIN cache \ {a})
  /\ lru' = Unlisted(a)

-----------------------------------------------------------------------------
(* The calls, step by step.                                                *)

Init ==
  /\ segments = <<>>
  /\ pages = <<>> /\ free_pages = <<>> /\ next_page_id = 0
  /\ permissions = <<>>
  /\ cache = <<>> /\ lru = <<>>
  /\ pc = [t \in Threads |-> "idle"]
  /\ req = [t \in Threads |-> NoRequest]
  /\ reentrant \in BOOLEAN
  /\ calls = 0
  /\ handed = {} /\ recycled = {}

Call(t, at, request) ==
  /\ pc[t] = "idle"
  /\ calls < MaxCalls
  /\ calls' = calls + 1
  /\ pc' = [pc EXCEPT ![t] = at]
  /\ req' = [req EXCEPT ![t] = request]
  /\ UNCHANGED <<segments, table, permissions, cached, reentrant, history>>

GoTo(t, at) ==
  /\ pc' = [pc EXCEPT ![t] = at]
  /\ UNCHANGED <<req, reentrant, calls>>

\* The call ends, with a value, an error or a panic.
Return(t) ==
  /\ pc' = [pc EXCEPT ![t] = "idle"]
  /\ req' = [req EXCEPT ![t] = NoRequest]
  /\ UNCHANGED <<reentrant, calls>>

Grant(a, perms) ==
  permissions' = [b \in DOMAIN permissions \cup {a} |->
                    IF b = a THEN perms ELSE permissions[b]]

May(a, required) == a \in DOMAIN permissions /\ required \in permissions[a]

\* --- allocate -------------------------------------------------------------
CallAllocate(t) == \E size \in Sizes : Call(t, "allocate", [value |-> size])

LockSegments(t) ==
  /\ \/ pc[t] = "allocate"   /\ GoTo(t, "allocate_pages")
     \/ pc[t] = "deallocate" /\ GoTo(t, "deallocate_pages")
  /\ SegmentsFree
  /\ UNCHANGED <<segments, table, permissions, cached, history>>

LockPages(t) ==
  /\ pc[t] = "allocate_pages"
  /\ PagesFree
  /\ GoTo(t, "collect")
  /\ UNCHANGED <<segments, table, permissions, cached, history>>

\* The rest of allocate. A segment of size 0 is refused after the collection;
\* when the pages run out, the segment and the pages got so far stay.
Allocate(t) ==
  LET size == req[t].value
      n    == PagesNeeded(size)
      addr == [segment_id |-> Len(Collected), page_id |-> FirstPage]
  IN  /\ pc[t] = "collect"
      /\ MayReadSegments(t)
      /\ \/ /\ size = 0
            /\ segments' = Collected
            /\ UNCHANGED <<table, permissions, handed>>
         \/ /\ size > 0
            /\ segments' = Append(Collected, [size |-> size, root |-> FALSE])
            /\ \/ /\ Obtainable(n)
                  /\ AllocatePages(n)
                  /\ Grant(addr, Permission)
                  /\ handed' = handed \cup {addr}
               \/ /\ ~Obtainable(n)
                  /\ AllocatePages(Len(free_pages) + (MaxPageId - next_page_id))
                  /\ UNCHANGED <<permissions, handed>>
      /\ Return(t)
      /\ UNCHANGED <<cached, recycled>>

\* --- deallocate -----------------------------------------------------------
CallDeallocate(t) ==
  \E a \in handed : Call(t, "deallocate", [addr |-> a])

\* Removing a segment renumbers those behind it; a number that is not there
\* (any more) is a panic, which leaves the rest undone. Only the first page of
\* the segment is freed, and the cache is not looked at.
Deallocate(t) ==
  LET a == req[t].addr
  IN  /\ pc[t] = "deallocate_pages"
      /\ PagesFree
      /\ \/ /\ a.segment_id >= Len(segments)
            /\ UNCHANGED <<segments, table, permissions, recycled>>
         \/ /\ a.segment_id < Len(segments)
            /\ segments' = RemoveAt(segments, a.segment_id + 1)
            /\ FreePage(a.page_id)
            /\ permissions' = Restrict(permissions, DOMAIN permissions \ {a})
      /\ Return(t)
      /\ UNCHANGED <<cached, handed>>

\* --- read -----------------------------------------------------------------
CallRead(t) ==
  \E a \in handed, fits \in BOOLEAN :
    Call(t, "read", [addr |-> a, fits |-> fits, value |-> 0])

\* A hit is the answer, whatever the permissions and the size asked for.
ReadCached(t) ==
  LET a == req[t].addr
  IN  /\ pc[t] = "read"
      /\ Touch(a)
      /\ \/ a \in Listed /\ a \in DOMAIN cache /\ Return(t)
         \/ ~(a \in Listed /\ a \in DOMAIN cache) /\ GoTo(t, "read_check")
      /\ UNCHANGED <<segments, table, permissions, history>>

CheckPermission(t) ==
  /\ \/ /\ pc[t] = "read_check"
        /\ \/ May(req[t].addr, "Read") /\ GoTo(t, "read_page")
           \/ ~May(req[t].addr, "Read") /\ Return(t)
     \/ /\ pc[t] = "write"
        /\ \/ May(req[t].addr, "Write") /\ GoTo(t, "write_page")
           \/ ~May(req[t].addr, "Write") /\ Return(t)
  /\ UNCHANGED <<segments, table, permissions, cached, history>>

PageFault(t) == req[t].addr.page_id \notin DOMAIN pages \/ ~req[t].fits

ReadPage(t) ==
  /\ pc[t] = "read_page"
  /\ PagesReadable
  /\ \/ PageFault(t) /\ Return(t)
     \/ /\ ~PageFault(t)
        /\ pc' = [pc EXCEPT ![t] = "read_insert"]
        /\ req' = [req EXCEPT ![t].value = pages[req[t].addr.page_id]]
        /\ UNCHANGED <<reentrant, calls>>
  /\ UNCHANGED <<segments, table, permissions, cached, history>>

ReadInsert(t) ==
  /\ pc[t] = "read_insert"
  /\ CacheInsert(req[t].addr, req[t].value)
  /\ Return(t)
  /\ UNCHANGED <<segments, table, permissions, history>>

\* --- write and protect ----------------------------------------------------
CallWrite(t) ==
  \E a \in handed, fits \in BOOLEAN, v \in Contents :
    Call(t, "write", [addr |-> a, fits |-> fits, value |-> v])

WritePage(t) ==
  /\ pc[t] = "write_page"
  /\ PagesFree
  /\ \/ PageFault(t) /\ Return(t) /\ UNCHANGED pages
     \/ /\ ~PageFault(t)
        /\ pages' = [pages EXCEPT ![req[t].addr.page_id] = req[t].value]
        /\ GoTo(t, "write_invalidate")
  /\ UNCHANGED <<segments, free_pages, next_page_id, permissions, cached, history>>

WriteInvalidate(t) ==
  /\ pc[t] = "write_invalidate"
  /\ CacheRemove(req[t].addr)
  /\ Return(t)
  /\ UNCHANGED <<segments, table, permissions, history>>

Protect(t) ==
  /\ pc[t] = "idle"
  /\ calls < MaxCalls
  /\ calls' = calls + 1
  /\ \E a \in handed, perms \in SUBSET Permission : Grant(a, perms)
  /\ UNCHANGED <<segments, table, cached, pc, req, reentrant, history>>

Step(t) ==
  \/ LockSegments(t) \/ LockPages(t) \/ Allocate(t) \/ Deallocate(t)
  \/ ReadCached(t) \/ CheckPermission(t) \/ ReadPage(t) \/ ReadInsert(t)
  \/ WritePage(t) \/ WriteInvalidate(t)

Next == \E t \in Threads :
  \/ CallAllocate(t) \/ CallDeallocate(t) \/ CallRead(t) \/ CallWrite(t)
  \/ Protect(t) \/ Step(t)

Spec == Init /\ [][Next]_vars

\* A thread goes on when the lock it waits for is free.
FairSpec == Spec /\ \A t \in Threads : WF_vars(Step(t))

-----------------------------------------------------------------------------
(* Properties.                                                             *)

Allocating   == {"allocate", "allocate_pages", "collect"}
Deallocating == {"deallocate", "deallocate_pages"}
Accessing    == {"read", "read_check", "read_page", "read_insert",
                 "write", "write_page", "write_invalidate"}

Access == [addr : handed, fits : BOOLEAN, value : Contents]

TableType ==
  /\ pages \in [DOMAIN pages -> Contents] /\ DOMAIN pages \subseteq Nat
  /\ free_pages \in Seq(Nat) /\ next_page_id \in 0 .. MaxPageId

CacheType ==
  /\ cache \in [DOMAIN cache -> Contents] /\ DOMAIN cache \subseteq handed
  /\ lru \in Seq(handed)

PermissionType ==
  /\ permissions \in [DOMAIN permissions -> SUBSET Permission]
  /\ DOMAIN permissions \subseteq handed

ThreadType ==
  /\ pc \in [Threads -> {"idle"} \cup Allocating \cup Deallocating \cup Accessing]
  /\ DOMAIN req = Threads
  /\ \A t \in Threads :
       /\ pc[t] \in Allocating => req[t] \in [value : Sizes]
       /\ pc[t] \in Deallocating => req[t] \in [addr : handed]
       /\ pc[t] \in Accessing => req[t] \in Access

TypeOK ==
  /\ segments \in Seq(Segment)
  /\ TableType /\ CacheType /\ PermissionType /\ ThreadType
  /\ reentrant \in BOOLEAN /\ calls \in 0 .. MaxCalls
  /\ handed \subseteq Address /\ recycled \subseteq Nat

\* Every page ever numbered is in the table or on the free list, on the list
\* once: no page is given out twice, and none is lost to the table, whatever is
\* freed again with an old address.
PagesAccounted ==
  /\ \A i, j \in DOMAIN free_pages : free_pages[i] = free_pages[j] => i = j
  /\ \A i \in DOMAIN free_pages : free_pages[i] \notin DOMAIN pages
  /\ DOMAIN pages \cup {free_pages[i] : i \in DOMAIN free_pages} = 0 .. next_page_id - 1

\* What is cached can be found and evicted. (The list may name an address twice:
\* two readers that miss both insert it.)
CachedAreListed == DOMAIN cache \subseteq Listed

\* A cached page that was never freed is what the page table holds, unless the
\* write that changed it is about to remove it from the cache.
CacheCoherent ==
  \A a \in DOMAIN cache : a.page_id \notin recycled =>
    /\ a.page_id \in DOMAIN pages
    /\ \/ cache[a] = pages[a.page_id]
       \/ \E t \in Threads : pc[t] = "write_invalidate" /\ req[t].addr = a

\* Threads never wait for each other in a circle: a call ends unless a thread
\* waits in allocate for the lock it holds itself.
WaitsForItself == \E t \in Threads : pc[t] = "collect" /\ ~reentrant
CallsEnd ==
  \A t \in Threads : pc[t] # "idle" ~> (pc[t] = "idle" \/ WaitsForItself)

=============================================================================
