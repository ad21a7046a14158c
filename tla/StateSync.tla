------------------------------ MODULE StateSync ------------------------------
(***************************************************************************)
(* One node's state synchronisation, src/src/network/sync.rs: the queue of *)
(* state requests, the requests in flight at each peer, the failure counts *)
(* and the status.                                                         *)
(*                                                                         *)
(* Every handler holds the write lock of SyncState from its first to its   *)
(* last line, so each is one atomic action. process_sync_queue, with which *)
(* two of them end, is stated by its result and not by its loop.           *)
(***************************************************************************)
EXTENDS Integers, Sequences, FiniteSets, Functions, SequencesExt

CONSTANTS
  Peers,
  Keys,         \* what is asked for: block number, account and storage keys
  BlockNumber,  \* BlockNumber[k]: the block number in k
  BatchSize,    \* batch_size
  RetryLimit,   \* retry_limit, 3
  Timeout,      \* timeout, 30 s, in clock ticks
  StallTimeout, \* the 300 s of check_timeouts, in clock ticks
  MaxTime,      \* bound: the last reading of the clock
  MaxSubmitted  \* bound: requests submitted in a behaviour

VARIABLES
  status,
  pending_requests,   \* for each known peer, its requests in flight
  completed_requests,
  failed_requests,
  sync_queue,
  last_progress,
  now,                \* the clock read by Instant::now
  submitted,          \* history: times a request was given to handle_request
  abandoned           \* history: times a request was dropped at its retry limit

history == <<submitted, abandoned>>
vars == <<status, pending_requests, completed_requests, failed_requests,
          sync_queue, last_progress, now, history>>

ASSUME SyncAssumption ==
  /\ IsFiniteSet(Peers) /\ IsFiniteSet(Keys)
  /\ BlockNumber \in [Keys -> Nat]
  /\ {BatchSize, RetryLimit, Timeout, StallTimeout, MaxTime, MaxSubmitted} \subseteq Nat

\* StateRequest: two requests are equal only if their timestamps are.
Request == [key : Keys, timestamp : 0 .. MaxTime]

\* SyncStatus; target_block is 0 from start_sync on.
Idle  == [state |-> "Idle"]
Error == [state |-> "Error"]
Syncing(block, n) == [state |-> "Syncing", current_block |-> block, peers |-> n]
SyncStatus ==
  {Idle, Error} \cup [state : {"Syncing"}, current_block : Nat, peers : Nat]

-----------------------------------------------------------------------------
(* Pure helpers.                                                           *)

None == [r \in Request |-> 0]

Copies(s, r) == Cardinality({i \in DOMAIN s : s[i] = r})

\* The elements of s that are in T, in their order.
Filter(s, T) ==
  LET kept[i \in 0 .. Len(s)] ==
        IF i = 0 THEN <<>>
        ELSE IF s[i] \in T THEN Append(kept[i - 1], s[i]) ELSE kept[i - 1]
  IN  kept[Len(s)]

\* Mutant of SaturatingSub: an ordinary subtraction.
PlainSub(n) == n - 1

\* Mutant of SaturatingSub: the count is left as it is.
NoSub(n) == n

SaturatingSub(n) == IF n > 0 THEN n - 1 ELSE 0

TimedOut == {r \in Request : now - r.timestamp > Timeout}

RetryCount(f, r) == IF r \in DOMAIN f THEN f[r] ELSE 0

\* Mutant of Exhausted: one retry more.
OverExhausted(f, r) == RetryCount(f, r) > RetryLimit

Exhausted(f, r) == RetryCount(f, r) >= RetryLimit

\* Mutant of Room: the batch that is full counts as available.
RoomAndOne(requests) == BatchSize + 1 - Len(requests)

\* A peer is available for this many more requests.
Room(requests) == BatchSize - Len(requests)

-----------------------------------------------------------------------------
Init ==
  /\ status = Idle
  /\ pending_requests = <<>>
  /\ completed_requests = {}
  /\ failed_requests = <<>>
  /\ sync_queue = <<>>
  /\ last_progress = 0
  /\ now = 0
  /\ submitted = None /\ abandoned = None

\* Time passes.
Tick ==
  /\ now < MaxTime
  /\ now' = now + 1
  /\ UNCHANGED <<status, pending_requests, completed_requests, failed_requests,
                 sync_queue, last_progress, history>>

-----------------------------------------------------------------------------
(* check_timeouts, where `pending` is pending_requests as it finds them    *)
(* and `order` the iteration order of that map.                            *)

\* Timed-out requests go back to the queue, one for one.
Requeued(pending, order) ==
  FlattenSeq([i \in DOMAIN order |-> Filter(pending[order[i]], TimedOut)])

Held(pending) == [p \in DOMAIN pending |-> Filter(pending[p], Request \ TimedOut)]

\* Each copy that timed out adds one to the request's failures. A request is
\* never given a new timestamp: once late, it is late again at the next call.
Failures(pending, order) ==
  LET late == Requeued(pending, order)
  IN  [r \in DOMAIN failed_requests \cup Range(late) |->
         RetryCount(failed_requests, r) + Copies(late, r)]

Stalled(stat) ==
  IF stat.state = "Syncing" /\ now - last_progress' > StallTimeout
    THEN Error ELSE stat

-----------------------------------------------------------------------------
(* process_sync_queue.                                                     *)

\* The first requests of the queue, without those completed.
Live(requests) == Filter(requests, Request \ completed_requests')

\* The requests go to the first peer of `order` until its batch is full, then
\* to the second, and so on: cut[j] of them to the first j peers.
Assign(requests, held, order) ==
  LET live == Live(requests)
  IN  /\ \A i \in DOMAIN live : ~Exhausted(failed_requests', live[i])
      /\ \E cut \in [0 .. Len(order) -> 0 .. Len(live)] :
           /\ cut[0] = 0 /\ cut[Len(order)] = Len(live)
           /\ \A j \in DOMAIN order :
                LET filled == cut[j - 1] + Room(held[order[j]])
                IN  cut[j] = IF filled < Len(live) THEN filled ELSE Len(live)
           /\ pending_requests' = [p \in DOMAIN held |->
                LET j == CHOOSE j \in DOMAIN order : order[j] = p
                IN  held[p] \o SubSeq(live, cut[j - 1] + 1, cut[j])]

\* The whole queue is worked off.
EmptyQueue(queue, held, order, stat) ==
  /\ Assign(queue, held, order)
  /\ sync_queue' = <<>>
  /\ status' = IF \A p \in DOMAIN held : pending_requests'[p] = <<>>
                 THEN Idle ELSE stat
  /\ UNCHANGED abandoned

\* Request i has no retry left: it is dropped, the call returns an error and
\* the requests after it stay.
GiveUp(i, queue, held, order, stat) ==
  /\ queue[i] \notin completed_requests'
  /\ Exhausted(failed_requests', queue[i])
  /\ Assign(SubSeq(queue, 1, i - 1), held, order)
  /\ sync_queue' = SubSeq(queue, i + 1, Len(queue))
  /\ abandoned' = [abandoned EXCEPT ![queue[i]] = @ + 1]
  /\ status' = stat

\* No peer has room for request i: it goes to the back of the queue.
Postpone(i, queue, held, order, stat) ==
  /\ queue[i] \notin completed_requests'
  /\ ~Exhausted(failed_requests', queue[i])
  /\ Assign(SubSeq(queue, 1, i - 1), held, order)
  /\ \A p \in DOMAIN held : Room(pending_requests'[p]) <= 0
  /\ sync_queue' = Append(SubSeq(queue, i + 1, Len(queue)), queue[i])
  /\ status' = stat
  /\ UNCHANGED abandoned

ProcessSyncQueue(queue, pending, stat) ==
  \E order \in SetToSeqs(DOMAIN pending) :
    LET all  == queue \o Requeued(pending, order)
        held == Held(pending)
    IN  /\ failed_requests' = Failures(pending, order)
        /\ \/ EmptyQueue(all, held, order, Stalled(stat))
           \/ \E i \in DOMAIN all : GiveUp(i, all, held, order, Stalled(stat))
           \/ \E i \in DOMAIN all : Postpone(i, all, held, order, Stalled(stat))

-----------------------------------------------------------------------------
(* The handlers.                                                           *)

\* start_sync: a peer that is known keeps its requests. The queue is not
\* looked at, and the number of peers in the status stays 1.
StartSync(p) ==
  /\ IF status = Idle
       THEN status' = Syncing(0, 1) /\ last_progress' = now
       ELSE UNCHANGED <<status, last_progress>>
  /\ pending_requests' = [q \in DOMAIN pending_requests \cup {p} |->
       IF q \in DOMAIN pending_requests THEN pending_requests[q] ELSE <<>>]
  /\ UNCHANGED <<completed_requests, failed_requests, sync_queue, now, history>>

\* handle_request: the request was made at some time up to now; the status is
\* not looked at.
HandleRequest(r) ==
  /\ SumFunction(submitted) < MaxSubmitted
  /\ r.timestamp <= now
  /\ submitted' = [submitted EXCEPT ![r] = @ + 1]
  /\ UNCHANGED <<completed_requests, last_progress, now>>
  /\ ProcessSyncQueue(Append(sync_queue, r), pending_requests, status)

\* handle_response: the answer names no request; the request it is taken to
\* complete is one made now.
HandleResponse(k) ==
  LET request  == [key |-> k, timestamp |-> now]
      progress == /\ status.state = "Syncing"
                  /\ BlockNumber[k] > status.current_block
  IN  /\ completed_requests' = completed_requests \cup {request}
      /\ last_progress' = IF progress THEN now ELSE last_progress
      /\ UNCHANGED <<now, submitted>>
      /\ ProcessSyncQueue(
           sync_queue,
           [p \in DOMAIN pending_requests |->
              Filter(pending_requests[p], Request \ {request})],
           IF progress THEN [status EXCEPT !.current_block = BlockNumber[k]]
                       ELSE status)

\* Mutant of TakeBack: the requests of the peer are forgotten.
Forget(p) == sync_queue' = sync_queue

TakeBack(p) ==
  sync_queue' = IF p \in DOMAIN pending_requests
                  THEN sync_queue \o pending_requests[p] ELSE sync_queue

\* handle_peer_disconnected: the queue is not worked on.
HandlePeerDisconnected(p) ==
  /\ TakeBack(p)
  /\ pending_requests' =
       [q \in DOMAIN pending_requests \ {p} |-> pending_requests[q]]
  /\ status' = IF status.state = "Syncing"
                 THEN [status EXCEPT !.peers = SaturatingSub(@)] ELSE status
  /\ UNCHANGED <<completed_requests, failed_requests, last_progress, now, history>>

Next ==
  \/ Tick
  \/ \E p \in Peers : StartSync(p)
  \/ \E r \in Request : HandleRequest(r)
  \/ \E k \in Keys : HandleResponse(k)
  \/ \E p \in Peers : HandlePeerDisconnected(p)

Spec == Init /\ [][Next]_vars

-----------------------------------------------------------------------------
(* Properties.                                                             *)

TypeOK ==
  /\ status \in SyncStatus
  /\ DOMAIN pending_requests \subseteq Peers
  /\ pending_requests \in [DOMAIN pending_requests -> Seq(Request)]
  /\ completed_requests \subseteq Request
  /\ DOMAIN failed_requests \subseteq Request
  /\ failed_requests \in [DOMAIN failed_requests -> Nat]
  /\ sync_queue \in Seq(Request)
  /\ last_progress \in 0 .. now
  /\ now \in 0 .. MaxTime
  /\ {submitted, abandoned} \subseteq [Request -> Nat]

\* No peer has more than a batch in flight, whatever times out, is answered
\* or is taken over from peers that left.
BatchesBounded ==
  \A p \in DOMAIN pending_requests : Len(pending_requests[p]) <= BatchSize

InFlight(r) == {p \in DOMAIN pending_requests : r \in Range(pending_requests[p])}

\* A request in flight has a retry left and is not completed.
InFlightIsAlive ==
  \A r \in Request : InFlight(r) # {} =>
    RetryCount(failed_requests, r) < RetryLimit /\ r \notin completed_requests

\* Requests are neither lost nor multiplied: every copy submitted of a request
\* that is not completed is in the queue, in flight at one peer, or was given
\* up, through timeouts, disconnections and calls that end early.
NothingLost ==
  \A r \in Request \ completed_requests :
    submitted[r] =
      Copies(sync_queue, r) + abandoned[r]
        + SumFunction([p \in DOMAIN pending_requests |-> Copies(pending_requests[p], r)])

\* test_sync_flow (sync.rs:266): once its one request, in flight at the one
\* peer, is answered, the synchronisation is idle again.
AnswerCompletes ==
  [][\A k \in Keys, p \in Peers :
       HandleResponse(k) /\ sync_queue = <<>> /\ DOMAIN pending_requests = {p}
         /\ Len(pending_requests[p]) = 1 /\ pending_requests[p][1].key = k
       => status' = Idle]_vars

=============================================================================
