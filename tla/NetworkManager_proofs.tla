------------------------ MODULE NetworkManager_proofs ------------------------
(***************************************************************************)
(* Proofs about NetworkManager: what its loop keeps true of peer map,      *)
(* synchronisation and connections, for any number of peers and any limit. *)
(*                                                                         *)
(* For most of it the contents of queues and batches play no part: of the  *)
(* processing of the queue only the peers and the status it leaves are     *)
(* needed. What is known of the contents is taken over from StateSync,     *)
(* which the manager is shown to implement.                                *)
(***************************************************************************)
EXTENDS NetworkManager, StateSync_proofs

\* The status of the synchronisation counts no peer that is not there.
StatusInv ==
  /\ status \in SyncStatus
  /\ status.state = "Syncing" => status.peers <= Cardinality(peers)

NetInv ==
  /\ loop \in {"running", "ended"}
  /\ starts \in 0 .. MaxStarts
  /\ peers \subseteq Peers
  /\ connections \in [Peers -> 0 .. MaxConnections]
  /\ pending_requests = [p \in DOMAIN pending_requests |-> pending_requests[p]]
  /\ PeersAgree
  /\ PeersBounded
  /\ StatusInv

\* A status that is Idle or an error, or that counts as many peers as before,
\* satisfies what is wanted of it.
Counts(stat, n) == stat.state = "Syncing" => stat.peers <= n

\* Stalled only turns a status into an error.
LEMMA StalledStatus ==
  ASSUME NEW stat \in SyncStatus, NEW n \in Nat, Counts(stat, n)
  PROVE  Stalled(stat) \in SyncStatus /\ Counts(Stalled(stat), n)
  BY DEF Stalled, Counts, SyncStatus, Error, Idle

\* Processing the queue keeps the peers it is given, and leaves a status that
\* is the given one, an error or Idle.
LEMMA ProcessKeepsPeers ==
  ASSUME NEW queue, NEW pending, NEW stat \in SyncStatus, NEW n \in Nat,
         Counts(stat, n),
         ProcessSyncQueue(queue, pending, stat)
  PROVE  /\ DOMAIN pending_requests' = DOMAIN pending
         /\ pending_requests' = [p \in DOMAIN pending |-> pending_requests'[p]]
         /\ status' \in SyncStatus
         /\ Counts(status', n)
<1>1. PICK order :
        LET all  == queue \o Requeued(pending, order)
            held == Held(pending)
        IN  \/ EmptyQueue(all, held, order, Stalled(stat))
            \/ \E i \in DOMAIN all : GiveUp(i, all, held, order, Stalled(stat))
            \/ \E i \in DOMAIN all : Postpone(i, all, held, order, Stalled(stat))
  BY DEF ProcessSyncQueue
<1> DEFINE all  == queue \o Requeued(pending, order)
           held == Held(pending)
           next == Stalled(stat)
<1>2. DOMAIN held = DOMAIN pending
  BY DEF Held
<1>3. next \in SyncStatus /\ Counts(next, n)
  BY StalledStatus
<1>4. Idle \in SyncStatus /\ Counts(Idle, n)
  BY DEF Idle, SyncStatus, Counts
<1> HIDE DEF all, held, next
<1>5. ASSUME NEW requests, Assign(requests, held, order)
      PROVE  /\ DOMAIN pending_requests' = DOMAIN held
             /\ pending_requests' = [p \in DOMAIN held |-> pending_requests'[p]]
  BY <1>5 DEF Assign
<1>6. CASE EmptyQueue(all, held, order, next)
  BY <1>2, <1>3, <1>4, <1>5, <1>6 DEF EmptyQueue
<1>7. ASSUME NEW i \in DOMAIN all, GiveUp(i, all, held, order, next)
      PROVE  Assign(SubSeq(all, 1, i - 1), held, order) /\ status' = next
  BY <1>7 DEF GiveUp
<1>8. ASSUME NEW i \in DOMAIN all, Postpone(i, all, held, order, next)
      PROVE  Assign(SubSeq(all, 1, i - 1), held, order) /\ status' = next
  BY <1>8 DEF Postpone
<1> QED
  BY <1>1, <1>2, <1>3, <1>5, <1>6, <1>7, <1>8 DEF all, held, next

\* What one step of the manager needs of the peers' cardinality.
LEMMA PeersFinite ==
  ASSUME NEW S, S \subseteq Peers
  PROVE  IsFiniteSet(S) /\ Cardinality(S) \in Nat
  BY SyncAssumption, FS_Subset, FS_CardinalityType DEF SyncAssumption

\* The initial state.
LEMMA NetInitInv == NetInit => NetInv
<1>1. Cardinality({}) = 0
  BY FS_EmptySet
<1> QED
  BY <1>1, NetworkAssumption, SyncAssumption
  DEF NetInit, Init, NetInv, PeersAgree, PeersBounded, StatusInv, SyncStatus,
      Idle, NetworkAssumption

\* Every step keeps the invariant.
LEMMA NetNextInv == NetInv /\ [NetNext]_netVars => NetInv'
<1> SUFFICES ASSUME NetInv, [NetNext]_netVars PROVE NetInv'
  OBVIOUS
<1> USE DEF NetInv
<1>0. Cardinality(peers) \in Nat /\ IsFiniteSet(peers) /\ MaxPeers \in Nat
  BY PeersFinite, NetworkAssumption DEF NetworkAssumption
<1>1. CASE Start
  BY <1>1, NetworkAssumption
  DEF Start, vars, PeersAgree, PeersBounded, StatusInv, NetworkAssumption
<1>2. ASSUME NEW p \in Peers, HandlePeerConnected(p)
      PROVE  NetInv'
  <2>1. connections' \in [Peers -> 0 .. MaxConnections] /\ starts' = starts
    BY <1>2, NetworkAssumption DEF HandlePeerConnected, NetworkAssumption
  <2>2. connections'[p] > 0 /\ \A q \in Peers \ {p} : connections'[q] = connections[q]
    BY <1>2 DEF HandlePeerConnected
  <2>3. CASE Refuse(p)
    BY <2>1, <2>2, <2>3 DEF Refuse, vars, PeersAgree, PeersBounded, StatusInv
  <2>4. CASE ~Full /\ Register(p)
    <3>1. /\ peers' = peers \cup {p}
          /\ DOMAIN pending_requests' = peers'
          /\ pending_requests' = [q \in peers' |-> pending_requests'[q]]
          /\ loop' = loop
      BY <2>4 DEF Register, StartSync, PeersAgree
    <3>2. /\ Cardinality(peers') <= MaxPeers
          /\ Cardinality(peers) <= Cardinality(peers')
          /\ Cardinality(peers') >= 1
      <4>1. Cardinality(peers') = IF p \in peers THEN Cardinality(peers)
                                                 ELSE Cardinality(peers) + 1
        BY <1>0, <3>1, FS_AddElement
      <4>2. p \in peers => Cardinality(peers) # 0
        BY <1>0, FS_EmptySet
      <4> QED
        BY <1>0, <2>4, <4>1, <4>2 DEF Full, PeersBounded
    <3>3. Cardinality(peers') \in Nat
      BY <3>1, PeersFinite
    <3>4. StatusInv'
      <4>1. CASE status = Idle
        <5>1. status' = Syncing(0, 1)
          BY <2>4, <4>1 DEF Register, StartSync
        <5> QED
          BY <3>2, <3>3, <5>1 DEF Syncing, SyncStatus, StatusInv
      <4>2. CASE status # Idle
        <5>1. status' = status
          BY <2>4, <4>2 DEF Register, StartSync
        <5> QED
          BY <1>0, <3>2, <3>3, <5>1 DEF StatusInv, SyncStatus, Idle, Error
      <4> QED
        BY <4>1, <4>2
    <3> QED
      BY <2>1, <2>2, <3>1, <3>2, <3>4 DEF PeersAgree, PeersBounded
  <2> QED
    BY <1>2, <2>3, <2>4 DEF HandlePeerConnected
<1>3. ASSUME NEW p \in Peers, HandleConnectionClosed(p)
      PROVE  NetInv'
  <2>1. /\ connections' \in [Peers -> 0 .. MaxConnections]
        /\ \A q \in Peers \ {p} : connections'[q] = connections[q]
        /\ starts' = starts /\ loop' = loop
    BY <1>3, NetworkAssumption DEF HandleConnectionClosed, NetworkAssumption
  <2>2. /\ peers' = peers \ {p}
        /\ DOMAIN pending_requests' = peers'
        /\ pending_requests' = [q \in peers' |-> pending_requests'[q]]
    BY <1>3 DEF HandleConnectionClosed, HandlePeerDisconnected, PeersAgree
  <2>3. /\ Cardinality(peers') <= Cardinality(peers)
        /\ Cardinality(peers') >= Cardinality(peers) - 1
        /\ Cardinality(peers') \in Nat
    BY <1>0, <2>2, FS_RemoveElement, PeersFinite
  <2>4. StatusInv'
    <3>1. ASSUME status.state = "Syncing" PROVE StatusInv'
      <4>1. status' = [status EXCEPT !.peers = SaturatingSub(@)]
        BY <1>3, <3>1 DEF HandleConnectionClosed, HandlePeerDisconnected
      <4>2. status \in [state : {"Syncing"}, current_block : Nat, peers : Nat]
        BY <3>1 DEF StatusInv, SyncStatus, Idle, Error
      <4> QED
        BY <1>0, <2>3, <3>1, <4>1, <4>2 DEF StatusInv, SyncStatus, SaturatingSub
    <3>2. ASSUME status.state # "Syncing" PROVE StatusInv'
      BY <1>3, <3>2 DEF HandleConnectionClosed, HandlePeerDisconnected, StatusInv
    <3> QED
      BY <3>1, <3>2
  <2> QED
    BY <1>0, <2>1, <2>2, <2>3, <2>4 DEF PeersAgree, PeersBounded
<1>4. CASE HandleMessage
  <2>1. /\ peers' = peers /\ connections' = connections /\ starts' = starts
        /\ loop' \in {"running", "ended"}
    BY <1>4 DEF HandleMessage, AfterMessage
  <2>2. status \in SyncStatus /\ Counts(status, Cardinality(peers))
    BY DEF StatusInv, Counts
  <2>3. ASSUME NEW r \in Request, HandleRequest(r)
        PROVE  /\ DOMAIN pending_requests' = peers
               /\ pending_requests' = [q \in peers |-> pending_requests'[q]]
               /\ status' \in SyncStatus
               /\ Counts(status', Cardinality(peers))
    <3>1. ProcessSyncQueue(Append(sync_queue, r), pending_requests, status)
      BY <2>3 DEF HandleRequest
    <3> QED
      BY <1>0, <2>2, <3>1, ProcessKeepsPeers DEF PeersAgree
  <2>4. ASSUME NEW k \in Keys, HandleResponse(k)
        PROVE  /\ DOMAIN pending_requests' = peers
               /\ pending_requests' = [q \in peers |-> pending_requests'[q]]
               /\ status' \in SyncStatus
               /\ Counts(status', Cardinality(peers))
    <3>1. PICK pending, stat :
            /\ DOMAIN pending = peers
            /\ stat = status \/ /\ status.state = "Syncing"
                                /\ stat = [status EXCEPT !.current_block = BlockNumber[k]]
            /\ ProcessSyncQueue(sync_queue, pending, stat)
      BY <2>4 DEF HandleResponse, PeersAgree
    <3>2. stat \in SyncStatus /\ Counts(stat, Cardinality(peers))
      BY <2>2, <3>1, SyncAssumption DEF SyncStatus, Counts, SyncAssumption, Idle, Error
    <3> QED
      BY <1>0, <3>1, <3>2, ProcessKeepsPeers
  <2>5. /\ DOMAIN pending_requests' = peers
        /\ pending_requests' = [q \in peers |-> pending_requests'[q]]
        /\ status' \in SyncStatus
        /\ Counts(status', Cardinality(peers))
    BY <1>4, <2>3, <2>4 DEF HandleMessage
  <2> QED
    BY <2>1, <2>5 DEF PeersAgree, PeersBounded, StatusInv, Counts
<1>5. CASE Pass
  BY <1>5 DEF Pass, Tick, PeersAgree, PeersBounded, StatusInv
<1>6. CASE UNCHANGED netVars
  BY <1>6 DEF netVars, vars, PeersAgree, PeersBounded, StatusInv
<1> QED
  BY <1>1, <1>2, <1>3, <1>4, <1>5, <1>6 DEF NetNext

LEMMA NetInvariant == NetSpec => []NetInv
  BY NetInitInv, NetNextInv, PTL DEF NetSpec

\* The loop's own variables, the status and the peers of the synchronisation
\* stay in their types.
THEOREM NetTypeCorrect == NetSpec => []NetTypeOK
<1>1. NetInv => NetTypeOK
  BY DEF NetInv, NetTypeOK, StatusInv
<1> QED
  BY <1>1, NetInvariant, PTL

\* mod.rs: the peer map and the synchronisation know the same peers, all of
\* them connected.
THEOREM PeersStayInAgreement == NetSpec => []PeersAgree
<1>1. NetInv => PeersAgree
  BY DEF NetInv
<1> QED
  BY <1>1, NetInvariant, PTL

\* handle_peer_connected: never more peers than max_peers.
THEOREM CapacityKept == NetSpec => []PeersBounded
<1>1. NetInv => PeersBounded
  BY DEF NetInv
<1> QED
  BY <1>1, NetInvariant, PTL

\* sync.rs: the status counts no more peers than the manager has.
THEOREM StatusNeverOvercounts == NetSpec => []StatusCountsPeers
<1>1. NetInv => StatusCountsPeers
  BY DEF NetInv, StatusInv, StatusCountsPeers
<1> QED
  BY <1>1, NetInvariant, PTL

-----------------------------------------------------------------------------
(* The manager calls the handlers of the synchronisation one by one, and   *)
(* what they guarantee it guarantees.                                      *)

LEMMA NetStepIsSyncStep == ASSUME [NetNext]_netVars PROVE [Next]_vars
<1>1. CASE Start
  BY <1>1 DEF Start
<1>2. ASSUME NEW p \in Peers, HandlePeerConnected(p)
      PROVE  [Next]_vars
  BY <1>2 DEF HandlePeerConnected, Refuse, Register, Next
<1>3. ASSUME NEW p \in Peers, HandleConnectionClosed(p)
      PROVE  [Next]_vars
  BY <1>3 DEF HandleConnectionClosed, Next
<1>4. CASE HandleMessage
  BY <1>4 DEF HandleMessage, Next
<1>5. CASE Pass
  BY <1>5 DEF Pass, Next
<1>6. CASE UNCHANGED netVars
  BY <1>6 DEF netVars
<1> QED
  BY <1>1, <1>2, <1>3, <1>4, <1>5, <1>6 DEF NetNext

\* Whatever the loop does, ends and starts again, the synchronisation behaves as
\* its own specification allows.
THEOREM NetworkImplementsSync == NetSpec => Spec
<1>1. NetInit => Init
  BY DEF NetInit
<1>2. [NetNext]_netVars => [Next]_vars
  BY NetStepIsSyncStep
<1> QED
  BY <1>1, <1>2, PTL DEF NetSpec, Spec

\* Hence what holds of the synchronisation by itself holds in the network.
THEOREM NetKeepsRequests == NetSpec => [](BatchesBounded /\ InFlightIsAlive /\ NothingLost)
<1>1. Inv => BatchesBounded /\ InFlightIsAlive /\ NothingLost
  BY DEF Inv
<1> QED
  BY <1>1, NetworkImplementsSync, InvHolds, PTL

-----------------------------------------------------------------------------
(* Given-up requests and starts of the loop.                               *)

LEMMA AbandonedSumIs ==
  ASSUME NEW f \in [Request -> Nat]
  PROVE  SumFunction(f) = SumFunctionOnSet(f, Request)
  BY DEF SumFunction

LEMMA SumOfNone == ASSUME SyncAssumption PROVE SumFunction(None) = 0
<1>1. IsFiniteSet(Request)
  BY RequestFinite
<1>2. None \in [Request -> Nat] /\ \A r \in Request : None[r] = 0
  BY DEF None
<1> HIDE DEF None
<1>3. SumFunctionOnSet(None, Request)
        = SumFunctionOnSet(None, Request) + SumFunctionOnSet(None, Request)
  <2>1. \A r \in Request : None[r] \in Nat /\ None[r] = None[r] + None[r]
    BY <1>2
  <2> QED
    BY <1>1, <2>1, SumPlus
<1>4. SumFunctionOnSet(None, Request) \in Nat
  BY <1>1, <1>2, SumType
<1>5. SumFunctionOnSet(None, Request) = 0
  BY <1>3, <1>4
<1>6. SumFunction(None) = SumFunctionOnSet(None, Request)
  BY <1>2, AbandonedSumIs
<1> QED
  BY <1>5, <1>6

\* A step leaves the sum or adds one to it.
LEMMA SumSteps ==
  ASSUME SyncAssumption, Inv, [Next]_vars
  PROVE  /\ SumFunction(abandoned) \in Nat
         /\ \/ abandoned' = abandoned
            \/ SumFunction(abandoned') = SumFunction(abandoned) + 1
<1>1. IsFiniteSet(Request)
  BY RequestFinite
<1>2. abandoned \in [Request -> Nat]
  BY DEF Inv, TypeOK
<1>3. SumFunction(abandoned) = SumFunctionOnSet(abandoned, Request)
  BY <1>2, AbandonedSumIs
<1>4. SumFunction(abandoned) \in Nat
  BY <1>1, <1>2, <1>3, SumType
<1>5. ASSUME NEW r \in Request, abandoned' = [abandoned EXCEPT ![r] = @ + 1]
      PROVE  SumFunction(abandoned') = SumFunction(abandoned) + 1
  <2> DEFINE new == abandoned'
  <2>1. /\ new \in [Request -> Nat] /\ new[r] = abandoned[r] + 1
        /\ \A q \in Request : q # r => new[q] = abandoned[q]
    BY <1>2, <1>5
  <2> HIDE DEF new
  <2>2. SumFunctionOnSet(new, Request)
          = (SumFunctionOnSet(abandoned, Request) - abandoned[r]) + new[r]
    BY <1>1, <1>2, <2>1, SumChange
  <2>3. SumFunction(new) = SumFunctionOnSet(new, Request)
    BY <2>1, AbandonedSumIs
  <2>4. abandoned[r] \in Nat
    BY <1>2
  <2>5. SumFunction(new) = SumFunction(abandoned) + 1
    BY <1>3, <1>4, <2>1, <2>2, <2>3, <2>4
  <2> QED
    BY <2>5 DEF new
<1>6. abandoned' = abandoned \/ GivesUpOne
  BY GivesUpAtMostOne
<1> QED
  BY <1>4, <1>5, <1>6 DEF GivesUpOne

CostInv == Inv /\ NetInv /\ GivenUpEndLoops

LEMMA CostNextInv ==
  ASSUME SyncAssumption, CostInv, [NetNext]_netVars
  PROVE  GivenUpEndLoops'
<1> DEFINE sum == SumFunction(abandoned)
           newsum == SumFunction(abandoned')
<1>1. /\ sum \in Nat
      /\ abandoned' = abandoned \/ newsum = sum + 1
  BY NetStepIsSyncStep, SumSteps DEF CostInv
<1>2. abandoned' = abandoned => newsum = sum
  OBVIOUS
<1>3. /\ loop \in {"running", "ended"} /\ starts \in Nat
      /\ sum <= IF loop = "running" THEN starts - 1 ELSE starts
  BY DEF CostInv, NetInv, GivenUpEndLoops
<1> HIDE DEF sum, newsum
<1> SUFFICES newsum <= IF loop' = "running" THEN starts' - 1 ELSE starts'
  BY DEF GivenUpEndLoops, newsum
<1>4. CASE Start
  <2>1. /\ abandoned' = abandoned /\ loop = "ended" /\ loop' = "running"
        /\ starts' = starts + 1
    BY <1>4 DEF Start, vars, history
  <2> QED
    BY <1>1, <1>2, <1>3, <2>1
<1>5. ASSUME NEW p \in Peers, HandlePeerConnected(p)
      PROVE  newsum <= IF loop' = "running" THEN starts' - 1 ELSE starts'
  <2>1. /\ abandoned' = abandoned /\ loop = "running" /\ starts' = starts
        /\ loop' \in {loop, "ended"}
    BY <1>5 DEF HandlePeerConnected, Refuse, Register, StartSync, vars, history
  <2> QED
    BY <1>1, <1>2, <1>3, <2>1
<1>6. ASSUME NEW p \in Peers, HandleConnectionClosed(p)
      PROVE  newsum <= IF loop' = "running" THEN starts' - 1 ELSE starts'
  <2>1. abandoned' = abandoned /\ loop' = loop /\ starts' = starts
    BY <1>6 DEF HandleConnectionClosed, HandlePeerDisconnected, history
  <2> QED
    BY <1>1, <1>2, <1>3, <2>1
<1>7. CASE HandleMessage
  <2>1. /\ loop = "running" /\ starts' = starts
        /\ loop' = IF abandoned' = abandoned THEN loop ELSE "ended"
    BY <1>7 DEF HandleMessage, AfterMessage
  <2>2. CASE abandoned' = abandoned
    BY <1>1, <1>2, <1>3, <2>1, <2>2
  <2>3. CASE abandoned' # abandoned
    BY <1>1, <1>3, <2>1, <2>3
  <2> QED
    BY <2>2, <2>3
<1>8. CASE Pass \/ UNCHANGED netVars
  <2>1. abandoned' = abandoned /\ loop' = loop /\ starts' = starts
    BY <1>8 DEF Pass, Tick, netVars, vars, history
  <2> QED
    BY <1>1, <1>2, <1>3, <2>1
<1> QED
  BY <1>4, <1>5, <1>6, <1>7, <1>8 DEF NetNext

\* mod.rs: the error with which a request is given up ends the loop, so that
\* each one given up has cost a call of start.
THEOREM GivenUpEndTheLoop == NetSpec => []GivenUpEndLoops
<1>1. NetInit => GivenUpEndLoops
  <2> SUFFICES ASSUME NetInit PROVE GivenUpEndLoops
    OBVIOUS
  <2>1. abandoned = None /\ starts = 0 /\ loop = "ended"
    BY DEF NetInit, Init
  <2> QED
    BY <2>1, SyncAssumption, SumOfNone DEF GivenUpEndLoops
<1>2. Inv /\ NetInv /\ GivenUpEndLoops /\ [NetNext]_netVars => GivenUpEndLoops'
  BY SyncAssumption, CostNextInv DEF CostInv
<1> QED
  BY <1>1, <1>2, NetInvariant, NetworkImplementsSync, InvHolds, PTL DEF NetSpec

=============================================================================
