---------------------------- MODULE NetworkManager ----------------------------
(***************************************************************************)
(* The event loop of one node, src/src/network/mod.rs, with the state      *)
(* synchronisation it drives. The loop owns the manager while it runs, so  *)
(* events and messages are handled one after the other; an error of a      *)
(* handler ends it, and everything stays as the handler left it. The       *)
(* caller of `start` may call it again.                                    *)
(*                                                                         *)
(* Blocks and transactions go to handlers of the consensus engine that     *)
(* never fail and touch nothing here: see ConsensusEngine.                 *)
(***************************************************************************)
EXTENDS StateSync

CONSTANTS
  MaxPeers,       \* max_peers
  MaxConnections, \* bound: connections with one peer
  MaxStarts       \* bound: calls of start

VARIABLES
  loop,        \* "running" or "ended": the loop of start
  peers,
  connections, \* the connections the swarm has with each peer
  starts       \* history: calls of start

netVars == <<loop, peers, connections, starts, vars>>

ASSUME NetworkAssumption == {MaxPeers, MaxConnections, MaxStarts} \subseteq Nat

-----------------------------------------------------------------------------
NetInit ==
  /\ Init
  /\ loop = "ended"
  /\ peers = {}
  /\ connections = [p \in Peers |-> 0]
  /\ starts = 0

\* start is called, or called again: it goes on with the peers and requests it
\* finds. (A bootstrap peer that cannot be dialled makes it return first.)
Start ==
  /\ loop = "ended"
  /\ starts < MaxStarts
  /\ starts' = starts + 1
  /\ loop' = "running"
  /\ UNCHANGED <<peers, connections, vars>>

Full == Cardinality(peers) >= MaxPeers

\* Mutant of Refuse: the peer is registered before the capacity is tested.
RefuseLate(p) ==
  /\ loop' = "ended"
  /\ peers' = peers \cup {p}
  /\ UNCHANGED vars

\* The error ends the loop; the connection stays.
Refuse(p) ==
  /\ loop' = "ended"
  /\ UNCHANGED <<peers, vars>>

\* Registered and told to the synchronisation, also if the peer is known.
Register(p) ==
  /\ peers' = peers \cup {p}
  /\ StartSync(p)
  /\ UNCHANGED loop

\* ConnectionEstablished, handle_peer_connected.
HandlePeerConnected(p) ==
  /\ loop = "running"
  /\ connections[p] < MaxConnections
  /\ connections' = [connections EXCEPT ![p] = @ + 1]
  /\ IF Full THEN Refuse(p) ELSE Register(p)
  /\ UNCHANGED starts

\* ConnectionClosed: the peer is dropped at its first connection that closes,
\* also if others remain.
HandleConnectionClosed(p) ==
  /\ loop = "running"
  /\ connections[p] > 0
  /\ connections' = [connections EXCEPT ![p] = @ - 1]
  /\ peers' = peers \ {p}
  /\ HandlePeerDisconnected(p)
  /\ UNCHANGED <<loop, starts>>

\* Mutant of AfterMessage: the loop goes on after an error.
GoOn == UNCHANGED loop

\* The handlers of requests and answers fail exactly if they give one up.
AfterMessage ==
  loop' = IF abandoned' = abandoned THEN loop ELSE "ended"

\* handle_message.
HandleMessage ==
  /\ loop = "running"
  /\ \/ \E r \in Request : HandleRequest(r)
     \/ \E k \in Keys : HandleResponse(k)
  /\ AfterMessage
  /\ UNCHANGED <<peers, connections, starts>>

\* The clock.
Pass == Tick /\ UNCHANGED <<loop, peers, connections, starts>>

NetNext ==
  \/ Start
  \/ \E p \in Peers : HandlePeerConnected(p) \/ HandleConnectionClosed(p)
  \/ HandleMessage
  \/ Pass

NetSpec == NetInit /\ [][NetNext]_netVars

-----------------------------------------------------------------------------
(* Properties.                                                             *)

NetTypeOK ==
  /\ loop \in {"running", "ended"}
  /\ peers \subseteq Peers
  /\ connections \in [Peers -> 0 .. MaxConnections]
  /\ starts \in 0 .. MaxStarts
  /\ status \in SyncStatus
  /\ pending_requests = [p \in DOMAIN pending_requests |-> pending_requests[p]]

\* The peer map and the synchronisation, updated by different handlers some of
\* which fail, know the same peers, and only ones with a connection.
PeersAgree ==
  /\ DOMAIN pending_requests = peers
  /\ \A p \in peers : connections[p] > 0

\* The peer map never exceeds its capacity, through refused and repeated
\* connections and restarts of the loop.
PeersBounded == Cardinality(peers) <= MaxPeers

\* The peers that the status reports are never more than there are: it starts
\* at one, ignores peers that come and counts every connection that closes.
StatusCountsPeers ==
  status.state = "Syncing" => status.peers <= Cardinality(peers)

\* Every request that is given up costs a start of the loop: none survives a
\* failed message, whatever else the node was doing.
GivenUpEndLoops ==
  SumFunction(abandoned)
    <= IF loop = "running" THEN starts - 1 ELSE starts

=============================================================================
