-------------------------- MODULE MCConsensusEngine --------------------------
(* Instances of ConsensusEngine for TLC.                                   *)
EXTENDS ConsensusEngine

CONSTANTS v1, v2, v3, v4, poor, a0, b0, t1, t2, t3

\* Voting: two blocks compete for height 0. v4 is dishonest; poor's stake is
\* below the threshold. In the first map poor is a stranger, in the second it
\* counts among the validators although its votes do not.
VotingNodes  == {v1, v2, v3, v4, poor}
VotingHonest == {v1, v2, v3, poor}
VotingMaps   == {<<v1, v2, v3, v4>>, <<v1, v2, v3, poor>>}
VotingStake  == [v \in Nodes |-> IF v = poor THEN 0 ELSE 1]
VotingNumber == [b \in Blocks |-> 0]

\* The loop: no validator, one without stake, one with, both in each order.
LoopNodes   == {v1, poor}
LoopMaps    == {<<>>, <<poor>>, <<v1>>, <<poor, v1>>, <<v1, poor>>}
LoopStake   == [v \in Nodes |-> IF v = poor THEN 0 ELSE 2]
LoopNumber  == [b \in Blocks |-> 0]

\* One transaction fills half a block, one fills it, one fits no block.
AllTxSize   == [t \in Transactions |-> IF t = t1 THEN 1 ELSE IF t = t2 THEN 2 ELSE 3]

=============================================================================
