--------------------------- MODULE MCStateManager ---------------------------
(* Instances of StateManager for TLC.                                      *)
EXTENDS StateManager, TLC

\* Two updates that write the same storage keys, one of which leaves the nonce.
MCAccountUpdates ==
  {[nonce |-> {}, storage |-> [k \in Keys |-> 1]],
   [nonce |-> {1}, storage |-> [k \in Keys |-> 2]]}

Symmetry == Permutations(Addresses)

=============================================================================
