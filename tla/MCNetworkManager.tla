--------------------------- MODULE MCNetworkManager ---------------------------
(* Instances of NetworkManager for TLC.                                    *)
EXTENDS NetworkManager

CONSTANTS p1, p2, p3, k1

MCBlockNumber == [k \in Keys |-> 1]

\* No definition tells the peers apart.
PeerSymmetry == Permutations({p1, p2, p3})

=============================================================================
