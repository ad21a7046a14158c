----------------------------- MODULE MCStateSync -----------------------------
(* Instances of StateSync for TLC.                                         *)
EXTENDS StateSync

CONSTANTS p1, p2, k1, k2

\* Two things to ask for, of different blocks; those of block 0 are no progress.
MCBlockNumber == [k \in Keys |-> IF k = k1 THEN 0 ELSE 1]

\* No definition tells the peers apart.
PeerSymmetry == Permutations({p1, p2})

=============================================================================
