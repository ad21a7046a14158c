------------------------------ MODULE Finality ------------------------------
(***************************************************************************)
(* What src/src/network/consensus.rs promises to whoever reads its         *)
(* finalized blocks: every block number is finalized at most once, and     *)
(* the block found under a number never changes afterwards.                *)
(* ConsensusEngine.tla is shown to implement this specification.           *)
(***************************************************************************)

CONSTANTS
  Blocks,   \* the blocks that may ever be decided
  Number    \* Number[b]: the height block b claims

VARIABLE
  finalized \* a partial function: height -> the block decided for it

Init == finalized = <<>>

\* Height Number[b] is decided once and for all.
Decide(b) ==
  /\ Number[b] \notin DOMAIN finalized
  /\ finalized' = [n \in DOMAIN finalized \cup {Number[b]} |->
                     IF n = Number[b] THEN b ELSE finalized[n]]

Next == \E b \in Blocks : Decide(b)

Spec == Init /\ [][Next]_finalized

=============================================================================
