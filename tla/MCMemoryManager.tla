-------------------------- MODULE MCMemoryManager --------------------------
(* Instances of MemoryManager for TLC.                                     *)
EXTENDS MemoryManager

=============================================================================
