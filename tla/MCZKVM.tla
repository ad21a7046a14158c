------------------------------- MODULE MCZKVM -------------------------------
(* Instances of ZKVM for TLC.                                              *)
EXTENDS ZKVM

\* 5 + 3: succeeds when executed.
Sums == {<<PUSH, 5, PUSH, 3, ADD, STOP>>}

MCSlot(code)    == Len(code)
MCBlake(values) == Len(values)

=============================================================================
