-------------------------------- MODULE MCVM --------------------------------
(* Instances of VM for TLC.                                                *)
EXTENDS VM, SequencesExt

CONSTANT MaxLength \* bound: length of the programs taken exhaustively

\* Every program of at most MaxLength bytes over these: all instructions, one
\* that is priced but not implemented, and zero.
Alphabet == {0, 8, PUSH, ADD, MUL, STORE, LOAD, CREATE, CALL, RETURN, SHA3, BALANCE, STOP}

\* A contract is created, stored at its slot, then called; RETURN and BALANCE.
Deploy == <<PUSH, 1, PUSH, 2, PUSH, 1, PUSH, 9, CREATE, STOP, PUSH, 1, STORE>>
LongPrograms == {
  Deploy \o <<CALL, PUSH, 0, PUSH, 2, RETURN, STOP>>,
  Deploy \o <<CALL, PUSH, 9, PUSH, 99, RETURN>>,
  Deploy \o <<BALANCE, STOP>>,
  <<PUSH, 9, PUSH, 99, RETURN, STOP>>,
  Deploy \o <<CREATE>>,
  Deploy \o <<PUSH, 1, LOAD, STOP>>,
  <<PUSH, 1, PUSH, 2, PUSH, 0, PUSH, 5, CREATE, PUSH, 7, STORE, CALL>>,
  <<PUSH, 0, PUSH, 5, CREATE, PUSH, 7, STORE, BALANCE>>,
  <<PUSH, 40, PUSH, 5, CREATE>>,
  <<PUSH, 4, PUSH, 5, MUL, PUSH, 255, PUSH, 2, MUL, ADD, STOP>>,
  <<PUSH, 0, PUSH, 1, SHA3, PUSH, 255, PUSH, 2, MUL, PUSH, 1, SHA3>>,
  <<PUSH, 9, PUSH, 0, STORE, PUSH, 0, LOAD>>,
  <<PUSH, 9, PUSH, 0, STORE, PUSH, 0, PUSH, 1, LOAD, LOAD, STOP>>,
  <<PUSH, 1, PUSH, 1, PUSH, 0, PUSH, 0, SHA3, ADD, STOP>>,
  <<PUSH, 1, PUSH, 1, PUSH, 1, PUSH, 1, PUSH, 1, PUSH, 1, STOP>>}

SmallPrograms == BoundedSeq(Alphabet, MaxLength) \cup LongPrograms

\* The hash of code begins with a byte that depends on its length only.
MCSlot(code) == Len(code)

\* test_memory_operations, test_gas_accounting, test_sha3_hash, test_state_root
TestPrograms == {
  <<PUSH, 42, STORE, 0, PUSH, 55, STORE, 1, LOAD, 0, LOAD, 1, ADD, STOP>>,
  <<PUSH, 5, PUSH, 3, ADD, STORE, 0, STOP>>,
  <<PUSH, 5, STORE, 0, PUSH, 32, PUSH, 0, SHA3, STOP>>,
  <<PUSH, 5, STORE, 0, PUSH, 3, STORE, 1, STOP>>}

=============================================================================
