-------------------------------- MODULE ZKVM --------------------------------
(***************************************************************************)
(* The facade of src/src/lib.rs: one VM, the proof system set up for its   *)
(* program, and the circuit that generate_proof takes.                     *)
(*                                                                         *)
(* There is a facade once `new` has set the proof system up. execute and   *)
(* generate_proof borrow it mutably: an execution runs to its end, step by *)
(* step, before the next call. The circuit is the one of VMCircuit::new,   *)
(* which knows the program and no witness.                                 *)
(***************************************************************************)
EXTENDS VM

CONSTANTS
  MaxSteps,    \* the 1000 of ZKVM::new
  Modulus, Blake(_),   \* VMCircuit
  CacheSize,   \* ProofSystem::setup
  MaxProofs    \* bound: calls of generate_proof

VARIABLES
  built,       \* "none", or what ZKVM::new answered
  circuit,     \* ZKVM.circuit: at most one
  gas_used,    \* VMState.gas_used
  trace,       \* VMState.execution_trace: a snapshot per successful execute
  reported,    \* calls of execute whose result the facade has dealt with
  params, cache, made, batch, last   \* ProofSystem

facade == <<built, circuit, gas_used, trace, reported>>
proofs == <<params, cache, made, batch, last>>
zvars  == <<vars, facade, proofs>>

Synthesis == INSTANCE VMCircuit

NewCircuit(p) == Synthesis!Circuit(p, MaxSteps, Synthesis!NoState, Synthesis!NoState)

Prover == INSTANCE ProofSystem WITH
  Circuits <- {NewCircuit(p) : p \in Programs}, Inputs <- {<<>>}, MaxBatch <- MaxProofs

-----------------------------------------------------------------------------
ZInit ==
  /\ Init
  /\ built = "none"
  /\ params = "none"
  /\ cache = <<>> /\ made = <<>>
  /\ batch = Prover!NoBatch
  /\ last = [asked |-> {}, answer |-> "none"]
  /\ circuit = {}
  /\ gas_used = 0
  /\ trace = <<>>
  /\ reported = 0

\* ZKVM::new: the circuit is set up for proofs, and kept. If the setup is
\* refused the error is passed on and there is no facade.
New ==
  LET c == NewCircuit(program)
  IN  /\ built = "none"
      /\ built' = Prover!SetUpAnswer(c)
      /\ \/ /\ built' = "ok"
            /\ circuit' = {c}
            /\ params' = Prover!Parameters(c)
         \/ /\ built' # "ok"
            /\ UNCHANGED <<circuit, params>>
      /\ UNCHANGED <<vars, gas_used, trace, reported, cache, made, batch, last>>

\* Between two calls.
AtRest == built = "ok" /\ reported = calls

ZExecute == AtRest /\ Execute /\ UNCHANGED <<facade, proofs>>

ZStep == built = "ok" /\ Step /\ UNCHANGED <<facade, proofs>>

\* The rest of execute. An error is passed on; on success the gas that remains
\* is recorded as the gas used.
Record ==
  /\ status # "running" /\ reported # calls
  /\ reported' = calls
  /\ \/ /\ status = "ok"
        /\ gas_used' = gas_remaining
        /\ trace' = Append(trace, [stack |-> stack, memory |-> memory])
     \/ /\ status # "ok"
        /\ UNCHANGED <<gas_used, trace>>
  /\ UNCHANGED <<vars, built, circuit, proofs>>

\* The circuit is taken before the proof is tried; later calls find none and
\* change nothing.
GenerateProof ==
  /\ AtRest
  /\ \E c \in circuit : Prover!Prove(c)
  /\ circuit' = {}
  /\ UNCHANGED <<vars, built, gas_used, trace, reported>>

\* verify_proof and batch_verify of proofs made here.
VerifyProof ==
  /\ AtRest
  /\ \/ \E pd \in Prover!Held : Prover!Verify(pd)
     \/ \E pds \in SUBSET Prover!Held : pds # {} /\ Prover!StartBatch(pds)
     \/ \E pd \in batch.todo : Prover!VerifyOne(pd)
     \/ Prover!EndBatch
  /\ UNCHANGED <<vars, facade>>

ZNext == New \/ ZExecute \/ ZStep \/ Record \/ GenerateProof \/ VerifyProof

ZSpec == ZInit /\ [][ZNext]_zvars

-----------------------------------------------------------------------------
(* Properties.                                                             *)

\* Every test of src/tests/proof_tests.rs and src/tests/integration_tests.rs
\* that uses the facade begins by unwrapping ZKVM::new: it succeeds.
NewSucceeds == built \in {"none", "ok"}

=============================================================================
