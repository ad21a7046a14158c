--------------------------------- MODULE VM ---------------------------------
(***************************************************************************)
(* The stack machine of src/src/vm.rs: one VM object, its context and the  *)
(* instructions it executes.                                               *)
(*                                                                         *)
(* `execute` keeps the context locked until it returns, and leaves the     *)
(* context as it is when it returns an error or panics: the next call goes *)
(* on from there. A call is the action Execute followed by one step per    *)
(* instruction; `status` is "running" in between and then the result.      *)
(***************************************************************************)
EXTENDS Integers, Sequences, FiniteSets

CONSTANTS
  Programs,   \* the byte sequences a VM may be built for
  GasLimits,  \* the gas an ExecutionContext may start with
  MaxStack,   \* the 1024 of PUSH
  Half,       \* 2^63: an Int ranges over -Half .. Half - 1
  Slot(_),    \* Slot(code): first byte of the hash of code
  MaxCalls    \* bound: calls of execute

VARIABLES
  program,
  gas_limit,        \* what the context started with
  stack,
  memory,
  program_counter,
  gas_remaining,
  call_stack,
  state_root,
  status,           \* "ready", "running", or how the last execute ended
  calls,            \* calls of execute so far
  steps,            \* history: instructions that were charged
  results           \* history: how earlier calls ended

context == <<stack, memory, program_counter, gas_remaining, call_stack, state_root>>
vars == <<program, gas_limit, context, status, calls, steps, results>>

Byte == 0 .. 255

PUSH    == 1
ADD     == 2
MUL     == 3
STORE   == 4
LOAD    == 5
CREATE  == 11
CALL    == 12
RETURN  == 13
SHA3    == 14
BALANCE == 15
STOP    == 255

ASSUME ProgramsAssumption == \A p \in Programs : p \in Seq(Byte)

ASSUME NumbersAssumption ==
  /\ GasLimits \subseteq Nat
  /\ MaxStack \in Nat /\ MaxCalls \in Nat
  /\ Half \in Nat /\ Half > 255

\* Value. Bytes and addresses are known by what was hashed; no instruction
\* makes a Bool. A contract's own storage stays empty and is left out.
Int64  == -Half .. Half - 1
UInt64 == 0 .. 2 * Half - 1
Value ==
  [type : {"Int"}, v : Int64]
    \cup [type : {"Bytes", "Address"}, of : Seq(Byte)]
    \cup [type : {"Contract"}, code : Seq(Byte), balance : UInt64]

IntValue(n)   == [type |-> "Int", v |-> n]
Unsigned(n)   == n % (2 * Half)                     \* `as u64`, `as usize`

\* Mutant of Wrapped: arithmetic in a wider type.
Widened(n) == n

Wrapped(n)    == ((n + Half) % (2 * Half)) - Half   \* two's complement

-----------------------------------------------------------------------------
(* Gas: GasConfig::default and use_gas.                                    *)

BaseCost         == 2
ContractCreation == 32000

\* Instructions with a price of their own; 6 to 10 have one although execute
\* does not implement them.
OpCost == [op \in 1 .. 15 |->
  CASE op \in {PUSH, 8, 9, 10}      -> 3
    [] op \in {ADD, MUL, RETURN}    -> 5
    [] op \in {STORE, LOAD, BALANCE} -> 20
    [] op = 6 -> 8
    [] op = 7 -> 10
    [] op = CREATE -> 400
    [] op = CALL   -> 40
    [] op = SHA3   -> 50]

GasCost(op) == IF op \in DOMAIN OpCost THEN OpCost[op] ELSE BaseCost

-----------------------------------------------------------------------------
(* The instruction at hand and its operands.                               *)

Fetch(i) == program[i + 1]          \* the bytes are numbered from 0
Op       == Fetch(program_counter)

\* The kinds of value an instruction pops, the top of the stack first.
Operands(op) ==
  CASE op \in {ADD, MUL, CREATE, RETURN, SHA3} -> <<"Int", "Int">>
    [] op = STORE   -> <<"Int", "Any">>
    [] op = LOAD    -> <<"Int">>
    [] op = CALL    -> <<"Address", "Int", "Int">>
    [] op = BALANCE -> <<"Address">>
    [] OTHER        -> <<>>

Operand(i) == stack[Len(stack) + 1 - i]
Drop(n)    == SubSeq(stack, 1, Len(stack) - n)

Fits(op, i) ==
  /\ i <= Len(stack)
  /\ Operands(op)[i] \in {"Any", Operand(i).type}

Ready(op) == \A i \in DOMAIN Operands(op) : Fits(op, i)

\* Mutant of StackFull: the limit is tested one too late.
StackOverfull == Len(stack) > MaxStack

StackFull == Len(stack) >= MaxStack

\* The slice program[from .. from + size], or out of bounds (a panic).
InBounds(from, size) == from + size <= Len(program)
Slice(from, size)    == SubSeq(program, from + 1, from + size)

-----------------------------------------------------------------------------
Init ==
  /\ program \in Programs
  /\ gas_limit \in GasLimits
  /\ stack = <<>>
  /\ memory = <<>>
  /\ program_counter = 0
  /\ gas_remaining = gas_limit
  /\ call_stack = <<>>
  /\ state_root = "zero"
  /\ status = "ready"
  /\ calls = 0 /\ steps = 0 /\ results = {}

\* execute is called; nothing of the context is reset.
Execute ==
  /\ status # "running"
  /\ calls < MaxCalls
  /\ calls' = calls + 1
  /\ status' = "running"
  /\ results' = results \cup {status}
  /\ UNCHANGED <<program, gas_limit, context, steps>>

\* The instruction succeeds: n bytes on, the stack being s.
Proceed(s, n) ==
  /\ stack' = s
  /\ program_counter' = program_counter + n
  /\ UNCHANGED <<status, state_root>>

\* Mutant of Abort: the instruction is skipped.
AbortSkipping(s, how) ==
  /\ stack' = s
  /\ status' = how
  /\ program_counter' = program_counter + 1
  /\ UNCHANGED <<memory, call_stack, state_root>>

\* The instruction fails after popping down to s; the counter stays.
Abort(s, how) ==
  /\ stack' = s
  /\ status' = how
  /\ UNCHANGED <<program_counter, memory, call_stack, state_root>>

\* Mutant of Spend: the price is checked and not taken.
Inspect(n) == gas_remaining >= n /\ UNCHANGED gas_remaining

\* Mutant of Spend: a check that leaves out what was paid before.
Overspend(n) ==
  /\ gas_limit >= n
  /\ gas_remaining' = IF gas_remaining >= n THEN gas_remaining - n ELSE 0

Spend(n) == gas_remaining >= n /\ gas_remaining' = gas_remaining - n

-----------------------------------------------------------------------------
(* The instructions, once their gas is paid.                               *)

\* A missing or mistyped operand: the operands up to it are popped.
Underflow(op) ==
  \E i \in DOMAIN Operands(op) :
    /\ ~Fits(op, i)
    /\ \A j \in 1 .. i - 1 : Fits(op, j)
    /\ Abort(Drop(IF i <= Len(stack) THEN i ELSE Len(stack)), "StackUnderflow")

Push ==
  LET operand == program_counter + 1
  IN  \/ /\ operand >= Len(program)
         /\ Abort(stack, "panic")
      \/ /\ operand < Len(program) /\ StackFull
         /\ Abort(stack, "StackOverflow")
      \/ /\ operand < Len(program) /\ ~StackFull
         /\ Proceed(Append(stack, IntValue(Fetch(operand))), 2)
         /\ UNCHANGED <<memory, call_stack>>

\* ADD and MUL: on overflow a debug build panics and a release build wraps.
Arithmetic(op) ==
  LET a == Operand(2).v
      b == Operand(1).v
      n == IF op = ADD THEN a + b ELSE a * b
  IN  \/ /\ n \notin Int64
         /\ Abort(Drop(2), "panic")
      \/ /\ Proceed(Append(Drop(2), IntValue(Wrapped(n))), 1)
         /\ UNCHANGED <<memory, call_stack>>

Store ==
  LET addr == Unsigned(Operand(1).v)
  IN  /\ memory' = [a \in DOMAIN memory \cup {addr} |->
                      IF a = addr THEN Operand(2) ELSE memory[a]]
      /\ Proceed(Drop(2), 1)
      /\ UNCHANGED call_stack

Load ==
  LET addr == Unsigned(Operand(1).v)
  IN  \/ /\ addr \notin DOMAIN memory
         /\ Abort(Drop(1), "MemoryError")
      \/ /\ addr \in DOMAIN memory
         /\ Proceed(Append(Drop(1), memory[addr]), 1)
         /\ UNCHANGED <<memory, call_stack>>

\* CREATE pays a second time, after its operands are gone; the code follows
\* the instruction and is skipped.
Create ==
  LET balance == Unsigned(Operand(1).v)
      size    == Unsigned(Operand(2).v)
      code    == Slice(program_counter + 1, size)
  IN  \/ /\ gas_remaining < OpCost[CREATE] + ContractCreation
         /\ Spend(OpCost[CREATE])
         /\ Abort(Drop(2), "GasLimitExceeded")
      \/ /\ Spend(OpCost[CREATE] + ContractCreation)
         /\ ~InBounds(program_counter + 1, size)
         /\ Abort(Drop(2), "panic")
      \/ /\ Spend(OpCost[CREATE] + ContractCreation)
         /\ InBounds(program_counter + 1, size)
         /\ Proceed(Drop(2) \o <<[type |-> "Address", of |-> code],
                                 [type |-> "Contract", code |-> code,
                                  balance |-> balance]>>,
                    1 + size)
         /\ UNCHANGED <<memory, call_stack>>

\* CALL and BALANCE look a contract up by the first byte of its address.
Callee == Slot(Operand(1).of)
HasCallee == Callee \in DOMAIN memory /\ memory[Callee].type = "Contract"

Call ==
  \/ /\ ~HasCallee
     /\ Abort(Drop(3), "ExecutionError")
  \/ /\ HasCallee
     /\ call_stack' = Append(call_stack,
          [address |-> Operand(1).of, value |-> Unsigned(Operand(2).v),
           gas_limit |-> Unsigned(Operand(3).v), code |-> memory[Callee].code,
           return_data |-> <<>>])
     /\ Proceed(Drop(3), 1)
     /\ UNCHANGED memory

\* RETURN reads the program only if there is a frame, and leaves the frame.
Return ==
  LET size   == Unsigned(Operand(1).v)
      offset == Unsigned(Operand(2).v)
  IN  \/ /\ call_stack = <<>>
         /\ Proceed(Drop(2), 1)
         /\ UNCHANGED <<memory, call_stack>>
      \/ /\ call_stack # <<>> /\ ~InBounds(offset, size)
         /\ Abort(Drop(2), "panic")
      \/ /\ call_stack # <<>> /\ InBounds(offset, size)
         /\ call_stack' = [call_stack EXCEPT ![Len(call_stack)].return_data =
                             Slice(offset, size)]
         /\ Proceed(Drop(2), 1)
         /\ UNCHANGED memory

Sha3 ==
  LET size   == Unsigned(Operand(1).v)
      offset == Unsigned(Operand(2).v)
  IN  \/ /\ ~InBounds(offset, size)
         /\ Abort(Drop(2), "panic")
      \/ /\ InBounds(offset, size)
         /\ Proceed(Append(Drop(2), [type |-> "Bytes", of |-> Slice(offset, size)]), 1)
         /\ UNCHANGED <<memory, call_stack>>

Balance ==
  \/ /\ ~HasCallee
     /\ Abort(Drop(1), "ExecutionError")
  \/ /\ HasCallee
     /\ Proceed(Append(Drop(1), IntValue(Wrapped(memory[Callee].balance))), 1)
     /\ UNCHANGED <<memory, call_stack>>

\* Mutant of Halt: the counter moves past STOP.
HaltPast ==
  /\ status' = "ok" /\ state_root' = "computed"
  /\ program_counter' = program_counter + 1
  /\ UNCHANGED <<stack, memory, call_stack>>

\* The loop is left at STOP or at the end, and the state root is computed. No
\* instruction writes the storage or the logs it is computed from.
Halt ==
  /\ status' = "ok" /\ state_root' = "computed"
  /\ UNCHANGED <<stack, memory, program_counter, call_stack>>

-----------------------------------------------------------------------------
Implemented == {PUSH, ADD, MUL, STORE, LOAD, CREATE, CALL, RETURN, SHA3, BALANCE, STOP}

OutOfGas ==
  /\ gas_remaining < GasCost(Op)
  /\ Abort(stack, "GasLimitExceeded")
  /\ UNCHANGED <<gas_remaining, steps>>

\* One instruction that is paid for.
Instruction ==
  /\ steps' = steps + 1
  /\ \/ Op = CREATE /\ Ready(Op) /\ gas_remaining >= GasCost(Op) /\ Create
     \/ /\ Op # CREATE \/ ~Ready(Op)
        /\ Spend(GasCost(Op))
        /\ \/ Op \notin Implemented /\ Abort(stack, "InvalidOpcode")
           \/ Op \in Implemented /\ Underflow(Op)
           \/ Op = PUSH /\ Push
           \/ Op \in {ADD, MUL} /\ Ready(Op) /\ Arithmetic(Op)
           \/ Op = STORE /\ Ready(Op) /\ Store
           \/ Op = LOAD /\ Ready(Op) /\ Load
           \/ Op = CALL /\ Ready(Op) /\ Call
           \/ Op = RETURN /\ Ready(Op) /\ Return
           \/ Op = SHA3 /\ Ready(Op) /\ Sha3
           \/ Op = BALANCE /\ Ready(Op) /\ Balance
           \/ Op = STOP /\ Halt

Step ==
  /\ status = "running"
  /\ \/ program_counter < Len(program) /\ (OutOfGas \/ Instruction)
     \/ program_counter >= Len(program) /\ Halt /\ UNCHANGED <<gas_remaining, steps>>
  /\ UNCHANGED <<program, gas_limit, calls, results>>

Next == Execute \/ Step

Spec == Init /\ [][Next]_vars

-----------------------------------------------------------------------------
(* Properties.                                                             *)

Outcomes == {"ok", "panic", "GasLimitExceeded", "InvalidOpcode", "StackUnderflow",
             "StackOverflow", "MemoryError", "ExecutionError"}

Frame == [address : Seq(Byte), value : UInt64, gas_limit : UInt64,
          code : Seq(Byte), return_data : Seq(Byte)]

TypeOK ==
  /\ program \in Programs
  /\ gas_limit \in GasLimits
  /\ stack \in Seq(Value)
  /\ memory \in [DOMAIN memory -> Value] /\ DOMAIN memory \subseteq UInt64
  /\ program_counter \in Nat
  /\ gas_remaining \in Nat
  /\ call_stack \in Seq(Frame)
  /\ state_root \in {"zero", "computed"}
  /\ status \in {"ready", "running"} \cup Outcomes
  /\ calls \in Nat /\ steps \in Nat
  /\ results \subseteq {"ready"} \cup Outcomes

\* No instruction grows the stack past the limit, although PUSH alone tests
\* it: LOAD, CREATE, SHA3 and BALANCE push too.
StackBounded == Len(stack) <= MaxStack

\* Gas bounds execution: over all calls of execute, failed and repeated ones
\* included, every instruction is paid at least the base price out of what the
\* context started with. STOP has no price and so is paid the base one; what
\* test_gas_accounting says of it, "0 gas", is not what the code does.
GasPaysForSteps == BaseCost * steps + gas_remaining <= gas_limit

\* Every contract in reach was paid for by a CREATE of its own.
Contracts == {x \in {stack[i] : i \in DOMAIN stack}
                    \cup {memory[a] : a \in DOMAIN memory} : x.type = "Contract"}
ContractsPaid ==
  Cardinality(Contracts) * (OpCost[CREATE] + ContractCreation)
    <= gas_limit - gas_remaining

\* A call that failed for want of gas, on an unknown instruction or on a full
\* stack is not made good by calling execute again. (The other errors can be:
\* the retried instruction finds other operands.)
Permanent == {"GasLimitExceeded", "InvalidOpcode", "StackOverflow"}
PermanentErrors == status = "ok" => results \cap Permanent = {}

\* Once a call succeeded, later calls spend gas at most: the results that
\* get_stack, get_memory and get_state_root report stay.
SuccessIsFinal ==
  [][state_root = "computed" =>
       UNCHANGED <<stack, memory, program_counter, call_stack, state_root>>]_vars

\* The tests of src/tests/vm_tests.rs expect execute to succeed on their programs.
TestsSucceed == status \in {"ready", "running", "ok"}

=============================================================================
