------------------------------ MODULE VM_proofs ------------------------------
(***************************************************************************)
(* Theorems about VM, for every set of programs, gas limits and stack      *)
(* limit, and every width of its integers above a byte.                    *)
(***************************************************************************)
EXTENDS VM, SequenceTheorems, FiniteSetTheorems, TLAPS

-----------------------------------------------------------------------------
(* Operators.                                                              *)

\* Dropping from the stack leaves a typed, shorter stack.
LEMMA DropType ==
  ASSUME stack \in Seq(Value), NEW n \in 0 .. Len(stack)
  PROVE  /\ Drop(n) \in Seq(Value)
         /\ Len(Drop(n)) = Len(stack) - n
<1>1. /\ Len(stack) \in Nat
      /\ \A i \in 1 .. Len(stack) : stack[i] \in Value
  BY LenProperties, ElementOfSeq
<1>2. /\ SubSeq(stack, 1, Len(stack) - n) \in Seq(Value)
      /\ Len(SubSeq(stack, 1, Len(stack) - n))
           = IF 1 <= Len(stack) - n THEN Len(stack) - n - 1 + 1 ELSE 0
  BY <1>1, SubSeqProperties
<1> QED
  BY <1>1, <1>2 DEF Drop

\* Bytes of the program are bytes, and slices are sequences of them.
LEMMA SliceType ==
  ASSUME program \in Programs, NEW from \in Nat, NEW size \in Nat,
         InBounds(from, size)
  PROVE  Slice(from, size) \in Seq(Byte)
<1>1. program \in Seq(Byte) /\ Len(program) \in Nat
  BY ProgramsAssumption, LenProperties
<1>2. \A i \in from + 1 .. from + size : program[i] \in Byte
  BY <1>1, ElementOfSeq DEF InBounds
<1> QED
  BY <1>2, SubSeqProperties DEF Slice

\* The conversions between signed and unsigned integers stay in range.
LEMMA Conversions ==
  ASSUME NEW n \in Int
  PROVE  /\ Unsigned(n) \in UInt64 /\ Unsigned(n) \in Nat
         /\ Wrapped(n) \in Int64
         /\ IntValue(Wrapped(n)) \in Value
<1>1. 2 * Half \in Nat \ {0}
  BY NumbersAssumption
<1>2. \A m \in Int : m % (2 * Half) \in 0 .. 2 * Half - 1
  BY <1>1
<1>3. Unsigned(n) \in UInt64 /\ Unsigned(n) \in Nat
  BY <1>1, <1>2 DEF Unsigned, UInt64
<1>4. Wrapped(n) \in Int64
  BY <1>1, <1>2, NumbersAssumption DEF Wrapped, Int64
<1> QED
  BY <1>3, <1>4 DEF IntValue, Value

\* A byte fits an Int.
LEMMA ByteValue ==
  ASSUME NEW b \in Byte
  PROVE  IntValue(b) \in Value
BY NumbersAssumption DEF Byte, IntValue, Value, Int64

\* Every instruction has a price, the base price at least.
LEMMA Prices ==
  ASSUME NEW op
  PROVE  /\ GasCost(op) \in Nat
         /\ GasCost(op) >= BaseCost
         /\ op = CREATE => GasCost(op) = OpCost[CREATE]
<1>1. DOMAIN OpCost = 1 .. 15 /\ \A x \in 1 .. 15 : OpCost[x] \in Nat /\ OpCost[x] >= 2
  BY DEF OpCost, PUSH, ADD, MUL, STORE, LOAD, CREATE, CALL, RETURN, SHA3, BALANCE
<1>2. CREATE \in DOMAIN OpCost
  BY <1>1 DEF CREATE
<1> QED
  BY <1>1, <1>2 DEF GasCost, BaseCost

\* An operand of kind k that fits is a value of type k on the stack.
LEMMA OperandType ==
  ASSUME stack \in Seq(Value), NEW op, Ready(op), NEW i \in DOMAIN Operands(op)
  PROVE  /\ i \in Nat => i \in 1 .. Len(stack) /\ Operand(i) \in Value
         /\ Operands(op)[i] = "Int" => Operand(i).type = "Int"
         /\ Operands(op)[i] = "Address" => Operand(i).type = "Address"
<1>1. Len(stack) \in Nat /\ \A j \in 1 .. Len(stack) : stack[j] \in Value
  BY LenProperties, ElementOfSeq
<1>2. i <= Len(stack) /\ Operands(op)[i] \in {"Any", Operand(i).type}
  BY DEF Ready, Fits
<1>3. DOMAIN Operands(op) \subseteq Nat \ {0}
  BY DEF Operands
<1> QED
  BY <1>1, <1>2, <1>3 DEF Operand

-----------------------------------------------------------------------------
(* The machine an instruction works on: types and the stack limit.         *)

MachineOK ==
  /\ stack \in Seq(Value) /\ Len(stack) <= MaxStack
  /\ memory \in [DOMAIN memory -> Value] /\ DOMAIN memory \subseteq UInt64
  /\ program_counter \in Nat
  /\ call_stack \in Seq(Frame)
  /\ state_root \in {"zero", "computed"}
  /\ status \in {"ready", "running"} \cup Outcomes

\* A failing instruction leaves a stack no higher than before.
LEMMA AbortOK ==
  ASSUME MachineOK, NEW n \in 0 .. Len(stack), NEW how \in Outcomes, Abort(Drop(n), how)
  PROVE  MachineOK'
<1>1. /\ Drop(n) \in Seq(Value) /\ Len(Drop(n)) = Len(stack) - n
      /\ Len(stack) \in Nat /\ MaxStack \in Nat
  BY DropType, LenProperties, NumbersAssumption DEF MachineOK
<1> QED
  BY <1>1 DEF MachineOK, Abort

\* A succeeding instruction that pops n operands and pushes at most as many.
LEMMA ProceedOK ==
  ASSUME MachineOK, NEW s \in Seq(Value), Len(s) <= MaxStack, NEW n \in Nat,
         Proceed(s, n), UNCHANGED <<memory, call_stack>>
  PROVE  MachineOK'
BY DEF MachineOK, Proceed

\* Pushing one value after popping at least one.
LEMMA ReplaceType ==
  ASSUME MachineOK, NEW n \in 1 .. Len(stack), NEW x \in Value
  PROVE  /\ Append(Drop(n), x) \in Seq(Value)
         /\ Len(Append(Drop(n), x)) <= MaxStack
<1>1. /\ Drop(n) \in Seq(Value) /\ Len(Drop(n)) = Len(stack) - n
      /\ Len(stack) \in Nat /\ MaxStack \in Nat
  BY DropType, LenProperties, NumbersAssumption DEF MachineOK
<1> QED
  BY <1>1, AppendProperties DEF MachineOK

\* What each instruction pops.
LEMMA Kinds ==
  /\ \A op \in {ADD, MUL, CREATE, RETURN, SHA3} : Operands(op) = <<"Int", "Int">>
  /\ Operands(STORE) = <<"Int", "Any">>
  /\ Operands(LOAD) = <<"Int">>
  /\ Operands(CALL) = <<"Address", "Int", "Int">>
  /\ Operands(BALANCE) = <<"Address">>
BY DEF Operands, ADD, MUL, CREATE, RETURN, SHA3, STORE, LOAD, CALL, BALANCE

\* What the operands of a ready instruction are.
LEMMA TwoInts ==
  ASSUME MachineOK, NEW op \in {ADD, MUL, CREATE, RETURN, SHA3}, Ready(op)
  PROVE  /\ 2 \in 0 .. Len(stack) /\ 2 \in 1 .. Len(stack)
         /\ Operand(1).v \in Int64 /\ Operand(2).v \in Int64
<1>1. Operands(op) = <<"Int", "Int">>
  BY Kinds
<1>2. 1 \in DOMAIN Operands(op) /\ 2 \in DOMAIN Operands(op)
  BY <1>1
<1>3. /\ 1 \in 1 .. Len(stack) /\ Operand(1) \in Value /\ Operand(1).type = "Int"
      /\ 2 \in 1 .. Len(stack) /\ Operand(2) \in Value /\ Operand(2).type = "Int"
  BY <1>1, <1>2, OperandType DEF MachineOK
<1> QED
  BY <1>3 DEF Value

LEMMA OneInt ==
  ASSUME MachineOK, NEW op \in {STORE, LOAD}, Ready(op)
  PROVE  /\ 1 \in 0 .. Len(stack) /\ 1 \in 1 .. Len(stack)
         /\ Operand(1).v \in Int64
         /\ op = STORE => 2 \in 0 .. Len(stack) /\ Operand(2) \in Value
<1>1. /\ 1 \in DOMAIN Operands(op) /\ Operands(op)[1] = "Int"
      /\ op = STORE => 2 \in DOMAIN Operands(op)
  BY Kinds
<1>2. /\ 1 \in 1 .. Len(stack) /\ Operand(1) \in Value /\ Operand(1).type = "Int"
      /\ op = STORE => 2 \in 1 .. Len(stack) /\ Operand(2) \in Value
  BY <1>1, OperandType DEF MachineOK
<1> QED
  BY <1>2 DEF Value

LEMMA AnAddress ==
  ASSUME MachineOK, NEW op \in {CALL, BALANCE}, Ready(op)
  PROVE  /\ 1 \in 0 .. Len(stack) /\ 1 \in 1 .. Len(stack)
         /\ Operand(1).of \in Seq(Byte)
         /\ op = CALL => /\ 3 \in 0 .. Len(stack)
                         /\ Operand(2).v \in Int64 /\ Operand(3).v \in Int64
<1>1. /\ 1 \in DOMAIN Operands(op) /\ Operands(op)[1] = "Address"
      /\ op = CALL => /\ 2 \in DOMAIN Operands(op) /\ Operands(op)[2] = "Int"
                      /\ 3 \in DOMAIN Operands(op) /\ Operands(op)[3] = "Int"
  BY Kinds DEF CALL, BALANCE
<1>2. /\ 1 \in 1 .. Len(stack) /\ Operand(1) \in Value /\ Operand(1).type = "Address"
      /\ op = CALL => /\ 2 \in 1 .. Len(stack)
                      /\ Operand(2) \in Value /\ Operand(2).type = "Int"
                      /\ 3 \in 1 .. Len(stack)
                      /\ Operand(3) \in Value /\ Operand(3).type = "Int"
  BY <1>1, OperandType DEF MachineOK
<1> QED
  BY <1>2 DEF Value

-----------------------------------------------------------------------------
(* One lemma per instruction: it keeps the machine well formed.            *)

LEMMA HowType ==
  {"ok", "panic", "GasLimitExceeded", "InvalidOpcode", "StackUnderflow",
   "StackOverflow", "MemoryError", "ExecutionError"} = Outcomes
BY DEF Outcomes

\* The whole stack is what is left when nothing is dropped.
LEMMA DropNone ==
  ASSUME stack \in Seq(Value)
  PROVE  Drop(0) = stack /\ 0 \in 0 .. Len(stack)
BY LenProperties, SubSeqFull DEF Drop

LEMMA AbortAtOK ==
  ASSUME MachineOK, NEW how \in Outcomes, Abort(stack, how)
  PROVE  MachineOK'
<1>1. stack \in Seq(Value)
  BY DEF MachineOK
<1>2. 0 \in 0 .. Len(stack) /\ Abort(Drop(0), how)
  BY <1>1, DropNone
<1> QED
  BY <1>2, AbortOK

LEMMA UnderflowOK ==
  ASSUME MachineOK, NEW op, Underflow(op)
  PROVE  MachineOK'
<1>1. PICK i \in DOMAIN Operands(op) :
        Abort(Drop(IF i <= Len(stack) THEN i ELSE Len(stack)), "StackUnderflow")
  BY DEF Underflow
<1>2. i \in Nat /\ Len(stack) \in Nat
  BY LenProperties DEF Operands, MachineOK
<1> DEFINE n == IF i <= Len(stack) THEN i ELSE Len(stack)
<1>3. n \in 0 .. Len(stack)
  BY <1>2
<1>4. Abort(Drop(n), "StackUnderflow")
  BY <1>1
<1> HIDE DEF n
<1> QED
  BY <1>3, <1>4, AbortOK, HowType

LEMMA PushOK ==
  ASSUME MachineOK, program \in Programs, Push
  PROVE  MachineOK'
<1> DEFINE operand == program_counter + 1
<1>1. CASE Abort(stack, "panic") \/ Abort(stack, "StackOverflow")
  BY <1>1, AbortAtOK, HowType
<1>2. ASSUME operand < Len(program), ~StackFull,
             Proceed(Append(stack, IntValue(Fetch(operand))), 2),
             UNCHANGED <<memory, call_stack>>
      PROVE  MachineOK'
  <2>1. program \in Seq(Byte) /\ Len(program) \in Nat /\ operand \in Nat
    BY ProgramsAssumption, LenProperties DEF MachineOK
  <2>2. Fetch(operand) \in Byte
    BY <1>2, <2>1, ElementOfSeq DEF Fetch
  <2>3. IntValue(Fetch(operand)) \in Value
    BY <2>2, ByteValue
  <2>4. /\ Append(stack, IntValue(Fetch(operand))) \in Seq(Value)
        /\ Len(Append(stack, IntValue(Fetch(operand)))) = Len(stack) + 1
        /\ Len(stack) \in Nat
    BY <2>3, AppendProperties, LenProperties DEF MachineOK
  <2>5. Len(Append(stack, IntValue(Fetch(operand)))) <= MaxStack
    BY <1>2, <2>4, NumbersAssumption DEF StackFull
  <2> QED
    BY <1>2, <2>4, <2>5, ProceedOK
<1> QED
  BY <1>1, <1>2 DEF Push

LEMMA ArithmeticOK ==
  ASSUME MachineOK, NEW op \in {ADD, MUL}, Ready(op), Arithmetic(op)
  PROVE  MachineOK'
<1> DEFINE n == IF op = ADD THEN Operand(2).v + Operand(1).v
                            ELSE Operand(2).v * Operand(1).v
<1>1. 2 \in 0 .. Len(stack) /\ 2 \in 1 .. Len(stack) /\ n \in Int
  BY TwoInts, NumbersAssumption DEF Int64
<1>2. CASE Abort(Drop(2), "panic")
  BY <1>1, <1>2, AbortOK, HowType
<1>3. CASE Proceed(Append(Drop(2), IntValue(Wrapped(n))), 1) /\ UNCHANGED <<memory, call_stack>>
  <2> HIDE DEF n
  <2>1. IntValue(Wrapped(n)) \in Value
    BY <1>1, Conversions
  <2> QED
    BY <1>1, <1>3, <2>1, ReplaceType, ProceedOK
<1> QED
  BY <1>2, <1>3 DEF Arithmetic

LEMMA StoreOK ==
  ASSUME MachineOK, Ready(STORE), Store
  PROVE  MachineOK'
<1> DEFINE addr == Unsigned(Operand(1).v)
<1>1. /\ 2 \in 0 .. Len(stack) /\ Operand(2) \in Value /\ Operand(1).v \in Int
  BY OneInt, NumbersAssumption DEF Int64
<1>2. addr \in UInt64
  BY <1>1, Conversions
<1>3. memory' = [a \in DOMAIN memory \cup {addr} |->
                   IF a = addr THEN Operand(2) ELSE memory[a]]
      /\ Proceed(Drop(2), 1) /\ UNCHANGED call_stack
  BY DEF Store
<1> HIDE DEF addr
<1>4. memory' \in [DOMAIN memory' -> Value] /\ DOMAIN memory' \subseteq UInt64
  BY <1>1, <1>2, <1>3 DEF MachineOK
<1>5. Drop(2) \in Seq(Value) /\ Len(Drop(2)) <= MaxStack
  BY <1>1, DropType, LenProperties, NumbersAssumption DEF MachineOK
<1>6. /\ stack' = Drop(2) /\ program_counter' = program_counter + 1
      /\ UNCHANGED <<status, state_root, call_stack>>
  BY <1>3 DEF Proceed
<1> QED
  BY <1>4, <1>5, <1>6 DEF MachineOK

LEMMA LoadOK ==
  ASSUME MachineOK, Ready(LOAD), Load
  PROVE  MachineOK'
<1> DEFINE addr == Unsigned(Operand(1).v)
<1>1. 1 \in 0 .. Len(stack) /\ 1 \in 1 .. Len(stack)
  BY OneInt
<1>2. CASE Abort(Drop(1), "MemoryError")
  BY <1>1, <1>2, AbortOK, HowType
<1>3. CASE /\ addr \in DOMAIN memory
           /\ Proceed(Append(Drop(1), memory[addr]), 1)
           /\ UNCHANGED <<memory, call_stack>>
  <2>1. memory[addr] \in Value
    BY <1>3 DEF MachineOK
  <2> QED
    BY <1>1, <1>3, <2>1, ReplaceType, ProceedOK
<1> QED
  BY <1>2, <1>3 DEF Load

LEMMA CreateOK ==
  ASSUME MachineOK, program \in Programs, Ready(CREATE), Create
  PROVE  MachineOK'
<1> DEFINE balance == Unsigned(Operand(1).v)
           size    == Unsigned(Operand(2).v)
           code    == Slice(program_counter + 1, size)
           pushed  == <<[type |-> "Address", of |-> code],
                        [type |-> "Contract", code |-> code, balance |-> balance]>>
<1>1. /\ 2 \in 0 .. Len(stack)
      /\ Operand(1).v \in Int /\ Operand(2).v \in Int
  BY TwoInts, NumbersAssumption DEF Int64
<1>2. balance \in UInt64 /\ size \in Nat /\ program_counter + 1 \in Nat
  BY <1>1, Conversions DEF MachineOK
<1>3. CASE Abort(Drop(2), "GasLimitExceeded") \/ Abort(Drop(2), "panic")
  BY <1>1, <1>3, AbortOK, HowType
<1>4. CASE /\ InBounds(program_counter + 1, size)
           /\ Proceed(Drop(2) \o pushed, 1 + size)
           /\ UNCHANGED <<memory, call_stack>>
  <2>1. code \in Seq(Byte)
    BY <1>2, <1>4, SliceType
  <2> HIDE DEF balance, size, code
  <2>2. pushed \in Seq(Value) /\ Len(pushed) = 2
    BY <1>2, <2>1 DEF Value
  <2>3. /\ Drop(2) \in Seq(Value) /\ Len(Drop(2)) = Len(stack) - 2
        /\ Len(stack) \in Nat
    BY <1>1, DropType, LenProperties DEF MachineOK
  <2> HIDE DEF pushed
  <2>4. Drop(2) \o pushed \in Seq(Value) /\ Len(Drop(2) \o pushed) = Len(stack)
    <3>1. /\ Drop(2) \o pushed \in Seq(Value)
          /\ Len(Drop(2) \o pushed) = Len(Drop(2)) + Len(pushed)
      BY <2>2, <2>3, ConcatProperties
    <3> QED
      BY <2>2, <2>3, <3>1
  <2>5. 1 + size \in Nat
    BY <1>2
  <2> QED
    BY <1>4, <2>4, <2>5, ProceedOK DEF MachineOK
<1> QED
  BY <1>3, <1>4 DEF Create

LEMMA CallOK ==
  ASSUME MachineOK, Ready(CALL), Call
  PROVE  MachineOK'
<1> DEFINE frame == [address |-> Operand(1).of, value |-> Unsigned(Operand(2).v),
                     gas_limit |-> Unsigned(Operand(3).v), code |-> memory[Callee].code,
                     return_data |-> <<>>]
<1>1. /\ 3 \in 0 .. Len(stack) /\ Operand(1).of \in Seq(Byte)
      /\ Operand(2).v \in Int /\ Operand(3).v \in Int
  BY AnAddress, NumbersAssumption DEF Int64
<1>2. CASE Abort(Drop(3), "ExecutionError")
  BY <1>1, <1>2, AbortOK, HowType
<1>3. CASE /\ HasCallee
           /\ call_stack' = Append(call_stack, frame)
           /\ Proceed(Drop(3), 1)
           /\ UNCHANGED memory
  <2>1. memory[Callee] \in Value /\ memory[Callee].type = "Contract"
    BY <1>3 DEF HasCallee, MachineOK
  <2>2. memory[Callee].code \in Seq(Byte)
    BY <2>1 DEF Value
  <2>3. Unsigned(Operand(2).v) \in UInt64 /\ Unsigned(Operand(3).v) \in UInt64
    BY <1>1, Conversions
  <2>4. frame \in Frame
    BY <1>1, <2>2, <2>3 DEF Frame
  <2> HIDE DEF frame
  <2>5. call_stack' \in Seq(Frame)
    BY <1>3, <2>4, AppendProperties DEF MachineOK
  <2>6. Drop(3) \in Seq(Value) /\ Len(Drop(3)) <= MaxStack
    <3>1. /\ stack \in Seq(Value) /\ Len(stack) \in Nat /\ MaxStack \in Nat
          /\ Len(stack) <= MaxStack
      BY LenProperties, NumbersAssumption DEF MachineOK
    <3> QED
      BY <1>1, <3>1, DropType
  <2>7. /\ stack' = Drop(3) /\ program_counter' = program_counter + 1
        /\ UNCHANGED <<status, state_root, memory>>
    BY <1>3 DEF Proceed
  <2> QED
    BY <2>5, <2>6, <2>7 DEF MachineOK
<1> QED
  BY <1>2, <1>3 DEF Call

LEMMA ReturnOK ==
  ASSUME MachineOK, program \in Programs, Ready(RETURN), Return
  PROVE  MachineOK'
<1> DEFINE size   == Unsigned(Operand(1).v)
           offset == Unsigned(Operand(2).v)
<1>1. /\ 2 \in 0 .. Len(stack)
      /\ Operand(1).v \in Int /\ Operand(2).v \in Int
  BY TwoInts, NumbersAssumption DEF Int64
<1>2. Drop(2) \in Seq(Value) /\ Len(Drop(2)) <= MaxStack
  BY <1>1, DropType, LenProperties, NumbersAssumption DEF MachineOK
<1>3. CASE Abort(Drop(2), "panic")
  BY <1>1, <1>3, AbortOK, HowType
<1>4. CASE Proceed(Drop(2), 1) /\ UNCHANGED <<memory, call_stack>>
  BY <1>2, <1>4, ProceedOK
<1>5. CASE /\ call_stack # <<>> /\ InBounds(offset, size)
           /\ call_stack' = [call_stack EXCEPT ![Len(call_stack)].return_data =
                               Slice(offset, size)]
           /\ Proceed(Drop(2), 1)
           /\ UNCHANGED memory
  <2>1. size \in Nat /\ offset \in Nat
    BY <1>1, Conversions
  <2> HIDE DEF size, offset
  <2>2. Slice(offset, size) \in Seq(Byte)
    BY <1>5, <2>1, SliceType
  <2>3. /\ Len(call_stack) \in 1 .. Len(call_stack)
        /\ call_stack[Len(call_stack)] \in Frame
    BY <1>5, EmptySeq, LenProperties, ElementOfSeq DEF MachineOK
  <2> DEFINE top == [call_stack[Len(call_stack)] EXCEPT !.return_data = Slice(offset, size)]
  <2>4. top \in Frame
    BY <2>2, <2>3 DEF Frame
  <2>5. call_stack' = [call_stack EXCEPT ![Len(call_stack)] = top]
    BY <1>5
  <2> HIDE DEF top
  <2>6. call_stack' \in Seq(Frame)
    BY <2>3, <2>4, <2>5, ExceptSeq DEF MachineOK
  <2> QED
    BY <1>2, <1>5, <2>6 DEF MachineOK, Proceed
<1> QED
  BY <1>3, <1>4, <1>5 DEF Return

LEMMA Sha3OK ==
  ASSUME MachineOK, program \in Programs, Ready(SHA3), Sha3
  PROVE  MachineOK'
<1> DEFINE size   == Unsigned(Operand(1).v)
           offset == Unsigned(Operand(2).v)
           digest == [type |-> "Bytes", of |-> Slice(offset, size)]
<1>1. /\ 2 \in 0 .. Len(stack) /\ 2 \in 1 .. Len(stack)
      /\ Operand(1).v \in Int /\ Operand(2).v \in Int
  BY TwoInts, NumbersAssumption DEF Int64
<1>2. CASE Abort(Drop(2), "panic")
  BY <1>1, <1>2, AbortOK, HowType
<1>3. CASE /\ InBounds(offset, size)
           /\ Proceed(Append(Drop(2), digest), 1)
           /\ UNCHANGED <<memory, call_stack>>
  <2>1. size \in Nat /\ offset \in Nat
    BY <1>1, Conversions
  <2> HIDE DEF size, offset
  <2>2. Slice(offset, size) \in Seq(Byte)
    BY <1>3, <2>1, SliceType
  <2>3. digest \in Value
    BY <2>2 DEF Value
  <2> QED
    BY <1>1, <1>3, <2>3, ReplaceType, ProceedOK
<1> QED
  BY <1>2, <1>3 DEF Sha3

LEMMA BalanceOK ==
  ASSUME MachineOK, Ready(BALANCE), Balance
  PROVE  MachineOK'
<1> DEFINE answer == IntValue(Wrapped(memory[Callee].balance))
<1>1. 1 \in 0 .. Len(stack) /\ 1 \in 1 .. Len(stack)
  BY AnAddress
<1>2. CASE Abort(Drop(1), "ExecutionError")
  BY <1>1, <1>2, AbortOK, HowType
<1>3. CASE /\ HasCallee
           /\ Proceed(Append(Drop(1), answer), 1)
           /\ UNCHANGED <<memory, call_stack>>
  <2>1. memory[Callee] \in Value /\ memory[Callee].type = "Contract"
    BY <1>3 DEF HasCallee, MachineOK
  <2>2. memory[Callee].balance \in Int
    BY <2>1, NumbersAssumption DEF Value, UInt64
  <2>3. answer \in Value
    BY <2>2, Conversions
  <2> QED
    BY <1>1, <1>3, <2>3, ReplaceType, ProceedOK
<1> QED
  BY <1>2, <1>3 DEF Balance

LEMMA HaltOK ==
  ASSUME MachineOK, Halt
  PROVE  MachineOK'
BY HowType DEF MachineOK, Halt

-----------------------------------------------------------------------------
(* A step of the loop.                                                     *)

\* What one charged instruction does: it keeps the machine well formed, and
\* pays the base price at least.
LEMMA InstructionOK ==
  ASSUME TypeOK, MachineOK, Instruction
  PROVE  /\ MachineOK'
         /\ steps' = steps + 1
         /\ gas_remaining' \in Nat
         /\ gas_remaining' + BaseCost <= gas_remaining
<1> DEFINE paid == gas_remaining' \in Nat /\ gas_remaining' + BaseCost <= gas_remaining
<1>1. program \in Programs /\ gas_remaining \in Nat
  BY DEF TypeOK
<1>2. ASSUME Op = CREATE, Ready(Op), Create PROVE MachineOK' /\ paid
  <2>1. MachineOK'
    BY <1>1, <1>2, CreateOK
  <2>2. OpCost[CREATE] = 400
    BY DEF OpCost, PUSH, ADD, MUL, STORE, LOAD, CREATE, CALL, RETURN, SHA3, BALANCE
  <2>3. Spend(OpCost[CREATE]) \/ Spend(OpCost[CREATE] + ContractCreation)
    BY <1>2 DEF Create
  <2>4. paid
    BY <1>1, <2>2, <2>3 DEF Spend, ContractCreation, BaseCost
  <2> QED
    BY <2>1, <2>4
<1>3. ASSUME Spend(GasCost(Op)) PROVE paid
  BY <1>1, <1>3, Prices DEF Spend, BaseCost
<1>4. ASSUME Op \notin Implemented, Abort(stack, "InvalidOpcode") PROVE MachineOK'
  BY <1>4, AbortAtOK, HowType
<1>5. ASSUME Underflow(Op) PROVE MachineOK'
  BY <1>5, UnderflowOK
<1>6. ASSUME Push PROVE MachineOK'
  BY <1>1, <1>6, PushOK
<1>7. ASSUME Op \in {ADD, MUL}, Ready(Op), Arithmetic(Op) PROVE MachineOK'
  BY <1>7, ArithmeticOK
<1>8. ASSUME Op = STORE, Ready(Op), Store PROVE MachineOK'
  BY <1>8, StoreOK
<1>9. ASSUME Op = LOAD, Ready(Op), Load PROVE MachineOK'
  BY <1>9, LoadOK
<1>10. ASSUME Op = CALL, Ready(Op), Call PROVE MachineOK'
  BY <1>10, CallOK
<1>11. ASSUME Op = RETURN, Ready(Op), Return PROVE MachineOK'
  BY <1>1, <1>11, ReturnOK
<1>12. ASSUME Op = SHA3, Ready(Op), Sha3 PROVE MachineOK'
  BY <1>1, <1>12, Sha3OK
<1>13. ASSUME Op = BALANCE, Ready(Op), Balance PROVE MachineOK'
  BY <1>13, BalanceOK
<1>14. ASSUME Halt PROVE MachineOK'
  BY <1>14, HaltOK
<1> HIDE DEF paid
<1>15. MachineOK' /\ paid
  BY <1>2, <1>3, <1>4, <1>5, <1>6, <1>7, <1>8, <1>9, <1>10, <1>11, <1>12, <1>13, <1>14
  DEF Instruction
<1>16. steps' = steps + 1
  BY DEF Instruction
<1> QED
  BY <1>15, <1>16 DEF paid

-----------------------------------------------------------------------------
(* Types, the stack limit and gas.                                         *)

VMInv == TypeOK /\ StackBounded /\ GasPaysForSteps

LEMMA MachineIsTyped == TypeOK /\ StackBounded => MachineOK
BY DEF TypeOK, StackBounded, MachineOK

LEMMA VMInvInductive ==
  /\ Init => VMInv
  /\ VMInv /\ [Next]_vars => VMInv'
<1>1. Init => VMInv
  <2> SUFFICES ASSUME Init PROVE VMInv
    OBVIOUS
  <2>1. /\ <<>> \in Seq(Value) /\ <<>> \in Seq(Frame) /\ Len(<<>>) = 0
    BY EmptySeq
  <2>2. gas_limit \in Nat /\ MaxStack \in Nat
    BY NumbersAssumption DEF Init
  <2> QED
    BY <2>1, <2>2 DEF Init, VMInv, TypeOK, StackBounded, GasPaysForSteps, BaseCost
<1>2. ASSUME VMInv, [Next]_vars PROVE VMInv'
  <2> USE <1>2 DEF VMInv
  <2>1. MachineOK
    BY MachineIsTyped
  <2>2. gas_limit \in Nat
    BY NumbersAssumption DEF TypeOK
  <2>3. CASE UNCHANGED vars
    BY <2>3 DEF vars, context, TypeOK, StackBounded, GasPaysForSteps
  <2>4. CASE Execute
    BY <2>4, HowType DEF Execute, context, TypeOK, StackBounded, GasPaysForSteps
  <2>5. CASE Step
    <3>1. UNCHANGED <<program, gas_limit, calls, results>>
      BY <2>5 DEF Step
    <3>2. CASE Instruction
      <4>1. /\ MachineOK' /\ steps' = steps + 1
            /\ gas_remaining' \in Nat /\ gas_remaining' + BaseCost <= gas_remaining
        BY <2>1, <3>2, InstructionOK
      <4> QED
        <5>1. steps' \in Nat /\ BaseCost * steps' + gas_remaining' <= gas_limit'
          BY <2>2, <3>1, <4>1 DEF TypeOK, GasPaysForSteps, BaseCost
        <5> QED
          BY <3>1, <4>1, <5>1 DEF TypeOK, MachineOK, StackBounded, GasPaysForSteps
    <3>3. CASE OutOfGas
      <4>1. MachineOK'
        BY <2>1, <3>3, AbortAtOK, HowType DEF OutOfGas
      <4> QED
        BY <3>1, <3>3, <4>1
        DEF OutOfGas, TypeOK, MachineOK, StackBounded, GasPaysForSteps
    <3>4. CASE Halt /\ UNCHANGED <<gas_remaining, steps>>
      <4>1. MachineOK'
        BY <2>1, <3>4, HaltOK
      <4> QED
        BY <3>1, <3>4, <4>1 DEF TypeOK, MachineOK, StackBounded, GasPaysForSteps
    <3> QED
      BY <2>5, <3>2, <3>3, <3>4 DEF Step
  <2> QED
    BY <2>3, <2>4, <2>5 DEF Next
<1> QED
  BY <1>1, <1>2

LEMMA VMInvariant == Spec => []VMInv
BY VMInvInductive, PTL DEF Spec

\* Every variable of the machine keeps its type.
THEOREM TypeCorrect == Spec => []TypeOK
BY VMInvariant, PTL DEF VMInv

\* The stack never grows past the limit that only PUSH tests.
THEOREM StackLimit == Spec => []StackBounded
BY VMInvariant, PTL DEF VMInv

\* Over all calls, the gas a machine starts with bounds the instructions.
THEOREM GasBounds == Spec => []GasPaysForSteps
BY VMInvariant, PTL DEF VMInv

-----------------------------------------------------------------------------
(* What a result says about later calls.                                   *)

\* After a success the machine stands at STOP or at the end of the program.
Halted ==
  state_root = "computed" => (program_counter < Len(program) => Op = STOP)

\* At STOP or the end nothing is left to do but pay.
LEMMA HaltedSteps ==
  ASSUME VMInv, Halted, Step, state_root = "computed"
  PROVE  UNCHANGED <<stack, memory, program_counter, call_stack, state_root>>
<1>1. CASE OutOfGas
  BY <1>1 DEF OutOfGas, Abort
<1>2. CASE Halt
  BY <1>2 DEF Halt
<1>3. CASE program_counter < Len(program) /\ Instruction
  <2>1. Op = STOP
    BY <1>3 DEF Halted
  <2>2. ~Underflow(Op)
    BY <2>1 DEF Underflow, Operands, ADD, MUL, STORE, LOAD, CREATE, CALL, RETURN,
                SHA3, BALANCE, STOP
  <2>3. Halt
    BY <1>3, <2>1, <2>2
    DEF Instruction, Implemented, PUSH, ADD, MUL, STORE, LOAD, CREATE, CALL, RETURN,
        SHA3, BALANCE, STOP
  <2> QED
    BY <2>3 DEF Halt
<1> QED
  BY <1>1, <1>2, <1>3 DEF Step

\* Only Halt computes the state root, at STOP or at the end.
LEMMA RootOnlyByHalt ==
  ASSUME VMInv, Step, state_root = "zero", state_root' = "computed"
  PROVE  Halted'
<1>1. UNCHANGED program
  BY DEF Step
<1>2. CASE program_counter >= Len(program)
  <2>1. program_counter' = program_counter
    BY <1>2 DEF Step, Halt, VMInv, TypeOK, OutOfGas
  <2>2. Len(program) \in Nat /\ program_counter \in Nat
    BY ProgramsAssumption, LenProperties DEF VMInv, TypeOK
  <2> QED
    BY <1>1, <1>2, <2>1, <2>2 DEF Halted
<1>3. CASE ~(program_counter >= Len(program))
  <2>1. Instruction
    BY <1>3 DEF Step, OutOfGas, Abort
  <2>2. Op = STOP /\ Halt
    BY <2>1 DEF Instruction, Create, Underflow, Push, Arithmetic, Store, Load, Call,
                Return, Sha3, Balance, Abort, Proceed
  <2> QED
    BY <1>1, <2>2 DEF Halt, Halted, Op, Fetch
<1> QED
  BY <1>2, <1>3

LEMMA HaltedInvariant == Spec => []Halted
<1>1. Init => Halted
  BY DEF Init, Halted
<1>2. VMInv /\ Halted /\ [Next]_vars => Halted'
  <2> SUFFICES ASSUME VMInv, Halted, [Next]_vars PROVE Halted'
    OBVIOUS
  <2>1. CASE UNCHANGED <<program, context>>
    BY <2>1 DEF context, Halted, Op, Fetch
  <2>2. CASE Step
    <3>1. program' = program /\ state_root \in {"zero", "computed"}
      BY <2>2 DEF Step, VMInv, TypeOK
    <3>2. CASE state_root = "computed"
      BY <2>2, <3>1, <3>2, HaltedSteps DEF Halted, Op, Fetch
    <3>3. CASE state_root = "zero"
      BY <2>2, <3>3, RootOnlyByHalt DEF Halted
    <3> QED
      BY <3>1, <3>2, <3>3
  <2> QED
    BY <2>1, <2>2 DEF Next, Execute, vars, context
<1> QED
  BY <1>1, <1>2, VMInvariant, PTL DEF Spec

\* What a successful call computed is never changed by a later one.
THEOREM SuccessStays == Spec => SuccessIsFinal
<1>1. VMInv /\ Halted /\ [Next]_vars
        => [state_root = "computed" =>
              UNCHANGED <<stack, memory, program_counter, call_stack, state_root>>]_vars
  BY HaltedSteps DEF Next, Execute, context, vars
<1> QED
  BY <1>1, VMInvariant, HaltedInvariant, PTL DEF Spec, SuccessIsFinal

-----------------------------------------------------------------------------
(* Errors that no further call makes good.                                 *)

\* What an instruction may cost in all.
FullCost(op) == GasCost(op) + (IF op = CREATE THEN ContractCreation ELSE 0)

\* The reason for error r still stands at the instruction at hand.
Blocked(r) ==
  /\ program_counter < Len(program)
  /\ \/ r = "GasLimitExceeded" /\ gas_remaining < FullCost(Op)
     \/ r = "InvalidOpcode" /\ Op \notin Implemented
     \/ r = "StackOverflow" /\ Op = PUSH /\ StackFull

\* Every permanent error reported so far still has its reason.
ErrorsStand == \A r \in (results \cup {status}) \cap Permanent : Blocked(r)

\* Gas that is too little stays too little.
LEMMA StaysShort ==
  ASSUME Blocked("GasLimitExceeded"), UNCHANGED <<program, program_counter>>,
         gas_remaining \in Nat, gas_remaining' \in Int, gas_remaining' <= gas_remaining
  PROVE  Blocked("GasLimitExceeded")'
<1>1. /\ program_counter < Len(program)
      /\ gas_remaining < FullCost(Op)
  BY DEF Blocked
<1>2. Op' = Op
  BY DEF Op, Fetch
<1>3. FullCost(Op) \in Int
  BY Prices DEF FullCost, ContractCreation
<1>4. gas_remaining' < FullCost(Op)
  BY <1>1, <1>3
<1> QED
  BY <1>1, <1>2, <1>4 DEF Blocked, FullCost, GasCost

\* A blocked step reports an error again, moves nothing, and stays blocked.
LEMMA BlockedStep ==
  ASSUME VMInv, Step, NEW r \in Permanent, Blocked(r)
  PROVE  status' # "ok" /\ Blocked(r)'
<1> USE DEF Permanent
<1>1. /\ program_counter < Len(program) /\ program' = program
      /\ ~(program_counter >= Len(program))
      /\ gas_remaining \in Nat
  <2>1. Len(program) \in Nat /\ program_counter \in Nat
    BY ProgramsAssumption, LenProperties DEF VMInv, TypeOK
  <2> QED
    BY <2>1 DEF Blocked, Step, VMInv, TypeOK
<1>2. OutOfGas \/ Instruction
  BY <1>1 DEF Step
<1>3. CASE OutOfGas
  BY <1>1, <1>3 DEF OutOfGas, Abort, Blocked, Op, Fetch, StackFull
<1>4. CASE Instruction
  <2>1. CASE r = "GasLimitExceeded"
    <3>1. gas_remaining < FullCost(Op)
      BY <2>1 DEF Blocked
    <3>2. GasCost(Op) \in Nat /\ (Op = CREATE => GasCost(Op) = OpCost[CREATE])
      BY Prices
    <3>3. gas_remaining >= GasCost(Op)
      BY <1>4 DEF Instruction, Spend
    <3>4. Op = CREATE
      BY <1>1, <3>1, <3>2, <3>3 DEF FullCost
    <3>5. CASE Ready(Op) /\ Create
      <4>1. ~Spend(OpCost[CREATE] + ContractCreation)
        BY <1>1, <3>1, <3>2, <3>4 DEF Spend, FullCost, ContractCreation
      <4>2. /\ Abort(Drop(2), "GasLimitExceeded")
            /\ gas_remaining' = gas_remaining - GasCost(Op)
        BY <3>2, <3>4, <3>5, <4>1 DEF Create, Spend
      <4>3. /\ UNCHANGED <<program, program_counter>>
            /\ gas_remaining' \in Int /\ gas_remaining' <= gas_remaining
        BY <1>1, <3>2, <4>2 DEF Abort
      <4>4. Blocked("GasLimitExceeded")'
        BY <1>1, <2>1, <4>3, StaysShort
      <4> QED
        BY <2>1, <4>2, <4>4 DEF Abort
    <3>6. CASE Spend(GasCost(Op)) /\ Underflow(Op)
      <4>1. /\ status' = "StackUnderflow" /\ program_counter' = program_counter
            /\ gas_remaining' = gas_remaining - GasCost(Op)
        BY <3>6 DEF Underflow, Abort, Spend
      <4>2. /\ UNCHANGED <<program, program_counter>>
            /\ gas_remaining' \in Int /\ gas_remaining' <= gas_remaining
        BY <1>1, <3>2, <4>1
      <4>3. Blocked("GasLimitExceeded")'
        BY <1>1, <2>1, <4>2, StaysShort
      <4> QED
        BY <2>1, <4>1, <4>3
    <3> QED
      BY <1>4, <3>4, <3>5, <3>6
      DEF Instruction, Implemented, PUSH, ADD, MUL, STORE, LOAD, CREATE, CALL, RETURN,
          SHA3, BALANCE, STOP
  <2>2. CASE r = "InvalidOpcode"
    <3>1. Op \notin Implemented
      BY <2>2 DEF Blocked
    <3>2. Abort(stack, "InvalidOpcode")
      BY <1>4, <3>1
      DEF Instruction, Implemented, Push, Halt
    <3> QED
      BY <1>1, <2>2, <3>1, <3>2 DEF Abort, Blocked, Op, Fetch
  <2>3. CASE r = "StackOverflow"
    <3>1. Op = PUSH /\ StackFull
      BY <2>3 DEF Blocked
    <3>2. ~Underflow(Op)
      BY <3>1 DEF Underflow, Operands, PUSH, ADD, MUL, STORE, LOAD, CREATE, CALL,
                  RETURN, SHA3, BALANCE
    <3>3. Push
      BY <1>4, <3>1, <3>2
      DEF Instruction, Implemented, PUSH, ADD, MUL, STORE, LOAD, CREATE, CALL, RETURN,
          SHA3, BALANCE, STOP
    <3>4. Abort(stack, "panic") \/ Abort(stack, "StackOverflow")
      BY <3>1, <3>3 DEF Push
    <3> QED
      BY <1>1, <2>3, <3>1, <3>4 DEF Abort, Blocked, Op, Fetch, StackFull
  <2> QED
    BY <2>1, <2>2, <2>3
<1> QED
  BY <1>2, <1>3, <1>4

\* A step that reports a permanent error had its reason.
LEMMA ErrorHasReason ==
  ASSUME VMInv, Step, NEW r \in Permanent, status' = r
  PROVE  Blocked(r)
<1> USE DEF Permanent
<1>1. gas_remaining \in Nat
  BY DEF VMInv, TypeOK
<1>2. program_counter < Len(program) /\ (OutOfGas \/ Instruction)
  BY DEF Step, Halt
<1>3. GasCost(Op) \in Nat /\ (Op = CREATE => GasCost(Op) = OpCost[CREATE])
  BY Prices
<1>4. CASE OutOfGas
  <2>1. gas_remaining < GasCost(Op) /\ r = "GasLimitExceeded"
    BY <1>4 DEF OutOfGas, Abort
  <2>2. gas_remaining < FullCost(Op)
    BY <1>1, <1>3, <2>1 DEF FullCost, ContractCreation
  <2> QED
    BY <1>2, <2>1, <2>2 DEF Blocked
<1>5. ASSUME Op = CREATE, Create PROVE Blocked(r)
  <2>1. r = "GasLimitExceeded" /\ gas_remaining < OpCost[CREATE] + ContractCreation
    BY <1>5 DEF Create, Abort, Proceed, Step
  <2>2. gas_remaining < FullCost(Op)
    BY <1>3, <1>5, <2>1 DEF FullCost
  <2> QED
    BY <1>2, <2>1, <2>2 DEF Blocked
<1>6. ASSUME Op = PUSH, Push PROVE Blocked(r)
  BY <1>2, <1>6 DEF Push, Blocked, Abort, Proceed, Step
<1>7. ASSUME Op \notin Implemented, Abort(stack, "InvalidOpcode") PROVE Blocked(r)
  BY <1>2, <1>7 DEF Abort, Blocked
<1>8. ~Underflow(Op)
  BY DEF Underflow, Abort
<1>9. /\ Op \in {ADD, MUL} => ~Arithmetic(Op)
      /\ ~Store /\ ~Load /\ ~Call /\ ~Return /\ ~Sha3 /\ ~Balance /\ ~Halt
  BY DEF Step, Arithmetic, Store, Load, Call, Return, Sha3, Balance, Halt, Abort, Proceed
<1> QED
  BY <1>2, <1>4, <1>5, <1>6, <1>7, <1>8, <1>9 DEF Instruction

LEMMA ErrorsInvariant == Spec => [](ErrorsStand /\ PermanentErrors)
<1>1. Init => ErrorsStand /\ PermanentErrors
  BY DEF Init, ErrorsStand, PermanentErrors, Permanent
<1>2. VMInv /\ ErrorsStand /\ PermanentErrors /\ [Next]_vars
        => (ErrorsStand /\ PermanentErrors)'
  <2> SUFFICES ASSUME VMInv, ErrorsStand, PermanentErrors, [Next]_vars
               PROVE  (ErrorsStand /\ PermanentErrors)'
    OBVIOUS
  <2>1. CASE UNCHANGED vars
    BY <2>1 DEF vars, context, ErrorsStand, PermanentErrors, Blocked, FullCost, GasCost,
                Op, Fetch, StackFull
  <2>2. CASE Execute
    <3>1. \A r \in Permanent : Blocked(r)' <=> Blocked(r)
      BY <2>2 DEF Execute, context, Blocked, FullCost, GasCost, Op, Fetch, StackFull
    <3>2. (results \cup {status})' = results \cup {status, "running"} /\ status' = "running"
      BY <2>2 DEF Execute
    <3>3. "running" \notin Permanent
      BY DEF Permanent
    <3> QED
      BY <3>1, <3>2, <3>3 DEF ErrorsStand, PermanentErrors
  <2>3. CASE Step
    <3>1. results' = results
      BY <2>3 DEF Step
    <3>2. ASSUME NEW r \in Permanent, r \in results \/ r = status'
          PROVE  Blocked(r)
      BY <2>3, <3>2, ErrorHasReason DEF ErrorsStand
    <3>3. ASSUME NEW r \in Permanent, r \in results \/ r = status'
          PROVE  Blocked(r)' /\ status' # "ok"
      BY <2>3, <3>2, <3>3, BlockedStep
    <3>4. ErrorsStand'
      BY <3>1, <3>3 DEF ErrorsStand
    <3>5. PermanentErrors'
      BY <3>1, <3>3 DEF PermanentErrors
    <3> QED
      BY <3>4, <3>5
  <2> QED
    BY <2>1, <2>2, <2>3 DEF Next
<1> QED
  BY <1>1, <1>2, VMInvariant, PTL DEF Spec

\* No call succeeds after one that ran out of gas, met an unknown instruction
\* or a full stack.
THEOREM ErrorsArePermanent == Spec => []PermanentErrors
BY ErrorsInvariant, PTL

-----------------------------------------------------------------------------
(* Contracts and what was paid for them.                                   *)

Items(f) == {f[i] : i \in DOMAIN f}

\* No contract is in reach that was not before.
NoNewContract == Contracts' \subseteq Contracts

\* The operands of an instruction are on the stack, and so is what stays of it.
LEMMA StackItems ==
  ASSUME stack \in Seq(Value)
  PROVE  /\ \A n \in 0 .. Len(stack) : Drop(n) \in Seq(Value) /\ Items(Drop(n)) \subseteq Items(stack)
         /\ \A i \in 1 .. Len(stack) : Operand(i) \in Items(stack)
<1>1. Len(stack) \in Nat /\ DOMAIN stack = 1 .. Len(stack)
  BY LenProperties
<1>2. \A i \in 1 .. Len(stack) : stack[i] \in Value
  BY ElementOfSeq
<1>3. ASSUME NEW n \in 0 .. Len(stack)
      PROVE  Drop(n) \in Seq(Value) /\ Items(Drop(n)) \subseteq Items(stack)
  <2> DEFINE m == Len(stack) - n
             s == SubSeq(stack, 1, m)
  <2>1. m \in Nat /\ m <= Len(stack) /\ \A i \in 1 .. m : stack[i] \in Value
    BY <1>1, <1>2
  <2>2. Drop(n) = s
    BY DEF Drop
  <2> HIDE DEF m
  <2>3. /\ s \in Seq(Value)
        /\ Len(s) = IF 1 <= m THEN m - 1 + 1 ELSE 0
        /\ \A i \in 1 .. m - 1 + 1 : s[i] = stack[1 + i - 1]
    BY <2>1, SubSeqProperties
  <2>4. DOMAIN s = 1 .. m
    BY <2>1, <2>3, LenProperties
  <2> HIDE DEF s
  <2>5. \A i \in 1 .. m : s[i] = stack[i] /\ i \in 1 .. Len(stack)
    BY <1>1, <2>1, <2>3
  <2>6. Items(s) \subseteq Items(stack)
    BY <1>1, <2>4, <2>5 DEF Items
  <2> QED
    BY <2>2, <2>3, <2>6
<1>4. ASSUME NEW i \in 1 .. Len(stack)
      PROVE  Operand(i) \in Items(stack)
  <2>1. Len(stack) + 1 - i \in DOMAIN stack
    BY <1>1
  <2> QED
    BY <2>1 DEF Operand, Items
<1> QED
  BY <1>3, <1>4

LEMMA AppendItems ==
  ASSUME NEW s \in Seq(Value), NEW x \in Value
  PROVE  Items(Append(s, x)) = Items(s) \cup {x}
<1>1. /\ Len(s) \in Nat /\ DOMAIN s = 1 .. Len(s)
      /\ DOMAIN Append(s, x) = 1 .. Len(s) + 1
      /\ \A i \in 1 .. Len(s) : Append(s, x)[i] = s[i]
      /\ Append(s, x)[Len(s) + 1] = x
  BY LenProperties, AppendProperties
<1>2. 1 .. Len(s) + 1 = (1 .. Len(s)) \cup {Len(s) + 1}
  BY <1>1
<1> QED
  BY <1>1, <1>2 DEF Items

\* A failing instruction only drops.
LEMMA AbortItems ==
  ASSUME stack \in Seq(Value), NEW n \in 0 .. Len(stack), NEW how, Abort(Drop(n), how)
  PROVE  NoNewContract
<1>1. stack' = Drop(n) /\ memory' = memory
  BY DEF Abort
<1>2. Items(stack') \subseteq Items(stack)
  BY <1>1, StackItems
<1> QED
  BY <1>1, <1>2 DEF NoNewContract, Contracts, Items

LEMMA AbortAtItems ==
  ASSUME NEW how, Abort(stack, how)
  PROVE  NoNewContract
BY DEF Abort, NoNewContract, Contracts

\* An instruction that pops n operands and pushes x, which is no contract or one
\* from the memory.
LEMMA ReplaceItems ==
  ASSUME stack \in Seq(Value), NEW n \in 0 .. Len(stack), NEW x \in Value,
         x.type = "Contract" => x \in Items(memory),
         stack' = Append(Drop(n), x), memory' = memory
  PROVE  NoNewContract
<1>1. Drop(n) \in Seq(Value) /\ Items(Drop(n)) \subseteq Items(stack)
  BY StackItems
<1>2. Items(stack') = Items(Drop(n)) \cup {x}
  BY <1>1, AppendItems
<1> QED
  BY <1>1, <1>2 DEF NoNewContract, Contracts, Items

\* One that pushes nothing.
LEMMA DropItems ==
  ASSUME stack \in Seq(Value), NEW n \in 0 .. Len(stack), stack' = Drop(n), memory' = memory
  PROVE  NoNewContract
<1>1. Items(Drop(n)) \subseteq Items(stack)
  BY StackItems
<1> QED
  BY <1>1 DEF NoNewContract, Contracts, Items

\* STORE moves a value from the stack to the memory.
LEMMA StoreItems ==
  ASSUME MachineOK, Ready(STORE), Store
  PROVE  NoNewContract
<1> DEFINE addr == Unsigned(Operand(1).v)
<1>1. 2 \in 0 .. Len(stack) /\ stack \in Seq(Value)
  BY OneInt DEF MachineOK
<1>2. Operand(2) \in Items(stack) /\ Items(Drop(2)) \subseteq Items(stack)
  <2>1. 2 \in 1 .. Len(stack)
    BY <1>1
  <2> QED
    BY <1>1, <2>1, StackItems
<1>3. /\ stack' = Drop(2)
      /\ memory' = [a \in DOMAIN memory \cup {addr} |->
                      IF a = addr THEN Operand(2) ELSE memory[a]]
  BY DEF Store, Proceed
<1> HIDE DEF addr
<1>4. Items(memory') \subseteq Items(memory) \cup {Operand(2)}
  BY <1>3 DEF Items
<1>5. Items(stack') \cup Items(memory') \subseteq Items(stack) \cup Items(memory)
  BY <1>2, <1>3, <1>4
<1> QED
  BY <1>5 DEF NoNewContract, Contracts, Items

\* CREATE makes one contract and pays for it, or makes none.
NewContractPaid ==
  /\ gas_remaining >= OpCost[CREATE] + ContractCreation
  /\ gas_remaining' = gas_remaining - (OpCost[CREATE] + ContractCreation)
  /\ \E c : Contracts' \subseteq Contracts \cup {c}

LEMMA CreateItems ==
  ASSUME MachineOK, program \in Programs, Ready(CREATE), Create
  PROVE  NoNewContract \/ NewContractPaid
<1> DEFINE balance == Unsigned(Operand(1).v)
           size    == Unsigned(Operand(2).v)
           code    == Slice(program_counter + 1, size)
           a == [type |-> "Address", of |-> code]
           c == [type |-> "Contract", code |-> code, balance |-> balance]
           price == OpCost[CREATE] + ContractCreation
<1>1. /\ 2 \in 0 .. Len(stack) /\ stack \in Seq(Value)
      /\ Operand(1).v \in Int /\ Operand(2).v \in Int
  BY TwoInts, NumbersAssumption DEF Int64, MachineOK
<1>2. balance \in UInt64 /\ size \in Nat /\ program_counter + 1 \in Nat
  BY <1>1, Conversions DEF MachineOK
<1>3. CASE Abort(Drop(2), "GasLimitExceeded") \/ Abort(Drop(2), "panic")
  BY <1>1, <1>3, AbortItems
<1>4. CASE /\ Spend(price)
           /\ InBounds(program_counter + 1, size)
           /\ Proceed(Drop(2) \o <<a, c>>, 1 + size)
           /\ UNCHANGED <<memory, call_stack>>
  <2>1. code \in Seq(Byte)
    BY <1>2, <1>4, SliceType
  <2> HIDE DEF balance, size, code
  <2>2. a \in Value /\ c \in Value /\ a.type # "Contract"
    BY <1>2, <2>1 DEF Value
  <2>3. Drop(2) \in Seq(Value) /\ Items(Drop(2)) \subseteq Items(stack)
    BY <1>1, StackItems
  <2>4. stack' = Drop(2) \o <<a, c>> /\ memory' = memory
    BY <1>4 DEF Proceed
  <2> HIDE DEF a, c
  <2>5. Drop(2) \o <<a, c>> = Append(Append(Drop(2), a), c)
    BY <2>2, <2>3
  <2>6. Append(Drop(2), a) \in Seq(Value)
    BY <2>2, <2>3, AppendProperties
  <2>7. Items(stack') = Items(Drop(2)) \cup {a, c}
    <3>1. Items(Append(Drop(2), a)) = Items(Drop(2)) \cup {a}
      BY <2>2, <2>3, AppendItems
    <3>2. Items(Append(Append(Drop(2), a), c)) = Items(Append(Drop(2), a)) \cup {c}
      BY <2>2, <2>6, AppendItems
    <3> QED
      BY <2>4, <2>5, <3>1, <3>2
  <2>8. Contracts' \subseteq Contracts \cup {c}
    BY <2>2, <2>3, <2>4, <2>7 DEF Contracts, Items
  <2> HIDE DEF price
  <2>9. gas_remaining >= price /\ gas_remaining' = gas_remaining - price
    BY <1>4 DEF Spend
  <2> QED
    BY <2>8, <2>9 DEF NewContractPaid, price
<1> QED
  BY <1>3, <1>4 DEF Create

\* No other instruction makes a contract.
LEMMA InstructionItems ==
  ASSUME TypeOK, MachineOK, Instruction
  PROVE  NoNewContract \/ NewContractPaid
<1>1. program \in Programs /\ stack \in Seq(Value) /\ Len(stack) \in Nat
  BY LenProperties DEF TypeOK
<1>2. ASSUME Op = CREATE, Ready(Op), Create PROVE NoNewContract \/ NewContractPaid
  BY <1>1, <1>2, CreateItems
<1>3. ASSUME Abort(stack, "InvalidOpcode") PROVE NoNewContract
  BY <1>3, AbortAtItems
<1>4. ASSUME Underflow(Op) PROVE NoNewContract
  <2>1. PICK i \in DOMAIN Operands(Op) :
          Abort(Drop(IF i <= Len(stack) THEN i ELSE Len(stack)), "StackUnderflow")
    BY <1>4 DEF Underflow
  <2> DEFINE n == IF i <= Len(stack) THEN i ELSE Len(stack)
  <2>2. n \in 0 .. Len(stack)
    BY <1>1 DEF Operands
  <2>3. Abort(Drop(n), "StackUnderflow")
    BY <2>1
  <2> HIDE DEF n
  <2> QED
    BY <1>1, <2>2, <2>3, AbortItems
<1>5. ASSUME Push PROVE NoNewContract
  <2>1. CASE Abort(stack, "panic") \/ Abort(stack, "StackOverflow")
    BY <2>1, AbortAtItems
  <2> DEFINE b == Fetch(program_counter + 1)
  <2>2. ASSUME program_counter + 1 < Len(program),
               Proceed(Append(stack, IntValue(b)), 2), UNCHANGED memory
        PROVE  NoNewContract
    <3>1. program \in Seq(Byte) /\ Len(program) \in Nat /\ program_counter + 1 \in Nat
      BY <1>1, ProgramsAssumption, LenProperties DEF MachineOK
    <3>2. b \in Byte
      BY <2>2, <3>1, ElementOfSeq DEF Fetch
    <3> HIDE DEF b
    <3>3. IntValue(b) \in Value /\ IntValue(b).type # "Contract"
      BY <3>2, ByteValue DEF IntValue
    <3>4. stack' = Append(Drop(0), IntValue(b)) /\ 0 \in 0 .. Len(stack) /\ memory' = memory
      BY <1>1, <2>2, DropNone DEF Proceed
    <3> QED
      BY <1>1, <3>3, <3>4, ReplaceItems
  <2> QED
    BY <1>5, <2>1, <2>2 DEF Push
<1>6. ASSUME Op \in {ADD, MUL}, Ready(Op), Arithmetic(Op) PROVE NoNewContract
  <2> DEFINE n == IF Op = ADD THEN Operand(2).v + Operand(1).v
                             ELSE Operand(2).v * Operand(1).v
  <2>1. 2 \in 0 .. Len(stack) /\ n \in Int
    BY <1>6, TwoInts, NumbersAssumption DEF Int64
  <2>2. CASE Abort(Drop(2), "panic")
    BY <1>1, <2>1, <2>2, AbortItems
  <2>3. CASE Proceed(Append(Drop(2), IntValue(Wrapped(n))), 1) /\ UNCHANGED memory
    <3> HIDE DEF n
    <3>1. IntValue(Wrapped(n)) \in Value /\ IntValue(Wrapped(n)).type # "Contract"
      BY <2>1, Conversions DEF IntValue
    <3> QED
      BY <1>1, <2>1, <2>3, <3>1, ReplaceItems DEF Proceed
  <2> QED
    BY <1>6, <2>2, <2>3 DEF Arithmetic
<1>7. ASSUME Op = STORE, Ready(Op), Store PROVE NoNewContract
  BY <1>7, StoreItems
<1>8. ASSUME Op = LOAD, Ready(Op), Load PROVE NoNewContract
  <2> DEFINE addr == Unsigned(Operand(1).v)
  <2>1. 1 \in 0 .. Len(stack)
    BY <1>8, OneInt
  <2>2. CASE Abort(Drop(1), "MemoryError")
    BY <1>1, <2>1, <2>2, AbortItems
  <2>3. CASE /\ addr \in DOMAIN memory
             /\ Proceed(Append(Drop(1), memory[addr]), 1)
             /\ UNCHANGED memory
    <3> HIDE DEF addr
    <3>1. memory[addr] \in Value /\ memory[addr] \in Items(memory)
      BY <2>3 DEF MachineOK, Items
    <3> QED
      BY <1>1, <2>1, <2>3, <3>1, ReplaceItems DEF Proceed
  <2> QED
    BY <1>8, <2>2, <2>3 DEF Load
<1>9. ASSUME Op = CALL, Ready(Op), Call PROVE NoNewContract
  <2>1. 3 \in 0 .. Len(stack)
    BY <1>9, AnAddress
  <2> QED
    BY <1>1, <1>9, <2>1, AbortItems, DropItems DEF Call, Proceed
<1>10. ASSUME Op = RETURN, Ready(Op), Return PROVE NoNewContract
  <2>1. 2 \in 0 .. Len(stack)
    BY <1>10, TwoInts
  <2> QED
    BY <1>1, <1>10, <2>1, AbortItems, DropItems DEF Return, Proceed
<1>11. ASSUME Op = SHA3, Ready(Op), Sha3 PROVE NoNewContract
  <2> DEFINE size   == Unsigned(Operand(1).v)
             offset == Unsigned(Operand(2).v)
             x == [type |-> "Bytes", of |-> Slice(offset, size)]
  <2>1. 2 \in 0 .. Len(stack) /\ Operand(1).v \in Int /\ Operand(2).v \in Int
    BY <1>11, TwoInts, NumbersAssumption DEF Int64
  <2>2. CASE Abort(Drop(2), "panic")
    BY <1>1, <2>1, <2>2, AbortItems
  <2>3. CASE InBounds(offset, size) /\ Proceed(Append(Drop(2), x), 1) /\ UNCHANGED memory
    <3>1. size \in Nat /\ offset \in Nat
      BY <2>1, Conversions
    <3> HIDE DEF size, offset
    <3>2. x \in Value /\ x.type # "Contract"
      BY <1>1, <2>3, <3>1, SliceType DEF Value
    <3> HIDE DEF x
    <3> QED
      BY <1>1, <2>1, <2>3, <3>2, ReplaceItems DEF Proceed
  <2> QED
    BY <1>11, <2>2, <2>3 DEF Sha3
<1>12. ASSUME Op = BALANCE, Ready(Op), Balance PROVE NoNewContract
  <2> DEFINE n == memory[Callee].balance
  <2>1. 1 \in 0 .. Len(stack)
    BY <1>12, AnAddress
  <2>2. CASE Abort(Drop(1), "ExecutionError")
    BY <1>1, <2>1, <2>2, AbortItems
  <2>3. CASE HasCallee /\ Proceed(Append(Drop(1), IntValue(Wrapped(n))), 1) /\ UNCHANGED memory
    <3>1. n \in Int
      BY <2>3, NumbersAssumption DEF HasCallee, MachineOK, Value, UInt64
    <3> HIDE DEF n
    <3>2. IntValue(Wrapped(n)) \in Value /\ IntValue(Wrapped(n)).type # "Contract"
      BY <3>1, Conversions DEF IntValue
    <3> QED
      BY <1>1, <2>1, <2>3, <3>2, ReplaceItems DEF Proceed
  <2> QED
    BY <1>12, <2>2, <2>3 DEF Balance
<1>13. ASSUME Halt PROVE NoNewContract
  BY <1>13 DEF Halt, NoNewContract, Contracts
<1> QED
  BY <1>2, <1>3, <1>4, <1>5, <1>6, <1>7, <1>8, <1>9, <1>10, <1>11, <1>12, <1>13
  DEF Instruction

\* There are finitely many contracts, as many as were paid for.
Paid ==
  /\ IsFiniteSet(Contracts)
  /\ ContractsPaid

LEMMA PaidStep ==
  ASSUME VMInv, Paid, gas_limit' = gas_limit, gas_remaining' \in Nat,
         \/ NoNewContract /\ gas_remaining' <= gas_remaining
         \/ NewContractPaid
  PROVE  Paid'
<1> DEFINE price == OpCost[CREATE] + ContractCreation
           n == Cardinality(Contracts)
           m == Cardinality(Contracts')
<1>1. price = 32400
  BY DEF OpCost, PUSH, ADD, MUL, STORE, LOAD, CREATE, CALL, RETURN, SHA3, BALANCE,
         ContractCreation
<1>2. gas_limit \in Nat /\ gas_remaining \in Nat
  BY NumbersAssumption DEF VMInv, TypeOK
<1>3. n \in Nat /\ n * price <= gas_limit - gas_remaining
  BY FS_CardinalityType DEF Paid, ContractsPaid
<1>4. CASE NoNewContract /\ gas_remaining' <= gas_remaining
  <2>1. IsFiniteSet(Contracts') /\ m <= n /\ m \in Nat
    BY <1>4, FS_Subset, FS_CardinalityType DEF Paid, NoNewContract
  <2> HIDE DEF n, m, price
  <2>2. m * price <= gas_limit - gas_remaining'
    <3>1. m * price <= n * price /\ m * price \in Nat /\ n * price \in Nat
      BY <1>1, <1>3, <2>1
    <3> QED
      BY <1>2, <1>3, <1>4, <3>1
  <2> QED
    BY <2>1, <2>2 DEF Paid, ContractsPaid, m, price
<1>5. CASE NewContractPaid
  <2>1. PICK c : Contracts' \subseteq Contracts \cup {c}
    BY <1>5 DEF NewContractPaid
  <2> DEFINE more == Contracts \cup {c}
  <2>2. IsFiniteSet(more) /\ Cardinality(more) <= n + 1 /\ Cardinality(more) \in Nat
    <3>1. /\ IsFiniteSet(more)
          /\ Cardinality(more) = IF c \in Contracts THEN n ELSE n + 1
      BY FS_AddElement DEF Paid
    <3> HIDE DEF n
    <3> QED
      BY <1>3, <3>1
  <2>3. IsFiniteSet(Contracts') /\ m <= Cardinality(more) /\ m \in Nat
    BY <2>1, <2>2, FS_Subset, FS_CardinalityType
  <2>4. gas_remaining' = gas_remaining - price
    BY <1>5 DEF NewContractPaid
  <2> HIDE DEF n, m, price, more
  <2>5. m <= n + 1
    BY <1>3, <2>2, <2>3
  <2>6. m * price <= gas_limit - gas_remaining'
    BY <1>1, <1>2, <1>3, <2>3, <2>4, <2>5
  <2> QED
    BY <2>3, <2>6 DEF Paid, ContractsPaid, m, price
<1> QED
  BY <1>4, <1>5

LEMMA PaidInvariant == Spec => []Paid
<1>1. Init => Paid
  <2> SUFFICES ASSUME Init PROVE Paid
    OBVIOUS
  <2>1. Contracts = {}
    BY DEF Init, Contracts
  <2>2. gas_limit \in Nat /\ gas_remaining = gas_limit
    BY NumbersAssumption DEF Init
  <2>3. OpCost[CREATE] + ContractCreation = 32400
    BY DEF OpCost, PUSH, ADD, MUL, STORE, LOAD, CREATE, CALL, RETURN, SHA3, BALANCE,
           ContractCreation
  <2> QED
    BY <2>1, <2>2, <2>3, FS_EmptySet DEF Paid, ContractsPaid
<1>2. VMInv /\ Paid /\ [Next]_vars => Paid'
  <2> SUFFICES ASSUME VMInv, Paid, [Next]_vars PROVE Paid'
    OBVIOUS
  <2>1. MachineOK /\ gas_remaining \in Nat
    BY MachineIsTyped DEF VMInv, TypeOK
  <2>2. CASE Execute \/ UNCHANGED vars
    BY <2>2 DEF Execute, vars, context, Paid, ContractsPaid, Contracts
  <2>3. CASE Step
    <3>1. gas_limit' = gas_limit
      BY <2>3 DEF Step
    <3>2. CASE Instruction
      <4>1. gas_remaining' \in Nat /\ gas_remaining' <= gas_remaining
        BY <2>1, <3>2, InstructionOK DEF VMInv, BaseCost
      <4>2. NoNewContract \/ NewContractPaid
        BY <2>1, <3>2, InstructionItems DEF VMInv
      <4> QED
        BY <3>1, <4>1, <4>2, PaidStep
    <3>3. CASE OutOfGas
      <4>1. NoNewContract /\ gas_remaining' = gas_remaining
        BY <3>3, AbortAtItems DEF OutOfGas
      <4> QED
        BY <2>1, <3>1, <4>1, PaidStep
    <3>4. CASE Halt /\ UNCHANGED gas_remaining
      <4>1. NoNewContract
        BY <3>4 DEF Halt, NoNewContract, Contracts
      <4> QED
        BY <2>1, <3>1, <3>4, <4>1, PaidStep
    <3> QED
      BY <2>3, <3>2, <3>3, <3>4 DEF Step
  <2> QED
    BY <2>2, <2>3 DEF Next
<1> QED
  BY <1>1, <1>2, VMInvariant, PTL DEF Spec

\* vm.rs: a machine never holds more contracts than its gas paid for, at the
\* full price of a CREATE each.
THEOREM ContractsArePaid == Spec => []ContractsPaid
BY PaidInvariant, PTL DEF Paid

=============================================================================
