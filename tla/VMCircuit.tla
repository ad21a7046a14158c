------------------------------ MODULE VMCircuit ------------------------------
(***************************************************************************)
(* The constraint system of a program, src/src/circuit.rs: what synthesize *)
(* allocates and enforces, as a function of the circuit.                   *)
(*                                                                         *)
(* bellman runs synthesize twice: to set the parameters up, where no value *)
(* is computed, and to prove, where every allocated variable needs one. A  *)
(* variable is its number; 0 is CS::one(). A constraint <<a, b, c>> is     *)
(* a * b = c.                                                              *)
(***************************************************************************)
EXTENDS Integers, Sequences

CONSTANTS
  Modulus,    \* the field is 0 .. Modulus - 1
  Blake(_)    \* Blake(values): the hash of field elements, a field element

ASSUME FieldAssumption == Modulus \in Nat /\ Modulus > 255

Field == 0 .. Modulus - 1

\* circuit::VMState; storage is the sequence key, value, key, value ...
VMState ==
  [witness : BOOLEAN, stack : Seq(Field), memory : Seq(Field), storage : Seq(Field),
   program_counter : Field, gas_remaining : Field]

NoState == [witness |-> FALSE, stack |-> <<>>, memory |-> <<>>, storage |-> <<>>,
            program_counter |-> 0, gas_remaining |-> 0]
State(stack, memory, storage, pc, gas) ==
  [witness |-> TRUE, stack |-> stack, memory |-> memory, storage |-> storage,
   program_counter |-> pc, gas_remaining |-> gas]

\* VMCircuit, and what its new and with_witness build.
CircuitType ==
  [program : Seq(0 .. 255), max_steps : Nat, initial : VMState, final : VMState]

Circuit(program, max_steps, initial, final) ==
  [program |-> program, max_steps |-> max_steps, initial |-> initial, final |-> final]

-----------------------------------------------------------------------------
(* alloc_state.                                                            *)

Values(s) == s.stack \o s.memory \o s.storage \o <<s.program_counter, s.gas_remaining>>

\* The variables of state s, when `used` are allocated before it.
Allocated(s, used) ==
  LET m == used + Len(s.stack)
      k == m + Len(s.memory)
      n == k + Len(s.storage)
  IN  [stack   |-> [i \in DOMAIN s.stack |-> used + i],
       memory  |-> [i \in DOMAIN s.memory |-> m + i],
       storage |-> [i \in DOMAIN s.storage |-> k + i],
       program_counter |-> n + 1,
       gas_remaining   |-> n + 2]

-----------------------------------------------------------------------------
(* The loop over the steps. A synthesis under way is a record: the values  *)
(* of its variables, the variables now on the stack and in memory, the     *)
(* constraints so far, and the fault that ended it.                        *)

Alloc(b, v)    == [b EXCEPT !.aux = Append(@, v)]
Newest(b)      == Len(b.aux)
Enforce(b, c)  == [b EXCEPT !.constraints = Append(@, c)]
Fail(b, fault) == [b EXCEPT !.fault = fault]

\* The two values on top of the witness's initial stack: they stand for the
\* operands of every instruction, whatever is on the stack by then.
TopTwo(c) ==
  LET s == c.initial.stack
  IN  IF Len(s) >= 2 THEN <<s[Len(s)], s[Len(s) - 1]>> ELSE <<0, 0>>

\* Its opcode is the one at the initial counter, at every step.
HasOpcode(c) ==
  c.initial.witness /\ c.initial.program_counter % 256 < Len(c.program)

FetchOpcode(c, b, proving) ==
  IF HasOpcode(c)
    THEN Alloc(b, c.program[(c.initial.program_counter % 256) + 1])
    ELSE IF proving THEN Fail(b, "AssignmentMissing") ELSE Alloc(b, 0)

\* PUSH: the value is the next byte. The counter is not advanced.
SynthesizePush(c, b, final, step, proving) ==
  IF proving /\ step + 1 >= Len(c.program)
    THEN Fail(b, "panic")
    ELSE LET v == IF step + 1 < Len(c.program) THEN c.program[step + 2] ELSE 0
             d == Alloc(b, v)
         IN  Enforce([d EXCEPT !.stack = Append(@, Newest(d))],
                     <<b.program_counter, 0, final.program_counter>>)

\* Without the two topmost variables.
Popped(b) == SubSeq(b.stack, 1, Len(b.stack) - 2)

Top(b, i) == b.stack[Len(b.stack) + 1 - i]

\* ADD and MUL: both are enforced as a product.
SynthesizeArithmetic(c, b, proving, value) ==
  IF proving /\ Len(c.initial.stack) < 2
    THEN Fail(b, "panic")
    ELSE LET d == Alloc(b, value % Modulus)
         IN  Enforce([d EXCEPT !.stack = Append(Popped(b), Newest(d))],
                     <<Top(b, 1), Top(b, 2), Newest(d)>>)

\* STORE: the value goes to the memory cell numbered as the step, and is
\* enforced to be the address.
SynthesizeStore(b, step) ==
  LET zeros == IF Len(b.memory) <= step THEN step + 1 - Len(b.memory) ELSE 0
      cells == b.memory \o [i \in 1 .. zeros |-> Len(b.aux) + i]
  IN  Enforce([b EXCEPT !.aux = @ \o [i \in 1 .. zeros |-> 0],
                        !.memory = [cells EXCEPT ![step + 1] = Top(b, 1)],
                        !.stack = Popped(b)],
              <<Top(b, 2), 0, Top(b, 1)>>)

\* SHA3: the witness's memory is read as soon as there is a witness. Nothing is
\* enforced of the hash.
SynthesizeSha3(c, b) ==
  LET size   == TopTwo(c)[1]
      offset == TopTwo(c)[2]
      from   == offset % 256
      to     == ((offset + size) % Modulus) % 256
  IN  IF c.initial.witness
           /\ (Len(c.initial.stack) < 2 \/ from > to \/ to > Len(c.initial.memory))
        THEN Fail(b, "panic")
        ELSE LET d == Alloc(b, IF c.initial.witness
                                 THEN Blake(SubSeq(c.initial.memory, from + 1, to)) ELSE 0)
             IN  [d EXCEPT !.stack = Append(Popped(b), Newest(d))]

SynthesizeStep(c, b, final, step, proving) ==
  LET op == IF step < Len(c.program) THEN c.program[step + 1] ELSE 0
      d  == FetchOpcode(c, b, proving)
      x  == TopTwo(c)[1]
      y  == TopTwo(c)[2]
      two == Len(d.stack) >= 2
  IN  IF d.fault # "none" THEN d
      ELSE CASE op = 1          -> SynthesizePush(c, d, final, step, proving)
             [] op = 2 /\ two   -> SynthesizeArithmetic(c, d, proving, x + y)
             [] op = 3 /\ two   -> SynthesizeArithmetic(c, d, proving, x * y)
             [] op = 4 /\ two   -> SynthesizeStore(d, step)
             [] op = 14 /\ two  -> SynthesizeSha3(c, d)
             [] OTHER           -> d

-----------------------------------------------------------------------------
(* synthesize.                                                             *)

\* Mutant of EqualPairs: the second sequence is taken from its other end.
PairsReversed(s, t) ==
  [i \in 1 .. (IF Len(s) < Len(t) THEN Len(s) ELSE Len(t)) |-> <<s[i], 0, t[Len(t) + 1 - i]>>]

\* Variables are equal as far as both sequences go.
EqualPairs(s, t) ==
  [i \in 1 .. (IF Len(s) < Len(t) THEN Len(s) ELSE Len(t)) |-> <<s[i], 0, t[i]>>]

\* The final state's constraints.
Finals(b, initial, final) ==
  <<<<b.program_counter, 0, final.program_counter>>,
    <<initial.gas_remaining, 0, final.gas_remaining>>>>
  \o EqualPairs(b.stack, final.stack) \o EqualPairs(b.memory, final.memory)
  \o EqualPairs(initial.storage, final.storage)

Synthesize(c, proving) ==
  LET initial == Allocated(c.initial, 0)
      before  == Values(c.initial) \o Values(c.final)
      final   == Allocated(c.final, Len(Values(c.initial)))
      start   == [aux |-> before, stack |-> initial.stack, memory |-> initial.memory,
                  program_counter |-> initial.program_counter, constraints |-> <<>>,
                  fault |-> IF proving /\ ~(c.initial.witness /\ c.final.witness)
                              THEN "AssignmentMissing" ELSE "none"]
      after[n \in 0 .. c.max_steps] ==
        IF n = 0 THEN start
        ELSE IF after[n - 1].fault # "none" THEN after[n - 1]
        ELSE SynthesizeStep(c, after[n - 1], final, n - 1, proving)
      end == after[c.max_steps]
  IN  [end EXCEPT !.constraints = @ \o Finals(end, initial, final)]

\* What the parameters are made for: Groth16 has one key per constraint system.
Shape(b) == [variables |-> Len(b.aux), constraints |-> b.constraints]

\* bellman's setup refuses a system with a variable that no constraint mentions.
Constrained(b) ==
  \A i \in 1 .. Len(b.aux) :
    \E k \in DOMAIN b.constraints : \E j \in 1 .. 3 : b.constraints[k][j] = i

Satisfied(b) ==
  LET value(i) == IF i = 0 THEN 1 ELSE b.aux[i]
  IN  \A i \in DOMAIN b.constraints :
        LET t == b.constraints[i]
        IN  (value(t[1]) * value(t[2])) % Modulus = value(t[3])

=============================================================================
