---------------------------- MODULE MCProofSystem ----------------------------
(* Instances of ProofSystem for TLC.                                       *)
EXTENDS ProofSystem

\* The hash of field elements is known by their number only.
MCBlake(values) == Len(values)

\* Public inputs: none, as prove returns, or one element.
MCInputs == {<<>>, <<1>>}

\* A state with nothing but a counter and gas, and one with two operands.
Plain(pc, gas)   == State(<<>>, <<>>, <<>>, pc, gas)
With(stack, mem) == State(stack, mem, <<7, 7>>, 0, 9)

\* No step, to the same state, to another one and to one of another size: the first
\* of these can be set up. What ZKVM::new builds, but for the steps. Then
\* circuits with steps: PUSH, ADD, MUL, STORE and SHA3.
MCCircuits == {
  Circuit(<<1, 5>>, 0, NoState, NoState),
  Circuit(<<1, 5>>, 0, Plain(0, 9), Plain(0, 9)),
  Circuit(<<1, 5>>, 0, Plain(0, 9), Plain(2, 6)),
  Circuit(<<1, 5>>, 0, With(<<3, 5>>, <<4>>), With(<<3, 5>>, <<4>>)),
  Circuit(<<1, 5>>, 0, With(<<3, 5>>, <<4>>), With(<<5, 3>>, <<4>>)),
  Circuit(<<1, 5>>, 0, With(<<3, 5>>, <<>>), With(<<3>>, <<>>)),
  Circuit(<<1, 5>>, 2, NoState, NoState),
  Circuit(<<1, 5>>, 2, Plain(0, 9), Plain(0, 9)),
  Circuit(<<1, 5, 1, 3, 2>>, 5, Plain(0, 9), Plain(0, 9)),
  Circuit(<<1, 5, 1, 3, 4>>, 5, Plain(0, 9), Plain(0, 9)),
  Circuit(<<1>>, 1, Plain(0, 9), Plain(0, 9)),
  Circuit(<<2>>, 1, With(<<3, 5>>, <<>>), With(<<8>>, <<>>)),
  Circuit(<<3>>, 1, With(<<3, 5>>, <<>>), With(<<15>>, <<>>)),
  Circuit(<<14, 4>>, 3, With(<<1, 0, 1>>, <<4>>), With(<<1>>, <<4>>)),
  Circuit(<<14>>, 1, With(<<1, 1>>, <<4>>), With(<<1>>, <<4>>)),
  Circuit(<<4>>, 1, Plain(1, 9), Plain(1, 9))}

=============================================================================
