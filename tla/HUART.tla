------------------------------- MODULE HUART -------------------------------
(* What the two halves of source/huart_controller.cpp share: the ring.      *)
EXTENDS Integers, Sequences

CONSTANTS
  SERIAL_BUFFER_SIZE,
  Byte,
  LIMIT,   (* bytes that go through a half in a run (a bound) *)
  Empty    (* a register that holds no byte                   *)

ASSUME HUARTAssumption ==
  /\ SERIAL_BUFFER_SIZE \in Nat \ {0, 1}
  /\ LIMIT \in Nat
  /\ Empty \notin Byte

Index == 0 .. SERIAL_BUFFER_SIZE - 1
After_NoWrap(i) == i + 1   \* mistake: no modulo
After(i) == (i + 1) % SERIAL_BUFFER_SIZE

=============================================================================
