----------------------------- MODULE SerialPipe -----------------------------
(* What one direction of the serial port promises: the bytes come out are    *)
(* those that were accepted, in that order, each once, with at most CAPACITY *)
(* of them on their way.                                                     *)
EXTENDS Integers, Sequences

CONSTANTS Byte, CAPACITY

VARIABLES accepted, delivered

Init == accepted = <<>> /\ delivered = <<>>

OnTheWay == Len(accepted) - Len(delivered)

Accept ==
  /\ OnTheWay < CAPACITY
  /\ \E b \in Byte : accepted' = Append(accepted, b)
  /\ UNCHANGED delivered

Deliver ==
  /\ OnTheWay > 0
  /\ delivered' = SubSeq(accepted, 1, Len(delivered) + 1)
  /\ UNCHANGED accepted

Next == Accept \/ Deliver

Spec == Init /\ [][Next]_<<accepted, delivered>>

=============================================================================
