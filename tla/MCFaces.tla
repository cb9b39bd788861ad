------------------------------ MODULE MCFaces ------------------------------
(* A small instance of the faces for TLC: a block with two faces and three   *)
(* tasks, each of which is the first to call instance() in some behaviour.   *)
EXTENDS Faces

CONSTANTS N, E, leds, nfc, scanner

TwoPorts   == {N, E}
ThreeTasks == {leds, nfc, scanner}

ThePrograms ==
  [t \in ThreeTasks |->
    CASE t = leds    -> InitLEDs(<<E>>)
      [] t = nfc     -> InitNFC(<<N, NULLPORT>>) \o NFCReact(N) \o SetMode(N, 0, "BLINK") \o Retire(N)
      [] t = scanner -> InitPortController(<<N, E>>) \o Retire(E) \o InitNFC(<<E>>)]

TheSettings ==
  {[tasks |-> ThreeTasks, failures |-> 0]} \cup
  {[tasks |-> {nfc, t}, failures |-> 1] : t \in {leds, scanner}}

=============================================================================
