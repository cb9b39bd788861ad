--------------------------- MODULE LEDController ---------------------------
(* source/led_controller.cpp: the calls that set the light driver of a face, *)
(* as sequences of the steps of PortController.  A mode register holds the   *)
(* modes of four channels, and a mode is changed by reading it and writing   *)
(* it back; the other registers are only written.                            *)
EXTENDS PortController, SequencesExt

CONSTANT PACKS  (* coloured leds on a face, of four channels each: RGB_LEDS_PER_FACE *)

ASSUME LEDAssumption == PACKS \in Nat \ {0}

Channels == 0 .. 3
Leds == 0 .. 4 * PACKS - 1

Register_Interleaved(led) == led % PACKS  \* mistake: not the register of the led
Register(led) == led \div 4

\* One locked section with one transaction on face p.
OnFace(p, effect) ==
  Acquire \o SelectPort(p)
  \o Lock("TW") \o Transact(p, effect) \o Unlock("TW")
  \o Release

SetMode(p, led, mode) ==
  OnFace(p, [do |-> "read modes", reg |-> Register(led)])
  \o OnFace(p, [do |-> "write mode", reg |-> Register(led), led |-> led, mode |-> mode])

SetBrightness(p, led) == OnFace(p, Nothing)

SetColor(p, pack) ==
  SetBrightness(p, 4 * pack) \o SetBrightness(p, 4 * pack + 1) \o SetBrightness(p, 4 * pack + 2)

SetBlinkRate(p) == OnFace(p, Nothing) \o OnFace(p, Nothing)

\* A loop: body(0), body(1), ...
Times(n, body(_)) == FlattenSeq([i \in 1 .. n |-> body(i - 1)])

SetAllColorsOnFace(p) == LET Body(i) == SetColor(p, i) IN Times(PACKS, Body)

SetAllModesOnFace(p, mode) ==
  LET Body(i) == SetMode(p, 4 * i, mode) \o SetMode(p, 4 * i + 1, mode)
                   \o SetMode(p, 4 * i + 2, mode) \o SetMode(p, 4 * i + 3, "OFF")
  IN  Times(PACKS, Body)

\* Reset, MODE1, MODE2, the blink rate; then only the first four channels are
\* set off, the reset has done it for all.
InitFace(p) ==
  LET Body(led) == SetMode(p, led, "OFF") \o SetBrightness(p, led)
  IN  OnFace(p, [do |-> "reset"]) \o OnFace(p, Nothing) \o OnFace(p, Nothing)
      \o SetBlinkRate(p)
      \o Times(4, Body)

=============================================================================
