------------------------------- MODULE Ws2812 -------------------------------
(***************************************************************************)
(* The LED strip driver tdx_ws2812.c. A write to the sysfs file "colors"   *)
(* fills the colour array of the device and clocks it out, byte by byte,    *)
(* on the data line; a pause of 300 us makes the LEDs latch. sysfs          *)
(* serialises the writes of one open file only, the driver takes no lock,   *)
(* and local_irq_save keeps other CPUs out of nothing.                      *)
(***************************************************************************)
EXTENDS Integers, Sequences

CONSTANTS Writers,    \* the open files that may be written at the same time
          NumLeds,    \* priv->num_leds
          Commands    \* the colours written, records of r, g and b

ASSUME WritersAssumption == Writers # {}
ASSUME LedsAssumption == NumLeds \in Nat \ {0}
ASSUME CommandsAssumption == Commands \subseteq [r : Int, g : Int, b : Int]

NumBytes == 3 * NumLeds
Position == 0 .. NumBytes - 1
Led == 0 .. NumLeds - 1
Byte == 0 .. 255
Colour == [r : Byte, g : Byte, b : Byte]

VARIABLES colors,   \* priv->colors
          cmd,      \* the command each writer is carrying out
          i,        \* its loop counter
          pc,       \* "idle", "fill", "send" or "reset"
          wire,     \* the bytes the strip has taken since it last latched
          shown,    \* what each LED shows
          last      \* what the last completed write asked for
vars == <<colors, cmd, i, pc, wire, shown, last>>

Rgb(c) == [r |-> c.r % 256, g |-> c.g % 256, b |-> c.b % 256]
Off == [r |-> 0, g |-> 0, b |-> 0]
AllLeds(colour) == [led \in Led |-> colour]

TypeOK ==
  /\ colors \in [Position -> Byte]
  /\ cmd \in [Writers -> Commands \cup {Off}]
  /\ i \in [Writers -> Position]
  /\ pc \in [Writers -> {"idle", "fill", "send", "reset"}]
  /\ wire \in Seq(Byte) /\ Len(wire) <= NumBytes
  /\ shown \in [Led -> Colour]
  /\ last \in Colour

Init ==
  /\ colors = [k \in Position |-> 0]
  /\ cmd = [w \in Writers |-> Off]
  /\ i = [w \in Writers |-> 0]
  /\ pc = [w \in Writers |-> "idle"]
  /\ wire = <<>>
  /\ shown = AllLeds(Off)
  /\ last = Off
-----------------------------------------------------------------------------
\* WS2812 order is green, red, blue; the int is cut to u8.
WireByte(c, k) ==
  IF k % 3 = 0 THEN c.g % 256 ELSE IF k % 3 = 1 THEN c.r % 256 ELSE c.b % 256

\* One round of a loop that ends after NumBytes rounds.
Loop(w, next) ==
  IF i[w] + 1 < NumBytes
  THEN i' = [i EXCEPT ![w] = @ + 1] /\ UNCHANGED pc
  ELSE i' = [i EXCEPT ![w] = 0] /\ pc' = [pc EXCEPT ![w] = next]

\* colors_store: the text is parsed; a malformed one changes nothing.
Store(w) ==
  /\ pc[w] = "idle"
  /\ \E c \in Commands : cmd' = [cmd EXCEPT ![w] = c]
  /\ pc' = [pc EXCEPT ![w] = "fill"]
  /\ UNCHANGED <<colors, i, wire, shown, last>>

Fill(w) ==
  /\ pc[w] = "fill"
  /\ colors' = [colors EXCEPT ![i[w]] = WireByte(cmd[w], i[w])]
  /\ Loop(w, "send")
  /\ UNCHANGED <<cmd, wire, shown, last>>

\* ws2812_send_byte; bytes beyond the last LED leave the strip.
Send(w) ==
  /\ pc[w] = "send"
  /\ wire' = IF Len(wire) < NumBytes THEN Append(wire, colors[i[w]]) ELSE wire
  /\ Loop(w, "reset")
  /\ UNCHANGED <<colors, cmd, shown, last>>

\* The line has been low for the reset time: every LED that has taken its
\* three bytes shows them.
Latch ==
  /\ wire # <<>>
  /\ \E w \in Writers : pc[w] = "reset"
  /\ \A w \in Writers : pc[w] # "send"
  /\ shown' = [led \in Led |->
                 IF 3 * led + 3 <= Len(wire)
                 THEN [g |-> wire[3 * led + 1], r |-> wire[3 * led + 2], b |-> wire[3 * led + 3]]
                 ELSE shown[led]]
  /\ wire' = <<>>
  /\ UNCHANGED <<colors, cmd, i, pc, last>>

\* Mutant: the write returns without the pause for the reset.
ReturnEarly(w) ==
  /\ pc[w] = "reset"
  /\ pc' = [pc EXCEPT ![w] = "idle"]
  /\ last' = Rgb(cmd[w])
  /\ UNCHANGED <<colors, cmd, i, wire, shown>>

\* The pause is over: the strip has latched, unless somebody is sending.
Return(w) ==
  /\ pc[w] = "reset"
  /\ wire = <<>> \/ \E v \in Writers : pc[v] = "send"
  /\ pc' = [pc EXCEPT ![w] = "idle"]
  /\ last' = Rgb(cmd[w])
  /\ UNCHANGED <<colors, cmd, i, wire, shown>>

Next == Latch \/ \E w \in Writers : Store(w) \/ Fill(w) \/ Send(w) \/ Return(w)

Spec == Init /\ [][Next]_vars
-----------------------------------------------------------------------------
(* Properties                                                               *)

\* A write that has returned is what the strip shows, on every LED, after any
\* sequence of writes through one open file (colors_store 83-104).
WriteShown == (\A w \in Writers : pc[w] = "idle") => shown = AllLeds(Rgb(last))
=============================================================================
