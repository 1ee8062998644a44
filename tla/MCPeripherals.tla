---------------------------- MODULE MCPeripherals ----------------------------
(***************************************************************************)
(* The small drivers and programs that share no state with one another,     *)
(* checked side by side: the LED strip and its program, loading and          *)
(* unloading of the ToF driver, the motion sensor, the water level monitor,   *)
(* the menu program and the two bus tests. Which one moves is chosen in the   *)
(* initial state; the variables of the others keep one value.               *)
(***************************************************************************)
EXTENDS Ws2812User

CONSTANTS MaxFiles, Edges, Timeout, SampleCount, Frames, MaxFaults, Addresses, Values

VARIABLES part,
          at, held, owned, wanted, bound, files, misused, failed, unbound,
          probed, level, pending, val, logged,
          lines, pulse, own, misread, wait, clock, duration, sample, valid, sum, printed,
          present, ex, step, ok, loop, sensor, fresh, faults,
          works, locked, call, open, is_locked, said,
          chip, bus, where, reg, regs, screen
lvars == <<at, held, owned, wanted, bound, files, misused, failed, unbound>>
svars == <<probed, level, pending, val, logged>>
rvars == <<lines, pulse, own, misread, wait, clock, duration, sample, valid, sum, printed>>
evars == <<present, ex, step, ok, loop, sensor, fresh, faults>>
cvars == <<works, locked, call, open, is_locked, said>>
tvars == <<chip, bus, where, reg, regs, screen>>

\* Colours inside and outside the range of a byte, and arguments of both kinds.
SomeCommands == {[r |-> 50, g |-> 0, b |-> 0], [r |-> 255, g |-> 0, b |-> 7],
                 [r |-> 300, g |-> 0, b |-> 7], [r |-> 1, g |-> -1, b |-> 256]}
SomeRequests == {<<>>, <<300, -1, 7>>}

L == INSTANCE TofLifecycle
S == INSTANCE Sr602 WITH bound <- probed
R == INSTANCE Rcwl1670 WITH at <- wait, held <- lines
E == INSTANCE UldExamples
C == INSTANCE AteccTest WITH at <- call
T == INSTANCE UsbCTest WITH at <- where, i <- reg
-----------------------------------------------------------------------------
MotionIdle ==
  probed = FALSE /\ level = "low" /\ pending = FALSE /\ val = "none" /\ logged = "none"
WaterIdle == R!Init /\ pulse = "quiet"
ExamplesIdle == E!Init /\ present
CryptoIdle == C!Init /\ works = {} /\ \A z \in DOMAIN locked : locked[z] = "no"
UsbIdle == T!Init /\ bus /\ \A r \in DOMAIN chip : chip[r] = 0 /\ regs[r] = 0

Parts == {"leds", "lifecycle", "motion", "water", "examples", "crypto", "usb"}

PeripheralsInit ==
  /\ part \in Parts /\ UserInit /\ L!Init
  /\ IF part = "motion" THEN S!Init ELSE MotionIdle
  /\ IF part = "water" THEN R!Init ELSE WaterIdle
  /\ IF part = "examples" THEN E!Init ELSE ExamplesIdle
  /\ IF part = "crypto" THEN C!Init ELSE CryptoIdle
  /\ IF part = "usb" THEN T!Init ELSE UsbIdle

Leds == part = "leds" /\ UserNext
        /\ UNCHANGED <<part, lvars, svars, rvars, evars, cvars, tvars>>
Lifecycle == part = "lifecycle" /\ L!Next
             /\ UNCHANGED <<part, vars, uvars, svars, rvars, evars, cvars, tvars>>
Motion == part = "motion" /\ S!Next
          /\ UNCHANGED <<part, vars, uvars, lvars, rvars, evars, cvars, tvars>>
Water(step_) == part = "water" /\ step_
                /\ UNCHANGED <<part, vars, uvars, lvars, svars, evars, cvars, tvars>>
Examples(step_) == part = "examples" /\ step_
                   /\ UNCHANGED <<part, vars, uvars, lvars, svars, rvars, cvars, tvars>>
Crypto == part = "crypto" /\ C!Next
          /\ UNCHANGED <<part, vars, uvars, lvars, svars, rvars, evars, tvars>>
Usb(step_) == part = "usb" /\ step_
              /\ UNCHANGED <<part, vars, uvars, lvars, svars, rvars, evars, cvars>>

PeripheralsNext ==
  \/ Leds \/ Lifecycle \/ Motion \/ Crypto
  \/ Water(R!Next) \/ Examples(E!Next) \/ Usb(T!Next)

PeripheralsVars == <<part, vars, uvars, lvars, svars, rvars, evars, cvars, tvars>>

\* Fairness is that of Rcwl1670, UldExamples and UsbCTest.
PeripheralsSpec ==
  /\ PeripheralsInit /\ [][PeripheralsNext]_PeripheralsVars
  /\ WF_PeripheralsVars(Water(R!Program)) /\ WF_PeripheralsVars(Usb(T!Program))
  /\ WF_PeripheralsVars(Examples(E!Program)) /\ WF_PeripheralsVars(Examples(E!NewFrame))
-----------------------------------------------------------------------------
(* Properties: those of the modules, each about its own part.               *)

\* The unloaded ToF driver has released everything, and nothing twice, but the buffer
\* of a probe that returned an error at 339, 351 or 395; the water level monitor and
\* the crypto test end with nothing in their hands.
ReleasedAtExit == L!ReleasedAtExit /\ R!NothingHeld /\ C!NothingHeld

\* The ToF driver's interrupt handler finds what it uses; an open file finds no
\* buffer after an unbinding or a failed registration of the handler, no queue
\* before line 367 or without an interrupt, and everything in any other case.
FoundByUsers == L!FoundByUsers

\* The log ends with the level of the motion sensor.
LogCurrent == S!LogCurrent

\* The water level monitor goes on reporting, whatever the echo line does.
ReportsGoOn == part = "water" => R!ReportsGoOn

\* A pulse that is timed is the answer to its own trigger, unless a timeout came
\* before or a poll of the line has failed in this measurement or the one before.
OwnEcho == R!OwnEcho

\* When the last status seen is 0, the menu's examples change settings, and return,
\* with the sensor idle.
IdleWhenOk == E!IdleWhenOk

\* A loop of an example that polls a sensor that ranges comes to its end.
SessionEnds == E!SessionEnds

\* The USB-C display becomes right once the cable and the bus are left alone.
ShownCatchesUp == part = "usb" => T!ShownCatchesUp
=============================================================================
