------------------------------- MODULE UsbCTest -------------------------------
(***************************************************************************)
(* The USB-C test usb-c-test: every half second three status registers of   *)
(* the port controller are read one by one over i2c-dev, and what their      *)
(* bits mean is printed. A failed access breaks off the round, and what the  *)
(* array held before is printed for the registers not read.                 *)
(***************************************************************************)
EXTENDS Integers

CONSTANTS Values   \* what the registers may hold, bytes

VARIABLES chip,    \* the registers of the controller
          bus,     \* an access over the bus succeeds
          at,      \* "open", "slave", "write", "read", "print" or "exit"
          i,       \* the register the loop is at
          regs,    \* the array of main
          screen   \* what the screen says
vars == <<chip, bus, at, i, regs, screen>>

Registers == 8 .. 10

\* The fields of the display, from the raw registers.
Display(r) ==
  [conn_state |-> (r[8] \div 4) % 8, orientation |-> r[9] % 2,
   shutdown |-> (r[9] \div 32) % 2, mode_select |-> r[10] % 4]
Blank == [conn_state |-> -1, orientation |-> -1, shutdown |-> -1, mode_select |-> -1]

TypeOK ==
  /\ chip \in [Registers -> Values] /\ regs \in [Registers -> Values]
  /\ bus \in BOOLEAN /\ i \in Registers
  /\ at \in {"open", "slave", "write", "read", "print", "exit"}
  /\ screen = Blank \/ \E r \in [Registers -> Values] : screen = Display(r)

\* The array is not initialised: it holds what the stack held.
Init ==
  /\ chip \in [Registers -> Values] /\ regs \in [Registers -> Values]
  /\ bus \in BOOLEAN /\ at = "open" /\ i = 8 /\ screen = Blank
-----------------------------------------------------------------------------
\* open and the ioctl I2C_SLAVE; main returns 1 if either fails.
Open ==
  /\ at \in {"open", "slave"}
  /\ at' \in {IF at = "open" THEN "slave" ELSE "write", "exit"}
  /\ UNCHANGED <<chip, bus, i, regs, screen>>

WriteRegister ==
  /\ at = "write"
  /\ at' = IF bus THEN "read" ELSE "print"
  /\ UNCHANGED <<chip, bus, i, regs, screen>>

\* Mutant: the loop ends before the last register.
ReadShort ==
  /\ at = "read"
  /\ at' = IF bus /\ i < 9 THEN "write" ELSE "print"
  /\ i' = IF bus /\ i < 9 THEN i + 1 ELSE i
  /\ regs' = IF bus THEN [regs EXCEPT ![i] = chip[i]] ELSE regs
  /\ UNCHANGED <<chip, bus, screen>>

ReadRegister ==
  /\ at = "read"
  /\ at' = IF bus /\ i < 10 THEN "write" ELSE "print"
  /\ i' = IF bus /\ i < 10 THEN i + 1 ELSE i
  /\ regs' = IF bus THEN [regs EXCEPT ![i] = chip[i]] ELSE regs
  /\ UNCHANGED <<chip, bus, screen>>

\* What is printed does not tell whether the loop broke off.
ShowStatus ==
  /\ at = "print" /\ at' = "write"
  /\ i' = 8 /\ screen' = Display(regs)
  /\ UNCHANGED <<chip, bus, regs>>

\* The cable is plugged, or the bus fails or recovers.
Change ==
  /\ \/ \E r \in Registers, v \in Values : chip' = [chip EXCEPT ![r] = v] /\ UNCHANGED bus
     \/ bus' = ~bus /\ UNCHANGED chip
  /\ UNCHANGED <<at, i, regs, screen>>

Program == Open \/ WriteRegister \/ ReadRegister \/ ShowStatus
Next == Program \/ Change

\* The loop goes on.
Spec == Init /\ [][Next]_vars /\ WF_vars(Program)
-----------------------------------------------------------------------------
(* Properties                                                               *)

\* Once the cable is left alone and the bus works, what the screen says becomes
\* right and stays right, whatever rounds broke off or mixed two states before
\* (main 25-62).
ShownCatchesUp ==
  <>[](bus /\ at # "exit") /\ <>[][UNCHANGED chip]_chip => <>[](screen = Display(chip))
=============================================================================
