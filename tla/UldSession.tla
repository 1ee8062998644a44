------------------------------ MODULE UldSession ------------------------------
(***************************************************************************)
(* The ULD from power-on: is_alive, init with its firmware download,        *)
(* set_i2c_address, get_power_mode, set_power_mode, start_ranging and       *)
(* stop_ranging as the sequences of bus accesses they are, against the      *)
(* sensor's registers, while any access may fail and the program may end    *)
(* at any access and be started again.                                      *)
(* Registers are reached through a page register (0x7fff): a function        *)
(* expects page 2, selects page 0 for the power and stop registers and goes  *)
(* back. An access that fails is noted in the status and the function goes   *)
(* on, so what follows may reach the registers of the wrong page. A run of   *)
(* writes to registers that nothing below tells apart is one access.         *)
(***************************************************************************)
EXTENDS Integers, Sequences

CONSTANT MaxFaults   \* bound: bus accesses that fail
ASSUME FaultsAssumption == MaxFaults \in Nat

VARIABLES page,      \* register 0x7fff
          regs,      \* of page 0: power (0x09), stop (0x14), mode (0x15)
          awake,     \* bit 0 of register 0x06 of page 0
          halted,    \* bit 7 of it
          ranging,   \* the firmware ranges
          autostop,  \* 0x4FF at 0x2FFC of page 2: it stopped by itself
          command,   \* what the firmware is carrying out, "none" once answered
          mcu,       \* what the MCU runs
          image,     \* the RAM pages that hold their part of the firmware
          open,      \* bit 4 of register 0x21 of page 1: the RAM can be written
          accepted,  \* the settings the firmware has answered since it booted
          here,      \* the sensor answers at the address the driver uses
          foreign,   \* whether a bit read on the wrong page looks right
          call, prog, status, tmp,   \* the call under way and its rest
          entry,     \* whether it found page 2 and no command under way
          known,     \* what the program may rely on
          faults
firmware == <<mcu, image, open, accepted, here>>
sensor == <<regs, awake, halted, ranging, autostop, command, firmware, foreign>>
vars == <<page, sensor, call, prog, status, tmp, entry, known, faults>>

Calls == {"is_alive", "init", "same_address", "new_address",
          "get_power", "sleep", "wakeup", "unknown_mode", "start", "stop"}
Pages == {0, 1, 2, 9, 10, 11}
ImagePages == {9, 10, 11}
Settings == {"nvm", "offset", "xtalk", "config", "pipe", "single"}
Commands == Settings \cup {"dci", "start"}
PowerValues == {0, 2, 4, 5}

\* What an access names: a register, a bit that is polled, a command, or the
\* question of a condition.
Names == {"page", "power", "stop", "mode", "id", "reboot", "access", "setup", "wake", "image",
          "run", "address", "autostop", "data"}
           \cup {"boot", "open", "awake", "halted"} \cup Commands \cup {"sleep", "wakeup", "unknown"}

TypeOK ==
  /\ page \in Pages
  /\ regs \in [power : {2, 4, 5}, stop : {0, 1}, mode : {0, 22}]
  /\ awake \in BOOLEAN /\ halted \in BOOLEAN /\ ranging \in BOOLEAN
  /\ autostop \in BOOLEAN /\ foreign \in BOOLEAN
  /\ command \in Commands \cup {"none"}
  /\ mcu \in {"down", "rom", "held", "starting", "app"}
  /\ image \subseteq ImagePages /\ accepted \subseteq Settings
  /\ open \in BOOLEAN /\ here \in BOOLEAN
  /\ call \in Calls \cup {"none"}
  /\ prog \in Seq({"wr", "rd", "poll", "cmd", "answer", "decide"} \X Names \X Nat)
  /\ status \in {"ok", "error"}
  /\ tmp \in PowerValues
  /\ entry \in BOOLEAN
  /\ known \in {"fresh", "alive", "awake", "asleep", "started"}
  /\ faults \in 0 .. MaxFaults

PowerOn == [power |-> 4, stop |-> 0, mode |-> 0]

Init ==
  /\ page = 0
  /\ regs = PowerOn
  /\ awake = TRUE /\ halted = FALSE /\ ranging = FALSE /\ autostop = FALSE
  /\ command = "none" /\ foreign \in BOOLEAN
  /\ mcu = "rom" /\ image = {} /\ open = FALSE /\ accepted = {} /\ here = TRUE
  /\ call = "none" /\ prog = <<>> /\ status = "ok" /\ tmp = 4 /\ entry = FALSE
  /\ known = "fresh" /\ faults = 0
-----------------------------------------------------------------------------
(* The functions, as sequences of accesses <<kind, register, value>>.       *)

WrByte(reg, v) == <<"wr", reg, v>>
RdByte(reg) == <<"rd", reg, 0>>
Poll(bit, v) == <<"poll", bit, v>>       \* loop until the bit of 0x06 is v

\* Mutant: the page next to the one meant.
PageNext(p) == WrByte("page", p + 1)

Page(p) == WrByte("page", p)
Decide(what) == <<"decide", what, 0>>

\* Mutant: the page is not restored.
IsAliveStays == <<Page(0), RdByte("id"), RdByte("id")>>

IsAlive == <<Page(0), RdByte("id"), RdByte("id"), Page(2)>>

\* dci_read_data, dci_write_data and the other commands: the bytes, then the
\* poll for the answer.
Exchange(name) == <<<<"cmd", name, 0>>, <<"answer", name, 0>>>>

\* Software reboot, up to the answer of the boot ROM.
Reboot == <<Page(0), WrByte("power", 4), RdByte("page"), WrByte("reboot", 1), Page(0), Poll("boot", 1)>>

\* Enable the access to the firmware's RAM; it ends on page 1.
Unlock == <<Page(2), WrByte("access", 13), Page(1), Poll("open", 1)>>

Download == <<Page(9), WrByte("image", 9), Page(10), WrByte("image", 10),
              Page(11), WrByte("image", 11), Page(1)>>

\* Reset the MCU and wait for the firmware.
Boot == <<Page(0), WrByte("run", 0), WrByte("run", 1), Poll("boot", 0), Page(2)>>

\* NVM offsets, default crosstalk and configuration, pipe and single range.
Configure == Exchange("nvm") \o <<RdByte("data")>> \o Exchange("offset") \o Exchange("xtalk")
               \o Exchange("config") \o Exchange("pipe") \o Exchange("single")

\* The settings between Unlock and Download, and the check after it, are on
\* pages 0 and 1.
InitSensor ==
  Reboot \o Unlock \o <<Page(0), WrByte("setup", 0), Page(1), WrByte("wake", 6)>>
    \o Download \o Unlock \o Boot \o Configure

\* The address register of page 0; the driver below goes on with its own.
SetAddress(same) == <<Page(0), WrByte("address", IF same THEN 1 ELSE 0), Page(2)>>

GetPowerMode == <<Page(0), RdByte("power"), Page(2)>>

SetPowerMode(name) == GetPowerMode \o <<Decide(name)>>

\* The value of register 0x09 taken for a mode; any other is reported as an
\* error and taken for SLEEP.
Mode(v) == IF v = 4 THEN "wakeup" ELSE "sleep"

\* Mutant: the polls wait for the other state.
ChangePowerModeSwapped(name) ==
  IF name = "wakeup" THEN <<Page(0), WrByte("power", 4), Poll("awake", 0), Page(2)>>
  ELSE IF name = "sleep" THEN <<Page(0), WrByte("power", 2), Poll("awake", 1), Page(2)>>
  ELSE <<Page(2)>>

\* A power mode that is neither only selects the page.
ChangePowerMode(name) ==
  IF name = "wakeup" THEN <<Page(0), WrByte("power", 4), Poll("awake", 1), Page(2)>>
  ELSE IF name = "sleep" THEN <<Page(0), WrByte("power", 2), Poll("awake", 0), Page(2)>>
  ELSE <<Page(2)>>

StartRanging ==
  Exchange("dci") \o <<RdByte("data")>>                          \* get_resolution
    \o Exchange("dci") \o Exchange("dci") \o Exchange("dci")      \* the three outputs
    \o <<Page(0), WrByte("power", 5), Page(2)>>
    \o Exchange("start")

StopRanging == <<RdByte("autostop"), Decide("stop")>>

ProvokeStop == <<Page(0), WrByte("mode", 22), WrByte("stop", 1), Poll("halted", 1)>>

\* Mutant: the stop request is not taken back.
UndoStopForgotten == <<Page(0), WrByte("mode", 0), WrByte("power", 4), Page(2)>>

UndoStop ==
  <<Page(0), WrByte("stop", 0), WrByte("mode", 0), WrByte("power", 4), Page(2)>>

Body == [is_alive |-> IsAlive, init |-> InitSensor,
         same_address |-> SetAddress(TRUE), new_address |-> SetAddress(FALSE),
         get_power |-> GetPowerMode, sleep |-> SetPowerMode("sleep"), wakeup |-> SetPowerMode("wakeup"),
         unknown_mode |-> SetPowerMode("unknown"),
         start |-> StartRanging, stop |-> StopRanging]

\* What the program may call: init once the sensor has answered, no power mode
\* while it streams, no ranging while it sleeps.
MayCall(c) ==
  \/ c = "is_alive"
  \/ c = "init" /\ known = "alive"
  \/ c \in {"same_address", "new_address", "start"} /\ known = "awake"
  \/ c \in {"get_power", "sleep", "wakeup", "unknown_mode"} /\ known \in {"awake", "asleep"}
  \/ c = "stop" /\ known = "started"

Call(c) ==
  /\ call = "none" /\ MayCall(c)
  /\ call' = c /\ prog' = Body[c] /\ status' = "ok" 
  /\ entry' = (page = 2 /\ command = "none")
  /\ UNCHANGED <<page, sensor, tmp, known, faults>>
-----------------------------------------------------------------------------
(* One access. It reaches the sensor if that is still at the driver's        *)
(* address.                                                                 *)

At(kind) == prog # <<>> /\ Head(prog)[1] = kind
Reg == Head(prog)[2]
Value == Head(prog)[3]
Advance == prog' = Tail(prog)

\* A reboot forgets everything but the address.
Store(reg, v) ==
  LET reboots == reg = "reboot" /\ page = 0
  IN  /\ page' = IF reg = "page" THEN v ELSE page
      /\ regs' = IF reboots THEN PowerOn
                 ELSE IF reg \in DOMAIN regs /\ page = 0 THEN [regs EXCEPT ![reg] = v] ELSE regs
      /\ mcu' = IF reboots THEN "down"
                ELSE IF reg = "run" /\ page = 0
                     THEN (IF v = 0 THEN "held" ELSE IF mcu = "held" THEN "starting" ELSE mcu)
                     ELSE mcu
      /\ image' = IF reboots THEN {} ELSE IF reg = "image" /\ page = v /\ open THEN image \cup {v} ELSE image
      /\ open' = ((reg = "access" /\ page = 2) \/ (open /\ ~reboots))
      /\ here' = IF reg = "address" /\ page = 0 THEN v = 1 ELSE here
      /\ awake' = (awake \/ reboots) /\ halted' = (halted /\ ~reboots)
      /\ ranging' = (ranging /\ ~reboots) /\ autostop' = (autostop /\ ~reboots)
      /\ command' = IF reboots \/ (reg = "run" /\ page = 0) THEN "none" ELSE command
      /\ accepted' = IF reboots THEN {} ELSE accepted
      /\ UNCHANGED foreign

Write ==
  /\ At("wr") /\ here
  /\ Advance /\ Store(Reg, Value)
  /\ UNCHANGED <<call, status, tmp, entry, known, faults>>

\* Register 0x09 says in which mode the sensor is; another page says anything.
Read ==
  /\ At("rd") /\ here
  /\ Advance
  /\ IF Reg = "power"
     THEN /\ IF page = 0 THEN tmp' = regs.power ELSE tmp' \in PowerValues
          /\ status' = IF tmp' \in {2, 4} THEN status ELSE "error"
     ELSE IF Reg = "autostop"
          THEN /\ tmp' = IF (page = 2 /\ autostop) \/ (page # 2 /\ foreign) THEN 4 ELSE 0
               /\ UNCHANGED status
          ELSE UNCHANGED <<tmp, status>>
  /\ UNCHANGED <<page, sensor, call, entry, known, faults>>

\* Register 0x06 of page 0, 0x21 of page 1, or what stands there on another
\* page. While init polls 0x06, it is 1 in the boot ROM and 0 in the firmware.
Shows(bit, v) ==
  IF bit = "open" THEN (IF page = 1 THEN open ELSE foreign)
  ELSE IF page # 0 THEN foreign
  ELSE IF bit = "boot" THEN mcu = (IF v = 1 THEN "rom" ELSE "app")
  ELSE (IF bit = "awake" THEN awake ELSE halted) = (v = 1)

PollDone ==
  /\ At("poll") /\ here /\ Shows(Reg, Value)
  /\ Advance
  /\ UNCHANGED <<page, sensor, call, status, tmp, entry, known, faults>>

\* A command waits in the mailbox until the firmware is awake.
Send ==
  /\ At("cmd") /\ here
  /\ Advance
  /\ command' = IF page = 2 /\ mcu = "app" THEN Reg ELSE command
  /\ UNCHANGED <<page, regs, awake, halted, ranging, autostop, firmware, foreign, call, status, tmp, entry, known, faults>>

Answered == IF page = 2 THEN command = "none" /\ mcu = "app" ELSE foreign

AnswerDone ==
  /\ At("answer") /\ here /\ Answered
  /\ Advance
  /\ UNCHANGED <<page, sensor, call, status, tmp, entry, known, faults>>

\* Too many rounds, or an error of the MCU: the loop takes note and goes on. The
\* note is a byte of the buffer, which may be 0: nothing is noted then.
Late ==
  /\ \/ At("poll") /\ ~Shows(Reg, Value)
     \/ At("answer") /\ ~Answered
  /\ status' = "error"
  /\ UNCHANGED <<page, sensor, call, prog, tmp, entry, known, faults>>

\* What a failed access leaves behind: a write may have arrived all the same, a
\* poll may find what it waits for in the bytes of an earlier one (the loop of
\* stop_ranging may not), get_power_mode goes on with a variable nobody has
\* set, stop_ranging with its initial 0.
Missed ==
  /\ \/ ~(At("poll") /\ Reg = "halted") /\ Advance
     \/ (At("poll") \/ At("answer")) /\ UNCHANGED prog
  /\ IF At("rd") /\ Reg = "power" THEN tmp' \in PowerValues
     ELSE tmp' = IF At("rd") /\ Reg = "autostop" THEN 0 ELSE tmp
  /\ IF At("wr") /\ here THEN Store(Reg, Value) \/ UNCHANGED <<page, sensor>>
     ELSE UNCHANGED <<page, sensor>>
  /\ UNCHANGED <<call, entry, known>>

\* Mutant: the failure of an access inside the function is not reported.
FaultUnnoticed ==
  /\ prog # <<>> /\ ~At("decide") /\ here /\ faults < MaxFaults
  /\ faults' = faults + 1 /\ UNCHANGED status
  /\ Missed

\* An access fails.
Fault ==
  /\ prog # <<>> /\ ~At("decide") /\ here /\ faults < MaxFaults
  /\ faults' = faults + 1 /\ status' = "error"
  /\ Missed

\* Nobody answers at the address the driver uses.
Deaf ==
  /\ prog # <<>> /\ ~At("decide") /\ ~here
  /\ status' = "error" /\ UNCHANGED faults
  /\ Missed

\* The conditions in the functions, on what was read; a power mode the driver does
\* not know is an error.
Branch ==
  /\ At("decide")
  /\ prog' = IF Reg = "stop" THEN (IF tmp = 4 THEN UndoStop ELSE ProvokeStop \o UndoStop)
             ELSE IF Mode(tmp) = Reg THEN <<>> ELSE ChangePowerMode(Reg)
  /\ status' = IF Reg = "unknown" THEN "error" ELSE status
  /\ UNCHANGED <<page, sensor, call, tmp, entry, known, faults>>

\* The function returns. The program gives up when is_alive, init or the change
\* of address fails; it repeats the others: a failed start is stopped, a failed
\* change of mode is made again.
Return ==
  /\ call # "none" /\ prog = <<>>
  /\ call' = "none"
  /\ known' = IF call = "is_alive" THEN (IF status = "error" THEN known ELSE IF known = "fresh" THEN "alive" ELSE known)
              ELSE IF call \in {"init", "same_address", "new_address"}
                   THEN (IF status = "ok" THEN "awake" ELSE "fresh")
              ELSE IF call = "start" THEN "started"
              ELSE IF call = "stop" THEN (IF status = "ok" THEN "awake" ELSE "started")
              ELSE IF call = "sleep" THEN "asleep"
              ELSE IF call = "wakeup" /\ status = "ok" THEN "awake" ELSE known
  /\ UNCHANGED <<page, sensor, prog, status, tmp, entry, faults>>

\* The program ends, by itself or killed between two accesses, and is started
\* again; the sensor stays as it is.
Restart ==
  /\ call' = "none" /\ prog' = <<>> /\ known' = "fresh"
  /\ UNCHANGED <<page, sensor, status, tmp, entry, faults>>
-----------------------------------------------------------------------------
(* The sensor.                                                              *)

WakeOrSleep ==
  /\ awake # (regs.power # 2)
  /\ awake' = (regs.power # 2)
  /\ UNCHANGED <<page, regs, halted, ranging, autostop, command, firmware, foreign, call, prog, status, tmp, entry, known, faults>>

\* The MCU stops on request, and goes on when the request is taken back.
HaltOrGo ==
  /\ halted # (regs.stop = 1 /\ regs.mode = 22)
  /\ halted' = ~halted
  /\ ranging' = FALSE /\ command' = "none"
  /\ UNCHANGED <<page, regs, awake, autostop, firmware, foreign, call, prog, status, tmp, entry, known, faults>>

Answer ==
  /\ command # "none" /\ awake /\ ~halted
  /\ command' = "none"
  /\ accepted' = accepted \cup ({command} \cap Settings)
  /\ ranging' = (ranging \/ command = "start")
  /\ autostop' = (autostop /\ command # "start")
  /\ UNCHANGED <<page, regs, awake, halted, mcu, image, open, here, foreign, call, prog, status, tmp, entry, known, faults>>

AutoStop ==
  /\ ranging
  /\ ranging' = FALSE /\ autostop' = TRUE
  /\ UNCHANGED <<page, regs, awake, halted, command, firmware, foreign, call, prog, status, tmp, entry, known, faults>>

\* After a reboot the ROM runs; once the reset is taken back, the firmware, if
\* all of it is there.
BootUp ==
  /\ \/ mcu = "down" /\ mcu' = "rom"
     \/ mcu = "starting" /\ image = ImagePages /\ mcu' = "app"
  /\ UNCHANGED <<page, regs, awake, halted, ranging, autostop, command, image, open, accepted, here, foreign>>
  /\ UNCHANGED <<call, prog, status, tmp, entry, known, faults>>

Access == Write \/ Read \/ PollDone \/ Send \/ AnswerDone \/ Branch \/ Return \/ Deaf
Device == WakeOrSleep \/ HaltOrGo \/ Answer \/ BootUp

Next == Access \/ Late \/ Fault \/ Restart \/ Device \/ AutoStop \/ \E c \in Calls : Call(c)

\* A function that was called runs on, and a sensor that is asked answers.
Spec == Init /\ [][Next]_vars /\ WF_vars(Access) /\ WF_vars(WakeOrSleep)
             /\ WF_vars(HaltOrGo) /\ WF_vars(Answer) /\ WF_vars(BootUp)
-----------------------------------------------------------------------------
(* Properties                                                               *)

Returned(c) == call = c /\ prog = <<>> /\ status = "ok"

\* Whatever page a function found, when it returns 0 the page is 2 again
\* (the last write of is_alive 247, get_power_mode 443, set_power_mode 477,
\* start_ranging 599, stop_ranging 647).
PageRestored == \A c \in Calls : Returned(c) => page = 2

\* An init that returns 0 has left the sensor as the other functions expect it,
\* in whatever state an earlier program left it and wherever that was ended:
\* the MCU runs a complete firmware that has accepted every setting, no
\* ranging and no stop request is left over (init 260-399).
Ready ==
  /\ page = 2 /\ regs = PowerOn /\ ~ranging /\ ~halted
  /\ mcu = "app" /\ image = ImagePages /\ accepted = Settings

\* A function that returns 0 has done what it is for, whatever failed and was
\* repeated before: init from any state, an address only if the sensor still
\* answers, the others from page 2 and an idle firmware with power and stop
\* registers consistent with each other and with the state of the MCU.
OkMeansDone ==
  /\ Returned("init") => Ready
  /\ Returned("same_address") \/ Returned("new_address") => here
  /\ entry =>
       /\ Returned("start")  => regs.power = 5 /\ (ranging \/ autostop)
       /\ Returned("stop")   => regs = PowerOn /\ ~ranging
       /\ Returned("sleep")  => regs.power = 2
       /\ Returned("wakeup") => regs.power = 4

\* No sequence of calls ends in a stop request that is left standing when the
\* program is told that the session is over (stop_ranging 640-643).
NoStopLeft == call = "none" /\ known = "awake" => regs.stop = 0

\* Every call returns while the bus works and the sensor answers.
CallReturns == call # "none" ~> call = "none" \/ faults > 0

\* "2s timeout" (vl53l5cx_api.cpp, _vl53l5cx_poll_for_answer) and "Timeout reached
\* after 5 seconds" (stop_ranging): a call that polls comes to an end.
PollsTimeOut == call \in {"sleep", "wakeup", "start", "stop"} ~> call = "none"
=============================================================================
