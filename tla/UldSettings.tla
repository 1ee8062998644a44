------------------------------ MODULE UldSettings ------------------------------
(***************************************************************************)
(* The settings of the sensor: the getters and setters of the ULD API and   *)
(* of the crosstalk plugin, and the crosstalk calibration that saves them   *)
(* all, replaces them and puts them back. A setting is some bytes of a DCI   *)
(* block of the firmware; it is changed by reading the block into           *)
(* temp_buffer, editing it there and writing it back, and a function goes   *)
(* on after an exchange that failed, with the bytes temp_buffer holds.      *)
(***************************************************************************)
EXTENDS Integers, Sequences

CONSTANTS Junk,       \* bytes left in temp_buffer by something else
          Inputs,     \* per setting, the values the program asks for
          Targets,    \* calibration targets: <<reflectance, samples, distance>>
          MaxCalls,   \* bound: calls
          MaxFaults   \* bound: exchanges that fail

Settings == {"resolution", "frequency", "time", "sharpener", "order", "margin", "mode"}

ASSUME JunkAssumption == Junk \notin Int
ASSUME InputsAssumption == Inputs \in [Settings -> SUBSET Nat]
ASSUME TargetsAssumption == Targets \subseteq Nat \X Nat \X Nat

\* The block of each setting, and its bytes by position.
Blocks == {"zone", "dss", "frequency", "time", "sharpener", "order", "margin", "mode", "single",
           "target"}
BlockOf(name) == IF name = "resolution" THEN "zone" ELSE name

VARIABLES dev,         \* the blocks of the firmware: functions from positions to values
          grids,       \* the resolution for which offset and crosstalk were sent
          xtalk,       \* the crosstalk the firmware works with: origin and resolution
          xtalkData,   \* p_dev->xtalk_data: likewise
          caller,      \* the program's own copy (get_caldata, set_caldata)
          buf,         \* temp_buffer: what the last read left there
          listed,      \* the zones per output the calibration has programmed
          measured,    \* what the last calibration measured: target and zones
          saved,       \* the local variables of calibrate_xtalk
          call, arg, prog, status,
          before,      \* dev when the call began
          errorSeen,   \* some call has returned an error of the bus
          calls, faults
vars == <<dev, grids, xtalk, xtalkData, caller, buf, listed, measured, saved, call, arg, prog,
          status, before, errorSeen, calls, faults>>
Measurement == <<listed, measured>>

Rest == 99   \* all the bytes of a block that are not a setting's

\* The raw values for a setting (DCI positions in decimal).
Only(p, v) == [q \in {p} |-> v]
NoBytes == [q \in {} |-> 0]
Raw(name, v) ==
  CASE name = "resolution" -> [p \in {0, 1, 4, 5} |-> IF (v = 16) = (p \in {0, 1}) THEN 4 ELSE 8]
    [] name = "frequency"  -> Only(1, v)
    [] name = "time"       -> Only(0, v * 1000)
    [] name = "sharpener"  -> Only(13, (v * 255) \div 100)
    [] name = "order"      -> Only(0, v)
    [] name = "margin"     -> Only(0, v * 2048)
    [] name = "mode"       -> IF v = 1 THEN [p \in {1, 3} |-> p]
                              ELSE IF v = 3 THEN [p \in {1, 3} |-> IF p = 1 THEN 3 ELSE 2]
                              ELSE NoBytes

DssRaw(v) ==
  [p \in {4, 6, 9} |-> IF p = 9 THEN (IF v = 16 THEN 4 ELSE 1) ELSE (IF v = 16 THEN 64 ELSE 16)]
SingleRaw(v) == Only(0, IF v = 3 THEN 1 ELSE 0)

\* A block with bytes of its own.
Block(bytes, rest) == [p \in DOMAIN bytes \cup {Rest} |-> IF p = Rest THEN rest ELSE bytes[p]]

\* Mutant: the block is written from the new bytes on.
EditedOnly(block, bytes) == [p \in DOMAIN bytes |-> bytes[p]]

\* A block with some bytes replaced.
Edited(block, bytes) == [p \in DOMAIN block |-> IF p \in DOMAIN bytes THEN bytes[p] ELSE block[p]]

\* Mutant: the time is read in microseconds.
GetMicro(name, b) ==
  IF \E p \in DOMAIN b \ {Rest} : b[p] = Junk THEN Junk
  ELSE CASE name = "resolution" -> b[0] * b[1]
         [] name = "frequency"  -> b[1]
         [] name = "time"       -> b[0]
         [] name = "sharpener"  -> (b[13] * 100) \div 255
         [] name = "order"      -> b[0]
         [] name = "margin"     -> b[0] \div 2048
         [] name = "mode"       -> IF b[1] = 1 THEN 1 ELSE 3

\* What the getter makes of a block.
Get(name, b) ==
  IF \E p \in DOMAIN b \ {Rest} : b[p] = Junk THEN Junk
  ELSE CASE name = "resolution" -> b[0] * b[1]
         [] name = "frequency"  -> b[1]
         [] name = "time"       -> b[0] \div 1000
         [] name = "sharpener"  -> (b[13] * 100) \div 255
         [] name = "order"      -> b[0]
         [] name = "margin"     -> b[0] \div 2048
         [] name = "mode"       -> IF b[1] = 1 THEN 1 ELSE 3

\* The values a setter takes; the frequency is not checked.
Valid(name, v) ==
  CASE name = "resolution" -> v \in {16, 64}
    [] name = "mode"      -> v \in {1, 3}
    [] name = "time"      -> v \in 2 .. 1000
    [] name = "sharpener" -> v \in 0 .. 99
    [] name = "order"     -> v \in {1, 2}
    [] name = "margin"    -> v \in 0 .. 10000
    [] OTHER              -> TRUE

ValidTarget(t) == t[1] \in 1 .. 99 /\ t[2] \in 1 .. 16 /\ t[3] \in 600 .. 3000

\* The default crosstalk: of 8x8 zones.
Full == [origin |-> "default", res |-> 64]

\* VL53L5CX_DEFAULT_CONFIGURATION, and the single range init sets.
DefaultTarget == [p \in {0, 2, 4} |-> IF p = 4 THEN 8 ELSE 800]
DefaultDev ==
  [zone |-> Block(Raw("resolution", 16), 0), dss |-> Block(DssRaw(16), 0),
   frequency |-> Block(Only(1, 1), 0),       time |-> Block(Only(0, 10000), 0),
   sharpener |-> Block(Only(13, 38), 0),     order |-> Block(Only(0, 2), 0),
   margin |-> Block(Only(0, 102400), 0),     mode |-> Block(Raw("mode", 3), 0),
   target |-> DefaultTarget,                 single |-> SingleRaw(3)]

\* VL53L5CX_CALIBRATE_XTALK, which leaves the single range alone.
CalibrationDev ==
  [zone |-> Block(Raw("resolution", 64), 0), dss |-> Block(DssRaw(64), 0),
   frequency |-> Block(Only(1, 2), 0),       time |-> Block(Only(0, 65617), 0),
   sharpener |-> Block(Only(13, 38), 1),     order |-> Block(Only(0, 1), 0),
   margin |-> Block(Only(0, 102400), 1),
   mode |-> Block([p \in {1, 3} |-> IF p = 1 THEN 6 ELSE 3], 1),
   target |-> DefaultTarget]

NothingSaved == [name \in Settings \cup {"zones"} |-> Junk]

\* After vl53l5cx_init.
Init ==
  /\ dev = DefaultDev
  /\ grids = 16
  /\ xtalk = [origin |-> "default", res |-> 16]
  /\ xtalkData = Full /\ caller = Full
  /\ buf = NoBytes /\ listed = 16 /\ measured = <<>>
  /\ saved = NothingSaved
  /\ call = "none" /\ arg = 0 /\ prog = <<>> /\ status = "ok"
  /\ before = DefaultDev /\ errorSeen = FALSE
  /\ calls = 0 /\ faults = 0

TypeOK ==
  /\ DOMAIN dev = Blocks
  /\ \A b \in Blocks : /\ DOMAIN dev[b] = DOMAIN DefaultDev[b]
                       /\ \A p \in DOMAIN dev[b] : dev[b][p] = Junk \/ dev[b][p] \in Nat
  /\ grids \in {16, 64} /\ listed \in {16, 64, Junk}
  /\ {xtalk, xtalkData, caller} \subseteq [origin : {"default", "calibrated", "junk"}, res : {16, 64}]
  /\ status \in {"ok", "refused", "error"}
  /\ errorSeen \in BOOLEAN
-----------------------------------------------------------------------------
(* The functions, as sequences of exchanges <<kind, object, value>>.        *)

\* dci_replace_data, and the same by hand in set_resolution.
Replace(block, edit) == <<<<"read", block, edit>>, <<"write", block, edit>>>>

Refused(what) == <<<<"refuse", what, 0>>>>

SendGrids(v) == <<<<"offset", "grid", v>>, <<"xtalk", "grid", v>>>>

\* The grids are sent for an unknown resolution too.
SetResolution(v) ==
  (IF Valid("resolution", v) THEN Replace("dss", DssRaw(v)) \o Replace("zone", Raw("resolution", v))
                             ELSE Refused("value"))
    \o SendGrids(v)

\* The block is written as it was read, and the single range cleared, for an unknown mode.
SetRangingMode(v) ==
  <<<<"read", "mode", NoBytes>>>> \o (IF Valid("mode", v) THEN <<>> ELSE Refused("mode"))
    \o <<<<"write", "mode", Raw("mode", v)>>, <<"write", "single", SingleRaw(v)>>>>

Setter(name, v) ==
  IF name = "resolution" THEN SetResolution(v)
  ELSE IF name = "mode" THEN SetRangingMode(v)
  ELSE IF Valid(name, v) THEN Replace(name, Raw(name, v)) ELSE Refused("value")

Getter(name) == <<<<"read", BlockOf(name), NoBytes>>, <<"save", name, name>>>>

\* In the order in which calibrate_xtalk saves and restores them.
Each(F(_)) ==
  F("resolution") \o F("frequency") \o F("time") \o F("sharpener") \o F("order")
    \o F("margin") \o F("mode")

PutBack(name) == <<<<"restore", name, 0>>>>

\* Mutant: the margin is not put back.
RestoreAllButMargin == Each(LAMBDA name : IF name = "margin" THEN <<>> ELSE PutBack(name))

RestoreAll == Each(PutBack)

\* The list of outputs for as many zones as get_resolution finds.
ProgramOutput ==
  <<<<"read", "zone", NoBytes>>, <<"save", "resolution", "zones">>, <<"output", "list", 0>>>>

SetTarget(t) ==
  Replace("target", Only(0, t[3] * 4)) \o Replace("target", Only(2, t[1] * 16))
    \o Replace("target", Only(4, t[2]))

MeasureTarget(t) ==
  <<<<"configure", "calibration", 0>>>> \o SetTarget(t) \o ProgramOutput
    \o <<<<"calibrate", "xtalk", 0>>>>

\* Mutant: the crosstalk is measured before the calibration has its configuration.
CalibrateXtalkHere(t) ==
  Each(Getter)
    \o (IF ValidTarget(t) THEN SetTarget(t) \o ProgramOutput \o <<<<"calibrate", "xtalk", 0>>>>
                          ELSE Refused("value"))
    \o <<<<"fetch", "driver", 0>>, <<"configure", "default", 0>>>>
    \o RestoreAll

\* calibrate_xtalk; a target that is refused skips the measurement only.
CalibrateXtalk(t) ==
  Each(Getter)
    \o (IF ValidTarget(t) THEN SetResolution(64) \o MeasureTarget(t) ELSE Refused("value"))
    \o <<<<"fetch", "driver", 0>>, <<"configure", "default", 0>>>>
    \o RestoreAll

GetCaldata ==
  Getter("resolution") \o SetResolution(64) \o <<<<"fetch", "caller", 0>>>> \o PutBack("resolution")

SetCaldata ==
  Getter("resolution") \o <<<<"take", "caller", 0>>>> \o PutBack("resolution")

Begin(name, v, body) ==
  /\ call = "none" /\ calls < MaxCalls
  /\ calls' = calls + 1
  /\ call' = name /\ arg' = v /\ prog' = body /\ status' = "ok"
  /\ before' = dev
  /\ UNCHANGED <<dev, grids, xtalk, xtalkData, caller, buf, Measurement, saved, errorSeen, faults>>

\* Mutant: the value is written before it is checked.
SetUnchecked(name) ==
  \E v \in Inputs[name] :
    Begin(name, v, Replace(BlockOf(name), Raw(name, v)) \o Setter(name, v))

Set(name) == \E v \in Inputs[name] : Begin(name, v, Setter(name, v))

Calibrate == \E t \in Targets : Begin("calibrate", t, CalibrateXtalk(t))

Caldata == Begin("get_caldata", 0, GetCaldata) \/ Begin("set_caldata", 0, SetCaldata)
-----------------------------------------------------------------------------
(* One exchange.                                                            *)

At(kind) == prog # <<>> /\ Head(prog)[1] = kind
Object == Head(prog)[2]
Value == Head(prog)[3]
Bookkeeping == <<call, arg, before, errorSeen, calls>>
Other == <<Measurement, Bookkeeping>>

Unless(failed) == status' = IF failed THEN "error" ELSE status

\* Mutant: the error of a read inside a setter is dropped.
ReadSilent(failed) ==
  /\ At("read")
  /\ prog' = Tail(prog)
  /\ buf' = IF failed THEN [p \in DOMAIN dev[Object] |-> Junk] ELSE dev[Object]
  /\ UNCHANGED <<status, dev, grids, xtalk, xtalkData, caller, saved, Other>>

\* dci_read_data: when it fails the block may have arrived or not.
Read(failed) ==
  /\ At("read")
  /\ prog' = Tail(prog) /\ Unless(failed)
  /\ \/ buf' = dev[Object]
     \/ failed /\ buf' = [p \in DOMAIN dev[Object] |-> Junk]
  /\ UNCHANGED <<dev, grids, xtalk, xtalkData, caller, saved, Other>>

\* dci_write_data of temp_buffer with the edit: likewise.
Write(failed) ==
  /\ At("write")
  /\ prog' = Tail(prog) /\ Unless(failed)
  /\ \/ dev' = [dev EXCEPT ![Object] = IF Object = "single" THEN Value ELSE Edited(buf, Value)]
     \/ failed /\ UNCHANGED dev
  /\ UNCHANGED <<buf, grids, xtalk, xtalkData, caller, saved, Other>>

\* send_offset_data, send_xtalk_data: a 4x4 grid is averaged from the 8x8 one.
Send(failed) ==
  /\ At("offset") \/ At("xtalk")
  /\ prog' = Tail(prog) /\ Unless(failed)
  /\ \/ /\ grids' = IF At("offset") THEN (IF Value = 16 THEN 16 ELSE 64) ELSE grids
        /\ xtalk' = IF At("xtalk") THEN [xtalkData EXCEPT !.res = IF Value = 16 THEN 16 ELSE @]
                                   ELSE xtalk
     \/ failed /\ UNCHANGED <<grids, xtalk>>
  /\ UNCHANGED <<dev, buf, xtalkData, caller, saved, Other>>

\* The end of a getter: the value goes into a local variable.
Save ==
  /\ At("save")
  /\ prog' = Tail(prog)
  /\ saved' = [saved EXCEPT ![Value] = Get(Object, buf)]
  /\ UNCHANGED <<dev, grids, xtalk, xtalkData, caller, buf, status, faults, Other>>

\* A value is refused. A setter that was called itself forgets an error it has
\* met; the status of one that calibrate_xtalk calls is joined to the others.
Refuse ==
  /\ At("refuse")
  /\ prog' = Tail(prog)
  /\ status' = IF call \in Settings THEN "refused" ELSE "error"
  /\ UNCHANGED <<dev, grids, xtalk, xtalkData, caller, buf, saved, faults, Other>>

\* A setter called with a saved value. A value that was saved after a failed read
\* is any value: one the setter refuses, one it takes, or one it writes unchecked.
Restore ==
  /\ At("restore")
  /\ \/ \E v \in IF saved[Object] = Junk THEN Inputs[Object] ELSE {saved[Object]} :
          prog' = Setter(Object, v) \o Tail(prog)
     \/ /\ saved[Object] = Junk /\ Object = "frequency"
        /\ prog' = Replace("frequency", Only(1, Junk)) \o Tail(prog)
  /\ UNCHANGED <<dev, grids, xtalk, xtalkData, caller, buf, saved, status, faults, Other>>

\* The start of the measurement and the wait for its end. A measurement the firmware
\* marks (the coverglass is too good) makes the driver take its default crosstalk.
Measure(failed) ==
  /\ At("calibrate")
  /\ prog' = Tail(prog) /\ Unless(failed)
  /\ measured' = Append(<<dev["target"][2], dev["target"][4], dev["target"][0]>>, listed)
  /\ \/ xtalk' = [origin |-> "calibrated", res |-> Get("resolution", dev["zone"])]
     \/ failed /\ UNCHANGED xtalk
  /\ xtalkData' \in {xtalkData, Full}
  /\ UNCHANGED <<dev, buf, grids, listed, caller, saved, Bookkeeping>>

\* The three writes that program the outputs.
SendList(failed) ==
  /\ At("output")
  /\ prog' = Tail(prog) /\ Unless(failed)
  /\ listed' = saved["zones"] \/ (failed /\ UNCHANGED listed)
  /\ UNCHANGED <<dev, buf, grids, xtalk, xtalkData, caller, measured, saved, Bookkeeping>>

\* GET_XTALK_CMD: the crosstalk the firmware works with, as it is.
Fetch(failed) ==
  /\ At("fetch")
  /\ prog' = Tail(prog) /\ Unless(failed)
  /\ LET x == IF failed THEN [xtalk EXCEPT !.origin = "junk"] ELSE xtalk IN
       /\ xtalkData' = IF Object = "driver" THEN x ELSE xtalkData
       /\ caller' = IF Object = "caller" THEN x ELSE caller
  /\ UNCHANGED <<dev, buf, grids, xtalk, saved, Other>>

\* set_caldata takes over the caller's buffer.
Take ==
  /\ At("take")
  /\ prog' = Tail(prog)
  /\ xtalkData' = caller
  /\ UNCHANGED <<dev, buf, grids, xtalk, caller, saved, status, faults, Other>>

\* A whole configuration: that of the calibration, then the default one again.
Configure(failed) ==
  /\ At("configure")
  /\ prog' = Tail(prog) /\ Unless(failed)
  /\ \/ dev' = [b \in Blocks |->
                 IF b = "single" THEN dev[b]
                 ELSE IF Object = "calibration" THEN CalibrationDev[b] ELSE DefaultDev[b]]
     \/ failed /\ UNCHANGED dev
  /\ UNCHANGED <<buf, grids, xtalk, xtalkData, caller, saved, Other>>

Exchange(failed) ==
  /\ \/ Read(failed) \/ Write(failed) \/ Send(failed) \/ Configure(failed) \/ SendList(failed)
     \/ Measure(failed) \/ Fetch(failed)
  /\ IF failed THEN faults < MaxFaults /\ faults' = faults + 1 ELSE UNCHANGED faults

\* A refused mode or resolution has written all the same: it counts as an error.
Return ==
  /\ call # "none" /\ prog = <<>>
  /\ call' = "none"
  /\ errorSeen' = (errorSeen \/ status = "error"
                             \/ (status = "refused" /\ call \in {"mode", "resolution"}))
  /\ saved' = NothingSaved /\ buf' = NoBytes
  /\ UNCHANGED <<dev, grids, xtalk, xtalkData, caller, Measurement, arg, prog, status, before, calls, faults>>

Next ==
  \/ \E name \in Settings : Set(name)
  \/ Calibrate \/ Caldata
  \/ \E failed \in BOOLEAN : Exchange(failed)
  \/ Save \/ Refuse \/ Restore \/ Take \/ Return

Spec == Init /\ [][Next]_vars
-----------------------------------------------------------------------------
(* Properties                                                               *)

Ended(c) == call = c /\ prog = <<>>
Now(name) == Get(name, dev[BlockOf(name)])
Then(name) == Get(name, before[BlockOf(name)])
Clean == \A b \in Blocks : \A p \in DOMAIN dev[b] : dev[b][p] # Junk

\* What a setter that returned 0 was given is what the getter gives back, for
\* the sharpener up to the rounding of its two conversions (968-1003).
SetThenGet ==
  \A name \in Settings : Ended(name) /\ status = "ok" =>
    IF name = "sharpener" THEN Now(name) \in {arg, arg - 1} ELSE Now(name) = arg

\* A setter changes the bytes of its own setting and no others, whatever temp_buffer held
\* before, and one that refuses its value changes none; but set_ranging_mode, which
\* forgets that its read failed when it refuses the mode and writes on (1059-1096).
OthersKept ==
  \A name \in Settings : Ended(name) /\ status # "error" =>
    \A other \in Settings :
      LET b == BlockOf(other) IN
      /\ other # name \/ (status = "refused" /\ name # "mode") => dev[b] = before[b]
      /\ status = "ok" => dev[b][Rest] = before[b][Rest]

\* Bytes that nobody set get into the firmware only if a call has returned an error,
\* or a mode or a resolution has been refused.
CorruptionReported == Clean \/ errorSeen \/ status # "ok"

\* Between calls offset, crosstalk and zones are of one resolution, and the
\* driver's crosstalk is the full 8x8 grid, not one that was averaged already
\* (set_resolution, calibrate_xtalk, get_caldata and set_caldata together).
GridsMatch ==
  call = "none" /\ ~errorSeen =>
    /\ grids = Now("resolution") /\ xtalk.res = Now("resolution")
    /\ xtalkData.res = 64 /\ caller.res = 64
    /\ \A p \in {4, 6, 9} : dev["dss"][p] = DssRaw(Now("resolution"))[p]

\* A calibration that returned 0 has measured the target it was given in all 64 zones
\* and has put every setting back, the sharpener up to its rounding, if no earlier call
\* had returned an error; nothing of its own configuration is left (196-334).
CalibrationRestores ==
  Ended("calibrate") /\ status = "ok" /\ ~errorSeen =>
    /\ measured = <<arg[1] * 16, arg[2], arg[3] * 4, 64>>
    /\ \A b \in Blocks \ {"single", "target"} : dev[b][Rest] = DefaultDev[b][Rest]
    /\ \A name \in Settings :
         IF name = "sharpener" THEN Now(name) \in {Then(name), Then(name) - 1}
                               ELSE Now(name) = Then(name)
=============================================================================
