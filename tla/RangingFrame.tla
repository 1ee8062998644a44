------------------------------ MODULE RangingFrame ------------------------------
(***************************************************************************)
(* The layout of a frame: start_ranging tells the sensor which outputs to   *)
(* send and adds up how many bytes that makes; get_ranging_data reads as     *)
(* many bytes, walks through them from block header to block header, and     *)
(* converts the values it has copied. Which outputs there are, and how many  *)
(* targets per zone, is fixed when the driver is compiled ('platform.h').    *)
(***************************************************************************)
EXTENDS Integers, Sequences

CONSTANTS Targets,      \* values of VL53L5CX_NB_TARGET_PER_ZONE
          Resolutions,  \* zones: 16 or 64
          Disabled,     \* sets of outputs compiled out
          Frames,       \* what the sensor sends for a target in a zone: a value per output
          MaxFrames     \* bound: frames read

ASSUME LayoutAssumption ==
  /\ Targets \subseteq 1 .. 4 /\ Resolutions \subseteq {16, 64}

VARIABLES nb, res, off,   \* the build and the resolution, fixed
          i,              \* loop counter of start_ranging, then offset in the frame
          pc,             \* "size", "idle", "parse" or "convert"
          sizes,          \* the size fields of the outputs sent to the sensor
          total,          \* p_dev->data_read_size
          found,          \* outputs copied out of the frame: bytes copied
          sent,           \* the values of the frame, as the firmware writes them
          results,        \* p_results, of a target in a zone in use
          frames
vars == <<nb, res, off, i, pc, sizes, total, found, sent, results, frames>>
build == <<nb, res, off, sizes, total>>

\* The outputs in the order of the list, with type and size of their headers.
Block(name, type, size) == [name |-> name, type |-> type, size |-> size]
Outputs == <<
  Block("start", 13, 0), Block("metadata", 0, 12), Block("common", 0, 4),
  Block("ambient", 4, 16), Block("spads", 4, 64), Block("targets", 1, 64),
  Block("signal", 4, 64), Block("sigma", 2, 64), Block("distance", 2, 64),
  Block("reflectance", 1, 64), Block("status", 1, 64), Block("motion", 0, 140)>>
Mandatory == {"start", "metadata", "common"}
Optional == {Outputs[n].name : n \in 4 .. Len(Outputs)}
Enabled(n) == Outputs[n].name \notin off

ASSUME DisabledAssumption == Disabled \subseteq SUBSET Optional

\* The index of an output in the memory of the sensor; with one target per zone
\* most of them are found elsewhere.
Idx(name) ==
  CASE name = "ambient"     -> 21712
    [] name = "spads"       -> 21968
    [] name = "targets"     -> IF nb = 1 THEN 53116 ELSE 22480
    [] name = "signal"      -> IF nb = 1 THEN 53180 ELSE 22672
    [] name = "sigma"       -> IF nb = 1 THEN 53948 ELSE 25744
    [] name = "distance"    -> IF nb = 1 THEN 54076 ELSE 26256
    [] name = "reflectance" -> IF nb = 1 THEN 54332 ELSE 27280
    [] name = "status"      -> IF nb = 1 THEN 54396 ELSE 27536
    [] OTHER                -> 52304

PerZone(name) == Idx(name) >= 21712 /\ Idx(name) < 21712 + 960

\* The array of VL53L5CX_ResultsData an output is copied to, in bytes.
Destination(name) ==
  CASE name \in {"ambient", "spads"} -> 256
    [] name = "targets"              -> 64
    [] name = "signal"               -> 256 * nb
    [] name \in {"sigma", "distance"} -> 128 * nb
    [] name \in {"reflectance", "status"} -> 64 * nb
    [] name = "motion"               -> 140

\* L5CX_AMB_SIZE .. L5CX_MOT_SIZE: none for an output compiled out.
ResultSize(name) == IF name \in off THEN 0 ELSE Destination(name) + 4

\* VL53L5CX_MAX_RESULTS_SIZE and the temporary buffer of that size.
MaxResultsSize ==
  40 + ResultSize("ambient") + ResultSize("spads") + ResultSize("targets") + ResultSize("signal")
     + ResultSize("sigma") + ResultSize("distance") + ResultSize("reflectance")
     + ResultSize("status") + ResultSize("motion") + 8
TemporaryBufferSize == IF MaxResultsSize < 1024 THEN 1024 ELSE MaxResultsSize

TypeOK ==
  /\ nb \in Targets /\ res \in Resolutions /\ off \in Disabled
  /\ pc \in {"size", "idle", "parse", "convert"}
  /\ i \in Nat /\ total \in Nat
  /\ \A n \in 1 .. Len(sizes) : sizes[n] \in 0 .. 255
  /\ DOMAIN found \subseteq Optional
  /\ DOMAIN results = Optional \ off /\ frames \in 0 .. MaxFrames

\* What the program's structure holds before the first frame.
Left == 70000

Init ==
  /\ nb \in Targets /\ res \in Resolutions /\ off \in Disabled
  /\ i = 1 /\ pc = "size"
  /\ sizes = <<>> /\ total = 0
  /\ found = [name \in {} |-> 0]
  /\ sent = (CHOOSE f \in Frames : TRUE) /\ frames = 0
  /\ results = [name \in Optional \ off |-> Left]
-----------------------------------------------------------------------------
IsArray(b) == b.type >= 1 /\ b.type < 13

\* Mutant: every array has a value per target.
SizeOfPerTarget(b) == IF IsArray(b) THEN (res * nb) % 256 ELSE b.size

\* The size field: values per zone, or per target, cut to a byte.
SizeOf(b) ==
  IF IsArray(b) THEN IF PerZone(b.name) THEN res ELSE (res * nb) % 256
  ELSE b.size

\* Bytes of a block with its header.
BytesOf(b, size) == (IF IsArray(b) THEN b.type * size ELSE size) + 4

\* One round of the loop of start_ranging that adds up the size.
AddBlock ==
  /\ pc = "size" /\ i <= Len(Outputs)
  /\ i' = i + 1
  /\ LET b == Outputs[i] IN
       /\ sizes' = Append(sizes, IF Enabled(i) THEN SizeOf(b) ELSE b.size)
       /\ total' = IF Enabled(i) THEN total + BytesOf(b, SizeOf(b)) ELSE total
  /\ UNCHANGED <<nb, res, off, pc, found, sent, results, frames>>

SendList ==
  /\ pc = "size" /\ i > Len(Outputs)
  /\ total' = total + 20
  /\ pc' = "idle"
  /\ UNCHANGED <<nb, res, off, i, sizes, found, sent, results, frames>>

\* get_ranging_data reads the next frame.
GetFrame ==
  /\ pc = "idle" /\ frames < MaxFrames
  /\ pc' = "parse" /\ i' = 16 /\ frames' = frames + 1
  /\ found' = [name \in {} |-> 0]
  /\ sent' \in Frames
  /\ UNCHANGED <<build, results>>

\* The frame the sensor sends: 16 bytes of headers (the start block among them),
\* the enabled blocks, and 8 bytes of footer.
Offset[n \in 2 .. Len(Outputs) + 1] ==
  IF n = 2 THEN 16
  ELSE Offset[n - 1] + (IF Enabled(n - 1) THEN BytesOf(Outputs[n - 1], sizes[n - 1]) ELSE 0)
BlockAt(p) == {n \in 2 .. Len(Outputs) : Enabled(n) /\ Offset[n] = p}

\* Mutant: a block of one-byte values is taken for no array.
LengthWide(n) ==
  IF Outputs[n].type > 2 /\ Outputs[n].type < 13 THEN Outputs[n].type * sizes[n] ELSE sizes[n]

Length(n) ==
  IF Outputs[n].type > 1 /\ Outputs[n].type < 13 THEN Outputs[n].type * sizes[n] ELSE sizes[n]

\* One round of the loop of get_ranging_data on the header of a block.
ParseBlock ==
  /\ pc = "parse" /\ i < total
  /\ \E n \in BlockAt(i) :
       /\ i' = i + Length(n) + 4
       /\ found' = IF Outputs[n].name \in Optional
                   THEN [name \in DOMAIN found \cup {Outputs[n].name} |->
                           IF name = Outputs[n].name THEN Length(n) ELSE found[name]]
                   ELSE found
       /\ results' = [name \in DOMAIN results |->
                        IF name = Outputs[n].name /\ Length(n) > 0 THEN sent[name] ELSE results[name]]
  /\ UNCHANGED <<build, pc, sent, frames>>

\* No block begins here: the footer, or bytes in the middle of a block.
ParseOther ==
  /\ pc = "parse"
  /\ BlockAt(i) = {} \/ i >= total
  /\ pc' = "convert"
  /\ UNCHANGED <<build, i, found, sent, results, frames>>

\* The conversion of one value; the division of C, but a negative distance is 0.
Scaled(name, v) ==
  CASE name \in {"ambient", "signal"} -> v \div 2048
    [] name = "distance"              -> IF v < 0 THEN 0 ELSE v \div 4
    [] name = "sigma"                 -> v \div 128
    [] name = "motion"                -> v \div 65535
    [] OTHER                          -> v

NoTarget == "targets" \in DOMAIN results /\ results["targets"] = 0

\* The loops over the results, in place; a zone without a target gets status 255.
Convert ==
  /\ pc = "convert"
  /\ pc' = "idle"
  /\ results' = [name \in DOMAIN results |->
                   IF name = "status" /\ NoTarget THEN 255 ELSE Scaled(name, results[name])]
  /\ UNCHANGED <<build, i, found, sent, frames>>

Next == AddBlock \/ SendList \/ GetFrame \/ ParseBlock \/ ParseOther \/ Convert

Spec == Init /\ [][Next]_vars
-----------------------------------------------------------------------------
(* Properties                                                               *)

\* What is read of a frame fits temp_buffer, for every choice of outputs and
\* targets (VL53L5CX_MAX_RESULTS_SIZE against start_ranging 547-579).
FitsBuffer == pc # "size" => total <= TemporaryBufferSize

\* The walk ends at the footer, having met the header of every enabled output
\* and of no other (start_ranging and get_ranging_data compute lengths by
\* different conditions).
EveryBlockFound == i = total - 8 /\ DOMAIN found = Optional \ off

\* What a program is to be told of a target the sensor sends, whether the zone has
\* one being known only if the number of targets is among the outputs.
Meaning(name) ==
  IF name = "status" /\ "targets" \notin off /\ sent["targets"] = 0 THEN 255
  ELSE Scaled(name, sent[name])

\* Every block is found and none is longer than the array it is copied to; with up to
\* three targets per zone every output carries a value for each zone, and each target,
\* and the program is given those of this frame, converted once, however many frames
\* have been converted in the same structure before (690-818). With four targets and
\* 64 zones the size byte wraps to 0 and nothing is copied.
EveryTargetDelivered ==
  /\ pc = "convert" => EveryBlockFound
  /\ \A name \in DOMAIN found :
       /\ found[name] <= Destination(name)
       /\ nb < 4 /\ name # "motion" => found[name] * 64 = Destination(name) * res
  /\ pc = "idle" /\ frames > 0 /\ nb < 4 =>
       \A name \in DOMAIN results : results[name] = Meaning(name)
=============================================================================
