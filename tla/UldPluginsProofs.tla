--------------------------- MODULE UldPluginsProofs ---------------------------
(***************************************************************************)
(* Proofs about the detection thresholds, the motion indicator and the       *)
(* layout of a frame, for any arrays, windows, resolutions, choices of        *)
(* outputs, and any number of failed exchanges and of frames.                *)
(***************************************************************************)
EXTENDS MCUldPlugins, TLAPS

-----------------------------------------------------------------------------
(* The enable flag. Between its two writes the global flag is the one asked  *)
(* for, unless the first write has failed.                                  *)

Byte == IF flag = 1 THEN 1 ELSE 0

EInv ==
  /\ dcall # "enable" /\ asked # D!Unknown =>
       global = asked /\ interrupt = IF asked = 1 THEN 4 ELSE 12
  /\ dcall = "enable" => (step = 2 /\ status = "ok" => global = Byte)

LEMMA EInvInductive == EInv /\ [D!Next]_(D!vars) => EInv'
<1> SUFFICES ASSUME EInv, [D!Next]_(D!vars) PROVE EInv'
  OBVIOUS
<1> USE DEF D!Bytes, Byte, EInv, D!Unknown
<1>1. CASE D!Fill
  BY <1>1 DEF D!Fill
<1>2. ASSUME NEW name \in {"set", "get", "enable", "enabled"}, D!Begin(name) PROVE EInv'
  BY <1>2 DEF D!Begin
<1>3. ASSUME NEW failed \in BOOLEAN,
             D!SendTargets(failed) \/ D!SendCheckers(failed) \/ D!ReadCheckers(failed) \/ D!ReadEnabled(failed)
      PROVE  EInv'
  BY <1>3 DEF D!SendTargets, D!SendCheckers, D!ReadCheckers, D!ReadEnabled, D!Step
<1>4. ASSUME NEW failed \in BOOLEAN, D!SendGlobal(failed) PROVE EInv'
  BY <1>4 DEF D!SendGlobal, D!Step, D!Outcome
<1>5. ASSUME NEW failed \in BOOLEAN, D!SendInterrupt(failed) PROVE EInv'
  BY <1>5 DEF D!SendInterrupt, D!Step, D!Outcome, D!Asked
<1>6. CASE UNCHANGED D!vars
  BY <1>6 DEF D!vars
<1> QED BY <1>1, <1>2, <1>3, <1>4, <1>5, <1>6 DEF D!Next

\* After any sequence of calls and failed exchanges: if the last change of the
\* enable flag returned 0, the global flag and the interrupt configuration are
\* those it asked for (set_detection_thresholds_enable 66-107).
THEOREM EnableStaysConsistent == D!Spec => []EnableConsistent
<1>1. D!Init => EInv
  BY DEF D!Init, EInv
<1>2. EInv => EnableConsistent
  BY DEF EInv, EnableConsistent, D!EnableConsistent
<1> QED BY <1>1, <1>2, EInvInductive, PTL DEF D!Spec
-----------------------------------------------------------------------------
(* The conversion of the thresholds.                                        *)

Factors == {1, 4, 128, 256, 2048, 65535}

LEMMA DivisionUndoes == \A f \in Factors : \A x \in Int : D!Quotient(x * f, f) = x
BY DEF D!Quotient, Factors

LEMMA FactorIn ==
  ASSUME NEW m \in D!Measurements
  PROVE  D!Factor[m] \in Factors
BY DEF D!Factor, D!Measurements, Factors

\* The arrays a program fills in: at least one checker.
CheckersGiven == \A a \in Arrays : a \in Seq(D!Checker) /\ a # <<>>

LEMMA ConversionUndone ==
  ASSUME NEW a \in Seq(D!Checker), a # <<>>
  PROVE  D!FromFirmware(D!ToFirmware(a)) = a
<1> DEFINE f == D!Factor[a[1].m]
           b == D!ToFirmware(a)
<1>0. 1 \in DOMAIN a /\ a = [k \in DOMAIN a |-> a[k]] /\ \A k \in DOMAIN a : a[k] \in D!Checker
  OBVIOUS
<1>1. f \in Factors
  <2>1. a[1].m \in D!Measurements
    BY <1>0 DEF D!Checker
  <2> QED BY <2>1, FactorIn
<1>2. b = [k \in DOMAIN a |-> [m |-> a[k].m, low |-> a[k].low * f, high |-> a[k].high * f]]
  BY DEF D!ToFirmware, D!Convert
<1>3. D!FromFirmware(b) =
        [k \in DOMAIN b |-> [m |-> b[k].m, low |-> D!Quotient(b[k].low, D!Factor[b[1].m]),
                                           high |-> D!Quotient(b[k].high, D!Factor[b[1].m])]]
  BY DEF D!FromFirmware, D!Convert
<1>4. DOMAIN b = DOMAIN a /\ D!Factor[b[1].m] = f
  BY <1>0, <1>2
<1> HIDE DEF f, b
<1>5. ASSUME NEW k \in DOMAIN a
      PROVE  [m |-> b[k].m, low |-> D!Quotient(b[k].low, f), high |-> D!Quotient(b[k].high, f)] = a[k]
  <2>1. a[k] \in D!Checker
    BY <1>0
  <2>2. a[k].low \in Int /\ a[k].high \in Int /\ a[k] = [m |-> a[k].m, low |-> a[k].low, high |-> a[k].high]
    BY <2>1 DEF D!Checker
  <2>3. b[k].m = a[k].m /\ b[k].low = a[k].low * f /\ b[k].high = a[k].high * f
    BY <1>2
  <2>4. D!Quotient(b[k].low, f) = a[k].low
    <3> DEFINE v == a[k].low
    <3>1. v \in Int
      BY <2>2
    <3> HIDE DEF v
    <3>2. D!Quotient(v * f, f) = v
      BY ONLY <1>1, <3>1, DivisionUndoes, Zenon
    <3> QED BY <2>3, <3>2 DEF v
  <2>5. D!Quotient(b[k].high, f) = a[k].high
    <3> DEFINE v == a[k].high
    <3>1. v \in Int
      BY <2>2
    <3> HIDE DEF v
    <3>2. D!Quotient(v * f, f) = v
      BY ONLY <1>1, <3>1, DivisionUndoes, Zenon
    <3> QED BY <2>3, <3>2 DEF v
  <2> QED BY <2>2, <2>3, <2>4, <2>5
<1>6. D!FromFirmware(b) = [k \in DOMAIN a |-> a[k]]
  BY <1>3, <1>4, <1>5
<1> QED BY <1>0, <1>6 DEF b

\* For thresholds of any size and either sign, any number of checkers and any mix of
\* measurements: reading the checkers back gives what was set (118-152, 165-195).
THEOREM ConversionReadsBack == ASSUME CheckersGiven PROVE D!Spec => ReadBack
<1>1. D!ReadCheckers(FALSE) =>
        \A a \in Arrays : checkers = D!ToFirmware(a) => array' = a
  BY ConversionUndone DEF CheckersGiven, D!ReadCheckers
<1> QED BY <1>1, PTL DEF ReadBack
-----------------------------------------------------------------------------
(* The motion indicator. The program's structure holds the map of the last   *)
(* resolution asked for; what set_distance_motion sends is that structure.   *)

Struct == [from : Int, length : Int, map : [M!Zones -> Int]]

MInv ==
  /\ config \in Struct /\ grid \in {0, 16, 64}
  /\ grid # 0 => config.map = M!Map(grid)
  /\ mcall = "distance" /\ status = "ok" => sensor = config /\ config.from = M!RefBin(arg[1])

\* Minima of windows are numbers.
WindowsGiven == \A w \in Windows : w[1] \in Int /\ w[2] \in Int

LEMMA MapType == \A r : M!Map(r) \in [M!Zones -> Int]
BY DEF M!Map, M!Zones

LEMMA ZeroedStruct == M!Zeroed \in Struct
BY DEF M!Zeroed, Struct, M!Zones

LEMMA MapStep ==
  ASSUME NEW c \in Struct, NEW g \in {0, 16, 64}, NEW r, M!SetMap(c, g, r),
         g # 0 => c.map = M!Map(g), mcall' # "distance"
  PROVE  MInv'
<1>1. CASE M!Known(r)
  <2>1. config' = [c EXCEPT !.map = M!Map(r)] /\ grid' = r /\ r \in {16, 64}
    BY <1>1 DEF M!SetMap, M!Known
  <2>2. config'.map = M!Map(r) /\ config' \in Struct
    BY <2>1, MapType DEF Struct
  <2> QED BY <2>1, <2>2 DEF MInv
<1>2. CASE ~M!Known(r)
  <2>1. config' = c /\ grid' = g
    BY <1>2 DEF M!SetMap
  <2> QED BY <2>1 DEF MInv
<1> QED BY <1>1, <1>2

LEMMA WindowStep ==
  ASSUME MInv, WindowsGiven, NEW w \in Windows, M!SetDistance(w)
  PROVE  MInv'
<1>1. mcall' = "distance" /\ arg' = w /\ grid' = grid
  BY DEF M!SetDistance
<1>2. CASE M!Refused(w)
  BY <1>1, <1>2 DEF M!SetDistance, MInv
<1>3. CASE ~M!Refused(w)
  <2>1. PICK n \in M!Length(w[2] - w[1]) : config' = M!Windowed(w, n) /\ M!Send(config')
    BY <1>3 DEF M!SetDistance
  <2>2. n \in Int
    BY <2>1 DEF M!Length, M!Numerator, M!Denominator, WindowsGiven
  <2>3. M!RefBin(w[1]) \in Int
    BY DEF WindowsGiven, M!RefBin
  <2>4. config' \in Struct /\ config'.map = config.map /\ config'.from = M!RefBin(w[1])
    BY <2>1, <2>2, <2>3 DEF M!Windowed, MInv, Struct
  <2>5. status' = "ok" => sensor' = config'
    BY <2>1 DEF M!Send
  <2> QED BY <1>1, <2>4, <2>5 DEF MInv
<1> QED BY <1>2, <1>3

LEMMA MInvInductive == WindowsGiven /\ MInv /\ [M!Next]_(M!vars) => MInv'
<1> SUFFICES ASSUME WindowsGiven, MInv, [M!Next]_(M!vars) PROVE MInv'
  OBVIOUS
<1>1. ASSUME NEW r, M!MotionInit(r) PROVE MInv'
  BY <1>1, MapStep, ZeroedStruct DEF M!MotionInit
<1>2. ASSUME NEW r, M!SetResolution(r) PROVE MInv'
  BY <1>2, MapStep DEF M!SetResolution, MInv
<1>3. ASSUME NEW w \in Windows, M!SetDistance(w) PROVE MInv'
  BY <1>3, WindowStep
<1>4. CASE UNCHANGED M!vars
  BY <1>4 DEF M!vars, MInv
<1> QED BY <1>1, <1>2, <1>3, <1>4 DEF M!Next

\* The zones of an aggregate.
LEMMA Aggregate16 == \A g \in 0 .. 15 : M!Aggregate(M!Map(16), g) = {g}
BY DEF M!Aggregate, M!Map, M!Zones

LEMMA ZoneOf ==
  ASSUME NEW z \in 0 .. 63, NEW g \in 0 .. 15, NEW corner \in Int,
         corner = 16 * (g \div 4) + 2 * (g % 4)
  PROVE  (((z % 8) \div 2) + 4 * (z \div 16) = g) <=>
           (z = corner \/ z = corner + 1 \/ z = corner + 8 \/ z = corner + 9)
OBVIOUS

LEMMA Aggregate64 ==
  \A g \in 0 .. 15 :
    LET corner == 16 * (g \div 4) + 2 * (g % 4) IN
      M!Aggregate(M!Map(64), g) = {corner, corner + 1, corner + 8, corner + 9}
<1> SUFFICES ASSUME NEW g \in 0 .. 15
    PROVE  LET corner == 16 * (g \div 4) + 2 * (g % 4) IN
             M!Aggregate(M!Map(64), g) = {corner, corner + 1, corner + 8, corner + 9}
  OBVIOUS
<1> DEFINE corner == 16 * (g \div 4) + 2 * (g % 4)
<1>1. corner \in 0 .. 54 /\ corner + 9 \in 0 .. 63
  OBVIOUS
<1>2. \A z \in 0 .. 63 : M!Map(64)[z] = ((z % 8) \div 2) + 4 * (z \div 16)
  BY DEF M!Map, M!Zones
<1>3. corner = 16 * (g \div 4) + 2 * (g % 4)
  OBVIOUS
<1> HIDE DEF corner
<1>4. \A z \in 0 .. 63 : M!Map(64)[z] = g <=>
           (z = corner \/ z = corner + 1 \/ z = corner + 8 \/ z = corner + 9)
  BY <1>1, <1>2, <1>3, ZoneOf
<1>5. M!Aggregate(M!Map(64), g) = {corner, corner + 1, corner + 8, corner + 9}
  BY <1>1, <1>4 DEF M!Aggregate, M!Zones
<1> QED BY <1>5 DEF corner

\* For any windows and resolutions, in any order and whatever failed before: when
\* set_distance_motion has returned 0 the firmware has the window and the map
\* asked for last (98-172).
THEOREM DistanceSends == ASSUME WindowsGiven PROVE M!Spec => []DistanceSendsAll
<1>1. M!Init => MInv
  BY ZeroedStruct DEF M!Init, MInv
<1>2. MInv => DistanceSendsAll
  <2> SUFFICES ASSUME MInv, mcall = "distance", status = "ok", grid # 0
               PROVE  DistanceSendsAll
    BY DEF DistanceSendsAll, M!DistanceSendsAll
  <2>1. sensor = config /\ sensor.from = M!RefBin(arg[1]) /\ sensor.map = M!Map(grid)
    BY DEF MInv
  <2>2. CASE grid = 16
    BY <2>1, <2>2, Aggregate16 DEF DistanceSendsAll, M!DistanceSendsAll
  <2>3. CASE grid = 64
    BY <2>1, <2>3, Aggregate64 DEF DistanceSendsAll, M!DistanceSendsAll
  <2> QED BY <2>2, <2>3 DEF MInv
<1> QED BY <1>1, <1>2, MInvInductive, PTL DEF M!Spec
-----------------------------------------------------------------------------
(* The layout of a frame. Start(n) is where the n-th block begins, as a sum   *)
(* of the bytes of the blocks before it; the driver's total, the frame the    *)
(* sensor sends and the walk through it are compared with that sum.          *)

Weight(k) == IF Enabled(k) THEN BytesOf(Outputs[k], SizeOf(Outputs[k])) ELSE 0
Part(k, n) == IF k < n THEN Weight(k) ELSE 0
Start(n) ==
  16 + Part(2, n) + Part(3, n) + Part(4, n) + Part(5, n) + Part(6, n) + Part(7, n) + Part(8, n)
     + Part(9, n) + Part(10, n) + Part(11, n) + Part(12, n)

\* What the driver has told the sensor before the round i of its loop.
SizeSent(k) == IF Enabled(k) THEN SizeOf(Outputs[k]) ELSE Outputs[k].size

Build == nb \in 1 .. 4 /\ res \in {16, 64} /\ off \subseteq Optional

LEMMA OutputList ==
  /\ Len(Outputs) = 12 /\ DOMAIN Outputs = 1 .. 12
  /\ Outputs[1] = Block("start", 13, 0)       /\ Outputs[2] = Block("metadata", 0, 12)
  /\ Outputs[3] = Block("common", 0, 4)       /\ Outputs[4] = Block("ambient", 4, 16)
  /\ Outputs[5] = Block("spads", 4, 64)       /\ Outputs[6] = Block("targets", 1, 64)
  /\ Outputs[7] = Block("signal", 4, 64)      /\ Outputs[8] = Block("sigma", 2, 64)
  /\ Outputs[9] = Block("distance", 2, 64)    /\ Outputs[10] = Block("reflectance", 1, 64)
  /\ Outputs[11] = Block("status", 1, 64)     /\ Outputs[12] = Block("motion", 0, 140)
BY DEF Outputs

LEMMA OptionalNames ==
  Optional = {"ambient", "spads", "targets", "signal", "sigma", "distance", "reflectance",
              "status", "motion"}
<1>1. Optional = {Outputs[n].name : n \in 4 .. 12}
  BY OutputList DEF Optional
<1>2. 4 .. 12 = {4, 5, 6, 7, 8, 9, 10, 11, 12}
  OBVIOUS
<1> QED BY <1>1, <1>2, OutputList DEF Block

LEMMA NamesDiffer ==
  \A k, m \in 1 .. 12 : Outputs[k].name = Outputs[m].name => k = m
BY OutputList DEF Block

LEMMA OptionalIndex ==
  /\ \A k \in 4 .. 12 : Outputs[k].name \in Optional
  /\ \A k \in 1 .. 3 : Outputs[k].name \notin Optional
  /\ \A name \in Optional : \E k \in 4 .. 12 : Outputs[k].name = name
BY OutputList, OptionalNames DEF Block

LEMMA MandatoryEnabled == ASSUME Build PROVE Enabled(1) /\ Enabled(2) /\ Enabled(3)
BY OutputList, OptionalNames DEF Build, Enabled, Block

\* The size of a block: that of an array is a number of values, in a byte.
LEMMA SizeRange ==
  ASSUME Build, NEW k \in 1 .. 12
  PROVE  SizeOf(Outputs[k]) \in 0 .. 255 /\ Outputs[k].size \in 0 .. 255 /\ Outputs[k].type \in 0 .. 13
<1>1. (res * nb) % 256 \in 0 .. 255
  BY DEF Build
<1> QED BY <1>1, OutputList DEF Build, SizeOf, Block

LEMMA WeightRange ==
  ASSUME Build, NEW k \in 2 .. 12
  PROVE  Weight(k) \in Nat /\ (Enabled(k) => Weight(k) >= 4) /\ (~Enabled(k) => Weight(k) = 0)
<1>1. SizeOf(Outputs[k]) \in 0 .. 255 /\ Outputs[k].type \in 0 .. 13
  BY SizeRange
<1>2. CASE Outputs[k].type = 0
  BY <1>1, <1>2 DEF Weight, BytesOf, IsArray
<1>3. CASE Outputs[k].type \in {1, 2, 4}
  BY <1>1, <1>3 DEF Weight, BytesOf, IsArray
<1>4. Outputs[k].type \in {0, 1, 2, 4}
  BY OutputList DEF Block
<1> QED BY <1>2, <1>3, <1>4

LEMMA StartSteps ==
  ASSUME Build
  PROVE  /\ Start(2) = 16
         /\ \A n \in 2 .. 12 : Start(n + 1) = Start(n) + Weight(n)
         /\ \A n \in 2 .. 13 : Start(n) \in Nat
<1>1. /\ Weight(2) \in Nat /\ Weight(3) \in Nat /\ Weight(4) \in Nat /\ Weight(5) \in Nat
      /\ Weight(6) \in Nat /\ Weight(7) \in Nat /\ Weight(8) \in Nat /\ Weight(9) \in Nat
      /\ Weight(10) \in Nat /\ Weight(11) \in Nat /\ Weight(12) \in Nat
  BY WeightRange
<1>2. Start(2) = 16
  BY <1>1 DEF Start, Part
<1>3. ASSUME NEW n \in 2 .. 12 PROVE Start(n + 1) = Start(n) + Weight(n)
  BY <1>1, <1>3 DEF Start, Part
<1>4. ASSUME NEW n \in 2 .. 13 PROVE Start(n) \in Nat
  BY <1>1, <1>4 DEF Start, Part
<1> QED BY <1>2, <1>3, <1>4

\* An enabled block ends before any later one begins.
LEMMA StartGrows ==
  ASSUME Build, NEW k \in 2 .. 13, NEW n \in 2 .. 13, k < n
  PROVE  Start(k) <= Start(n) /\ (Enabled(k) => Start(k) + 4 <= Start(n))
<1>1. \A m \in 2 .. 12 : /\ Start(m) \in Nat /\ Start(m) <= Start(m + 1)
                         /\ Enabled(m) => Start(m) + 4 <= Start(m + 1)
  BY StartSteps, WeightRange
<1>2. /\ Start(2) <= Start(3) /\ Start(3) <= Start(4) /\ Start(4) <= Start(5) /\ Start(5) <= Start(6)
      /\ Start(6) <= Start(7) /\ Start(7) <= Start(8) /\ Start(8) <= Start(9) /\ Start(9) <= Start(10)
      /\ Start(10) <= Start(11) /\ Start(11) <= Start(12) /\ Start(12) <= Start(13)
  BY <1>1
<1>3. /\ Start(2) \in Nat /\ Start(3) \in Nat /\ Start(4) \in Nat /\ Start(5) \in Nat
      /\ Start(6) \in Nat /\ Start(7) \in Nat /\ Start(8) \in Nat /\ Start(9) \in Nat
      /\ Start(10) \in Nat /\ Start(11) \in Nat /\ Start(12) \in Nat /\ Start(13) \in Nat
  BY StartSteps
<1>4. \A a, b \in 2 .. 13 : a <= b => Start(a) <= Start(b)
  BY <1>2, <1>3
<1>5. Start(k) <= Start(k + 1) /\ Start(k + 1) <= Start(n)
  BY <1>1, <1>4
<1> QED BY <1>1, <1>3, <1>5, StartSteps
\* The sum the sensor's offsets are defined by is that sum, once it has all the sizes.
Sent ==
  sizes \in Seq(0 .. 255) /\ Len(sizes) = 12 /\ \A k \in 1 .. 12 : sizes[k] = SizeSent(k)

LEMMA OffsetIsStart ==
  ASSUME Build, Sent
  PROVE  \A n \in 2 .. 13 : Offset[n] = Start(n)
<1> DEFINE Bytes(k) == IF Enabled(k) THEN BytesOf(Outputs[k], sizes[k]) ELSE 0
           Sums(o) == [n \in 2 .. 13 |-> IF n = 2 THEN 16 ELSE o[n - 1] + Bytes(n - 1)]
           f == [n \in 2 .. 13 |-> Start(n)]
<1>1. \A k \in 2 .. 12 : Bytes(k) = Weight(k)
  BY DEF Sent, SizeSent, Weight
<1>2. f = Sums(f)
  <2> SUFFICES ASSUME NEW n \in 2 .. 13 PROVE f[n] = Sums(f)[n]
    OBVIOUS
  <2>1. CASE n = 2
    BY <2>1, StartSteps
  <2>2. CASE n # 2
    <3>1. n - 1 \in 2 .. 12 /\ (n - 1) + 1 = n
      BY <2>2
    <3> QED BY <2>2, <3>1, <1>1, StartSteps
  <2> QED BY <2>1, <2>2
<1>3. Offset = CHOOSE o : o = Sums(o)
  BY OutputList DEF Offset
<1> HIDE DEF f, Sums
<1>4. Offset = Sums(Offset)
  BY <1>2, <1>3
<1>5. \A n \in 2 .. 13 : Offset[n] = IF n = 2 THEN 16 ELSE Offset[n - 1] + Bytes(n - 1)
  BY <1>4 DEF Sums
<1> HIDE DEF Bytes
<1>6. \A n \in 2 .. 12 : Offset[n] = Start(n) => Offset[n + 1] = Start(n + 1)
  <2> SUFFICES ASSUME NEW n \in 2 .. 12, Offset[n] = Start(n) PROVE Offset[n + 1] = Start(n + 1)
    OBVIOUS
  <2>1. n + 1 \in 2 .. 13 /\ n + 1 # 2 /\ (n + 1) - 1 = n
    OBVIOUS
  <2> QED BY <2>1, <1>1, <1>5, StartSteps
<1>7. Offset[2] = Start(2)
  BY <1>5, StartSteps
<1> QED BY <1>6, <1>7

\* A block is copied whole, and fits the array it is copied to.
LEMMA LengthFits ==
  ASSUME Build, Sent, NEW k \in 4 .. 12, Enabled(k)
  PROVE  /\ Length(k) <= Destination(Outputs[k].name)
         /\ nb < 4 => Length(k) > 0
         /\ nb < 4 /\ Outputs[k].name # "motion" =>
              Length(k) * 64 = Destination(Outputs[k].name) * res
<1>1. sizes[k] = SizeOf(Outputs[k])
  BY DEF Sent, SizeSent
<1>2. (nb \in {1, 2, 3, 4}) /\ (res \in {16, 64})
  BY DEF Build
<1>3. Length(k) = IF Outputs[k].type > 1 /\ Outputs[k].type < 13
                  THEN Outputs[k].type * SizeOf(Outputs[k]) ELSE SizeOf(Outputs[k])
  BY <1>1 DEF Length
<1> USE <1>2, <1>3, OutputList DEF Block, SizeOf, IsArray, PerZone, Idx, Destination
<1>4. CASE k \in {4, 5}
  BY <1>4
<1>5. CASE k = 6
  BY <1>5
<1>6. CASE k = 7
  BY <1>6
<1>7. CASE k \in {8, 9}
  BY <1>7
<1>8. CASE k \in {10, 11}
  BY <1>8
<1>9. CASE k = 12
  BY <1>9
<1> QED BY <1>4, <1>5, <1>6, <1>7, <1>8, <1>9

LEMMA LengthWeight ==
  ASSUME Build, Sent, NEW k \in 2 .. 12, Enabled(k)
  PROVE  Length(k) + 4 = Weight(k)
<1>1. sizes[k] = SizeOf(Outputs[k])
  BY DEF Sent, SizeSent
<1>2. sizes[k] \in 0 .. 255
  BY <1>1, SizeRange
<1> QED BY <1>1, <1>2, OutputList DEF Length, Weight, BytesOf, IsArray, Block
-----------------------------------------------------------------------------
(* The driver adds up the list, then the walk goes from block to block.     *)

LInv ==
  /\ Build /\ pc \in {"size", "idle", "parse", "convert"}
  /\ pc = "size" =>
       /\ i \in 1 .. 13 /\ frames = 0 /\ DOMAIN found = {}
       /\ sizes \in Seq(0 .. 255) /\ Len(sizes) = i - 1
       /\ \A k \in 1 .. i - 1 : sizes[k] = SizeSent(k)
       /\ total = IF i = 1 THEN 0 ELSE Start(i) - 12
  /\ pc # "size" => Sent /\ total = Start(13) + 8

\* The walk stands at block n (13 is the footer) and has met the enabled ones before.
Met(n) == {Outputs[k].name : k \in {m \in 4 .. n - 1 : Enabled(m)}}
Walk(n) == i = Start(n) /\ DOMAIN found = Met(n)

WInv ==
  /\ DOMAIN results = Optional \ off
  /\ \A name \in DOMAIN found :
       \E k \in 4 .. 12 : Outputs[k].name = name /\ Enabled(k) /\ found[name] = Length(k)
  /\ pc = "parse" => \E n \in 2 .. 13 : Walk(n)
  /\ pc = "convert" => Walk(13)
  /\ pc \in {"parse", "convert"} /\ nb < 4 => \A name \in DOMAIN found : results[name] = sent[name]
  /\ pc = "idle" /\ frames > 0 /\ nb < 4 => \A name \in DOMAIN results : results[name] = Meaning(name)

LEMMA SameLayout ==
  ASSUME UNCHANGED <<nb, res, off>>
  PROVE  /\ \A k : /\ Enabled(k)' = Enabled(k)
                   /\ SizeSent(k)' = SizeSent(k)
                   /\ Weight(k)' = Weight(k)
         /\ \A n : Start(n)' = Start(n) /\ Met(n)' = Met(n)
         /\ Build' = Build
<1>1. \A k : Enabled(k)' = Enabled(k)
  BY DEF Enabled
<1>2. \A b : SizeOf(b)' = SizeOf(b)
  BY DEF SizeOf, PerZone, Idx
<1>3. \A k : SizeSent(k)' = SizeSent(k) /\ Weight(k)' = Weight(k)
  BY <1>1, <1>2 DEF SizeSent, Weight
<1>4. \A n : Start(n)' = Start(n)
  BY <1>3 DEF Start, Part
<1>5. \A n : Met(n)' = Met(n)
  BY <1>1 DEF Met
<1> QED BY <1>1, <1>3, <1>4, <1>5 DEF Build

LEMMA InitLayout == Init => LInv /\ WInv
<1> SUFFICES ASSUME Init PROVE LInv /\ WInv
  OBVIOUS
<1>1. Build
  BY LayoutAssumption, DisabledAssumption DEF Init, Build
<1>2. LInv
  BY <1>1 DEF Init, LInv
<1>3. WInv
  BY DEF Init, WInv
<1> QED BY <1>2, <1>3

LEMMA AddLayout == ASSUME LInv, AddBlock PROVE LInv'
<1>1. /\ pc = "size" /\ i \in 1 .. 12 /\ Build /\ i' = i + 1
      /\ UNCHANGED <<nb, res, off, pc, found, frames>>
      /\ sizes \in Seq(0 .. 255) /\ Len(sizes) = i - 1
  BY OutputList DEF AddBlock, LInv
<1>2. sizes' = Append(sizes, SizeSent(i))
  BY DEF AddBlock, SizeSent
<1>3. SizeSent(i) \in 0 .. 255
  BY <1>1, SizeRange DEF SizeSent
<1>4. /\ sizes' \in Seq(0 .. 255) /\ Len(sizes') = i
      /\ \A k \in 1 .. i - 1 : sizes'[k] = sizes[k]
      /\ sizes'[i] = SizeSent(i)
  BY <1>1, <1>2, <1>3
<1>5. \A k \in 1 .. i : sizes'[k] = SizeSent(k)
  BY <1>1, <1>4 DEF LInv
<1>0. /\ \A n \in 2 .. 12 : Start(n + 1) = Start(n) + Weight(n) /\ Weight(n) \in Nat
      /\ \A n \in 2 .. 13 : Start(n) \in Nat
  BY <1>1, StartSteps, WeightRange
<1>6. total' = total + Weight(i)
  <2>1. total \in Int
    <3>1. CASE i = 1
      BY <1>1, <3>1 DEF LInv
    <3>2. CASE i # 1
      <4>1. i \in 2 .. 13 /\ total = Start(i) - 12
        BY <1>1, <3>2 DEF LInv
      <4>2. Start(i) \in Nat
        BY <1>0, <4>1
      <4> QED BY <4>1, <4>2
    <3> QED BY <3>1, <3>2
  <2> QED BY <2>1 DEF AddBlock, Weight
<1>7. total' = Start(i + 1) - 12
  <2>1. CASE i = 1
    <3>1. Weight(1) = 4 /\ total = 0
      BY <1>1, <2>1, OutputList, MandatoryEnabled DEF Weight, SizeOf, BytesOf, IsArray, Block, LInv
    <3> QED BY <1>6, <2>1, <3>1, <1>1, StartSteps
  <2>2. CASE i # 1
    <3>1. i \in 2 .. 12 /\ total = Start(i) - 12
      BY <1>1, <2>2 DEF LInv
    <3>2. Start(i + 1) = Start(i) + Weight(i) /\ Start(i) \in Nat /\ Weight(i) \in Nat
      BY <1>0, <3>1
    <3> QED BY <1>6, <3>1, <3>2
  <2> QED BY <2>1, <2>2
<1> QED BY <1>1, <1>4, <1>5, <1>7, SameLayout DEF LInv

LEMMA LayoutStep == LInv /\ [Next]_vars => LInv'
<1> SUFFICES ASSUME LInv, [Next]_vars PROVE LInv'
  OBVIOUS
<1>1. CASE AddBlock
  BY <1>1, AddLayout
<1>2. CASE SendList
  <2>1. i = 13 /\ pc = "size" /\ pc' = "idle" /\ total' = total + 20
        /\ UNCHANGED <<nb, res, off, sizes, frames, found>>
    BY <1>2, OutputList DEF SendList, LInv
  <2>2. Sent /\ total = Start(13) - 12 /\ Build
    BY <2>1 DEF LInv, Sent
  <2>3. Start(13) \in Nat
    BY <2>2, StartSteps
  <2>4. Sent'
    BY <2>1, <2>2, SameLayout DEF Sent
  <2> QED BY <2>1, <2>2, <2>3, <2>4, SameLayout DEF LInv
<1>3. ASSUME UNCHANGED build, pc # "size", pc' \in {"idle", "parse", "convert"} PROVE LInv'
  <2>1. Sent'
    BY <1>3, SameLayout DEF Sent, build, LInv
  <2> QED BY <1>3, <2>1, SameLayout DEF LInv, build
<1>4. CASE GetFrame
  BY <1>3, <1>4 DEF GetFrame
<1>5. CASE ParseBlock
  BY <1>3, <1>5 DEF ParseBlock
<1>6. CASE ParseOther
  BY <1>3, <1>6 DEF ParseOther
<1>7. CASE Convert
  BY <1>3, <1>7 DEF Convert
<1>8. CASE UNCHANGED vars
  <2>1. pc # "size" => Sent'
    BY <1>8, SameLayout DEF Sent, vars, LInv
  <2> QED BY <1>8, <2>1, SameLayout DEF LInv, vars
<1> QED BY <1>1, <1>2, <1>4, <1>5, <1>6, <1>7, <1>8 DEF Next

\* What is read of a frame is at most the headers, the results and the footer.
LEMMA TotalFits == LInv => FitsBuffer
<1> SUFFICES ASSUME LInv, pc # "size" PROVE total <= TemporaryBufferSize
  BY DEF FitsBuffer
<1>1. Build /\ total = Start(13) + 8
  BY DEF LInv
<1>2. (nb \in {1, 2, 3, 4}) /\ (res \in {16, 64})
  BY <1>1 DEF Build
<1>3. Weight(2) = 16 /\ Weight(3) = 8
  BY <1>1, OutputList, MandatoryEnabled DEF Weight, SizeOf, BytesOf, IsArray, Block
<1>4. \A k \in 4 .. 12 : Weight(k) \in Nat
  BY <1>1, WeightRange
<1>5. \A k \in 4 .. 12 : Weight(k) <= ResultSize(Outputs[k].name) /\ ResultSize(Outputs[k].name) \in Nat
  <2> SUFFICES ASSUME NEW k \in 4 .. 12
      PROVE  Weight(k) <= ResultSize(Outputs[k].name) /\ ResultSize(Outputs[k].name) \in Nat
    OBVIOUS
  <2> USE <1>2, OutputList DEF Weight, Enabled, ResultSize, BytesOf, Block, SizeOf, IsArray, PerZone,
                               Idx, Destination
  <2>1. CASE k \in {4, 5}
    BY <2>1
  <2>2. CASE k \in {6, 7}
    BY <2>2
  <2>3. CASE k \in {8, 9}
    BY <2>3
  <2>4. CASE k \in {10, 11}
    BY <2>4
  <2>5. CASE k = 12
    BY <2>5
  <2> QED BY <2>1, <2>2, <2>3, <2>4, <2>5
<1>6. Start(13) = 16 + Weight(2) + Weight(3) + Weight(4) + Weight(5) + Weight(6) + Weight(7) + Weight(8)
                     + Weight(9) + Weight(10) + Weight(11) + Weight(12)
  BY DEF Start, Part
<1>7. total <= MaxResultsSize /\ MaxResultsSize \in Nat
  <2>1. /\ Weight(4) \in Nat /\ Weight(5) \in Nat /\ Weight(6) \in Nat /\ Weight(7) \in Nat
        /\ Weight(8) \in Nat /\ Weight(9) \in Nat /\ Weight(10) \in Nat /\ Weight(11) \in Nat
        /\ Weight(12) \in Nat
    BY <1>4
  <2>2. /\ Weight(4) <= ResultSize("ambient") /\ Weight(5) <= ResultSize("spads")
        /\ Weight(6) <= ResultSize("targets") /\ Weight(7) <= ResultSize("signal")
        /\ Weight(8) <= ResultSize("sigma") /\ Weight(9) <= ResultSize("distance")
        /\ Weight(10) <= ResultSize("reflectance") /\ Weight(11) <= ResultSize("status")
        /\ Weight(12) <= ResultSize("motion")
    BY <1>5, OutputList DEF Block
  <2>3. \A name \in Optional : ResultSize(name) \in Nat
    BY <1>5, OptionalIndex
  <2>4. /\ ResultSize("ambient") \in Nat /\ ResultSize("spads") \in Nat /\ ResultSize("targets") \in Nat
        /\ ResultSize("signal") \in Nat /\ ResultSize("sigma") \in Nat /\ ResultSize("distance") \in Nat
        /\ ResultSize("reflectance") \in Nat /\ ResultSize("status") \in Nat
        /\ ResultSize("motion") \in Nat
    BY <2>3, OptionalNames
  <2> QED BY <1>1, <1>3, <1>6, <2>1, <2>2, <2>4 DEF MaxResultsSize
<1> QED BY <1>1, <1>7, StartSteps DEF TemporaryBufferSize

\* Whatever outputs are compiled in, with one to four targets per zone, what the driver reads
\* of a frame fits temp_buffer: the macros of the header bound the sum that start_ranging
\* computes by other conditions (547-579).
THEOREM FrameFitsBuffer == Spec => []FitsBuffer
BY InitLayout, LayoutStep, TotalFits, PTL DEF Spec
-----------------------------------------------------------------------------
(* The walk through a frame, and what it gives the program.                 *)

\* The block that begins where the walk stands is the next enabled one.
LEMMA NextBlock ==
  ASSUME Build, Sent, NEW n \in 2 .. 13, i = Start(n), NEW m \in BlockAt(i)
  PROVE  /\ m \in 2 .. 12 /\ Enabled(m) /\ Start(m) = i /\ Met(m) = Met(n)
         /\ i + Length(m) + 4 = Start(m + 1)
<1>1. m \in 2 .. 12 /\ Enabled(m) /\ Offset[m] = i
  BY OutputList DEF BlockAt
<1>2. Start(m) = i
  BY <1>1, OffsetIsStart
<1>3. /\ \A k, l \in 2 .. 13 : k < l /\ Enabled(k) => Start(k) + 4 <= Start(l)
      /\ \A k, l \in 2 .. 13 : k < l => Start(k) <= Start(l)
      /\ \A k \in 2 .. 13 : Start(k) \in Nat
  BY StartGrows, StartSteps
<1>4. n <= m
  BY <1>1, <1>2, <1>3
<1>5. \A k \in n .. m - 1 : ~Enabled(k)
  <2> SUFFICES ASSUME NEW k \in n .. m - 1, Enabled(k) PROVE FALSE
    OBVIOUS
  <2>1. k \in 2 .. 13 /\ k < m /\ n <= k
    BY <1>1
  <2>2. Start(n) <= Start(k)
    <3>1. CASE n = k
      BY <3>1, <2>1, <1>3
    <3>2. CASE n < k
      BY <3>2, <2>1, <1>3
    <3> QED BY <2>1, <3>1, <3>2
  <2> QED BY <1>1, <1>2, <1>3, <2>1, <2>2
<1>6. {k \in 4 .. m - 1 : Enabled(k)} = {k \in 4 .. n - 1 : Enabled(k)}
  BY <1>1, <1>4, <1>5
<1>7. Length(m) + 4 = Weight(m) /\ Start(m + 1) = Start(m) + Weight(m) /\ Weight(m) \in Nat
  BY <1>1, LengthWeight, StartSteps, WeightRange
<1>8. Length(m) \in Int
  <2>1. sizes[m] \in 0 .. 255
    <3>1. sizes[m] = SizeOf(Outputs[m])
      BY <1>1 DEF Sent, SizeSent
    <3>2. SizeOf(Outputs[m]) \in 0 .. 255
      BY <1>1, SizeRange
    <3> QED BY <3>1, <3>2
  <2> QED BY <1>1, <2>1, OutputList DEF Length, Block
<1> QED BY <1>1, <1>2, <1>3, <1>6, <1>7, <1>8 DEF Met

\* No block begins where the walk stands only at the footer.
LEMMA WalkEnds ==
  ASSUME Build, Sent, NEW n \in 2 .. 13, i = Start(n), BlockAt(i) = {} \/ i >= Start(13) + 8
  PROVE  i = Start(13) /\ Met(n) = Met(13)
<1>1. /\ \A k \in 2 .. 12 : /\ Start(k + 1) = Start(k) + Weight(k) /\ Weight(k) \in Nat
                            /\ ~Enabled(k) => Weight(k) = 0
      /\ \A k \in 2 .. 13 : Start(k) \in Nat
  BY StartSteps, WeightRange
<1>2. Start(n) <= Start(13)
  BY <1>1, StartGrows
<1>3. BlockAt(i) = {}
  BY <1>1, <1>2
<1>4. \A k \in 2 .. 12 : Start(k) = i => ~Enabled(k)
  BY <1>3, OutputList, OffsetIsStart DEF BlockAt
<1>5. \A k \in 2 .. 12 : Start(k) = i => Start(k + 1) = i
  BY <1>1, <1>4
<1>6. \A k \in n .. 13 : Start(k) = i
  <2>1. /\ Start(2) = i => Start(3) = i
        /\ Start(3) = i => Start(4) = i
        /\ Start(4) = i => Start(5) = i
        /\ Start(5) = i => Start(6) = i
        /\ Start(6) = i => Start(7) = i
        /\ Start(7) = i => Start(8) = i
        /\ Start(8) = i => Start(9) = i
        /\ Start(9) = i => Start(10) = i
        /\ Start(10) = i => Start(11) = i
        /\ Start(11) = i => Start(12) = i
        /\ Start(12) = i => Start(13) = i
    BY <1>5
  <2>2. n \in {2, 3, 4, 5, 6, 7, 8, 9, 10, 11, 12, 13}
    OBVIOUS
  <2>3. /\ Start(13) = i
        /\ n <= 12 => Start(12) = i
        /\ n <= 11 => Start(11) = i
        /\ n <= 10 => Start(10) = i
        /\ n <= 9 => Start(9) = i
        /\ n <= 8 => Start(8) = i
        /\ n <= 7 => Start(7) = i
        /\ n <= 6 => Start(6) = i
        /\ n <= 5 => Start(5) = i
        /\ n <= 4 => Start(4) = i
        /\ n <= 3 => Start(3) = i
        /\ n <= 2 => Start(2) = i
    BY <2>1, <2>2
  <2> SUFFICES ASSUME NEW k \in n .. 13 PROVE Start(k) = i
    OBVIOUS
  <2>4. k \in {2, 3, 4, 5, 6, 7, 8, 9, 10, 11, 12, 13} /\ n <= k
    OBVIOUS
  <2> QED BY <2>2, <2>3, <2>4
<1>7. {k \in 4 .. 12 : Enabled(k)} = {k \in 4 .. n - 1 : Enabled(k)}
  BY <1>4, <1>6
<1> QED BY <1>6, <1>7 DEF Met

LEMMA AllMet == ASSUME Build PROVE Met(13) = Optional \ off
<1>1. Met(13) = {Outputs[k].name : k \in {m \in 4 .. 12 : Outputs[m].name \notin off}}
  BY DEF Met, Enabled
<1> QED BY <1>1, OptionalIndex

LEMMA ParseStep == ASSUME LInv, WInv, ParseBlock PROVE WInv'
<1>1. /\ Build /\ Sent /\ pc = "parse" /\ pc' = "parse" /\ sent' = sent /\ frames' = frames
      /\ UNCHANGED <<nb, res, off, sizes>>
  BY DEF LInv, ParseBlock, build
<1>2. PICK n \in 2 .. 13 : Walk(n)
  BY <1>1 DEF WInv
<1>3. PICK m \in BlockAt(i) :
        /\ i' = i + Length(m) + 4
        /\ found' = IF Outputs[m].name \in Optional
                    THEN [name \in DOMAIN found \cup {Outputs[m].name} |->
                            IF name = Outputs[m].name THEN Length(m) ELSE found[name]]
                    ELSE found
        /\ results' = [name \in DOMAIN results |->
                         IF name = Outputs[m].name /\ Length(m) > 0 THEN sent[name] ELSE results[name]]
  BY DEF ParseBlock
<1>4. m \in 2 .. 12 /\ Enabled(m) /\ Met(m) = Met(n) /\ i + Length(m) + 4 = Start(m + 1)
  BY <1>1, <1>2, <1>3, NextBlock DEF Walk
<1>5. DOMAIN results' = Optional \ off
  BY <1>3 DEF WInv
<1>6. DOMAIN found' = Met(m + 1)
  <2>1. {k \in 4 .. (m + 1) - 1 : Enabled(k)} =
          IF m >= 4 THEN {k \in 4 .. m - 1 : Enabled(k)} \cup {m} ELSE {}
    BY <1>4
  <2>2. CASE m >= 4
    <3>1. Outputs[m].name \in Optional
      BY <1>4, <2>2, OptionalIndex
    <3>2. Met(m + 1) = Met(m) \cup {Outputs[m].name}
      BY <2>1, <2>2 DEF Met
    <3> QED BY <1>2, <1>3, <1>4, <3>1, <3>2 DEF Walk
  <2>3. CASE m < 4
    <3>1. Outputs[m].name \notin Optional
      BY <1>4, <2>3, OptionalIndex
    <3>2. Met(m + 1) = {} /\ Met(m) = {}
      BY <1>4, <2>1, <2>3 DEF Met
    <3> QED BY <1>2, <1>3, <1>4, <3>1, <3>2 DEF Walk
  <2> QED BY <1>4, <2>2, <2>3
<1>7. Walk(m + 1)'
  <2>1. Start(m + 1)' = Start(m + 1) /\ Met(m + 1)' = Met(m + 1)
    BY <1>1, SameLayout
  <2> QED BY <1>3, <1>4, <1>6, <2>1 DEF Walk
<1>8. \A k : Length(k)' = Length(k) /\ Enabled(k)' = Enabled(k)
  BY <1>1, SameLayout DEF Length
<1>9. ASSUME NEW name \in DOMAIN found'
      PROVE  /\ \E k \in 4 .. 12 : Outputs[k].name = name /\ Enabled(k) /\ found'[name] = Length(k)
             /\ nb < 4 => results'[name] = sent[name]
  <2>1. CASE name = Outputs[m].name /\ name \in Optional
    <3>1. m \in 4 .. 12 /\ found'[name] = Length(m)
      <4>1. \A k \in 1 .. 3 : Outputs[k].name \notin Optional
        BY OptionalIndex
      <4> QED BY <1>3, <1>4, <2>1, <4>1
    <3>2. nb < 4 => Length(m) > 0
      BY <1>1, <1>4, <3>1, LengthFits
    <3>3. name \in DOMAIN results
      BY <1>4, <2>1 DEF Enabled, WInv
    <3> QED BY <1>3, <1>4, <2>1, <3>1, <3>2, <3>3
  <2>2. CASE ~(name = Outputs[m].name /\ name \in Optional)
    <3>1. name \in DOMAIN found /\ found'[name] = found[name] /\ name # Outputs[m].name
      <4>1. CASE Outputs[m].name \in Optional
        BY <1>3, <1>9, <2>2, <4>1
      <4>2. CASE Outputs[m].name \notin Optional
        <5>1. found' = found
          BY <1>3, <4>2
        <5>2. PICK k \in 4 .. 12 : Outputs[k].name = name
          BY <1>9, <5>1 DEF WInv
        <5>3. name \in Optional
          BY <5>2, OptionalIndex
        <5> QED BY <1>9, <4>2, <5>1, <5>3
      <4> QED BY <4>1, <4>2
    <3>2. \E k \in 4 .. 12 : Outputs[k].name = name /\ Enabled(k) /\ found[name] = Length(k)
      BY <3>1 DEF WInv
    <3>3. name \in DOMAIN results
      BY <3>2, OptionalIndex DEF WInv, Enabled
    <3>4. nb < 4 => results[name] = sent[name]
      BY <1>1, <3>1 DEF WInv
    <3> QED BY <1>3, <3>1, <3>2, <3>3, <3>4
  <2> QED BY <2>1, <2>2
<1>10. m + 1 \in 2 .. 13
  BY <1>4
<1> QED BY <1>1, <1>5, <1>7, <1>8, <1>9, <1>10 DEF WInv

LEMMA WalkStep == LInv /\ WInv /\ [Next]_vars => WInv'
<1> SUFFICES ASSUME LInv, WInv, [Next]_vars PROVE WInv'
  OBVIOUS
<1> USE DEF build
<1>1. CASE AddBlock
  BY <1>1 DEF AddBlock, LInv, WInv
<1>2. CASE SendList
  BY <1>2 DEF SendList, LInv, WInv
<1>3. CASE GetFrame
  <2>1. /\ UNCHANGED <<nb, res, off, sizes, results>> /\ pc' = "parse" /\ i' = 16
        /\ DOMAIN found' = {} /\ Build
    BY <1>3 DEF GetFrame, LInv
  <2>2. Walk(2)'
    <3>1. Met(2) = {} /\ Start(2) = 16
      BY <2>1, StartSteps DEF Met
    <3> QED BY <2>1, <3>1, SameLayout DEF Walk
  <2> QED BY <2>1, <2>2 DEF WInv
<1>4. CASE ParseBlock
  BY <1>4, ParseStep
<1>5. CASE ParseOther
  <2>1. /\ Build /\ Sent /\ total = Start(13) + 8 /\ pc = "parse" /\ pc' = "convert"
        /\ UNCHANGED <<nb, res, off, sizes, i, found, sent, results, frames>>
        /\ BlockAt(i) = {} \/ i >= total
    BY <1>5 DEF ParseOther, LInv
  <2>2. PICK n \in 2 .. 13 : Walk(n)
    BY <2>1 DEF WInv
  <2>3. i = Start(13) /\ DOMAIN found = Met(13)
    BY <2>1, <2>2, WalkEnds DEF Walk
  <2>4. Walk(13)'
    BY <2>1, <2>3, SameLayout DEF Walk
  <2>5. \A k : Length(k)' = Length(k) /\ Enabled(k)' = Enabled(k)
    BY <2>1, SameLayout DEF Length
  <2> QED BY <2>1, <2>4, <2>5 DEF WInv
<1>6. CASE Convert
  <2>1. /\ pc = "convert" /\ pc' = "idle" /\ UNCHANGED <<nb, res, off, sizes, i, found, sent, frames>>
        /\ results' = [name \in DOMAIN results |->
                         IF name = "status" /\ NoTarget THEN 255 ELSE Scaled(name, results[name])]
        /\ Build /\ DOMAIN results = Optional \ off
    BY <1>6 DEF Convert, LInv, WInv
  <2>2. DOMAIN found = DOMAIN results
    BY <2>1, AllMet DEF WInv, Walk
  <2>3. ASSUME nb < 4 PROVE \A name \in DOMAIN results : results[name] = sent[name]
    BY <2>1, <2>2, <2>3 DEF WInv
  <2>4. ASSUME nb < 4, NEW name \in DOMAIN results PROVE results'[name] = Meaning(name)'
    <3>1. NoTarget <=> "targets" \notin off /\ sent["targets"] = 0
      BY <2>1, <2>3, <2>4, OptionalNames DEF NoTarget
    <3>2. Meaning(name)' = Meaning(name)
      BY <2>1 DEF Meaning, Scaled
    <3> QED BY <2>1, <2>3, <2>4, <3>1, <3>2 DEF Meaning
  <2>5. \A k : Length(k)' = Length(k) /\ Enabled(k)' = Enabled(k)
    BY <2>1, SameLayout DEF Length
  <2> QED BY <2>1, <2>4, <2>5 DEF WInv
<1>7. CASE UNCHANGED vars
  <2>1. UNCHANGED <<nb, res, off, sizes, i, pc, found, sent, results, frames>>
    BY <1>7 DEF vars
  <2>2. \A n : Walk(n)' = Walk(n)
    BY <2>1, SameLayout DEF Walk
  <2>3. \A k : Length(k)' = Length(k) /\ Enabled(k)' = Enabled(k)
    BY <2>1, SameLayout DEF Length
  <2>4. \A name : Meaning(name)' = Meaning(name)
    BY <2>1 DEF Meaning, Scaled
  <2> QED BY <2>1, <2>2, <2>3, <2>4 DEF WInv
<1> QED BY <1>1, <1>2, <1>3, <1>4, <1>5, <1>6, <1>7 DEF Next

LEMMA WalkDelivers == LInv /\ WInv => EveryTargetDelivered
<1> SUFFICES ASSUME LInv, WInv PROVE EveryTargetDelivered
  OBVIOUS
<1>1. pc = "convert" => EveryBlockFound
  <2> SUFFICES ASSUME pc = "convert" PROVE EveryBlockFound
    OBVIOUS
  <2>1. Build /\ total = Start(13) + 8 /\ Walk(13)
    BY DEF LInv, WInv
  <2> QED BY <2>1, AllMet, StartSteps DEF Walk, EveryBlockFound
<1>2. ASSUME NEW name \in DOMAIN found
      PROVE  /\ found[name] <= Destination(name)
             /\ nb < 4 /\ name # "motion" => found[name] * 64 = Destination(name) * res
  <2>1. PICK k \in 4 .. 12 : Outputs[k].name = name /\ Enabled(k) /\ found[name] = Length(k)
    BY <1>2 DEF WInv
  <2>2. Build /\ Sent
    BY <1>2 DEF LInv
  <2> QED BY <2>1, <2>2, LengthFits
<1>3. pc = "idle" /\ frames > 0 /\ nb < 4 => \A name \in DOMAIN results : results[name] = Meaning(name)
  BY DEF WInv
<1> QED BY <1>1, <1>2, <1>3 DEF EveryTargetDelivered

\* For every choice of outputs and any number of frames of any contents: the walk meets every
\* enabled output and no other, copies none past the end of its array, and with up to three
\* targets the program is given the values of this frame, converted once (690-818).
THEOREM TargetsDelivered == Spec => []EveryTargetDelivered
<1>1. Init => LInv /\ WInv
  BY InitLayout
<1>2. LInv /\ WInv /\ [Next]_vars => (LInv /\ WInv)'
  BY LayoutStep, WalkStep
<1> QED BY <1>1, <1>2, WalkDelivers, PTL DEF Spec
=============================================================================
