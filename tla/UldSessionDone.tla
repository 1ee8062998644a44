---------------------------- MODULE UldSessionDone ----------------------------
(***************************************************************************)
(* Proof that a function of UldSession that returns 0 has done what it is    *)
(* for, for any number of failed accesses: OkMeansDone. For each function the *)
(* invariant says, by how much of its sequence of accesses is left, what      *)
(* has been achieved, as long as nothing has failed.                        *)
(***************************************************************************)
EXTENDS UldSessionProofs

-----------------------------------------------------------------------------
(* What is left of a sequence.                                              *)

\* q is the end of p.
Left(p, q) ==
  Len(q) <= Len(p) /\ \A m \in 1 .. Len(q) : q[m] = p[(Len(p) - Len(q)) + m]
\* How much of p is done when q is left.
Did(p, q) == Len(p) - Len(q)

-----------------------------------------------------------------------------
(* The invariant.                                                           *)

\* The sensor never ranges while its MCU is stopped or has stopped by itself.
RangeInv == (halted => ~ranging) /\ (autostop => ~ranging)

\* No reboot and no reset of the MCU.
Harmless(e) == ~(e[1] = "wr" /\ e[2] \in {"reboot", "run"})
Tame(p) == \A m \in 1 .. Len(p) : Harmless(p[m])

\* The program has seen init succeed, and the firmware runs on.
Working == known \in {"awake", "asleep", "started"}
AppInv ==
  /\ call \in Calls \ {"is_alive", "init"} => Working
  /\ Working => mcu = "app" /\ call # "init" /\ Tame(prog)

\* The page that is selected after the first n accesses of init.
PageAfter(n) ==
  IF n <= 6 THEN 0 ELSE IF n <= 8 THEN 2 ELSE IF n <= 10 THEN 1 ELSE IF n <= 12 THEN 0
  ELSE IF n <= 14 THEN 1 ELSE IF n <= 16 THEN 9 ELSE IF n <= 18 THEN 10 ELSE IF n <= 20 THEN 11
  ELSE IF n = 21 THEN 1 ELSE IF n <= 23 THEN 2 ELSE IF n <= 25 THEN 1
  ELSE IF n <= 29 THEN 0 ELSE 2

\* The access that sends each setting; the next one waits for the answer.
SentAt(c) ==
  IF c = "nvm" THEN 31 ELSE IF c = "offset" THEN 34 ELSE IF c = "xtalk" THEN 36
  ELSE IF c = "config" THEN 38 ELSE IF c = "pipe" THEN 40 ELSE 42

InitDid(n) ==
  /\ n >= 1 => page = PageAfter(n)
  /\ n >= 4 => regs = PowerOn /\ ~halted /\ ~ranging /\ ~autostop
  /\ n >= 8 => open
  /\ n >= 16 => 9 \in image
  /\ n >= 18 => 10 \in image
  /\ n >= 20 => 11 \in image
  /\ n = 27 => mcu = "held"
  /\ n >= 28 => mcu \in {"starting", "app"}
  /\ n >= 29 => mcu = "app"
  /\ n >= 4 => command = "none" \/ (command \in Settings /\ n = SentAt(command))
  /\ \A c \in Settings : /\ n > SentAt(c) => c \in accepted
                         /\ n = SentAt(c) => command = c \/ c \in accepted

InitInv ==
  call = "init" /\ status = "ok" =>
    Left(InitSensor, prog) /\ InitDid(Did(InitSensor, prog))

StartDid(n) ==
  /\ page = (IF n \in {10, 11} THEN 0 ELSE 2)
  /\ n >= 2 => ~halted
  /\ n \in {0, 2, 3, 5, 7, 9, 10, 11, 12, 14} => command = "none"
  /\ n = 1 => command = "dci" \/ (command = "none" /\ ~halted)
  /\ n \in {4, 6, 8} => command \in {"dci", "none"}
  /\ n >= 11 => regs.power = 5
  /\ n = 13 => command = "start" \/ (command = "none" /\ (ranging \/ autostop))
  /\ n = 14 => ranging \/ autostop

StartInv ==
  call = "start" /\ status = "ok" /\ entry =>
    Left(StartRanging, prog) /\ StartDid(Did(StartRanging, prog))

LongStop == ProvokeStop \o UndoStop

StopDid(n) ==
  /\ n \in 1 .. 3 \cup 5 .. 8 => page = 0
  /\ n >= 4 => ~ranging
  /\ n >= 6 => regs.stop = 0
  /\ n >= 7 => regs.mode = 0
  /\ n >= 8 => regs.power = 4

StopInv ==
  call = "stop" /\ status = "ok" /\ entry =>
    /\ command = "none"
    /\ \/ prog = StopRanging /\ page = 2
       \/ prog = <<Decide("stop")>> /\ (tmp = 4 => ~ranging)
       \/ Left(LongStop, prog) /\ StopDid(Did(LongStop, prog))

Wanted(c) == IF c = "wakeup" THEN 4 ELSE 2

\* The mode is being looked up, or it is being changed.
Looking(c) ==
  /\ Left(SetPowerMode(c), prog) /\ prog # <<>>
  /\ Len(prog) = 3 => page = 0
  /\ Len(prog) <= 2 => tmp = regs.power /\ tmp \in {2, 4}
Changing(c) ==
  /\ Left(ChangePowerMode(c), prog)
  /\ Len(prog) = 3 => page = 0
  /\ Len(prog) <= 2 => regs.power = Wanted(c)

PowerInv == call \in {"sleep", "wakeup"} /\ status = "ok" => Looking(call) \/ Changing(call)

Addressing(same) == Left(SetAddress(same), prog) /\ (prog = <<>> => here)

AddressInv ==
  status = "ok" => /\ call = "same_address" => Addressing(TRUE)
                   /\ call = "new_address" => Addressing(FALSE)

DoneInv == RangeInv /\ AppInv /\ InitInv /\ StartInv /\ StopInv /\ PowerInv /\ AddressInv
-----------------------------------------------------------------------------
(* Lemmas about sequences, and the functions access by access.               *)

LEMMA LeftTail ==
  ASSUME NEW p \in Programs, NEW q \in Programs, Left(p, q), q # <<>>
  PROVE  /\ Left(p, Tail(q)) /\ Did(p, Tail(q)) = Did(p, q) + 1
         /\ Head(q) = p[Did(p, q) + 1] /\ Did(p, q) \in 0 .. Len(p) - 1
<1>1. /\ Len(p) \in Nat /\ Len(q) \in Nat /\ Len(q) >= 1 /\ Len(Tail(q)) = Len(q) - 1
      /\ Head(q) = q[1] /\ \A m \in 1 .. Len(Tail(q)) : Tail(q)[m] = q[m + 1]
  BY TailIndex DEF Programs
<1>2. Head(q) = p[Did(p, q) + 1]
  BY <1>1 DEF Left, Did
<1>3. ASSUME NEW m \in 1 .. Len(Tail(q)) PROVE Tail(q)[m] = p[(Len(p) - Len(Tail(q))) + m]
  <2>1. m + 1 \in 1 .. Len(q) /\ (Len(p) - Len(q)) + (m + 1) = (Len(p) - Len(Tail(q))) + m
    BY <1>1
  <2> QED BY <1>1, <2>1 DEF Left
<1> QED BY <1>1, <1>2, <1>3 DEF Left, Did

LEMMA LeftEnds ==
  ASSUME NEW p \in Programs
  PROVE  Left(p, p) /\ Did(p, p) = 0 /\ Left(p, <<>>) /\ Did(p, <<>>) = Len(p)
<1>1. Len(p) \in Nat
  BY DEF Programs
<1> QED BY <1>1 DEF Left, Did

\* Where all is done nothing is left.
LEMMA LeftNothing ==
  ASSUME NEW p \in Programs, NEW q \in Programs, Left(p, q)
  PROVE  Did(p, q) \in 0 .. Len(p) /\ (q = <<>> => Did(p, q) = Len(p))
<1>1. Len(p) \in Nat /\ Len(q) \in Nat
  BY DEF Programs
<1> QED BY <1>1 DEF Left, Did

\* The rows of init that select a page, that send a setting, that wait for its answer.
PageRows == {1, 5, 7, 9, 11, 13, 15, 17, 19, 21, 22, 24, 26, 30}
SendRows == {31, 34, 36, 38, 40, 42}
AnswerRows == {32, 35, 37, 39, 41, 43}

LEMMA InitTable ==
  /\ Len(InitSensor) = 43
  /\ InitSensor[1] = Page(0) /\ InitSensor[2] = WrByte("power", 4)
  /\ InitSensor[3] = RdByte("page") /\ InitSensor[4] = WrByte("reboot", 1)
  /\ InitSensor[5] = Page(0) /\ InitSensor[6] = Poll("boot", 1)
  /\ InitSensor[7] = Page(2) /\ InitSensor[8] = WrByte("access", 13)
  /\ InitSensor[9] = Page(1) /\ InitSensor[10] = Poll("open", 1)
  /\ InitSensor[11] = Page(0) /\ InitSensor[12] = WrByte("setup", 0)
  /\ InitSensor[13] = Page(1) /\ InitSensor[14] = WrByte("wake", 6)
  /\ InitSensor[15] = Page(9) /\ InitSensor[16] = WrByte("image", 9)
  /\ InitSensor[17] = Page(10) /\ InitSensor[18] = WrByte("image", 10)
  /\ InitSensor[19] = Page(11) /\ InitSensor[20] = WrByte("image", 11)
  /\ InitSensor[21] = Page(1) /\ InitSensor[22] = Page(2)
  /\ InitSensor[23] = WrByte("access", 13) /\ InitSensor[24] = Page(1)
  /\ InitSensor[25] = Poll("open", 1) /\ InitSensor[26] = Page(0)
  /\ InitSensor[27] = WrByte("run", 0) /\ InitSensor[28] = WrByte("run", 1)
  /\ InitSensor[29] = Poll("boot", 0) /\ InitSensor[30] = Page(2)
  /\ InitSensor[33] = RdByte("data")
BY DEF InitSensor, Reboot, Unlock, Download, Boot, Configure, Exchange

LEMMA InitSettings ==
  /\ \A c \in Settings : /\ SentAt(c) \in SendRows
                         /\ InitSensor[SentAt(c)] = <<"cmd", c, 0>>
                         /\ InitSensor[SentAt(c) + 1] = <<"answer", c, 0>>
  /\ \A k \in SendRows : \E c \in Settings : k = SentAt(c)
BY DEF InitSensor, Reboot, Unlock, Download, Boot, Configure, Exchange, Settings, SentAt, SendRows

LEMMA InitPages == \A k \in PageRows : InitSensor[k] = Page(PageAfter(k))
BY InitTable DEF PageRows, PageAfter

LEMMA StartTable ==
  /\ Len(StartRanging) = 14
  /\ \A k \in {1, 4, 6, 8} : StartRanging[k] = <<"cmd", "dci", 0>> /\ StartRanging[k + 1] = <<"answer", "dci", 0>>
  /\ StartRanging[3] = RdByte("data")
  /\ StartRanging[10] = Page(0) /\ StartRanging[11] = WrByte("power", 5) /\ StartRanging[12] = Page(2)
  /\ StartRanging[13] = <<"cmd", "start", 0>> /\ StartRanging[14] = <<"answer", "start", 0>>
BY DEF StartRanging, Exchange

LEMMA LongStopTable ==
  /\ Len(LongStop) = 9
  /\ LongStop[1] = Page(0) /\ LongStop[2] = WrByte("mode", 22) /\ LongStop[3] = WrByte("stop", 1)
  /\ LongStop[4] = Poll("halted", 1) /\ LongStop[5] = Page(0) /\ LongStop[6] = WrByte("stop", 0)
  /\ LongStop[7] = WrByte("mode", 0) /\ LongStop[8] = WrByte("power", 4) /\ LongStop[9] = Page(2)
BY DEF LongStop, ProvokeStop, UndoStop
-----------------------------------------------------------------------------
(* What one access does.                                                    *)

\* Nothing that init has achieved is lost.
Kept ==
  /\ regs' = regs /\ mcu' = mcu /\ command' = command /\ accepted' = accepted
  /\ image \subseteq image' /\ (open => open')
  /\ (~halted => ~halted') /\ (~ranging => ~ranging') /\ (~autostop => ~autostop')

LEMMA PlainWrite ==
  ASSUME TypeS, Write, Reg \in {"page", "setup", "wake", "access", "image", "address"}
  PROVE  Kept /\ page' = IF Reg = "page" THEN Value ELSE page
<1>1. DOMAIN regs = {"power", "stop", "mode"}
  BY DEF TypeS, RegsType
<1> QED BY <1>1 DEF Write, Store, Kept

LEMMA Goes ==
  ASSUME Write \/ Read \/ PollDone \/ Send \/ AnswerDone
  PROVE  /\ prog # <<>> /\ prog' = Tail(prog)
         /\ Write => Head(prog)[1] = "wr"
         /\ Read => Head(prog)[1] = "rd"
         /\ PollDone => Head(prog)[1] = "poll"
         /\ Send => Head(prog)[1] = "cmd"
         /\ AnswerDone => Head(prog)[1] = "answer"
         /\ UNCHANGED <<call, entry, known>>
         /\ (status' = "ok" => status = "ok")
BY DEF Write, Read, PollDone, Send, AnswerDone, At, Advance

\* An access that only looks.
LEMMA Looks ==
  ASSUME Read \/ PollDone \/ AnswerDone
  PROVE  Kept /\ page' = page /\ UNCHANGED sensor
BY DEF Read, PollDone, AnswerDone, Kept, sensor, firmware
-----------------------------------------------------------------------------
(* init.                                                                    *)

\* The rows that do no more than select a page or look.
LEMMA InitQuietly ==
  ASSUME TypeS, NEW n \in 0 .. 42, InitDid(n), Kept,
         n + 1 \in PageRows \cup {2, 3, 6, 8, 10, 12, 14, 23, 25},
         page' = PageAfter(n + 1), n + 1 = 8 => open'
  PROVE  InitDid(n + 1)'
<1> DEFINE k == n + 1
<1>1. k \in 1 .. 30 /\ k \notin {4, 16, 18, 20, 27, 28, 29} /\ n = k - 1
  BY DEF PageRows
<1>2. k >= 4 => n >= 4
  BY <1>1
<1>3. k >= 4 => (regs = PowerOn /\ ~halted /\ ~ranging /\ ~autostop)'
  BY <1>2 DEF InitDid, Kept, PowerOn
<1>4. (k >= 8 => open') /\ (k >= 16 => 9 \in image') /\ (k >= 18 => 10 \in image') /\ (k >= 20 => 11 \in image')
  BY <1>1 DEF InitDid, Kept
<1>5. (k = 27 => mcu' = "held") /\ (k >= 28 => mcu' \in {"starting", "app"}) /\ (k >= 29 => mcu' = "app")
  BY <1>1 DEF InitDid, Kept
<1>6. k >= 4 => command' = "none"
  BY <1>1, <1>2, InitSettings DEF InitDid, Kept, SendRows
<1>7. \A c \in Settings : SentAt(c) > k
  BY <1>1, InitSettings DEF SendRows
<1> QED BY <1>1, <1>3, <1>4, <1>5, <1>6, <1>7, InitSettings DEF InitDid, SendRows

\* The reboot: the sensor is as after power-on.
LEMMA InitReboots ==
  ASSUME TypeS, NEW n \in {3}, InitDid(n), Write, Reg = "reboot"
  PROVE  InitDid(n + 1)'
<1>1. page = 0
  BY DEF InitDid, PageAfter
<1>2. page' = 0 /\ regs' = PowerOn /\ ~halted' /\ ~ranging' /\ ~autostop' /\ command' = "none"
  BY <1>1 DEF Write, Store
<1>3. \A c \in Settings : SentAt(c) > n + 1
  BY InitSettings DEF SendRows
<1> QED BY <1>2, <1>3, InitSettings DEF InitDid, PageAfter, PowerOn, SendRows

\* The download: each part reaches its page.
LEMMA InitDownloads ==
  ASSUME TypeS, NEW n \in {15, 17, 19}, InitDid(n), Write, Reg = "image", Value = PageAfter(n)
  PROVE  InitDid(n + 1)'
<1>1. page = PageAfter(n) /\ open
  BY DEF InitDid
<1>2. page' = PageAfter(n) /\ image' = image \cup {PageAfter(n)} /\ Kept
  BY <1>1, PlainWrite DEF Write, Store
<1>3. PageAfter(n + 1) = PageAfter(n)
  BY DEF PageAfter
<1>4. (regs = PowerOn /\ ~halted /\ ~ranging /\ ~autostop)' /\ open' /\ command' = "none"
  BY <1>2, InitSettings DEF InitDid, Kept, SendRows, PowerOn
<1>5. (n + 1 >= 16 => 9 \in image') /\ (n + 1 >= 18 => 10 \in image') /\ (n + 1 >= 20 => 11 \in image')
  BY <1>2 DEF InitDid, PageAfter
<1>6. \A c \in Settings : SentAt(c) > n + 1
  BY InitSettings DEF SendRows
<1> QED BY <1>2, <1>3, <1>4, <1>5, <1>6, InitSettings DEF InitDid, Kept, SendRows

\* The reset of the MCU is set and taken back, and it runs the firmware.
LEMMA InitBoots ==
  ASSUME TypeS, NEW n \in {26, 27, 28}, InitDid(n),
         \/ Write /\ Reg = "run" /\ Value = n - 26 /\ n # 28
         \/ PollDone /\ Reg = "boot" /\ Value = 0 /\ n = 28
  PROVE  InitDid(n + 1)'
<1>1. page = 0 /\ PageAfter(n + 1) = 0 /\ open /\ regs = PowerOn /\ ~halted /\ ~ranging /\ ~autostop
      /\ 9 \in image /\ 10 \in image /\ 11 \in image
  BY DEF InitDid, PageAfter
<1>2. \A c \in Settings : SentAt(c) > n + 1
  BY InitSettings DEF SendRows
<1>3. CASE n # 28
  <2>1. mcu' = IF n = 26 THEN "held" ELSE "starting"
    BY <1>1, <1>3 DEF Write, Store, InitDid
  <2>2. page' = 0 /\ regs' = regs /\ open' /\ image' = image /\ ~halted' /\ ~ranging' /\ ~autostop' /\ command' = "none"
    <3>1. DOMAIN regs = {"power", "stop", "mode"}
      BY DEF TypeS, RegsType
    <3> QED BY <1>1, <1>3, <3>1 DEF Write, Store
  <2>3. regs' = PowerOn'
    BY <1>1, <2>2 DEF PowerOn
  <2> QED BY <1>1, <1>2, <1>3, <2>1, <2>2, <2>3, InitSettings DEF InitDid, SendRows
<1>4. CASE n = 28
  <2>1. mcu = "app" /\ Kept /\ page' = page
    BY <1>1, <1>4, Looks DEF PollDone, Shows
  <2>2. command' = "none"
    BY <1>4, <2>1, InitSettings DEF InitDid, Kept, SendRows
  <2> QED BY <1>1, <1>2, <1>4, <2>1, <2>2, InitSettings DEF InitDid, Kept, PowerOn, SendRows
<1> QED BY <1>3, <1>4

\* A setting is sent, and its answer awaited.
LEMMA InitConfigures ==
  ASSUME TypeS, NEW n \in 30 .. 42, InitDid(n), Head(prog) = InitSensor[n + 1],
         Send \/ AnswerDone \/ Read
  PROVE  InitDid(n + 1)'
<1>1. page = 2 /\ PageAfter(n + 1) = 2 /\ open /\ regs = PowerOn /\ ~halted /\ ~ranging /\ ~autostop
      /\ 9 \in image /\ 10 \in image /\ 11 \in image /\ mcu = "app"
  BY DEF InitDid, PageAfter
<1>2. UNCHANGED <<page, regs, open, halted, ranging, autostop, image, mcu, accepted>>
  BY DEF Send, AnswerDone, Read, sensor, firmware
<1>3. CASE n + 1 \in SendRows
  <2>1. PICK c \in Settings : n + 1 = SentAt(c)
    BY <1>3, InitSettings
  <2>2. Head(prog) = <<"cmd", c, 0>>
    BY <2>1, InitSettings
  <2>3. command' = c
    BY <1>1, <2>2, Goes DEF Send, Reg
  <2>4. \A d \in Settings : (n + 1 > SentAt(d) => d \in accepted) /\ (n + 1 = SentAt(d) => d = c)
    <3>1. \A d \in Settings : SentAt(d) = n + 1 => d = c
      BY <2>1 DEF Settings, SentAt
    <3>2. \A d \in Settings : SentAt(d) # n
      BY <1>3, InitSettings DEF SendRows
    <3>3. \A d \in Settings : n + 1 > SentAt(d) => n > SentAt(d)
      BY <3>2, InitSettings DEF SendRows
    <3> QED BY <3>1, <3>3 DEF InitDid
  <2> QED BY <1>1, <1>2, <2>1, <2>3, <2>4 DEF InitDid, PowerOn
<1>4. CASE n + 1 \in AnswerRows
  <2>1. n \in SendRows
    BY <1>4 DEF SendRows, AnswerRows
  <2>2. PICK c \in Settings : n = SentAt(c)
    BY <2>1, InitSettings
  <2>3. Head(prog) = <<"answer", c, 0>>
    BY <2>2, InitSettings
  <2>4. command = "none" /\ command' = "none"
    BY <1>1, <2>3, Goes DEF AnswerDone, Answered, sensor
  <2>5. c # "none"
    BY DEF Settings
  <2>6. c \in accepted
    BY <2>2, <2>4, <2>5 DEF InitDid
  <2>7. \A d \in Settings : SentAt(d) # n + 1 /\ (n + 1 > SentAt(d) => d \in accepted)
    <3>1. \A d \in Settings : SentAt(d) = n => d = c
      BY <2>2 DEF Settings, SentAt
    <3>2. \A d \in Settings : SentAt(d) # n + 1
      BY <1>4, InitSettings DEF SendRows, AnswerRows
    <3>3. \A d \in Settings : n + 1 > SentAt(d) => n > SentAt(d) \/ n = SentAt(d)
      BY InitSettings DEF SendRows
    <3> QED BY <2>6, <3>1, <3>2, <3>3 DEF InitDid
  <2> QED BY <1>1, <1>2, <2>4, <2>7 DEF InitDid, PowerOn
<1>5. CASE n + 1 = 33
  <2>1. command = "none" /\ command' = "none"
    <3>1. Head(prog)[1] = "rd"
      BY <1>5, InitTable DEF RdByte
    <3>2. Read
      BY <3>1, Goes
    <3>3. command = "none"
      BY <1>5, InitSettings DEF InitDid, SendRows
    <3> QED BY <3>2, <3>3 DEF Read, sensor
  <2>2. \A d \in Settings : SentAt(d) # n + 1 /\ (n + 1 > SentAt(d) => n > SentAt(d))
    BY <1>5, InitSettings DEF SendRows
  <2> QED BY <1>1, <1>2, <2>1, <2>2 DEF InitDid, PowerOn
<1> QED BY <1>3, <1>4, <1>5 DEF SendRows, AnswerRows

\* An access of init that succeeds brings it one row further.
LEMMA InitAdvances ==
  ASSUME TypeS, NEW n \in 0 .. 42, InitDid(n), Head(prog) = InitSensor[n + 1],
         Write \/ Read \/ PollDone \/ Send \/ AnswerDone
  PROVE  InitDid(n + 1)'
<1> USE DEF Page, WrByte, RdByte, Poll, Reg, Value
<1>0. n + 1 \in 1 .. 43
  OBVIOUS
<1>1. CASE n + 1 \in PageRows
  <2>1. Head(prog) = Page(PageAfter(n + 1))
    BY <1>1, InitPages
  <2>2. Write /\ Reg = "page" /\ Value = PageAfter(n + 1)
    BY <2>1, Goes
  <2>3. Kept /\ page' = PageAfter(n + 1)
    BY <2>2, PlainWrite
  <2>4. n + 1 # 8
    BY <1>1 DEF PageRows
  <2> QED BY <1>1, <2>3, <2>4, InitQuietly
<1>2. CASE n + 1 \in {8, 12, 14, 23}
  <2>0. /\ Head(prog) \in {WrByte("access", 13), WrByte("setup", 0), WrByte("wake", 6)}
        /\ n + 1 = 8 => Head(prog) = WrByte("access", 13)
    BY <1>2, InitTable
  <2>1. Write /\ Reg \in {"access", "setup", "wake"} /\ (n + 1 = 8 => Reg = "access")
    BY <2>0, Goes
  <2>2. Kept /\ page' = page
    BY <2>1, PlainWrite
  <2>3. page = PageAfter(n) /\ PageAfter(n + 1) = PageAfter(n)
    BY <1>2 DEF InitDid, PageAfter
  <2>4. ASSUME n + 1 = 8 PROVE open'
    <3>1. page = 2 /\ Reg = "access"
      BY <2>1, <2>3, <2>4 DEF PageAfter
    <3>2. open' = ((Reg = "access" /\ page = 2) \/ (open /\ ~(Reg = "reboot" /\ page = 0)))
      BY <2>1 DEF Write, Store
    <3> QED BY <3>1, <3>2
  <2> QED BY <1>2, <2>2, <2>3, <2>4, InitQuietly
<1>3. CASE n + 1 \in {3, 6, 10, 25}
  <2>0. Head(prog) \in {RdByte("page"), Poll("boot", 1), Poll("open", 1)}
    BY <1>3, InitTable
  <2>1. Read \/ PollDone
    BY <2>0, Goes
  <2>2. Kept /\ page' = page
    BY <2>1, Looks
  <2>3. page = PageAfter(n) /\ PageAfter(n + 1) = PageAfter(n)
    BY <1>3 DEF InitDid, PageAfter
  <2> QED BY <1>3, <2>2, <2>3, InitQuietly
<1>4. CASE n = 1
  <2>0. Head(prog) = WrByte("power", 4)
    BY <1>4, InitTable
  <2>1. Write /\ Reg = "power"
    BY <1>4, <2>0, Goes
  <2>2. page = 0 /\ page' = 0
    BY <1>4, <2>1 DEF InitDid, PageAfter, Write, Store
  <2>3. \A c \in Settings : SentAt(c) > n + 1
    BY <1>4, InitSettings DEF SendRows
  <2> QED BY <1>4, <2>2, <2>3, InitSettings DEF InitDid, PageAfter, SendRows
<1>5. CASE n = 3
  <2>0. Head(prog) = WrByte("reboot", 1)
    BY <1>5, InitTable
  <2>1. Write /\ Reg = "reboot"
    BY <1>5, <2>0, Goes
  <2> QED BY <1>5, <2>1, InitReboots
<1>6. CASE n \in {15, 17, 19}
  <2>0. Head(prog) = WrByte("image", PageAfter(n))
    BY <1>6, InitTable DEF PageAfter
  <2>1. Write /\ Reg = "image" /\ Value = PageAfter(n)
    BY <2>0, Goes
  <2> QED BY <1>6, <2>1, InitDownloads
<1>7. CASE n \in {26, 27}
  <2>0. Head(prog) = WrByte("run", n - 26)
    BY <1>7, InitTable
  <2>1. Write /\ Reg = "run" /\ Value = n - 26
    BY <1>7, <2>0, Goes
  <2> QED BY <1>7, <2>1, InitBoots
<1>8. CASE n = 28
  <2>0. Head(prog) = Poll("boot", 0)
    BY <1>8, InitTable
  <2>1. PollDone /\ Reg = "boot" /\ Value = 0
    BY <1>8, <2>0, Goes
  <2> QED BY <1>8, <2>1, InitBoots
<1>9. CASE n \in 30 .. 42
  <2>1. Send \/ AnswerDone \/ Read
    <3>1. n + 1 = 33 \/ n + 1 \in SendRows \/ n + 1 \in AnswerRows
      BY <1>9 DEF SendRows, AnswerRows
    <3>2. CASE n + 1 = 33
      <4>1. Head(prog) = RdByte("data")
        BY <3>2, InitTable
      <4> QED BY <4>1, Goes
    <3>3. CASE n + 1 \in SendRows
      <4>1. Head(prog)[1] = "cmd"
        BY <3>3, InitSettings
      <4> QED BY <4>1, Goes
    <3>4. CASE n + 1 \in AnswerRows
      <4>1. n \in SendRows
        BY <1>9, <3>4 DEF SendRows, AnswerRows
      <4>2. Head(prog)[1] = "answer"
        BY <4>1, InitSettings
      <4> QED BY <4>2, Goes
    <3> QED BY <3>1, <3>2, <3>3, <3>4
  <2> QED BY <1>9, <2>1, InitConfigures
<1> QED BY <1>0, <1>1, <1>2, <1>3, <1>4, <1>5, <1>6, <1>7, <1>8, <1>9 DEF PageRows

\* What the sensor does by itself takes nothing away from init.
LEMMA InitEndures ==
  ASSUME TypeS, TypeB, NEW n \in 0 .. 43, InitDid(n), Device \/ AutoStop
  PROVE  InitDid(n)'
<1>1. page' = page /\ regs' = regs /\ open' = open /\ image' = image
  BY DEF Device, WakeOrSleep, HaltOrGo, Answer, BootUp, AutoStop, firmware
<1>2. CASE n < 4
  <2>1. \A c \in Settings : SentAt(c) > n
    BY <1>2, InitSettings DEF SendRows
  <2> QED BY <1>1, <1>2, <2>1, InitSettings DEF InitDid, SendRows
<1>3. CASE n >= 4
  <2>1. regs = PowerOn /\ ~halted /\ ~ranging /\ ~autostop
    BY <1>3 DEF InitDid
  <2>2. ~HaltOrGo /\ ~AutoStop
    BY <2>1 DEF HaltOrGo, AutoStop, PowerOn, TypeB
  <2>3. CASE WakeOrSleep
    BY <1>1, <2>3 DEF WakeOrSleep, InitDid, firmware, PowerOn
  <2>4. CASE BootUp
    <3>1. n < 29 /\ n # 27 /\ mcu' \in {"rom", "app"} /\ (n >= 28 => mcu' = "app")
      BY <2>4 DEF BootUp, InitDid
    <3> QED BY <1>1, <2>4, <3>1 DEF BootUp, InitDid, PowerOn
  <2>5. CASE Answer
    <3>1. command # "none" /\ command \in Settings /\ n = SentAt(command)
      BY <1>3, <2>5 DEF Answer, InitDid
    <3>2. command # "start"
      BY <3>1 DEF Settings
    <3>3. ~halted' /\ ~ranging' /\ ~autostop' /\ mcu' = mcu /\ command' = "none" /\ accepted' = accepted \cup {command}
      BY <2>1, <2>5, <3>1, <3>2 DEF Answer
    <3>4. \A c \in Settings : (n > SentAt(c) => c \in accepted') /\ (n = SentAt(c) => c \in accepted')
      BY <3>1, <3>3 DEF InitDid
    <3> QED BY <1>1, <1>3, <2>1, <3>3, <3>4 DEF InitDid, PowerOn
  <2> QED BY <2>2, <2>3, <2>4, <2>5 DEF Device
<1> QED BY <1>2, <1>3

LEMMA InitBegins == InitDid(0)
<1>1. \A c \in Settings : SentAt(c) > 0
  BY InitSettings DEF SendRows
<1> QED BY <1>1, InitSettings DEF InitDid, SendRows

\* All of it done is Ready, but for the page.
LEMMA InitDone ==
  ASSUME TypeS, InitDid(43)
  PROVE  page = 2 /\ regs = PowerOn /\ ~ranging /\ ~halted /\ mcu = "app"
         /\ image = ImagePages /\ accepted = Settings
<1>1. \A c \in Settings : SentAt(c) \in Int /\ SentAt(c) < 43
  BY InitSettings DEF SendRows
<1>2. Settings \subseteq accepted
  BY <1>1 DEF InitDid
<1> QED BY <1>2 DEF InitDid, TypeS, ImagePages, PageAfter
-----------------------------------------------------------------------------
(* The sensor and the program between the calls.                            *)

LEMMA RangeInductive == TypeB /\ RangeInv /\ [Next]_vars => RangeInv'
<1> SUFFICES ASSUME TypeB, RangeInv, [Next]_vars PROVE RangeInv'
  OBVIOUS
<1> USE DEF sensor, firmware
<1>1. CASE Write
  BY <1>1 DEF Write, Store, RangeInv
<1>2. CASE Read \/ PollDone \/ Send \/ AnswerDone \/ Branch \/ Return \/ Late \/ Restart
  BY <1>2 DEF Read, PollDone, Send, AnswerDone, Branch, Return, Late, Restart, RangeInv
<1>3. CASE Deaf \/ Fault
  BY <1>3 DEF Deaf, Fault, Missed, Store, RangeInv
<1>4. CASE Device \/ AutoStop
  <2>1. CASE WakeOrSleep \/ BootUp
    BY <2>1 DEF WakeOrSleep, BootUp, RangeInv
  <2>2. CASE HaltOrGo
    BY <2>2 DEF HaltOrGo, RangeInv
  <2>3. CASE Answer
    BY <2>3 DEF Answer, RangeInv
  <2>4. CASE AutoStop
    BY <2>4 DEF AutoStop, RangeInv, TypeB
  <2> QED BY <1>4, <2>1, <2>2, <2>3, <2>4 DEF Device
<1>5. ASSUME NEW c \in Calls, Call(c) PROVE RangeInv'
  BY <1>5 DEF Call, RangeInv
<1>6. CASE UNCHANGED vars
  BY <1>6 DEF vars, RangeInv
<1> QED BY <1>1, <1>2, <1>3, <1>4, <1>5, <1>6 DEF Next, Access

LEMMA InitInductive == TypeS /\ TypeC /\ TypeB /\ InitInv /\ [Next]_vars => InitInv'
<1> SUFFICES ASSUME TypeS, TypeC, TypeB, InitInv, [Next]_vars, call' = "init", status' = "ok"
             PROVE  (Left(InitSensor, prog) /\ InitDid(Did(InitSensor, prog)))'
  BY DEF InitInv
<1>0. prog \in Programs /\ InitSensor \in Programs /\ Len(InitSensor) = 43
  BY InitReturns, InitTable DEF TypeC, Returns2
<1>1. CASE (Write \/ Read \/ PollDone \/ Send \/ AnswerDone)
  <2>1. call = "init" /\ status = "ok" /\ prog # <<>> /\ prog' = Tail(prog)
    BY <1>1, Goes
  <2>2. Left(InitSensor, prog) /\ InitDid(Did(InitSensor, prog))
    BY <2>1 DEF InitInv
  <2>3. PICK n \in 0 .. 42 : n = Did(InitSensor, prog)
    <3>1. Did(InitSensor, prog) \in 0 .. Len(InitSensor) - 1
      BY <1>0, <2>1, <2>2, LeftTail
    <3> QED BY <1>0, <3>1
  <2>4. InitDid(n) /\ Head(prog) = InitSensor[n + 1] /\ Left(InitSensor, prog') /\ Did(InitSensor, prog') = n + 1
    BY <1>0, <2>1, <2>2, <2>3, LeftTail
  <2>5. InitDid(n + 1)'
    BY <1>1, <2>4, InitAdvances
  <2> QED BY <2>4, <2>5
<1>2. CASE Branch
  <2>1. call = "init" /\ status = "ok" /\ prog # <<>> /\ Head(prog)[1] = "decide"
    BY <1>2 DEF Branch, At
  <2>2. Left(InitSensor, prog)
    BY <2>1 DEF InitInv
  <2>3. Head(prog) = InitSensor[Did(InitSensor, prog) + 1] /\ Did(InitSensor, prog) \in 0 .. Len(InitSensor) - 1
    BY <1>0, <2>1, <2>2, LeftTail
  <2>4. Did(InitSensor, prog) + 1 \in 1 .. Len(InitSensor)
    BY <1>0, <2>3
  <2> QED BY <2>1, <2>3, <2>4, InitReturns DEF Returns2, Straight
<1>3. CASE Return \/ Restart \/ Deaf \/ Fault \/ Late
  BY <1>3 DEF Return, Restart, Deaf, Fault, Late
<1>4. CASE Device \/ AutoStop
  <2>1. UNCHANGED <<call, status, prog>>
    BY <1>4 DEF Device, WakeOrSleep, HaltOrGo, Answer, BootUp, AutoStop
  <2>2. Left(InitSensor, prog) /\ InitDid(Did(InitSensor, prog))
    BY <2>1 DEF InitInv
  <2>3. PICK n \in 0 .. 43 : n = Did(InitSensor, prog)
    BY <1>0, <2>2, LeftNothing
  <2>4. InitDid(n)'
    BY <1>4, <2>2, <2>3, InitEndures
  <2> QED BY <2>1, <2>2, <2>3, <2>4
<1>5. ASSUME NEW c \in Calls, Call(c) PROVE (Left(InitSensor, prog) /\ InitDid(Did(InitSensor, prog)))'
  <2>1. prog' = InitSensor /\ UNCHANGED <<page, sensor>>
    BY <1>5 DEF Call, Body
  <2>2. Left(InitSensor, prog') /\ Did(InitSensor, prog') = 0
    BY <1>0, <2>1, LeftEnds
  <2>3. InitDid(0)'
    BY InitBegins, PTL
  <2> QED BY <2>2, <2>3
<1>6. CASE UNCHANGED vars
  BY <1>6 DEF vars, sensor, firmware, InitInv, InitDid
<1> QED BY <1>1, <1>2, <1>3, <1>4, <1>5, <1>6 DEF Next, Access
-----------------------------------------------------------------------------
(* The firmware runs on: nothing but init resets the MCU.                   *)

LEMMA TameFunctions ==
  /\ \A c \in Calls \ {"init"} : Tame(Body[c])
  /\ \A name : Tame(ChangePowerMode(name))
  /\ Tame(UndoStop) /\ Tame(LongStop)
<1> USE DEF Page, WrByte, RdByte, Poll, Decide, Harmless, Tame
<1>1. Tame(StartRanging)
  BY DEF StartRanging, Exchange
<1>2. Tame(UndoStop) /\ Tame(LongStop)
  BY DEF UndoStop, LongStop, ProvokeStop
<1>3. \A name : Tame(ChangePowerMode(name)) /\ Tame(SetPowerMode(name))
  BY DEF ChangePowerMode, SetPowerMode, GetPowerMode
<1>4. Tame(IsAlive) /\ Tame(SetAddress(TRUE)) /\ Tame(SetAddress(FALSE)) /\ Tame(GetPowerMode) /\ Tame(StopRanging)
  BY DEF IsAlive, SetAddress, GetPowerMode, StopRanging
<1>5. /\ Body["is_alive"] = IsAlive /\ Body["get_power"] = GetPowerMode /\ Body["start"] = StartRanging
      /\ Body["same_address"] = SetAddress(TRUE) /\ Body["new_address"] = SetAddress(FALSE)
      /\ Body["sleep"] = SetPowerMode("sleep") /\ Body["wakeup"] = SetPowerMode("wakeup")
      /\ Body["unknown_mode"] = SetPowerMode("unknown")
      /\ Body["stop"] = StopRanging
  BY DEF Body
<1> QED BY <1>1, <1>2, <1>3, <1>4, <1>5, Zenon DEF Calls

LEMMA TameTail ==
  ASSUME NEW p \in Programs, p # <<>>, Tame(p)
  PROVE  Tame(Tail(p)) /\ Harmless(Head(p))
BY TailIndex DEF Tame

LEMMA AppInductive == TypeS /\ TypeC /\ InitInv /\ AppInv /\ [Next]_vars => AppInv'
<1> SUFFICES ASSUME TypeS, TypeC, InitInv, AppInv, [Next]_vars PROVE AppInv'
  OBVIOUS
<1> USE DEF sensor, firmware
<1>0. prog \in Programs /\ InitSensor \in Programs /\ Len(InitSensor) = 43
  BY InitReturns, InitTable DEF TypeC, Returns2
<1>1. ASSUME UNCHANGED <<call, known>>, mcu = "app" => mcu' = "app", Tame(prog) => Tame(prog') PROVE AppInv'
  BY <1>1 DEF AppInv, Working
<1>2. CASE Write
  <2>1. prog # <<>> /\ prog' = Tail(prog) /\ UNCHANGED <<call, known>> /\ Head(prog)[1] = "wr"
    BY <1>2, Goes
  <2>2. Tame(prog) => Tame(prog') /\ Reg \notin {"reboot", "run"}
    BY <1>0, <2>1, TameTail DEF Harmless, Reg
  <2>3. Reg \notin {"reboot", "run"} => mcu' = mcu
    BY <1>2 DEF Write, Store
  <2> QED BY <2>1, <2>2, <2>3 DEF AppInv, Working
<1>3. CASE Read \/ PollDone \/ Send \/ AnswerDone
  <2>1. prog # <<>> /\ prog' = Tail(prog) /\ UNCHANGED <<call, known, mcu>>
    BY <1>3, Goes DEF Read, PollDone, Send, AnswerDone
  <2> QED BY <1>0, <1>1, <2>1, TameTail
<1>4. CASE Branch
  <2>1. prog' \in {<<>>, UndoStop, LongStop, ChangePowerMode(Reg)} /\ UNCHANGED <<call, known, mcu>>
    BY <1>4 DEF Branch, LongStop
  <2>2. Tame(<<>>)
    BY DEF Tame
  <2> QED BY <1>1, <2>1, <2>2, TameFunctions
<1>5. CASE Deaf \/ Fault
  <2>1. UNCHANGED <<call, known>> /\ prog # <<>> /\ prog' \in {prog, Tail(prog)}
    BY <1>5 DEF Deaf, Fault, Missed, Advance
  <2>2. Tame(prog) => Tame(prog') /\ Harmless(Head(prog))
    BY <1>0, <2>1, TameTail
  <2>3. Harmless(Head(prog)) => mcu' = mcu
    <3>1. CASE UNCHANGED <<page, sensor>>
      BY <3>1
    <3>2. CASE At("wr") /\ Store(Reg, Value)
      BY <3>2 DEF At, Store, Harmless, Reg
    <3> QED BY <1>5, <3>1, <3>2 DEF Deaf, Fault, Missed
  <2> QED BY <2>1, <2>2, <2>3 DEF AppInv, Working
<1>6. CASE Late
  BY <1>1, <1>6 DEF Late
<1>7. CASE Device \/ AutoStop \/ UNCHANGED vars
  <2>1. UNCHANGED <<call, known, prog>> /\ (mcu = "app" => mcu' = "app")
    BY <1>7 DEF Device, WakeOrSleep, HaltOrGo, Answer, BootUp, AutoStop, vars
  <2> QED BY <1>1, <2>1
<1>8. CASE Restart
  BY <1>8 DEF Restart, AppInv, Working, Calls
<1>9. CASE Return
  <2>1. call' = "none" /\ prog' = <<>> /\ mcu' = mcu
    BY <1>9 DEF Return
  <2>2. Working' => Working \/ (call = "init" /\ status = "ok")
    <3>1. CASE call \in {"is_alive", "init"}
      BY <1>9, <3>1 DEF Return, Working
    <3>2. CASE call \notin {"is_alive", "init"}
      BY <1>9, <3>2 DEF Return, AppInv, TypeC
    <3> QED BY <3>1, <3>2
  <2>3. call = "init" /\ status = "ok" => mcu = "app"
    <3>1. SUFFICES ASSUME call = "init", status = "ok" PROVE mcu = "app"
      OBVIOUS
    <3>2. Did(InitSensor, prog) = 43 /\ InitDid(Did(InitSensor, prog))
      BY <1>0, <1>9, <3>1, LeftNothing DEF InitInv, Return
    <3> QED BY <3>2, InitDone
  <2>4. Tame(prog')
    BY <2>1 DEF Tame
  <2> QED BY <2>1, <2>2, <2>3, <2>4 DEF AppInv, Calls
<1>10. ASSUME NEW c \in Calls, Call(c) PROVE AppInv'
  <2>1. call' = c /\ prog' = Body[c] /\ UNCHANGED <<known, mcu>> /\ MayCall(c)
    BY <1>10 DEF Call
  <2>2. c \in Calls \ {"is_alive", "init"} => Working
    BY <2>1 DEF MayCall, Working, Calls
  <2>3. Working => c # "init"
    BY <2>1 DEF MayCall, Working
  <2>4. Working' = Working
    BY <2>1 DEF Working
  <2> QED BY <2>1, <2>2, <2>3, <2>4, TameFunctions DEF AppInv
<1> QED BY <1>2, <1>3, <1>4, <1>5, <1>6, <1>7, <1>8, <1>9, <1>10 DEF Next, Access
-----------------------------------------------------------------------------
(* start_ranging.                                                           *)

LEMMA StartAdvances ==
  ASSUME TypeS, TypeB, mcu = "app", NEW n \in 0 .. 13, StartDid(n), Head(prog) = StartRanging[n + 1],
         Write \/ Read \/ PollDone \/ Send \/ AnswerDone
  PROVE  StartDid(n + 1)'
<1> USE DEF Page, WrByte, RdByte, Poll, Reg, Value
<1>1. CASE n \in {0, 3, 5, 7}
  <2>1. Head(prog) = <<"cmd", "dci", 0>> /\ page = 2
    BY <1>1, StartTable DEF StartDid
  <2>2. Send /\ Reg = "dci"
    BY <2>1, Goes
  <2>3. command' = "dci" /\ UNCHANGED <<page, regs, halted>>
    BY <2>1, <2>2 DEF Send
  <2> QED BY <1>1, <2>1, <2>3 DEF StartDid
<1>2. CASE n \in {1, 4, 6, 8}
  <2>1. Head(prog) = <<"answer", "dci", 0>> /\ page = 2
    BY <1>2, StartTable DEF StartDid
  <2>2. AnswerDone
    BY <2>1, Goes
  <2>3. command = "none" /\ UNCHANGED <<page, command, regs, halted>>
    BY <2>1, <2>2 DEF AnswerDone, Answered, sensor
  <2>4. ~halted
    BY <1>2, <2>3 DEF StartDid
  <2> QED BY <1>2, <2>1, <2>3, <2>4 DEF StartDid
<1>3. CASE n = 2
  <2>1. Head(prog) = RdByte("data") /\ page = 2
    BY <1>3, StartTable DEF StartDid
  <2>2. Read
    BY <2>1, Goes
  <2>3. UNCHANGED <<page, command, regs, halted>>
    BY <2>2 DEF Read, sensor
  <2> QED BY <1>3, <2>1, <2>3 DEF StartDid
<1>4. CASE n \in {9, 11}
  <2>1. Head(prog) = Page(IF n = 9 THEN 0 ELSE 2) /\ command = "none" /\ ~halted /\ (n = 11 => regs.power = 5)
    BY <1>4, StartTable DEF StartDid
  <2>2. Write /\ Reg = "page" /\ Value = (IF n = 9 THEN 0 ELSE 2)
    BY <2>1, Goes
  <2>3. page' = (IF n = 9 THEN 0 ELSE 2) /\ command' = "none" /\ ~halted' /\ regs' = regs
    BY <2>1, <2>2, PlainWrite DEF Kept
  <2> QED BY <1>4, <2>1, <2>3 DEF StartDid
<1>5. CASE n = 10
  <2>1. Head(prog) = WrByte("power", 5) /\ page = 0 /\ command = "none" /\ ~halted
    BY <1>5, StartTable DEF StartDid
  <2>2. Write /\ Reg = "power" /\ Value = 5
    BY <2>1, Goes
  <2>3. regs'.power = 5
    BY <2>1, <2>2 DEF Write, Store, TypeS, RegsType
  <2>4. page' = 0 /\ command' = "none" /\ ~halted'
    BY <2>1, <2>2 DEF Write, Store
  <2> QED BY <1>5, <2>3, <2>4 DEF StartDid
<1>6. CASE n = 12
  <2>1. Head(prog) = <<"cmd", "start", 0>> /\ page = 2 /\ ~halted /\ regs.power = 5
    BY <1>6, StartTable DEF StartDid
  <2>2. Send /\ Reg = "start"
    BY <2>1, Goes
  <2>3. command' = "start" /\ UNCHANGED <<page, regs, halted>>
    BY <2>1, <2>2 DEF Send
  <2> QED BY <1>6, <2>1, <2>3 DEF StartDid
<1>7. CASE n = 13
  <2>1. Head(prog) = <<"answer", "start", 0>> /\ page = 2 /\ ~halted /\ regs.power = 5
    BY <1>7, StartTable DEF StartDid
  <2>2. AnswerDone
    BY <2>1, Goes
  <2>3. command = "none" /\ UNCHANGED <<page, command, regs, halted, ranging, autostop>>
    BY <2>1, <2>2 DEF AnswerDone, Answered, sensor
  <2>4. ranging \/ autostop
    BY <1>7, <2>3 DEF StartDid
  <2> QED BY <1>7, <2>1, <2>3, <2>4 DEF StartDid
<1> QED BY <1>1, <1>2, <1>3, <1>4, <1>5, <1>6, <1>7

LEMMA StartEndures ==
  ASSUME TypeS, TypeB, regs.stop = 0, NEW n \in 0 .. 14, StartDid(n), Device \/ AutoStop
  PROVE  StartDid(n)'
<1>1. page' = page /\ regs' = regs
  BY DEF Device, WakeOrSleep, HaltOrGo, Answer, BootUp, AutoStop
<1>2. CASE WakeOrSleep \/ BootUp
  BY <1>1, <1>2 DEF WakeOrSleep, BootUp, StartDid
<1>3. CASE HaltOrGo
  <2>1. halted /\ ~halted' /\ command' = "none"
    <3>1. ~(regs.stop = 1 /\ regs.mode = 22)
      OBVIOUS
    <3>2. halted
      BY <1>3, <3>1 DEF HaltOrGo, TypeB
    <3> QED BY <1>3, <3>2 DEF HaltOrGo
  <2>2. n < 2
    BY <2>1 DEF StartDid
  <2> QED BY <1>1, <2>1, <2>2 DEF StartDid
<1>4. CASE Answer
  <2>1. command # "none" /\ ~halted /\ ~halted' /\ command' = "none" /\ (command = "start" => ranging')
    BY <1>4 DEF Answer
  <2>2. n \notin {0, 2, 3, 5, 7, 9, 10, 11, 12, 14}
    BY <2>1 DEF StartDid
  <2>3. n = 13 => ranging'
    BY <2>1 DEF StartDid
  <2> QED BY <1>1, <2>1, <2>2, <2>3 DEF StartDid
<1>5. CASE AutoStop
  BY <1>1, <1>5 DEF AutoStop, StartDid
<1> QED BY <1>2, <1>3, <1>4, <1>5 DEF Device

LEMMA StartInductive ==
  TypeS /\ TypeC /\ TypeB /\ AppInv /\ SInv /\ StartInv /\ [Next]_vars => StartInv'
<1> SUFFICES ASSUME TypeS, TypeC, TypeB, AppInv, SInv, StartInv, [Next]_vars,
                    call' = "start", status' = "ok", entry'
             PROVE  (Left(StartRanging, prog) /\ StartDid(Did(StartRanging, prog)))'
  BY DEF StartInv
<1>0. prog \in Programs /\ StartRanging \in Programs /\ Len(StartRanging) = 14
  BY StartReturns, StartTable DEF TypeC, Returns2
<1>7. call = "start" => mcu = "app" /\ regs.stop = 0
  BY DEF AppInv, SInv, Calls
<1>1. CASE (Write \/ Read \/ PollDone \/ Send \/ AnswerDone)
  <2>1. call = "start" /\ status = "ok" /\ entry /\ prog # <<>> /\ prog' = Tail(prog)
    BY <1>1, Goes
  <2>2. Left(StartRanging, prog) /\ StartDid(Did(StartRanging, prog))
    BY <2>1 DEF StartInv
  <2>3. PICK n \in 0 .. 13 : n = Did(StartRanging, prog)
    <3>1. Did(StartRanging, prog) \in 0 .. Len(StartRanging) - 1
      BY <1>0, <2>1, <2>2, LeftTail
    <3> QED BY <1>0, <3>1
  <2>4. StartDid(n) /\ Head(prog) = StartRanging[n + 1] /\ Left(StartRanging, prog') /\ Did(StartRanging, prog') = n + 1
    BY <1>0, <2>1, <2>2, <2>3, LeftTail
  <2>5. StartDid(n + 1)'
    BY <1>1, <1>7, <2>1, <2>4, StartAdvances
  <2> QED BY <2>4, <2>5
<1>2. CASE Branch
  <2>1. call = "start" /\ status = "ok" /\ entry /\ prog # <<>> /\ Head(prog)[1] = "decide"
    BY <1>2 DEF Branch, At
  <2>2. Left(StartRanging, prog)
    BY <2>1 DEF StartInv
  <2>3. Head(prog) = StartRanging[Did(StartRanging, prog) + 1] /\ Did(StartRanging, prog) \in 0 .. Len(StartRanging) - 1
    BY <1>0, <2>1, <2>2, LeftTail
  <2>4. Did(StartRanging, prog) + 1 \in 1 .. Len(StartRanging)
    BY <1>0, <2>3
  <2> QED BY <2>1, <2>3, <2>4, StartReturns DEF Returns2, Straight
<1>3. CASE Return \/ Restart \/ Deaf \/ Fault \/ Late
  BY <1>3 DEF Return, Restart, Deaf, Fault, Late
<1>4. CASE Device \/ AutoStop
  <2>1. UNCHANGED <<call, status, entry, prog>>
    BY <1>4 DEF Device, WakeOrSleep, HaltOrGo, Answer, BootUp, AutoStop
  <2>2. Left(StartRanging, prog) /\ StartDid(Did(StartRanging, prog))
    BY <2>1 DEF StartInv
  <2>3. PICK n \in 0 .. 14 : n = Did(StartRanging, prog)
    BY <1>0, <2>2, LeftNothing
  <2>4. StartDid(n)'
    BY <1>4, <1>7, <2>1, <2>2, <2>3, StartEndures
  <2> QED BY <2>1, <2>2, <2>3, <2>4
<1>5. ASSUME NEW c \in Calls, Call(c) PROVE (Left(StartRanging, prog) /\ StartDid(Did(StartRanging, prog)))'
  <2>1. prog' = StartRanging /\ page' = 2 /\ command' = "none"
    <3>1. page = 2 /\ command = "none"
      BY <1>5, Zenon DEF Call
    <3> QED BY <1>5, <3>1 DEF Call, Body, sensor
  <2>2. Left(StartRanging, prog') /\ Did(StartRanging, prog') = 0
    BY <1>0, <2>1, LeftEnds
  <2>3. StartDid(0)'
    BY <2>1 DEF StartDid
  <2> QED BY <2>2, <2>3
<1>6. CASE UNCHANGED vars
  <2>1. UNCHANGED <<call, status, entry, prog>>
    BY <1>6 DEF vars
  <2>2. Left(StartRanging, prog) /\ StartDid(Did(StartRanging, prog))
    BY <2>1 DEF StartInv
  <2> QED BY <1>6, <2>1, <2>2 DEF vars, sensor, firmware, StartDid
<1> QED BY <1>1, <1>2, <1>3, <1>4, <1>5, <1>6 DEF Next, Access
-----------------------------------------------------------------------------
(* stop_ranging.                                                            *)

LEMMA StopPrograms ==
  /\ StopRanging \in Programs /\ UndoStop \in Programs /\ LongStop \in Programs /\ ProvokeStop \in Programs
  /\ <<Decide("stop")>> \in Programs
  /\ Straight(LongStop)
  /\ Left(LongStop, UndoStop) /\ Did(LongStop, UndoStop) = 4
<1>1. StopRanging \in Programs /\ UndoStop \in Programs /\ LongStop \in Programs /\ Straight(LongStop)
  BY StopShape, UndoStopReturns, ProvokeStopReturns DEF Returns2, LongStop
<1>2. ProvokeStop \in Programs /\ <<Decide("stop")>> \in Programs
  BY PageEntry, StopEntry, PollEntry, DecideEntry DEF ProvokeStop, Programs, Pages
<1>3. Len(UndoStop) = 5 /\ Len(LongStop) = 9 /\ \A m \in 1 .. 5 : UndoStop[m] = LongStop[4 + m]
  BY DEF UndoStop, LongStop, ProvokeStop
<1> QED BY <1>1, <1>2, <1>3 DEF Left, Did

LEMMA StopAdvances ==
  ASSUME TypeS, TypeB, RangeInv, command = "none", NEW n \in 0 .. 8, StopDid(n), Head(prog) = LongStop[n + 1],
         Write \/ Read \/ PollDone \/ Send \/ AnswerDone
  PROVE  StopDid(n + 1)' /\ command' = "none"
<1> USE DEF Page, WrByte, Poll, Reg, Value
<1>1. CASE n \in {0, 4, 8}
  <2>1. Head(prog) = Page(IF n = 8 THEN 2 ELSE 0)
    BY <1>1, LongStopTable
  <2>2. Write /\ Reg = "page" /\ Value = (IF n = 8 THEN 2 ELSE 0)
    BY <2>1, Goes
  <2>3. Kept /\ page' = (IF n = 8 THEN 2 ELSE 0)
    BY <2>2, PlainWrite
  <2> QED BY <1>1, <2>3 DEF StopDid, Kept
<1>2. CASE n \in {1, 2, 5, 6, 7}
  <2>1. Head(prog) = IF n = 1 THEN WrByte("mode", 22) ELSE IF n = 2 THEN WrByte("stop", 1)
                     ELSE IF n = 5 THEN WrByte("stop", 0) ELSE IF n = 6 THEN WrByte("mode", 0)
                     ELSE WrByte("power", 4)
    BY <1>2, LongStopTable
  <2>2. /\ Write /\ Reg \in {"mode", "stop", "power"}
        /\ n = 5 => Reg = "stop" /\ Value = 0
        /\ n = 6 => Reg = "mode" /\ Value = 0
        /\ n = 7 => Reg = "power" /\ Value = 4
    BY <1>2, <2>1, Goes
  <2>3. page = 0 /\ page' = 0 /\ command' = "none" /\ (~ranging => ~ranging')
    <3>1. page = 0
      BY <1>2 DEF StopDid
    <3> QED BY <2>2, <3>1 DEF Write, Store
  <2>4. regs \in RegsType /\ regs' = [regs EXCEPT ![Reg] = Value]
    <3>1. DOMAIN regs = {"power", "stop", "mode"}
      BY DEF TypeS, RegsType
    <3> QED BY <2>2, <2>3, <3>1 DEF Write, Store, TypeS
  <2>5. /\ n = 5 => regs'.stop = 0
        /\ n = 6 => regs'.mode = 0 /\ regs'.stop = regs.stop
        /\ n = 7 => regs'.power = 4 /\ regs'.stop = regs.stop /\ regs'.mode = regs.mode
    BY <2>2, <2>4 DEF RegsType
  <2> QED BY <1>2, <2>3, <2>5 DEF StopDid
<1>3. CASE n = 3
  <2>1. Head(prog) = Poll("halted", 1) /\ page = 0
    BY <1>3, LongStopTable DEF StopDid
  <2>2. PollDone /\ Reg = "halted" /\ Value = 1
    BY <2>1, Goes
  <2>3. halted
    BY <2>1, <2>2 DEF PollDone, Shows
  <2>4. ~ranging /\ UNCHANGED <<page, regs, ranging, command>>
    BY <2>2, <2>3 DEF PollDone, RangeInv, sensor
  <2> QED BY <1>3, <2>1, <2>4 DEF StopDid
<1> QED BY <1>1, <1>2, <1>3

\* Nothing the sensor does by itself makes it range while no command is under way.
LEMMA StopEndures ==
  ASSUME command = "none", Device \/ AutoStop
  PROVE  command' = "none" /\ page' = page /\ regs' = regs /\ (~ranging => ~ranging')
BY DEF Device, WakeOrSleep, HaltOrGo, Answer, BootUp, AutoStop

LEMMA StopRangingInductive ==
  TypeS /\ TypeC /\ TypeB /\ RangeInv /\ StopInv /\ [Next]_vars => StopInv'
<1> SUFFICES ASSUME TypeS, TypeC, TypeB, RangeInv, StopInv, [Next]_vars,
                    call' = "stop", status' = "ok", entry'
             PROVE  (/\ command = "none"
                     /\ \/ prog = StopRanging /\ page = 2
                        \/ prog = <<Decide("stop")>> /\ (tmp = 4 => ~ranging)
                        \/ Left(LongStop, prog) /\ StopDid(Did(LongStop, prog)))'
  BY DEF StopInv
<1>0. prog \in Programs
  BY DEF TypeC
<1>1. CASE (Write \/ Read \/ PollDone \/ Send \/ AnswerDone)
  <2>1. call = "stop" /\ status = "ok" /\ entry /\ prog # <<>> /\ prog' = Tail(prog)
    BY <1>1, Goes
  <2>2. command = "none"
    BY <2>1 DEF StopInv
  <2>3. CASE prog = StopRanging /\ page = 2
    <3>1. Head(prog) = RdByte("autostop") /\ prog' = <<Decide("stop")>>
      BY <2>1, <2>3 DEF StopRanging
    <3>2. Read /\ Reg = "autostop"
      <4>1. Head(prog)[1] = "rd" /\ Head(prog)[2] = "autostop"
        BY <3>1 DEF RdByte
      <4> QED BY <1>1, <4>1, Goes DEF Reg
    <3>3. tmp' = 4 => autostop
      BY <2>3, <3>2 DEF Read
    <3>4. UNCHANGED <<ranging, command>>
      BY <3>2 DEF Read, sensor
    <3> QED BY <2>2, <3>1, <3>3, <3>4 DEF RangeInv
  <2>4. CASE prog = <<Decide("stop")>>
    <3>1. Head(prog)[1] = "decide"
      BY <2>4 DEF Decide
    <3> QED BY <1>1, <3>1, Goes
  <2>5. CASE Left(LongStop, prog) /\ StopDid(Did(LongStop, prog))
    <3>1. PICK n \in 0 .. 8 : n = Did(LongStop, prog)
      <4>1. Did(LongStop, prog) \in 0 .. Len(LongStop) - 1
        BY <1>0, <2>1, <2>5, LeftTail, StopPrograms
      <4> QED BY <4>1, LongStopTable
    <3>2. StopDid(n) /\ Head(prog) = LongStop[n + 1] /\ Left(LongStop, prog') /\ Did(LongStop, prog') = n + 1
      BY <1>0, <2>1, <2>5, <3>1, LeftTail, StopPrograms
    <3>3. StopDid(n + 1)' /\ command' = "none"
      BY <1>1, <2>2, <3>2, StopAdvances
    <3> QED BY <3>2, <3>3
  <2> QED BY <2>1, <2>3, <2>4, <2>5 DEF StopInv
<1>2. CASE Branch
  <2>1. call = "stop" /\ status = "ok" /\ entry /\ prog # <<>> /\ Head(prog)[1] = "decide"
    BY <1>2 DEF Branch, At
  <2>2. command = "none" /\ UNCHANGED <<page, regs, ranging, command>>
    BY <1>2, <2>1 DEF StopInv, Branch, sensor
  <2>3. CASE prog = <<Decide("stop")>> /\ (tmp = 4 => ~ranging)
    <3>1. prog' = IF tmp = 4 THEN UndoStop ELSE LongStop
      BY <1>2, <2>3 DEF Branch, Reg, Decide, LongStop
    <3>2. CASE tmp = 4
      <4>1. StopDid(4)'
        BY <2>2, <2>3, <3>2 DEF StopDid
      <4> QED BY <2>2, <3>1, <3>2, <4>1, StopPrograms
    <3>3. CASE tmp # 4
      <4>1. StopDid(0)'
        BY DEF StopDid
      <4>2. Left(LongStop, prog') /\ Did(LongStop, prog') = 0
        BY <3>1, <3>3, LeftEnds, StopPrograms
      <4> QED BY <2>2, <4>1, <4>2
    <3> QED BY <3>2, <3>3
  <2>4. CASE prog = StopRanging
    BY <2>1, <2>4 DEF StopRanging, RdByte
  <2>5. CASE Left(LongStop, prog)
    <3>1. Head(prog) = LongStop[Did(LongStop, prog) + 1] /\ Did(LongStop, prog) \in 0 .. Len(LongStop) - 1
      BY <1>0, <2>1, <2>5, LeftTail, StopPrograms
    <3>2. Did(LongStop, prog) + 1 \in 1 .. Len(LongStop)
      BY <3>1, LongStopTable
    <3> QED BY <2>1, <3>1, <3>2, StopPrograms DEF Straight
  <2> QED BY <2>1, <2>3, <2>4, <2>5 DEF StopInv
<1>3. CASE Return \/ Restart \/ Deaf \/ Fault \/ Late
  BY <1>3 DEF Return, Restart, Deaf, Fault, Late
<1>4. CASE Device \/ AutoStop
  <2>1. UNCHANGED <<call, status, entry, prog, tmp>>
    BY <1>4 DEF Device, WakeOrSleep, HaltOrGo, Answer, BootUp, AutoStop
  <2>2. command = "none"
    BY <2>1 DEF StopInv
  <2>3. command' = "none" /\ page' = page /\ regs' = regs /\ (~ranging => ~ranging')
    BY <1>4, <2>2, StopEndures
  <2>4. CASE prog = StopRanging /\ page = 2
    BY <2>1, <2>3, <2>4
  <2>5. CASE prog = <<Decide("stop")>> /\ (tmp = 4 => ~ranging)
    BY <2>1, <2>3, <2>5
  <2>6. CASE Left(LongStop, prog) /\ StopDid(Did(LongStop, prog))
    <3>1. StopDid(Did(LongStop, prog))'
      BY <2>1, <2>3, <2>6 DEF StopDid
    <3> QED BY <2>1, <2>3, <2>6, <3>1
  <2> QED BY <2>1, <2>4, <2>5, <2>6 DEF StopInv
<1>5. ASSUME NEW c \in Calls, Call(c) PROVE (command = "none" /\ prog = StopRanging /\ page = 2)'
  <2>1. page = 2 /\ command = "none"
    BY <1>5, Zenon DEF Call
  <2> QED BY <1>5, <2>1 DEF Call, Body, sensor
<1>6. CASE UNCHANGED vars
  BY <1>6 DEF vars, sensor, StopInv, StopDid
<1> QED BY <1>1, <1>2, <1>3, <1>4, <1>5, <1>6 DEF Next, Access
-----------------------------------------------------------------------------
(* set_power_mode.                                                          *)

LEMMA SetPowerTable ==
  ASSUME NEW c \in {"sleep", "wakeup"}
  PROVE  /\ SetPowerMode(c) \in Programs /\ Len(SetPowerMode(c)) = 4
         /\ SetPowerMode(c)[1] = Page(0) /\ SetPowerMode(c)[2] = RdByte("power")
         /\ SetPowerMode(c)[3] = Page(2) /\ SetPowerMode(c)[4] = Decide(c)
<1>1. SetPowerMode(c) \in Programs
  BY SetPowerShape
<1> QED BY <1>1 DEF SetPowerMode, GetPowerMode

LEMMA ChangePowerTable ==
  ASSUME NEW c \in {"sleep", "wakeup"}
  PROVE  /\ ChangePowerMode(c) \in Programs /\ Straight(ChangePowerMode(c)) /\ Len(ChangePowerMode(c)) = 4
         /\ ChangePowerMode(c)[1] = Page(0) /\ ChangePowerMode(c)[2] = WrByte("power", Wanted(c))
         /\ ChangePowerMode(c)[3][1] = "poll" /\ ChangePowerMode(c)[4] = Page(2)
<1>1. ChangePowerMode(c) \in Programs /\ Straight(ChangePowerMode(c))
  BY ChangePowerReturns DEF Returns2
<1> QED BY <1>1 DEF ChangePowerMode, Poll, Wanted

LEMMA LookAdvances ==
  ASSUME TypeS, NEW c \in {"sleep", "wakeup"}, prog \in Programs, Looking(c), status' = "ok",
         Write \/ Read \/ PollDone \/ Send \/ AnswerDone
  PROVE  Looking(c)'
<1> DEFINE p == SetPowerMode(c)
<1> USE DEF Page, WrByte, RdByte, Decide, Reg, Value
<1>1. /\ prog # <<>> /\ prog' = Tail(prog) /\ Left(p, prog') /\ Did(p, prog') = Did(p, prog) + 1
      /\ Head(prog) = p[Did(p, prog) + 1] /\ Did(p, prog) \in 0 .. Len(p) - 1
  BY Goes, LeftTail, SetPowerTable DEF Looking
<1>2. Len(p) = 4 /\ Len(prog) \in Nat /\ Len(prog') = Len(prog) - 1 /\ Did(p, prog) = 4 - Len(prog)
  BY <1>1, TailIndex, SetPowerTable DEF Did
<1>3. Len(prog) \in 1 .. 4 /\ Head(prog) = p[(4 - Len(prog)) + 1]
  BY <1>1, <1>2
<1> HIDE DEF p
<1>4. CASE Len(prog) = 4
  <2>1. Head(prog) = Page(0)
    BY <1>3, <1>4, SetPowerTable DEF p
  <2>2. Write /\ Reg = "page" /\ Value = 0
    BY <2>1, Goes
  <2>3. page' = 0 /\ prog' # <<>>
    BY <1>2, <1>4, <2>2, PlainWrite
  <2>4. Len(prog') = 3 /\ ~(Len(prog') <= 2)
    BY <1>2, <1>4
  <2> QED BY <1>1, <2>3, <2>4 DEF Looking, p
<1>5. CASE Len(prog) = 3
  <2>1. Head(prog) = RdByte("power") /\ page = 0
    BY <1>3, <1>5, SetPowerTable DEF p, Looking
  <2>2. Read /\ Reg = "power"
    BY <2>1, Goes
  <2>3. tmp' = regs'.power /\ tmp' \in {2, 4} /\ prog' # <<>>
    BY <1>2, <1>5, <2>1, <2>2 DEF Read, sensor
  <2> QED BY <1>1, <1>2, <1>5, <2>3 DEF Looking, p
<1>6. CASE Len(prog) = 2
  <2>1. Head(prog) = Page(2) /\ tmp = regs.power /\ tmp \in {2, 4}
    BY <1>3, <1>6, SetPowerTable DEF p, Looking
  <2>2. Write /\ Reg = "page"
    BY <2>1, Goes
  <2>3. tmp' = regs'.power /\ tmp' \in {2, 4} /\ prog' # <<>>
    BY <1>2, <1>6, <2>1, <2>2, PlainWrite DEF Write, Kept
  <2> QED BY <1>1, <1>2, <1>6, <2>3 DEF Looking, p
<1>7. CASE Len(prog) = 1
  <2>1. Head(prog)[1] = "decide"
    BY <1>3, <1>7, SetPowerTable DEF p
  <2> QED BY <2>1, Goes
<1> QED BY <1>3, <1>4, <1>5, <1>6, <1>7

LEMMA ChangeAdvances ==
  ASSUME TypeS, NEW c \in {"sleep", "wakeup"}, prog \in Programs, Changing(c),
         Write \/ Read \/ PollDone \/ Send \/ AnswerDone
  PROVE  Changing(c)'
<1> DEFINE p == ChangePowerMode(c)
<1> USE DEF Page, WrByte, Reg, Value
<1>1. /\ prog # <<>> /\ prog' = Tail(prog) /\ Left(p, prog') /\ Did(p, prog') = Did(p, prog) + 1
      /\ Head(prog) = p[Did(p, prog) + 1] /\ Did(p, prog) \in 0 .. Len(p) - 1
  BY Goes, LeftTail, ChangePowerTable DEF Changing
<1>2. Len(p) = 4 /\ Len(prog) \in Nat /\ Len(prog') = Len(prog) - 1 /\ Did(p, prog) = 4 - Len(prog)
  BY <1>1, TailIndex, ChangePowerTable DEF Did
<1>3. Len(prog) \in 1 .. 4 /\ Head(prog) = p[(4 - Len(prog)) + 1]
  BY <1>1, <1>2
<1> HIDE DEF p
<1>4. CASE Len(prog) = 4
  <2>1. Head(prog) = Page(0)
    BY <1>3, <1>4, ChangePowerTable DEF p
  <2>2. Write /\ Reg = "page" /\ Value = 0
    BY <2>1, Goes
  <2>3. page' = 0
    BY <2>2, PlainWrite
  <2>4. Len(prog') = 3 /\ ~(Len(prog') <= 2)
    BY <1>2, <1>4
  <2> QED BY <1>1, <2>3, <2>4 DEF Changing, p
<1>5. CASE Len(prog) = 3
  <2>1. Head(prog) = WrByte("power", Wanted(c)) /\ page = 0
    BY <1>3, <1>5, ChangePowerTable DEF p, Changing
  <2>2. Write /\ Reg = "power" /\ Value = Wanted(c)
    BY <2>1, Goes
  <2>3. regs'.power = Wanted(c)
    BY <2>1, <2>2 DEF Write, Store, TypeS, RegsType
  <2> QED BY <1>1, <1>2, <1>5, <2>3 DEF Changing, p
<1>6. CASE Len(prog) = 2
  <2>1. Head(prog)[1] = "poll" /\ regs.power = Wanted(c)
    BY <1>3, <1>6, ChangePowerTable DEF p, Changing
  <2>2. regs' = regs
    BY <2>1, Goes, Looks DEF sensor
  <2> QED BY <1>1, <1>2, <1>6, <2>1, <2>2 DEF Changing, p
<1>7. CASE Len(prog) = 1
  <2>1. Head(prog) = Page(2) /\ regs.power = Wanted(c)
    BY <1>3, <1>7, ChangePowerTable DEF p, Changing
  <2>2. Write /\ Reg = "page"
    BY <2>1, Goes
  <2>3. regs' = regs
    BY <2>2, PlainWrite DEF Kept
  <2> QED BY <1>1, <1>2, <1>7, <2>1, <2>3 DEF Changing, p
<1> QED BY <1>3, <1>4, <1>5, <1>6, <1>7

LEMMA UpToFour == \A n \in Nat : n >= 1 /\ (n <= 4 \/ 4 - n \in 0 .. 3) => n <= 4 /\ n \in {1, 2, 3, 4}
OBVIOUS

LEMMA PowerInductive == TypeS /\ TypeC /\ PowerInv /\ [Next]_vars => PowerInv'
<1> SUFFICES ASSUME TypeS, TypeC, PowerInv, [Next]_vars, NEW c \in {"sleep", "wakeup"}, call' = c, status' = "ok"
             PROVE  Looking(c)' \/ Changing(c)'
  BY DEF PowerInv, Looking, Changing
<1>0. prog \in Programs
  BY DEF TypeC
<1>1. call = c /\ status = "ok" => Looking(c) \/ Changing(c)
  BY DEF PowerInv
<1>2. CASE (Write \/ Read \/ PollDone \/ Send \/ AnswerDone)
  <2>1. call = c /\ status = "ok"
    BY <1>2, Goes
  <2> QED BY <1>0, <1>1, <1>2, <2>1, LookAdvances, ChangeAdvances
<1>3. CASE Branch
  <2>1. call = c /\ status = "ok" /\ prog # <<>> /\ Head(prog)[1] = "decide" /\ UNCHANGED <<page, regs, tmp>>
    BY <1>3 DEF Branch, At, sensor
  <2>2. Len(prog) \in Nat /\ Len(prog) >= 1
    BY <1>0, <2>1, TailIndex
  <2>3. CASE Looking(c)
    <3>1. Len(prog) <= 4 /\ Head(prog) = SetPowerMode(c)[(4 - Len(prog)) + 1]
      <4>1. /\ Head(prog) = SetPowerMode(c)[Did(SetPowerMode(c), prog) + 1]
            /\ Did(SetPowerMode(c), prog) \in 0 .. Len(SetPowerMode(c)) - 1
        BY <1>0, <2>1, <2>3, LeftTail, SetPowerTable DEF Looking
      <4>2. Len(SetPowerMode(c)) = 4
        BY SetPowerTable
      <4>3. Did(SetPowerMode(c), prog) = 4 - Len(prog)
        BY <4>2 DEF Did
      <4>4. 4 - Len(prog) \in 0 .. 3
        BY <4>1, <4>2, <4>3
      <4>5. Len(prog) <= 4
        BY <2>2, <4>4, UpToFour
      <4> QED BY <4>1, <4>3, <4>5
    <3>2. Len(prog) = 1 /\ Reg = c
      <4>1. CASE Len(prog) = 4
        BY <2>1, <3>1, <4>1, SetPowerTable DEF Page, WrByte
      <4>2. CASE Len(prog) = 3
        BY <2>1, <3>1, <4>2, SetPowerTable DEF RdByte
      <4>3. CASE Len(prog) = 2
        BY <2>1, <3>1, <4>3, SetPowerTable DEF Page, WrByte
      <4>4. CASE Len(prog) = 1
        BY <3>1, <4>4, SetPowerTable DEF Decide, Reg
      <4>5. Len(prog) \in {1, 2, 3, 4}
        <5>1. Len(prog) <= 4
          BY <3>1
        <5> QED BY <2>2, <5>1, UpToFour
      <4> QED BY <4>1, <4>2, <4>3, <4>4, <4>5
    <3>3. tmp = regs.power /\ tmp \in {2, 4}
      BY <2>3, <3>2 DEF Looking
    <3>4. CASE Mode(tmp) = c
      <4>1. prog' = <<>> /\ Left(ChangePowerMode(c), <<>>)
        BY <1>3, <3>2, <3>4, LeftEnds, ChangePowerTable DEF Branch
      <4>2. regs'.power = Wanted(c)
        BY <2>1, <3>3, <3>4 DEF Mode, Wanted
      <4> QED BY <4>1, <4>2 DEF Changing
    <3>5. CASE Mode(tmp) # c
      <4>1. prog' = ChangePowerMode(c)
        BY <1>3, <3>2, <3>5 DEF Branch
      <4>2. Left(ChangePowerMode(c), prog') /\ Len(prog') = 4
        BY <4>1, LeftEnds, ChangePowerTable
      <4> QED BY <4>2 DEF Changing
    <3> QED BY <3>4, <3>5
  <2>4. CASE Changing(c)
    <3>1. Len(prog) <= 4 /\ Head(prog) = ChangePowerMode(c)[(4 - Len(prog)) + 1]
      <4>1. /\ Head(prog) = ChangePowerMode(c)[Did(ChangePowerMode(c), prog) + 1]
            /\ Did(ChangePowerMode(c), prog) \in 0 .. Len(ChangePowerMode(c)) - 1
        BY <1>0, <2>1, <2>4, LeftTail, ChangePowerTable DEF Changing
      <4>2. Len(ChangePowerMode(c)) = 4
        BY ChangePowerTable
      <4>3. Did(ChangePowerMode(c), prog) = 4 - Len(prog)
        BY <4>2 DEF Did
      <4>4. 4 - Len(prog) \in 0 .. 3
        BY <4>1, <4>2, <4>3
      <4>5. Len(prog) <= 4
        BY <2>2, <4>4, UpToFour
      <4> QED BY <4>1, <4>3, <4>5
    <3>2. (4 - Len(prog)) + 1 \in 1 .. Len(ChangePowerMode(c))
      BY <2>2, <3>1, ChangePowerTable
    <3> QED BY <2>1, <3>1, <3>2, ChangePowerTable DEF Straight
  <2> QED BY <1>1, <2>1, <2>3, <2>4
<1>4. CASE Return \/ Restart \/ Deaf \/ Fault \/ Late
  BY <1>4 DEF Return, Restart, Deaf, Fault, Late
<1>5. CASE Device \/ AutoStop \/ UNCHANGED vars
  <2>1. UNCHANGED <<call, status, prog, tmp, page, regs>>
    BY <1>5 DEF Device, WakeOrSleep, HaltOrGo, Answer, BootUp, AutoStop, vars, sensor
  <2> QED BY <1>1, <2>1 DEF Looking, Changing
<1>6. ASSUME NEW d \in Calls, Call(d) PROVE Looking(c)'
  <2>1. prog' = SetPowerMode(c)
    BY <1>6 DEF Call, Body
  <2>2. Left(SetPowerMode(c), prog') /\ Len(prog') = 4
    BY <2>1, LeftEnds, SetPowerTable
  <2> QED BY <2>2 DEF Looking
<1> QED BY <1>2, <1>3, <1>4, <1>5, <1>6 DEF Next, Access
-----------------------------------------------------------------------------
(* set_i2c_address.                                                         *)

LEMMA AddressTable ==
  ASSUME NEW same \in BOOLEAN
  PROVE  /\ SetAddress(same) \in Programs /\ Straight(SetAddress(same))
         /\ Len(SetAddress(same)) = 3 /\ SetAddress(same)[3] = Page(2)
<1>1. SetAddress(same) \in Programs /\ Straight(SetAddress(same))
  BY SetAddressReturns DEF Returns2
<1> QED BY <1>1 DEF SetAddress

LEMMA AddressInductive == TypeS /\ TypeC /\ AddressInv /\ [Next]_vars => AddressInv'
<1> SUFFICES ASSUME TypeS, TypeC, AddressInv, [Next]_vars, NEW same \in BOOLEAN, NEW c \in Calls,
                    c = IF same THEN "same_address" ELSE "new_address", call' = c, status' = "ok"
             PROVE  Left(SetAddress(same), prog') /\ (prog' = <<>> => here')
  <2>1. "same_address" \in Calls /\ "new_address" \in Calls /\ TRUE \in BOOLEAN /\ FALSE \in BOOLEAN
    BY DEF Calls
  <2> QED BY <2>1 DEF AddressInv, Addressing
<1>0. prog \in Programs
  BY DEF TypeC
<1>1. call = c /\ status = "ok" => Left(SetAddress(same), prog) /\ (prog = <<>> => here)
  BY DEF AddressInv, Addressing
<1>2. CASE (Write \/ Read \/ PollDone \/ Send \/ AnswerDone)
  <2>1. call = c /\ status = "ok" /\ prog # <<>> /\ prog' = Tail(prog)
    BY <1>2, Goes
  <2>2. /\ Left(SetAddress(same), prog') /\ Did(SetAddress(same), prog') = Did(SetAddress(same), prog) + 1
        /\ Head(prog) = SetAddress(same)[Did(SetAddress(same), prog) + 1]
    BY <1>0, <1>1, <2>1, LeftTail, AddressTable
  <2>3. ASSUME prog' = <<>> PROVE here'
    <3>1. Did(SetAddress(same), prog') = 3
      BY <2>3, LeftEnds, AddressTable
    <3>2. Did(SetAddress(same), prog) \in Int
      BY <1>0, <1>1, <2>1, LeftNothing, AddressTable
    <3>3. Head(prog) = Page(2)
      BY <2>2, <3>1, <3>2, AddressTable
    <3>4. Write /\ Reg = "page"
      <4>1. Head(prog)[1] = "wr" /\ Head(prog)[2] = "page"
        BY <3>3 DEF Page, WrByte
      <4> QED BY <1>2, <4>1, Goes DEF Reg
    <3> QED BY <3>4 DEF Write, Store
  <2> QED BY <2>2, <2>3
<1>3. CASE Branch
  <2>1. call = c /\ status = "ok" /\ prog # <<>> /\ Head(prog)[1] = "decide"
    BY <1>3 DEF Branch, At
  <2>2. /\ Head(prog) = SetAddress(same)[Did(SetAddress(same), prog) + 1]
        /\ Did(SetAddress(same), prog) \in 0 .. Len(SetAddress(same)) - 1
    BY <1>0, <1>1, <2>1, LeftTail, AddressTable
  <2>3. Did(SetAddress(same), prog) + 1 \in 1 .. Len(SetAddress(same))
    BY <2>2, AddressTable
  <2> QED BY <2>1, <2>2, <2>3, AddressTable DEF Straight
<1>4. CASE Return \/ Restart \/ Deaf \/ Fault \/ Late
  BY <1>4 DEF Return, Restart, Deaf, Fault, Late
<1>5. CASE Device \/ AutoStop \/ UNCHANGED vars
  <2>1. UNCHANGED <<call, status, prog, here>>
    BY <1>5 DEF Device, WakeOrSleep, HaltOrGo, Answer, BootUp, AutoStop, vars, sensor, firmware
  <2> QED BY <1>1, <2>1
<1>6. ASSUME NEW d \in Calls, Call(d) PROVE Left(SetAddress(same), prog') /\ (prog' = <<>> => here')
  <2>1. prog' = SetAddress(same)
    <3>1. Body["same_address"] = SetAddress(TRUE) /\ Body["new_address"] = SetAddress(FALSE)
      BY DEF Body
    <3>2. prog' = Body[c]
      BY <1>6 DEF Call
    <3>3. CASE same = TRUE
      BY <3>1, <3>2, <3>3
    <3>4. CASE same = FALSE
      BY <3>1, <3>2, <3>4
    <3> QED BY <3>3, <3>4
  <2>2. prog' # <<>>
    BY <2>1, AddressTable
  <2> QED BY <2>1, <2>2, LeftEnds, AddressTable
<1> QED BY <1>2, <1>3, <1>4, <1>5, <1>6 DEF Next, Access
-----------------------------------------------------------------------------
(* The theorem.                                                             *)

Whole == TypeS /\ TypeC /\ TypeB /\ SInv /\ DoneInv

LEMMA DoneInductive == Whole /\ [Next]_vars => Whole'
<1> SUFFICES ASSUME Whole, [Next]_vars PROVE Whole'
  OBVIOUS
<1> USE DEF Whole, DoneInv
<1>1. TypeS' /\ TypeC' /\ TypeB' /\ SInv'
  BY TypesInductive, BooleansInductive, StopInductive
<1>2. RangeInv' /\ AppInv' /\ InitInv' /\ StartInv'
  BY RangeInductive, AppInductive, InitInductive, StartInductive
<1>3. StopInv' /\ PowerInv' /\ AddressInv'
  BY StopRangingInductive, PowerInductive, AddressInductive
<1> QED BY <1>1, <1>2, <1>3

LEMMA DoneStarts == Init => Whole
<1> SUFFICES ASSUME Init PROVE Whole
  OBVIOUS
<1>1. SInv
  BY DEF Init, SInv, Settled
<1>2. RangeInv /\ AppInv /\ InitInv /\ StartInv /\ StopInv /\ PowerInv /\ AddressInv
  BY DEF Init, RangeInv, AppInv, InitInv, StartInv, StopInv, PowerInv, AddressInv, Working, Calls
<1> QED BY <1>1, <1>2, InitTypes DEF Whole, DoneInv

LEMMA DoneMeans == Whole => OkMeansDone
<1> SUFFICES ASSUME Whole PROVE OkMeansDone
  OBVIOUS
<1> USE DEF Returned, Whole, DoneInv
<1>1. ASSUME Returned("init") PROVE Ready
  <2>1. Did(InitSensor, prog) = 43 /\ InitDid(Did(InitSensor, prog))
    BY <1>1, LeftEnds, InitReturns, InitTable DEF InitInv, Returns2
  <2>2. InitDid(43)
    BY <2>1
  <2> QED BY <2>2, InitDone DEF Ready
<1>2. ASSUME Returned("same_address") \/ Returned("new_address") PROVE here
  BY <1>2 DEF AddressInv, Addressing
<1>3. ASSUME entry, Returned("start") PROVE regs.power = 5 /\ (ranging \/ autostop)
  <2>1. Did(StartRanging, prog) = 14 /\ StartDid(Did(StartRanging, prog))
    BY <1>3, LeftEnds, StartReturns, StartTable DEF StartInv, Returns2
  <2> QED BY <2>1 DEF StartDid
<1>4. ASSUME entry, Returned("stop") PROVE regs = PowerOn /\ ~ranging
  <2>1. prog # StopRanging /\ prog # <<Decide("stop")>>
    BY <1>4 DEF StopRanging
  <2>2. Did(LongStop, prog) = 9 /\ StopDid(Did(LongStop, prog))
    BY <1>4, <2>1, LeftEnds, StopPrograms, LongStopTable DEF StopInv
  <2>3. ~ranging /\ regs.stop = 0 /\ regs.mode = 0 /\ regs.power = 4
    BY <2>2 DEF StopDid
  <2>4. regs = PowerOn
    BY <2>3 DEF TypeS, RegsType, PowerOn
  <2> QED BY <2>3, <2>4
<1>5. ASSUME NEW c \in {"sleep", "wakeup"}, Returned(c) PROVE regs.power = Wanted(c)
  BY <1>5 DEF PowerInv, Looking, Changing
<1>6. Wanted("sleep") = 2 /\ Wanted("wakeup") = 4
  BY DEF Wanted
<1> QED BY <1>1, <1>2, <1>3, <1>4, <1>5, <1>6 DEF OkMeansDone

\* A function that returns 0 has done what it is for, whatever failed, was
\* repeated or was cut short before: init has the whole firmware running with
\* every setting answered and neither ranging nor a stop request left over,
\* start_ranging has the sensor ranging, stop_ranging has it idle with its
\* registers as after power-on, set_power_mode has set the register.
THEOREM OkIsDone == Spec => []OkMeansDone
BY DoneStarts, DoneInductive, DoneMeans, PTL DEF Spec
=============================================================================
