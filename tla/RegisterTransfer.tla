-------------------------- MODULE RegisterTransfer --------------------------
(***************************************************************************)
(* What ST_TOF_IOCTL_TRANSFER promises its caller: the bytes of the user   *)
(* buffer and the sensor's registers move in order, each exactly once, and *)
(* no other register is touched. Chunks, the kernel's bounce buffer and    *)
(* the sensor's address pointer do not exist here.                         *)
(***************************************************************************)
EXTENDS TofMemory

CONSTANTS Clients,   \* the processes that hold /dev/stmvl53l5cx open
          CallsOf    \* the ioctls each of them may issue

VARIABLES registers,   \* the sensor's registers
          ubuf,        \* the user buffer of each client
          req,         \* the call each client is in, or was in last
          done,        \* how many bytes of it have moved
          busy,        \* the clients inside the ioctl
          ret          \* what the last ioctl of each client returned
vars == <<registers, ubuf, req, done, busy, ret>>

Init ==
  /\ registers = PowerOn
  /\ ubuf = [c \in Clients |-> NoCall.data]
  /\ req  = [c \in Clients |-> NoCall]
  /\ done = [c \in Clients |-> 0]
  /\ busy = {}
  /\ ret  = [c \in Clients |-> "none"]

Begin(c) ==
  /\ c \notin busy
  /\ \E k \in CallsOf[c] :
        /\ req'  = [req  EXCEPT ![c] = k]
        /\ ubuf' = [ubuf EXCEPT ![c] = k.data]
  /\ done' = [done EXCEPT ![c] = 0]
  /\ busy' = busy \cup {c}
  /\ ret'  = [ret EXCEPT ![c] = "none"]
  /\ UNCHANGED registers

\* The argument block itself cannot be read.
Refuse(c) ==
  /\ c \notin busy
  /\ ret' = [ret EXCEPT ![c] = "EINVAL"]
  /\ UNCHANGED <<registers, ubuf, req, done, busy>>

\* The next n bytes change place.
Shift(c, n) ==
  IF req[c].write
  THEN /\ registers' = PutRange(registers, req[c].reg, ubuf[c], done[c], n)
       /\ UNCHANGED ubuf
  ELSE /\ ubuf' = [ubuf EXCEPT ![c] = GetRange(registers, req[c].reg, @, done[c], n)]
       /\ UNCHANGED registers

\* Some more bytes move; the call returns when they were the last.
Move(c) ==
  /\ c \in busy
  /\ \E n \in 0 .. req[c].len - done[c] :
        /\ n = 0 => req[c].len = 0
        /\ Shift(c, n)
        /\ done' = [done EXCEPT ![c] = @ + n]
        /\ IF done[c] + n < req[c].len
           THEN UNCHANGED <<busy, ret>>
           ELSE busy' = busy \ {c} /\ ret' = [ret EXCEPT ![c] = "OK"]
  /\ UNCHANGED req

\* The call fails; a few more bytes than the caller knows of may have moved.
Abort(c) ==
  /\ c \in busy
  /\ \E n \in 0 .. req[c].len - done[c] : Shift(c, n)
  /\ busy' = busy \ {c}
  /\ \E code \in {"EIO", "EINVAL"} : ret' = [ret EXCEPT ![c] = code]
  /\ UNCHANGED <<req, done>>

Next == \E c \in Clients : Begin(c) \/ Refuse(c) \/ Move(c) \/ Abort(c)

Spec == Init /\ [][Next]_vars
=============================================================================
