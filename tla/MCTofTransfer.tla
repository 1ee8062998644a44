--------------------------- MODULE MCTofTransfer ---------------------------
(***************************************************************************)
(* TofTransfer and I2cTransfer for TLC: bytes of 4 values, 16 registers,   *)
(* chunks of 4 bytes. All the ways to the registers keep the promise of    *)
(* RegisterTransfer, so they are checked for the same properties; which    *)
(* one is taken is chosen in the initial state.                            *)
(***************************************************************************)
EXTENDS TofTransfer, TLC

CONSTANTS c1, c2

VARIABLE path

Pattern == [i \in Offset |-> 3 - (i % 4)]
Ramp    == [r \in Reg |-> r % 4]
Zeros   == [i \in Offset |-> 0]

Write(reg, len) == [write |-> TRUE, reg |-> reg, len |-> len, data |-> Pattern]
Read(reg, len)  == [write |-> FALSE, reg |-> reg, len |-> len, data |-> Zeros]

\* Lengths of no chunk, one full chunk and several, runs of registers in the
\* middle and across the end of the 16-bit space. The second process uses
\* registers of its own.
TwoClients == {c1, c2}
OneCalls == c1 :> ({Write(3, n) : n \in {0, 2, 5}} \cup {Write(14, 3), Write(4, 1)}
                   \cup {Read(2, n) : n \in {0, 4, 5}} \cup {Read(13, 5)})
            @@ c2 :> {Read(8, 5), Write(9, 3)}

\* Some of these on the i2c-dev bus, where two processes meet.
DevCalls == c1 :> {Write(3, 5), Read(13, 5)} @@ c2 :> {Read(8, 5), Write(9, 3)}

\* Two processes that read registers neither of them writes.
TwoCalls == c1 :> {Read(0, 4)} @@ c2 :> {Read(6, 4)}

Probe  == INSTANCE I2cTransfer WITH position <- index, Combined <- FALSE
I2cDev == INSTANCE I2cTransfer WITH position <- index, Combined <- TRUE, CallsOf <- DevCalls
-----------------------------------------------------------------------------
\* One process alone, inside the ioctl or the probe; two on the i2c-dev bus.
OnIoctl(c)  == path = "ioctl" /\ c = c1 /\ UNCHANGED path
OnProbe(c)  == path = "probe" /\ c = c1 /\ UNCHANGED <<path, raw_data_buffer>>
OnI2cDev(c) == path = "i2cdev" /\ UNCHANGED <<path, raw_data_buffer>>

Work(c) ==
  \/ OnIoctl(c) /\ Step(c)
  \/ OnProbe(c) /\ Probe!Step(c)
  \/ OnI2cDev(c) /\ I2cDev!Step(c)

PathsNext ==
  \E c \in Clients :
     \/ Work(c)
     \/ OnIoctl(c) /\ (Begin(c) \/ BadArgument(c))
     \/ OnProbe(c) /\ Probe!Begin(c)
     \/ OnI2cDev(c) /\ I2cDev!Begin(c)

PathsInit == Init /\ path \in {"ioctl", "probe", "i2cdev"}

\* The fairness is that of TofTransfer: a call that was made is carried on.
PathsSpec ==
  /\ PathsInit
  /\ [][PathsNext]_<<vars, path>>
  /\ \A c \in Clients : WF_<<vars, path>>(Work(c))

\* Two processes inside the ioctl.
IoctlSpec == PathsInit /\ path = "ioctl" /\ [][Next /\ UNCHANGED path]_<<vars, path>>
=============================================================================
