------------------------------ MODULE TofMemory ------------------------------
(***************************************************************************)
(* Bytes, the 16-bit register space of the VL53L5CX and ranges of it.      *)
(* ByteBase is the number of values of a byte (256 in the hardware); the   *)
(* register index is a pair of bytes, so there are ByteBase^2 registers.   *)
(***************************************************************************)
EXTENDS Integers

CONSTANTS ByteBase,   \* the number of values of a byte
          MaxLen,     \* the longest transfer, the size of a user buffer
          PowerOn     \* what the sensor's registers hold at first

ASSUME ByteBaseAssumption == ByteBase \in Nat /\ ByteBase > 1
ASSUME MaxLenAssumption   == MaxLen \in Nat /\ MaxLen > 0 /\ MaxLen < ByteBase * ByteBase

Byte    == 0 .. ByteBase - 1
NumRegs == ByteBase * ByteBase
Reg     == 0 .. NumRegs - 1
Offset  == 0 .. MaxLen - 1
UserBuffer == [Offset -> Byte]

ASSUME PowerOnAssumption == PowerOn \in [Reg -> Byte]

\* The (uint16_t) register arithmetic, and the two bytes of a register index.
Wrap(a)     == a % NumRegs
\* Mutant: the high byte is not cut to a byte.
HighByteUncut(a) == a \div ByteBase
HighByte(a) == Wrap(a) \div ByteBase
LowByte(a)  == Wrap(a) % ByteBase
Address(high, low) == high * ByteBase + low

\* Where register r lies in a run of registers that starts at a.
Distance(a, r) == (r - a) % NumRegs

\* One ioctl: struct stmvl53l5cx_comms_struct and what its buf points to.
Call == [write : BOOLEAN, reg : Reg, len : 0 .. MaxLen, data : UserBuffer]
NoCall == [write |-> FALSE, reg |-> 0, len |-> 0, data |-> [i \in Offset |-> 0]]

\* Bytes first .. first + n - 1 of a user buffer moved to, or from, the
\* registers that start at reg.
PutRange(registers, reg, buf, first, n) ==
  [r \in Reg |-> IF Distance(reg, r) \in first .. first + n - 1
                 THEN buf[Distance(reg, r)] ELSE registers[r]]
GetRange(registers, reg, buf, first, n) ==
  [i \in Offset |-> IF i \in first .. first + n - 1
                    THEN registers[Wrap(reg + i)] ELSE buf[i]]
=============================================================================
