-------------------------- MODULE TofTransferProofs --------------------------
(***************************************************************************)
(* Proofs about TofTransfer, for every byte base, buffer and chunk size.   *)
(* Part 1: the arithmetic of registers. Part 2: types and buffer bounds,   *)
(* for any number of processes. Part 3: with one process, what a transfer  *)
(* delivers, and that the driver implements RegisterTransfer. Part 4: so   *)
(* does I2cTransfer, on the i2c-dev bus with any number of processes.      *)
(* Part 5: what RegisterTransfer delivers to processes that use registers  *)
(* of their own, and with it each of its implementations.                  *)
(***************************************************************************)
EXTENDS TofTransfer, TLAPS

(* The remainder is unique, so Wrap and Distance are what one expects.     *)
LEMMA ModUnique ==
  ASSUME NEW m \in Nat \ {0}, NEW q \in Int, NEW d \in 0 .. m - 1
  PROVE  (m * q + d) % m = d
<1> DEFINE x == m * q + d
           p == x \div m
           e == x % m
<1>1. x \in Int /\ p \in Int /\ e \in 0 .. m - 1
  OBVIOUS
<1>2. x = m * p + e
  OBVIOUS
<1>3. m * (q - p) = e - d
  BY <1>1, <1>2
<1>4. q - p < 1
  <2> SUFFICES ASSUME q - p >= 1 PROVE FALSE
    BY <1>1
  <2>1. m * (q - p) >= m
    BY <1>1
  <2> QED BY <2>1, <1>1, <1>3
<1>5. q - p > -1
  <2> SUFFICES ASSUME q - p <= -1 PROVE FALSE
    BY <1>1
  <2>1. m * (p - q) >= m
    BY <1>1
  <2>2. m * (p - q) = d - e
    BY <1>1, <1>2
  <2> QED BY <2>1, <2>2, <1>1
<1>6. q - p = 0
  BY <1>1, <1>4, <1>5
<1> HIDE DEF x, p, e
<1>7. e = d
  BY <1>1, <1>3, <1>6
<1> QED BY <1>7 DEF e, x

LEMMA NumRegsType == NumRegs \in Nat /\ NumRegs > MaxLen /\ NumRegs > 1
BY ByteBaseAssumption, MaxLenAssumption DEF NumRegs

LEMMA WrapType == \A a \in Int : Wrap(a) \in Reg
BY NumRegsType DEF Wrap, Reg

LEMMA WrapOnce ==
  ASSUME NEW a \in Int
  PROVE  /\ (0 <= a /\ a < NumRegs) => Wrap(a) = a
         /\ (NumRegs <= a /\ a < 2 * NumRegs) => Wrap(a) = a - NumRegs
         /\ (-NumRegs <= a /\ a < 0) => Wrap(a) = a + NumRegs
<1> DEFINE m == NumRegs
<1>0. m \in Nat \ {0}
  BY NumRegsType
<1> HIDE DEF m
<1>1. ASSUME 0 <= a, a < m PROVE a % m = a
  BY <1>0, <1>1, ModUnique, m * 0 = 0
<1>2. ASSUME m <= a, a < 2 * m PROVE a % m = a - m
  BY <1>0, <1>2, ModUnique, a = m * 1 + (a - m), a - m \in 0 .. m - 1
<1>3. ASSUME -m <= a, a < 0 PROVE a % m = a + m
  BY <1>0, <1>3, ModUnique, a = m * (-1) + (a + m), a + m \in 0 .. m - 1
<1> QED BY <1>1, <1>2, <1>3 DEF m, Wrap

LEMMA DistanceIs ==
  ASSUME NEW a \in Reg, NEW r \in Reg
  PROVE  Distance(a, r) = IF r >= a THEN r - a ELSE r - a + NumRegs
<1>1. Distance(a, r) = Wrap(r - a)
  BY DEF Distance, Wrap
<1> QED BY <1>1, WrapOnce, NumRegsType DEF Reg

LEMMA DistanceType == \A a \in Int, r \in Int : Distance(a, r) \in Nat
BY NumRegsType DEF Distance

LEMMA AddressType ==
  ASSUME NEW high \in Byte, NEW low \in Byte
  PROVE  Address(high, low) \in Reg
<1>1. high * ByteBase <= (ByteBase - 1) * ByteBase
  BY ByteBaseAssumption DEF Byte
<1>2. high * ByteBase \in Nat
  BY ByteBaseAssumption DEF Byte
<1>3. (ByteBase - 1) * ByteBase = ByteBase * ByteBase - ByteBase
  BY ByteBaseAssumption
<1> QED BY <1>1, <1>2, <1>3, ByteBaseAssumption, NumRegsType DEF Address, Reg, Byte, NumRegs

\* The sensor puts together the index that the driver took apart (251-252).
LEMMA AddressBytes ==
  ASSUME NEW a \in Int
  PROVE  /\ HighByte(a) \in Byte
         /\ LowByte(a) \in Byte
         /\ Address(HighByte(a), LowByte(a)) = Wrap(a)
<1> DEFINE w == Wrap(a)
           B == ByteBase
<1>1. w \in 0 .. B * B - 1 /\ B \in Nat /\ B > 1
  BY WrapType, ByteBaseAssumption DEF Reg, NumRegs
<1> HIDE DEF w, B
<1>2. w % B \in 0 .. B - 1 /\ w \div B \in Int /\ w \div B >= 0
  BY <1>1
<1>3. B * (w \div B) + (w % B) = w
  BY <1>1
<1>4. w \div B < B
  <2> SUFFICES ASSUME w \div B >= B PROVE FALSE
    BY <1>1, <1>2
  <2>1. B * (w \div B) >= B * B
    BY <1>1, <1>2
  <2> QED BY <2>1, <1>1, <1>2, <1>3
<1>5. (w \div B) * B = B * (w \div B)
  BY <1>1, <1>2
<1> QED BY <1>1, <1>2, <1>3, <1>4, <1>5 DEF w, B, HighByte, LowByte, Address, Byte
-----------------------------------------------------------------------------
(* Types and bounds, for any set of processes.                             *)

\* A call follows the branch of its direction and never overshoots.
PathOK ==
  \A c \in Clients :
     /\ pc[c] \in {"copyin", "send"} => req[c].write
     /\ pc[c] \in {"sendptr", "receive", "copyout"} => ~req[c].write
     /\ index[c] <= req[c].len
     /\ pc[c] # "idle" => index[c] < req[c].len \/ req[c].len = 0

TypeInv == TypeOK /\ PathOK

LEMMA NoCallType == NoCall \in Call
BY NumRegsType, MaxLenAssumption, ByteBaseAssumption
   DEF NoCall, Call, UserBuffer, Offset, Byte, Reg

\* The loop body (244-246) moves at least one byte unless none is left, and
\* never more than are left or than the chunk allows.
LEMMA TransferSizeBounds ==
  ASSUME TypeInv, NEW c \in Clients
  PROVE  /\ TransferSize(c) \in Nat
         /\ TransferSize(c) <= ChunkLimit(c)
         /\ ChunkLimit(c) \in Nat /\ ChunkLimit(c) <= ChunkSize
         /\ req[c].write => ChunkLimit(c) + 2 = ChunkSize
         /\ index[c] + TransferSize(c) <= req[c].len
         /\ index[c] < req[c].len => TransferSize(c) > 0
         /\ index[c] \in Nat /\ req[c].len \in 0 .. MaxLen /\ req[c].reg \in Reg
<1>1. /\ req[c].len \in 0 .. MaxLen
      /\ req[c].reg \in Reg
      /\ index[c] \in 0 .. MaxLen
      /\ index[c] <= req[c].len
  BY DEF TypeInv, TypeOK, PathOK, Call
<1>2. /\ ChunkLimit(c) \in Nat /\ ChunkLimit(c) <= ChunkSize /\ ChunkLimit(c) > 0
      /\ req[c].write => ChunkLimit(c) + 2 = ChunkSize
  BY ChunkAssumption DEF ChunkLimit
<1>3. req[c].len - index[c] \in Nat
  BY <1>1, MaxLenAssumption
<1> QED BY <1>1, <1>2, <1>3, MaxLenAssumption DEF TransferSize

\* The bytes of user memory that copy_from_user brings in are bytes.
LEMMA CopyFromUserType ==
  ASSUME TypeInv, NEW c \in Clients, NEW n \in 0 .. TransferSize(c)
  PROVE  CopyFromUser(c, n) \in [Cell -> Byte]
<1>1. ubuf[c] \in [Offset -> Byte] /\ raw_data_buffer \in [Cell -> Byte] /\ 0 \in Byte
  BY ByteBaseAssumption DEF TypeInv, TypeOK, UserBuffer, Byte
<1>2. \A i \in Cell : i - 2 \in 0 .. n - 1 => index[c] + i - 2 \in Offset
  BY TransferSizeBounds, ChunkAssumption, MaxLenAssumption DEF Cell, Offset
<1> QED BY <1>1, <1>2 DEF CopyFromUser

LEMMA Address0Type ==
  ASSUME TypeOK
  PROVE  Address0 \in Reg
<1>1. raw_data_buffer[0] \in Byte /\ raw_data_buffer[1] \in Byte
  BY ChunkAssumption DEF TypeOK, Cell
<1> QED BY <1>1, AddressType DEF Address0

\* The sensor stores no more than the chunk, so it reads inside the buffer.
LEMMA SensorStoresType ==
  ASSUME TypeInv, NEW c \in Clients, req[c].write,
         NEW n \in 0 .. TransferSize(c), SensorStores(n)
  PROVE  registers' \in [Reg -> Byte] /\ pointer' \in Reg
<1>1. Address0 \in Int
  BY Address0Type, NumRegsType DEF TypeInv, Reg
<1>2. \A r \in Reg : Distance(Address0, r) \in Nat
  <2>1. \A r \in Reg : r \in Int
    BY NumRegsType DEF Reg
  <2> QED BY <1>1, <2>1, DistanceType
<1>3. n + 2 <= ChunkSize /\ n \in Nat
  BY TransferSizeBounds, ChunkAssumption
<1>4. \A r \in Reg : Distance(Address0, r) < n => 2 + Distance(Address0, r) \in Cell
  BY <1>2, <1>3, ChunkAssumption DEF Cell
<1>5. pointer' \in Reg
  BY <1>1, <1>3, WrapType DEF SensorStores
<1> QED BY <1>4, <1>5 DEF SensorStores, TypeInv, TypeOK

LEMMA SensorLoadsType ==
  ASSUME TypeInv, NEW c \in Clients, NEW n \in 0 .. TransferSize(c), SensorLoads(n)
  PROVE  raw_data_buffer' \in [Cell -> Byte] /\ pointer' \in Reg
<1>1. pointer \in Int /\ n \in Nat
  BY NumRegsType, TransferSizeBounds DEF TypeInv, TypeOK, Reg
<1>2. \A i \in Cell : Wrap(pointer + i) \in Reg
  BY <1>1, WrapType DEF Cell
<1>3. raw_data_buffer' \in [Cell -> Byte]
  BY <1>2 DEF SensorLoads, TypeInv, TypeOK
<1>4. pointer' \in Reg
  BY <1>1, WrapType DEF SensorLoads
<1> QED BY <1>3, <1>4

LEMMA CopyToUserType ==
  ASSUME TypeInv, NEW c \in Clients, NEW n \in 0 .. TransferSize(c), CopyToUser(c, n)
  PROVE  ubuf' \in [Clients -> UserBuffer]
<1>1. n <= ChunkSize /\ n \in Nat /\ index[c] \in Nat
  BY TransferSizeBounds, ChunkAssumption
<1>2. \A i \in Offset : i - index[c] \in 0 .. n - 1 => i - index[c] \in Cell
  BY <1>1, ChunkAssumption DEF Offset, Cell
<1> QED BY <1>2 DEF CopyToUser, TypeInv, TypeOK, UserBuffer

\* The types and the course of a call are kept by every step.
LEMMA TypeInvInductive == TypeInv /\ [Next]_vars => TypeInv'
<1> SUFFICES ASSUME TypeInv, [Next]_vars PROVE TypeInv'
  OBVIOUS
<1> USE DEF TypeInv, TypeOK, PathOK
<1>1. ASSUME NEW c \in Clients, Begin(c) PROVE TypeInv'
  <2>1. PICK k \in CallsOf[c] : req' = [req EXCEPT ![c] = k] /\ ubuf' = [ubuf EXCEPT ![c] = k.data]
    BY <1>1 DEF Begin
  <2>2. k \in Call
    BY CallsAssumption
  <2>3. req' \in [Clients -> Call] /\ ubuf' \in [Clients -> UserBuffer]
    BY <2>1, <2>2 DEF Call
  <2>4. index' \in [Clients -> 0 .. MaxLen] /\ pc' \in [Clients -> Label] /\ ret' \in [Clients -> Result]
    BY <1>1, MaxLenAssumption DEF Begin, Label, Result
  <2>5. PathOK'
    BY <1>1, <2>1, <2>2, MaxLenAssumption DEF Begin, Call
  <2> QED BY <1>1, <2>3, <2>4, <2>5 DEF Begin
<1>2. ASSUME NEW c \in Clients, BadArgument(c) PROVE TypeInv'
  BY <1>2 DEF BadArgument, Return, Label, Result
<1>3. ASSUME NEW c \in Clients, SetRegister(c) PROVE TypeInv'
  <2>1. HighByte(req[c].reg + index[c]) \in Byte /\ LowByte(req[c].reg + index[c]) \in Byte
    BY AddressBytes, TransferSizeBounds, NumRegsType DEF Reg
  <2>2. raw_data_buffer' \in [Cell -> Byte]
    BY <1>3, <2>1 DEF SetRegister
  <2>3. pc' \in [Clients -> Label] /\ PathOK'
    BY <1>3 DEF SetRegister, Goto, Label
  <2> QED BY <1>3, <2>2, <2>3 DEF SetRegister, Goto
<1>4. ASSUME NEW c \in Clients, CopyIn(c) PROVE TypeInv'
  <2>1. raw_data_buffer' \in [Cell -> Byte]
    BY <1>4, CopyFromUserType, TransferSizeBounds DEF CopyIn
  <2> QED BY <1>4, <2>1 DEF CopyIn, Goto, Label
<1>5. ASSUME NEW c \in Clients, CopyInFault(c) PROVE TypeInv'
  <2>1. raw_data_buffer' \in [Cell -> Byte]
    BY <1>5, CopyFromUserType, TransferSizeBounds DEF CopyInFault
  <2> QED BY <1>5, <2>1 DEF CopyInFault, Return, Label, Result
<1>6. ASSUME NEW c \in Clients, Advance(c), UNCHANGED req
      PROVE  /\ index' \in [Clients -> 0 .. MaxLen] /\ pc' \in [Clients -> Label]
             /\ ret' \in [Clients -> Result] /\ PathOK'
  <2>1. index' = [index EXCEPT ![c] = index[c] + TransferSize(c)]
    BY <1>6 DEF Advance
  <2>2. index[c] + TransferSize(c) \in 0 .. MaxLen /\ index[c] + TransferSize(c) <= req[c].len
    BY TransferSizeBounds, MaxLenAssumption
  <2>3. pc' \in [Clients -> Label] /\ ret' \in [Clients -> Result]
    BY <1>6 DEF Advance, Goto, Return, Label, Result
  <2>4. \A d \in Clients : d # c => pc'[d] = pc[d]
    BY <1>6 DEF Advance, Goto, Return
  <2>5. pc'[c] = "idle" \/ (pc'[c] = "chunk" /\ index'[c] < req[c].len)
    BY <1>6, <2>1 DEF Advance, Goto, Return
  <2>6. PathOK'
    BY <1>6, <2>1, <2>2, <2>4, <2>5
  <2> QED BY <2>1, <2>2, <2>3, <2>6
<1>7. ASSUME NEW c \in Clients, SendMessage(c) PROVE TypeInv'
  <2>1. registers' \in [Reg -> Byte] /\ pointer' \in Reg
    BY <1>7, SensorStoresType, TransferSizeBounds DEF SendMessage
  <2> QED BY <1>6, <1>7, <2>1 DEF SendMessage
<1>8. ASSUME NEW c \in Clients, SendFault(c) PROVE TypeInv'
  <2>1. registers' \in [Reg -> Byte] /\ pointer' \in Reg
    BY <1>8, SensorStoresType DEF SendFault
  <2> QED BY <1>8, <2>1 DEF SendFault, Return, Label, Result
<1>9. ASSUME NEW c \in Clients, SendPointer(c) PROVE TypeInv'
  BY <1>9, Address0Type DEF SendPointer, Goto, Label
<1>10. ASSUME NEW c \in Clients, SendPointerFault(c) PROVE TypeInv'
  BY <1>10, Address0Type DEF SendPointerFault, Return, Label, Result
<1>11. ASSUME NEW c \in Clients, ReceiveMessage(c) PROVE TypeInv'
  <2>1. raw_data_buffer' \in [Cell -> Byte] /\ pointer' \in Reg
    BY <1>11, SensorLoadsType, TransferSizeBounds DEF ReceiveMessage
  <2> QED BY <1>11, <2>1 DEF ReceiveMessage, Goto, Label
<1>12. ASSUME NEW c \in Clients, ReceiveFault(c) PROVE TypeInv'
  <2>1. raw_data_buffer' \in [Cell -> Byte] /\ pointer' \in Reg
    BY <1>12, SensorLoadsType DEF ReceiveFault
  <2> QED BY <1>12, <2>1 DEF ReceiveFault, Return, Label, Result
<1>13. ASSUME NEW c \in Clients, CopyOut(c) PROVE TypeInv'
  <2>1. ubuf' \in [Clients -> UserBuffer]
    BY <1>13, CopyToUserType, TransferSizeBounds DEF CopyOut
  <2> QED BY <1>6, <1>13, <2>1 DEF CopyOut
<1>14. ASSUME NEW c \in Clients, CopyOutFault(c) PROVE TypeInv'
  <2>1. ubuf' \in [Clients -> UserBuffer]
    BY <1>14, CopyToUserType, TransferSizeBounds DEF CopyOutFault
  <2> QED BY <1>14, <2>1 DEF CopyOutFault, Return, Label, Result
<1>15. CASE UNCHANGED vars
  BY <1>15 DEF vars
<1> QED
  BY <1>1, <1>2, <1>3, <1>4, <1>5, <1>7, <1>8, <1>9, <1>10, <1>11, <1>12, <1>13, <1>14, <1>15
     DEF Next, Step, WriteStep, ReadStep

LEMMA TypeInvInit == Init => TypeInv
BY NoCallType, PowerOnAssumption, NumRegsType, MaxLenAssumption, ByteBaseAssumption
   DEF Init, TypeInv, TypeOK, PathOK, Cell, Byte, Reg, Label, Result, NoCall, Call, Offset, UserBuffer

\* TofTransfer never leaves its types: no register, byte or offset is out of
\* range, whoever interleaves with whom.
THEOREM TypeCorrect == Spec => []TypeOK
<1>1. TypeInv => TypeOK
  BY DEF TypeInv
<1> QED BY <1>1, TypeInvInit, TypeInvInductive, PTL DEF Spec

\* No chunk runs past the end of raw_data_buffer, for every length and chunk
\* size and any number of concurrent callers.
THEOREM BufferSafety == Spec => []MessageFitsBuffer
<1>1. TypeInv => MessageFitsBuffer
  BY TransferSizeBounds, ChunkAssumption DEF MessageFitsBuffer, TypeInv, PathOK
<1> QED BY <1>1, TypeInvInit, TypeInvInductive, PTL DEF Spec
-----------------------------------------------------------------------------
(* One process: nobody else moves the sensor's pointer or uses the buffer. *)

OneClient == \A c, d \in Clients : c = d

\* What is under way: the address of the chunk, then its payload.
Staged(c) ==
  LET at == req[c].reg + index[c]
  IN  /\ pc[c] \in {"copyin", "send", "sendptr"} =>
            raw_data_buffer[0] = HighByte(at) /\ raw_data_buffer[1] = LowByte(at)
      /\ pc[c] = "send" => \A i \in 0 .. TransferSize(c) - 1 :
            raw_data_buffer[2 + i] = ubuf[c][index[c] + i]
      /\ pc[c] = "receive" => pointer = Wrap(at)
      /\ pc[c] = "copyout" => \A i \in 0 .. TransferSize(c) - 1 :
            raw_data_buffer[i] = registers[Wrap(at + i)]

IInv == TypeInv /\ \A c \in Clients : PrefixMoved(c) /\ Staged(c)

LEMMA DistanceWrap ==
  ASSUME NEW a \in Reg, NEW i \in 0 .. MaxLen
  PROVE  Wrap(a + i) \in Reg /\ Distance(a, Wrap(a + i)) = i
<1>1. a \in Int /\ i \in Int /\ 0 <= a /\ a < NumRegs /\ 0 <= i /\ i < NumRegs
  BY NumRegsType, MaxLenAssumption DEF Reg
<1>2. Wrap(a + i) = IF a + i < NumRegs THEN a + i ELSE a + i - NumRegs
  BY <1>1, WrapOnce, NumRegsType
<1>3. Wrap(a + i) \in Reg
  BY <1>1, WrapType
<1> QED BY <1>1, <1>2, <1>3, DistanceIs, NumRegsType

\* A run that starts k registers further on.
LEMMA DistanceShift ==
  ASSUME NEW a \in Reg, NEW r \in Reg, NEW k \in Nat, NEW n \in Nat, k + n <= MaxLen
  PROVE  /\ Distance(Wrap(a + k), r) < n <=> Distance(a, r) \in k .. k + n - 1
         /\ Distance(a, r) \in k .. k + n - 1 => Distance(Wrap(a + k), r) = Distance(a, r) - k
<1>1. /\ a \in Int /\ 0 <= a /\ a < NumRegs /\ r \in Int /\ 0 <= r /\ r < NumRegs
      /\ MaxLen \in Nat /\ MaxLen < NumRegs /\ NumRegs \in Nat
  BY NumRegsType, MaxLenAssumption DEF Reg
<1>2. Wrap(a + k) = IF a + k < NumRegs THEN a + k ELSE a + k - NumRegs
  BY <1>1, WrapOnce
<1>3. Wrap(a + k) \in Reg
  BY <1>1, WrapType
<1>4. Distance(Wrap(a + k), r) = IF r >= Wrap(a + k) THEN r - Wrap(a + k)
                                 ELSE r - Wrap(a + k) + NumRegs
  BY <1>3, DistanceIs
<1>5. Distance(a, r) = IF r >= a THEN r - a ELSE r - a + NumRegs
  BY DistanceIs
<1> QED BY <1>1, <1>2, <1>4, <1>5

LEMMA WrapShift ==
  ASSUME NEW a \in Reg, NEW k \in Nat, NEW i \in Nat, k + i <= MaxLen
  PROVE  Wrap(Wrap(a + k) + i) = Wrap(a + k + i)
<1>1. /\ a \in Int /\ 0 <= a /\ a < NumRegs
      /\ MaxLen \in Nat /\ MaxLen < NumRegs /\ NumRegs \in Nat
  BY NumRegsType, MaxLenAssumption DEF Reg
<1>2. Wrap(a + k) = IF a + k < NumRegs THEN a + k ELSE a + k - NumRegs
  BY <1>1, WrapOnce
<1>3. CASE a + k < NumRegs
  BY <1>2, <1>3
<1>4. CASE a + k >= NumRegs
  <2>1. Wrap(a + k + i) = a + k + i - NumRegs
    BY <1>1, <1>4, WrapOnce
  <2>2. Wrap(a + k - NumRegs + i) = a + k - NumRegs + i
    BY <1>1, <1>4, WrapOnce
  <2> QED BY <1>1, <1>2, <1>4, <2>1, <2>2
<1> QED BY <1>1, <1>3, <1>4

\* What the sensor takes off the bus is the next part of the user's buffer,
\* stored where the user asked for it.
LEMMA StoreIsPut ==
  ASSUME IInv, NEW c \in Clients, pc[c] = "send", NEW n \in 0 .. TransferSize(c), SensorStores(n)
  PROVE  registers' = PutRange(registers, req[c].reg, ubuf[c], index[c], n)
<1> DEFINE a == req[c].reg
           k == index[c]
<1>0. TypeInv /\ Staged(c)
  BY DEF IInv
<1>1. /\ a \in Reg /\ a \in Int /\ k \in Nat /\ n \in Nat /\ n <= TransferSize(c)
      /\ k + n <= MaxLen /\ TransferSize(c) \in Nat
  BY <1>0, TransferSizeBounds, NumRegsType, MaxLenAssumption DEF Reg
<1>2. Address0 = Wrap(a + k)
  BY <1>0, <1>1, AddressBytes DEF Staged, Address0
<1>3. \A i \in 0 .. n - 1 : raw_data_buffer[2 + i] = ubuf[c][k + i]
  BY <1>0, <1>1 DEF Staged
<1> HIDE DEF a, k
<1>4. ASSUME NEW r \in Reg
      PROVE  (IF Distance(Address0, r) < n THEN raw_data_buffer[2 + Distance(Address0, r)]
              ELSE registers[r])
             = (IF Distance(a, r) \in k .. k + n - 1 THEN ubuf[c][Distance(a, r)] ELSE registers[r])
  <2>1. CASE Distance(a, r) \in k .. k + n - 1
    <3>1. Distance(Address0, r) < n /\ Distance(Address0, r) = Distance(a, r) - k
      BY <1>1, <1>2, <2>1, DistanceShift
    <3>2. Distance(a, r) - k \in 0 .. n - 1 /\ k + (Distance(a, r) - k) = Distance(a, r)
      BY <1>1, <2>1
    <3>3. raw_data_buffer[2 + (Distance(a, r) - k)] = ubuf[c][Distance(a, r)]
      BY <1>3, <3>2
    <3> QED BY <2>1, <3>1, <3>3
  <2>2. CASE ~(Distance(a, r) \in k .. k + n - 1)
    <3>1. ~(Distance(Address0, r) < n)
      BY <1>1, <1>2, <2>2, DistanceShift
    <3> QED BY <2>2, <3>1
  <2> QED BY <2>1, <2>2
<1> QED BY <1>4 DEF SensorStores, PutRange, a, k

\* What copy_to_user delivers is the next part of the registers asked for.
LEMMA CopyIsGet ==
  ASSUME IInv, NEW c \in Clients, pc[c] = "copyout", NEW n \in 0 .. TransferSize(c), CopyToUser(c, n)
  PROVE  ubuf' = [ubuf EXCEPT ![c] = GetRange(registers, req[c].reg, @, index[c], n)]
<1> DEFINE a == req[c].reg
           k == index[c]
<1>0. TypeInv /\ Staged(c)
  BY DEF IInv
<1>1. /\ a \in Int /\ k \in Nat /\ n \in Nat /\ n <= TransferSize(c) /\ TransferSize(c) \in Nat
  BY <1>0, TransferSizeBounds, NumRegsType DEF Reg
<1>2. ASSUME NEW i \in Offset
      PROVE  (IF i - k \in 0 .. n - 1 THEN raw_data_buffer[i - k] ELSE ubuf[c][i])
             = (IF i \in k .. k + n - 1 THEN registers[Wrap(a + i)] ELSE ubuf[c][i])
  <2>0. i \in Nat
    BY MaxLenAssumption DEF Offset
  <2>1. i - k \in 0 .. n - 1 <=> i \in k .. k + n - 1
    BY <1>1, <2>0
  <2>2. ASSUME i - k \in 0 .. n - 1 PROVE raw_data_buffer[i - k] = registers[Wrap(a + i)]
    <3>1. i - k \in 0 .. TransferSize(c) - 1 /\ a + k + (i - k) = a + i
      BY <1>1, <2>0, <2>2
    <3> QED BY <1>0, <3>1 DEF Staged
  <2> QED BY <2>1, <2>2
<1> QED BY <1>2 DEF CopyToUser, GetRange

\* Bytes that have moved before stay where they are when the next ones move.
LEMMA PutKeepsPrefix ==
  ASSUME IInv, NEW c \in Clients, NEW n \in 0 .. TransferSize(c),
         registers' = PutRange(registers, req[c].reg, ubuf[c], index[c], n)
  PROVE  \A i \in Offset : i < index[c] + n => registers'[Wrap(req[c].reg + i)] = ubuf[c][i]
<1> DEFINE a == req[c].reg
           k == index[c]
<1>1. /\ a \in Reg /\ k \in Nat /\ n \in Nat
  BY TransferSizeBounds DEF IInv
<1> SUFFICES ASSUME NEW i \in Offset, i < k + n
             PROVE  registers'[Wrap(a + i)] = ubuf[c][i]
  OBVIOUS
<1>2. i \in 0 .. MaxLen /\ i \in Nat
  BY MaxLenAssumption DEF Offset
<1>3. Wrap(a + i) \in Reg /\ Distance(a, Wrap(a + i)) = i
  BY <1>1, <1>2, DistanceWrap
<1>4. i < k => registers[Wrap(a + i)] = ubuf[c][i]
  BY DEF IInv, PrefixMoved
<1>5. registers'[Wrap(a + i)] = IF i \in k .. k + n - 1 THEN ubuf[c][i] ELSE registers[Wrap(a + i)]
  BY <1>3 DEF PutRange
<1>6. i \in k .. k + n - 1 \/ i < k
  BY <1>1, <1>2
<1> QED BY <1>4, <1>5, <1>6

LEMMA GetKeepsPrefix ==
  ASSUME IInv, NEW c \in Clients, NEW n \in 0 .. TransferSize(c),
         ubuf' = [ubuf EXCEPT ![c] = GetRange(registers, req[c].reg, @, index[c], n)]
  PROVE  \A i \in Offset : i < index[c] + n => registers[Wrap(req[c].reg + i)] = ubuf'[c][i]
<1>1. index[c] \in Nat /\ n \in Nat
  BY TransferSizeBounds DEF IInv
<1>2. ubuf'[c] = GetRange(registers, req[c].reg, ubuf[c], index[c], n)
  BY DEF IInv, TypeInv, TypeOK
<1> SUFFICES ASSUME NEW i \in Offset, i < index[c] + n
             PROVE  registers[Wrap(req[c].reg + i)] = ubuf'[c][i]
  OBVIOUS
<1>3. i \in index[c] .. index[c] + n - 1 \/ i < index[c]
  BY <1>1, MaxLenAssumption DEF Offset
<1>4. i < index[c] => registers[Wrap(req[c].reg + i)] = ubuf[c][i]
  BY DEF IInv, PrefixMoved
<1> QED BY <1>2, <1>3, <1>4 DEF GetRange

\* The heart of the argument: with one process, what is staged in the buffer
\* and in the pointer is still there when it is used.
LEMMA IInvInductive == OneClient /\ IInv /\ [Next]_vars => IInv'
<1> SUFFICES ASSUME OneClient, IInv, [Next]_vars PROVE IInv'
  OBVIOUS
<1>0. TypeInv'
  BY TypeInvInductive DEF IInv
<1>a. ASSUME NEW c \in Clients, PrefixMoved(c)', Staged(c)' PROVE IInv'
  BY <1>0, <1>a DEF IInv, OneClient
<1>t. ASSUME NEW c \in Clients
      PROVE  /\ TransferSize(c) \in Nat /\ index[c] \in Nat /\ pc[c] \in Label
             /\ pc' \in [Clients -> Label] /\ PrefixMoved(c) /\ Staged(c)
             /\ pc \in [Clients -> Label] /\ index \in [Clients -> 0 .. MaxLen]
             /\ ubuf \in [Clients -> UserBuffer] /\ raw_data_buffer \in [Cell -> Byte]
             /\ req[c].reg \in Reg /\ req[c].reg \in Int
             /\ req \in [Clients -> Call]
  BY <1>0, TransferSizeBounds, NumRegsType DEF IInv, TypeInv, TypeOK, Reg
<1>1. ASSUME NEW c \in Clients, Begin(c) PROVE IInv'
  <2>1. index'[c] = 0 /\ pc'[c] = "chunk"
    BY <1>1, <1>t DEF Begin
  <2>2. PrefixMoved(c)'
    BY <2>1, MaxLenAssumption DEF PrefixMoved, Offset
  <2>3. Staged(c)'
    BY <2>1 DEF Staged
  <2> QED BY <1>a, <2>2, <2>3
<1>2. ASSUME NEW c \in Clients, NEW code, Return(c, code), UNCHANGED index,
             UNCHANGED req, PrefixMoved(c)'
      PROVE IInv'
  <2>1. pc'[c] = "idle"
    BY <1>2, <1>t DEF Return
  <2> QED BY <1>a, <1>2, <2>1 DEF Staged
<1>3. ASSUME NEW c \in Clients, BadArgument(c) PROVE IInv'
  BY <1>2, <1>3, <1>t DEF BadArgument, PrefixMoved
<1>4. ASSUME NEW c \in Clients, SetRegister(c) PROVE IInv'
  <2>1. pc'[c] \in {"copyin", "sendptr"}
    BY <1>4, <1>t DEF SetRegister, Goto
  <2>2. /\ raw_data_buffer'[0] = HighByte(req[c].reg + index[c])
        /\ raw_data_buffer'[1] = LowByte(req[c].reg + index[c])
    BY <1>4, <1>t, ChunkAssumption DEF SetRegister, Cell
  <2>3. Staged(c)'
    BY <1>4, <2>1, <2>2 DEF Staged, SetRegister
  <2>4. PrefixMoved(c)'
    BY <1>4, <1>t DEF SetRegister, PrefixMoved
  <2> QED BY <1>a, <2>3, <2>4
<1>5. ASSUME NEW c \in Clients, CopyIn(c) PROVE IInv'
  <2>1. pc'[c] = "send" /\ TransferSize(c)' = TransferSize(c)
    BY <1>5, <1>t DEF CopyIn, Goto, TransferSize, ChunkLimit
  <2>2. raw_data_buffer'[0] = raw_data_buffer[0] /\ raw_data_buffer'[1] = raw_data_buffer[1]
    BY <1>5, <1>t, ChunkAssumption DEF CopyIn, CopyFromUser, Cell
  <2>3. req[c].write /\ TransferSize(c) + 2 <= ChunkSize
    BY <1>5, TransferSizeBounds, ChunkAssumption DEF CopyIn, IInv, TypeInv, PathOK
  <2>4. ASSUME NEW i \in 0 .. TransferSize(c) - 1
        PROVE  raw_data_buffer'[2 + i] = ubuf[c][index[c] + i]
    <3>1. 2 + i \in Cell /\ (2 + i) - 2 = i /\ index[c] + (2 + i) - 2 = index[c] + i
      BY <2>3, <1>t, ChunkAssumption DEF Cell
    <3>2. raw_data_buffer'[2 + i] = ubuf[c][index[c] + (2 + i) - 2]
      BY <1>5, <3>1 DEF CopyIn, CopyFromUser
    <3> QED BY <3>1, <3>2
  <2>5. Staged(c)'
    BY <1>5, <1>t, <2>1, <2>2, <2>4 DEF Staged, CopyIn
  <2>6. PrefixMoved(c)'
    BY <1>5, <1>t DEF CopyIn, PrefixMoved
  <2> QED BY <1>a, <2>5, <2>6
<1>6. ASSUME NEW c \in Clients, CopyInFault(c) PROVE IInv'
  BY <1>2, <1>6, <1>t DEF CopyInFault, PrefixMoved
<1>7. ASSUME NEW c \in Clients, Advance(c), UNCHANGED req,
             \A i \in Offset : i < index[c] + TransferSize(c)
                => registers'[Wrap(req[c].reg + i)] = ubuf'[c][i]
      PROVE  IInv'
  <2>1. index'[c] = index[c] + TransferSize(c) /\ pc'[c] \in {"idle", "chunk"}
    BY <1>7, <1>t DEF Advance, Goto, Return
  <2> QED BY <1>a, <1>7, <2>1 DEF PrefixMoved, Staged
<1>8. ASSUME NEW c \in Clients, SendMessage(c) PROVE IInv'
  <2>1. registers' = PutRange(registers, req[c].reg, ubuf[c], index[c], TransferSize(c))
    BY <1>8, <1>t, StoreIsPut DEF SendMessage
  <2> QED BY <1>7, <1>8, <1>t, <2>1, PutKeepsPrefix DEF SendMessage
<1>9. ASSUME NEW c \in Clients, SendFault(c) PROVE IInv'
  <2>1. CASE UNCHANGED registers
    BY <1>2, <1>9, <1>t, <2>1 DEF SendFault, PrefixMoved
  <2>2. ASSUME NEW n \in 0 .. TransferSize(c), SensorStores(n) PROVE PrefixMoved(c)'
    <3>1. registers' = PutRange(registers, req[c].reg, ubuf[c], index[c], n)
      BY <1>9, <2>2, StoreIsPut DEF SendFault
    <3>2. n \in Nat
      BY <1>t
    <3> QED BY <1>9, <1>t, <3>1, <3>2, PutKeepsPrefix, MaxLenAssumption
            DEF SendFault, PrefixMoved, Offset
  <2> QED BY <1>2, <1>9, <2>1, <2>2 DEF SendFault
<1>10. ASSUME NEW c \in Clients, SendPointer(c) PROVE IInv'
  <2>1. pointer' = Wrap(req[c].reg + index[c])
    BY <1>10, <1>t, AddressBytes DEF SendPointer, Staged, Address0
  <2> QED BY <1>a, <1>10, <1>t, <2>1 DEF SendPointer, Goto, Staged, PrefixMoved
<1>11. ASSUME NEW c \in Clients, SendPointerFault(c) PROVE IInv'
  BY <1>2, <1>11, <1>t DEF SendPointerFault, PrefixMoved
<1>12. ASSUME NEW c \in Clients, ReceiveMessage(c) PROVE IInv'
  <2>1. pc'[c] = "copyout" /\ TransferSize(c)' = TransferSize(c)
    BY <1>12, <1>t DEF ReceiveMessage, Goto, TransferSize, ChunkLimit
  <2>2. pointer = Wrap(req[c].reg + index[c])
    BY <1>12, <1>t DEF ReceiveMessage, Staged
  <2>3. TransferSize(c) <= ChunkSize /\ index[c] + TransferSize(c) <= MaxLen
    BY TransferSizeBounds, ChunkAssumption, MaxLenAssumption DEF IInv
  <2>4. ASSUME NEW i \in 0 .. TransferSize(c) - 1
        PROVE  raw_data_buffer'[i] = registers'[Wrap(req[c].reg + index[c] + i)]
    <3>1. i \in Cell /\ i < TransferSize(c) /\ i \in Nat /\ index[c] + i <= MaxLen
      BY <1>t, <2>3, ChunkAssumption, MaxLenAssumption DEF Cell
    <3>2. raw_data_buffer'[i] = registers[Wrap(pointer + i)]
      BY <1>12, <3>1 DEF ReceiveMessage, SensorLoads
    <3>3. Wrap(pointer + i) = Wrap(req[c].reg + index[c] + i)
      BY <1>t, <2>2, <3>1, WrapShift
    <3> QED BY <1>12, <3>2, <3>3 DEF ReceiveMessage
  <2>5. Staged(c)'
    BY <1>12, <2>1, <2>4 DEF Staged, ReceiveMessage
  <2>6. PrefixMoved(c)'
    BY <1>12, <1>t DEF ReceiveMessage, PrefixMoved
  <2> QED BY <1>a, <2>5, <2>6
<1>13. ASSUME NEW c \in Clients, ReceiveFault(c) PROVE IInv'
  BY <1>2, <1>13, <1>t DEF ReceiveFault, PrefixMoved
<1>14. ASSUME NEW c \in Clients, CopyOut(c) PROVE IInv'
  <2>1. ubuf' = [ubuf EXCEPT ![c] = GetRange(registers, req[c].reg, @, index[c], TransferSize(c))]
    BY <1>14, <1>t, CopyIsGet DEF CopyOut
  <2>2. TransferSize(c) \in 0 .. TransferSize(c)
    BY <1>t
  <2>3. \A i \in Offset : i < index[c] + TransferSize(c)
           => registers[Wrap(req[c].reg + i)] = ubuf'[c][i]
    BY <2>1, <2>2, GetKeepsPrefix
  <2> QED BY <1>7, <1>14, <2>3 DEF CopyOut
<1>15. ASSUME NEW c \in Clients, CopyOutFault(c) PROVE IInv'
  <2>1. PICK n \in 0 .. TransferSize(c) - 1 : CopyToUser(c, n)
    BY <1>15 DEF CopyOutFault
  <2>2. n \in 0 .. TransferSize(c) /\ n \in Nat
    BY <1>t
  <2>3. ubuf' = [ubuf EXCEPT ![c] = GetRange(registers, req[c].reg, @, index[c], n)]
    BY <1>15, <2>1, <2>2, CopyIsGet DEF CopyOutFault
  <2>4. \A i \in Offset : i < index[c] + n => registers[Wrap(req[c].reg + i)] = ubuf'[c][i]
    BY <2>2, <2>3, GetKeepsPrefix
  <2>5. PrefixMoved(c)'
    BY <1>15, <1>t, <2>2, <2>4, MaxLenAssumption DEF CopyOutFault, PrefixMoved, Offset
  <2> QED BY <1>2, <1>15, <2>5 DEF CopyOutFault
<1>16. CASE UNCHANGED vars
  BY <1>0, <1>16 DEF vars, IInv, PrefixMoved, Staged, TransferSize, ChunkLimit
<1> QED
  BY <1>1, <1>3, <1>4, <1>5, <1>6, <1>8, <1>9, <1>10, <1>11, <1>12, <1>13, <1>14, <1>15, <1>16
     DEF Next, Step, WriteStep, ReadStep

LEMMA IInvInit == Init => IInv
BY TypeInvInit, MaxLenAssumption DEF Init, IInv, PrefixMoved, Staged, Offset

\* With one process, the bytes a call has counted are where they belong, for
\* every length, chunk size and register, and after any failure.
THEOREM OneClientTransfers ==
  ASSUME OneClient
  PROVE  Spec => []Transferred
<1>1. IInv => Transferred
  BY DEF IInv, Transferred
<1> QED BY <1>1, IInvInit, IInvInductive, PTL DEF Spec
-----------------------------------------------------------------------------
(* With one process the driver implements RegisterTransfer.                *)

inside == {c \in Clients : pc[c] # "idle"}

LEMMA PromiseOperators ==
  /\ \A r, a, b, k, n : Promise!PutRange(r, a, b, k, n) = PutRange(r, a, b, k, n)
  /\ \A r, a, b, k, n : Promise!GetRange(r, a, b, k, n) = GetRange(r, a, b, k, n)
  /\ Promise!NoCall = NoCall
BY DEF Promise!PutRange, PutRange, Promise!GetRange, GetRange, Promise!NoCall, NoCall,
       Promise!Distance, Distance, Promise!Wrap, Wrap, Promise!Reg, Reg,
       Promise!Offset, Offset, Promise!NumRegs, NumRegs

LEMMA PromiseInit == Init => Promise!Init
<1> SUFFICES ASSUME Init PROVE Promise!Init
  OBVIOUS
<1>1. {c \in Clients : pc[c] # "idle"} = {}
  BY DEF Init
<1> QED BY <1>1, PromiseOperators DEF Init, Promise!Init

LEMMA PromiseStep == OneClient /\ IInv /\ [Next]_vars => [Promise!Next]_(Promise!vars)
<1> SUFFICES ASSUME OneClient, IInv, [Next]_vars PROVE [Promise!Next]_(Promise!vars)
  OBVIOUS
<1>0. ASSUME NEW c \in Clients
      PROVE  /\ pc \in [Clients -> Label]
             /\ TransferSize(c) \in Nat /\ index[c] \in Nat /\ req[c].len \in Nat
             /\ index[c] + TransferSize(c) <= req[c].len
             /\ index[c] < req[c].len => TransferSize(c) > 0
             /\ pc[c] # "idle" => index[c] < req[c].len \/ req[c].len = 0
             /\ pc[c] \in {"copyin", "send"} => req[c].write
             /\ pc[c] \in {"sendptr", "receive", "copyout"} => ~req[c].write
             /\ index \in [Clients -> 0 .. MaxLen] /\ ubuf \in [Clients -> UserBuffer]
             /\ registers \in [Reg -> Byte]
  BY TransferSizeBounds, MaxLenAssumption DEF IInv, TypeInv, TypeOK, PathOK
<1>b. ASSUME NEW c \in Clients, NEW label \in Label \ {"idle"}, pc[c] # "idle", Goto(c, label),
             UNCHANGED <<registers, ubuf, req, index>>
      PROVE  [Promise!Next]_(Promise!vars)
  <2>1. inside' = inside
    BY <1>0, <1>b DEF inside, Goto
  <2> QED BY <1>b, <2>1 DEF Promise!vars, Goto, inside
<1>1. ASSUME NEW c \in Clients, Begin(c) PROVE Promise!Begin(c)
  <2>1. inside' = inside \cup {c} /\ c \notin inside
    BY <1>0, <1>1 DEF Begin, inside
  <2> QED BY <1>1, <2>1 DEF Begin, Promise!Begin, inside
<1>2. ASSUME NEW c \in Clients, BadArgument(c) PROVE Promise!Refuse(c)
  <2>1. inside' = inside /\ c \notin inside
    BY <1>0, <1>2 DEF BadArgument, Return, inside
  <2> QED BY <1>2, <2>1 DEF BadArgument, Return, Promise!Refuse, inside
<1>3. ASSUME NEW c \in Clients, NEW n \in 0 .. TransferSize(c), pc[c] # "idle",
             Promise!Shift(c, n), NEW code \in {"EIO", "EINVAL"}, Return(c, code),
             UNCHANGED <<req, index>>
      PROVE  Promise!Abort(c)
  <2>1. inside' = inside \ {c} /\ c \in inside
    BY <1>0, <1>3 DEF Return, inside
  <2>2. n \in 0 .. req[c].len - index[c]
    BY <1>0
  <2> QED BY <1>3, <2>1, <2>2 DEF Return, Promise!Abort, inside
<1>4. ASSUME NEW c \in Clients, pc[c] # "idle", Promise!Shift(c, TransferSize(c)), Advance(c),
             UNCHANGED req
      PROVE  Promise!Move(c)
  <2> DEFINE n == TransferSize(c)
  <2>1. n \in 0 .. req[c].len - index[c] /\ (n = 0 => req[c].len = index[c])
    BY <1>0
  <2>2. index' = [index EXCEPT ![c] = @ + n]
    BY <1>4 DEF Advance
  <2>3. c \in inside
    BY <1>4 DEF inside
  <2>4. IF index[c] + n < req[c].len
        THEN inside' = inside /\ ret' = ret
        ELSE inside' = inside \ {c} /\ ret' = [ret EXCEPT ![c] = "OK"]
    BY <1>0, <1>4 DEF Advance, Goto, Return, inside
  <2>5. n = 0 => req[c].len = 0
    BY <1>0, <1>4, <2>1
  <2> HIDE DEF n
  <2> QED BY <1>4, <2>1, <2>2, <2>3, <2>4, <2>5 DEF Promise!Move, inside, n
<1>5. ASSUME NEW c \in Clients, UNCHANGED <<registers, ubuf>> PROVE Promise!Shift(c, 0)
  <2>1. registers = PutRange(registers, req[c].reg, ubuf[c], index[c], 0)
    <3>1. index[c] .. index[c] + 0 - 1 = {}
      BY <1>0
    <3> QED BY <1>0, <3>1 DEF PutRange
  <2>2. ubuf[c] = GetRange(registers, req[c].reg, ubuf[c], index[c], 0)
    <3>1. index[c] .. index[c] + 0 - 1 = {}
      BY <1>0
    <3> QED BY <1>0, <3>1 DEF GetRange, UserBuffer
  <2>3. ubuf = [ubuf EXCEPT ![c] = GetRange(registers, req[c].reg, ubuf[c], index[c], 0)]
    BY <1>0, <2>2
  <2> QED BY <1>5, <2>1, <2>3, PromiseOperators DEF Promise!Shift
<1>6. ASSUME NEW c \in Clients, SetRegister(c) PROVE [Promise!Next]_(Promise!vars)
  BY <1>b, <1>6 DEF SetRegister, Label
<1>7. ASSUME NEW c \in Clients, CopyIn(c) PROVE [Promise!Next]_(Promise!vars)
  BY <1>b, <1>7 DEF CopyIn, Label
<1>8. ASSUME NEW c \in Clients, CopyInFault(c) PROVE Promise!Abort(c)
  BY <1>0, <1>3, <1>5, <1>8 DEF CopyInFault
<1>9. ASSUME NEW c \in Clients, SendMessage(c) PROVE Promise!Move(c)
  <2>1. registers' = PutRange(registers, req[c].reg, ubuf[c], index[c], TransferSize(c))
    BY <1>0, <1>9, StoreIsPut DEF SendMessage
  <2>2. Promise!Shift(c, TransferSize(c))
    BY <1>0, <1>9, <2>1, PromiseOperators DEF SendMessage, Promise!Shift
  <2> QED BY <1>4, <1>9, <2>2 DEF SendMessage
<1>10. ASSUME NEW c \in Clients, SendFault(c) PROVE Promise!Abort(c)
  <2>1. CASE UNCHANGED registers
    BY <1>0, <1>3, <1>5, <1>10, <2>1 DEF SendFault
  <2>2. ASSUME NEW n \in 0 .. TransferSize(c), SensorStores(n) PROVE Promise!Abort(c)
    <3>1. registers' = PutRange(registers, req[c].reg, ubuf[c], index[c], n)
      BY <1>10, <2>2, StoreIsPut DEF SendFault
    <3>2. Promise!Shift(c, n)
      BY <1>0, <1>10, <3>1, PromiseOperators DEF SendFault, Promise!Shift
    <3> QED BY <1>3, <1>10, <3>2 DEF SendFault
  <2> QED BY <1>10, <2>1, <2>2 DEF SendFault
<1>11. ASSUME NEW c \in Clients, SendPointer(c) PROVE [Promise!Next]_(Promise!vars)
  BY <1>b, <1>11 DEF SendPointer, Label
<1>12. ASSUME NEW c \in Clients, SendPointerFault(c) PROVE Promise!Abort(c)
  BY <1>0, <1>3, <1>5, <1>12 DEF SendPointerFault
<1>13. ASSUME NEW c \in Clients, ReceiveMessage(c) PROVE [Promise!Next]_(Promise!vars)
  BY <1>b, <1>13 DEF ReceiveMessage, Label
<1>14. ASSUME NEW c \in Clients, ReceiveFault(c) PROVE Promise!Abort(c)
  BY <1>0, <1>3, <1>5, <1>14 DEF ReceiveFault
<1>15. ASSUME NEW c \in Clients, NEW n \in 0 .. TransferSize(c), pc[c] = "copyout",
              CopyToUser(c, n), UNCHANGED registers
       PROVE  Promise!Shift(c, n)
  <2>1. ubuf' = [ubuf EXCEPT ![c] = GetRange(registers, req[c].reg, @, index[c], n)]
    BY <1>15, CopyIsGet
  <2> QED BY <1>0, <1>15, <2>1, PromiseOperators DEF Promise!Shift
<1>16. ASSUME NEW c \in Clients, CopyOut(c) PROVE Promise!Move(c)
  <2>1. Promise!Shift(c, TransferSize(c))
    BY <1>0, <1>15, <1>16 DEF CopyOut
  <2> QED BY <1>4, <1>16, <2>1 DEF CopyOut
<1>17. ASSUME NEW c \in Clients, CopyOutFault(c) PROVE Promise!Abort(c)
  <2>1. PICK n \in 0 .. TransferSize(c) - 1 : CopyToUser(c, n)
    BY <1>17 DEF CopyOutFault
  <2>2. n \in 0 .. TransferSize(c)
    BY <1>0
  <2>3. Promise!Shift(c, n)
    BY <1>15, <1>17, <2>1, <2>2 DEF CopyOutFault
  <2> QED BY <1>3, <1>17, <2>2, <2>3 DEF CopyOutFault
<1>18. CASE UNCHANGED vars
  BY <1>18 DEF vars, Promise!vars
<1> QED
  BY <1>1, <1>2, <1>6, <1>7, <1>8, <1>9, <1>10, <1>11, <1>12, <1>13, <1>14, <1>16, <1>17, <1>18
     DEF Next, Step, WriteStep, ReadStep, Promise!Next

\* The whole ioctl, chunks, bounce buffer, partial messages and all, is a
\* RegisterTransfer when one process uses the device.
THEOREM OneClientImplementsPromise ==
  ASSUME OneClient
  PROVE  Spec => PromiseSpec
<1>1. Spec => []IInv
  BY IInvInit, IInvInductive, PTL DEF Spec
<1> QED BY <1>1, PromiseInit, PromiseStep, PTL DEF Spec, PromiseSpec, Promise!Spec
-----------------------------------------------------------------------------
(* The probe's helpers and the i2c-dev bus: I2cTransfer, with the state of  *)
(* TofTransfer but for raw_data_buffer. Without Combined another process     *)
(* may move the pointer between the address and the data of a chunk.         *)

CONSTANT Combined

Direct == INSTANCE I2cTransfer WITH position <- index

\* Each chunk is read from where its address was sent.
Undisturbed == Combined \in BOOLEAN /\ (OneClient \/ Combined)

\* What is under way in the caller c, beside the types.
CourseOK(c) ==
  /\ index[c] <= req[c].len
  /\ pc[c] # "idle" => index[c] < req[c].len \/ req[c].len = 0
  /\ pc[c] = "receive" => ~Combined /\ ~req[c].write /\ pointer = Wrap(req[c].reg + index[c])

DirectTypes ==
  /\ registers \in [Reg -> Byte]
  /\ pointer \in Reg
  /\ ubuf \in [Clients -> UserBuffer]
  /\ req \in [Clients -> Call]
  /\ index \in [Clients -> 0 .. MaxLen]
  /\ pc \in [Clients -> {"idle", "chunk", "receive"}]
  /\ ret \in [Clients -> Result]

DirectInv == DirectTypes /\ \A c \in Clients : CourseOK(c)

LEMMA DirectOperators ==
  /\ \A r, a, b, k, n : Direct!PutRange(r, a, b, k, n) = PutRange(r, a, b, k, n)
  /\ \A a : Direct!Wrap(a) = Wrap(a)
  /\ \A a : Direct!Address(Direct!HighByte(a), Direct!LowByte(a)) = Address(HighByte(a), LowByte(a))
  /\ Direct!NoCall = NoCall
  /\ Direct!Offset = Offset
BY DEF Direct!PutRange, PutRange, Direct!NoCall, NoCall, Direct!Distance, Distance, Direct!Wrap, Wrap,
       Direct!Reg, Reg, Direct!Offset, Offset, Direct!NumRegs, NumRegs, Direct!Address, Address,
       Direct!HighByte, HighByte, Direct!LowByte, LowByte

LEMMA DirectSizes ==
  ASSUME DirectInv, NEW c \in Clients
  PROVE  /\ Direct!DataSize(c) \in Nat
         /\ index[c] + Direct!DataSize(c) <= req[c].len
         /\ index[c] < req[c].len => Direct!DataSize(c) > 0
         /\ index[c] \in Nat /\ req[c].len \in 0 .. MaxLen /\ req[c].len \in Nat
         /\ req[c].reg \in Reg /\ req[c].reg \in Int /\ req[c].write \in BOOLEAN
         /\ Direct!ChunkAddress(c) = Wrap(req[c].reg + index[c])
         /\ Direct!ChunkAddress(c) \in Reg
         /\ pointer \in Int /\ MaxLen \in Nat
<1>1. /\ req[c].len \in 0 .. MaxLen /\ req[c].reg \in Reg /\ req[c].write \in BOOLEAN
      /\ index[c] \in 0 .. MaxLen /\ index[c] <= req[c].len /\ pointer \in Reg
  BY DEF DirectInv, DirectTypes, CourseOK, Call
<1>2. req[c].len - index[c] \in Nat /\ MaxLen \in Nat
  BY <1>1, MaxLenAssumption
<1>3. /\ Direct!DataSize(c) \in Nat
      /\ index[c] + Direct!DataSize(c) <= req[c].len
      /\ index[c] < req[c].len => Direct!DataSize(c) > 0
  BY <1>1, <1>2, ChunkAssumption DEF Direct!DataSize
<1>4. req[c].reg \in Int /\ req[c].reg + index[c] \in Int /\ pointer \in Int
  BY <1>1, <1>2, NumRegsType DEF Reg
<1>5. Direct!ChunkAddress(c) = Address(HighByte(req[c].reg + index[c]), LowByte(req[c].reg + index[c]))
  BY DirectOperators DEF Direct!ChunkAddress
<1> QED BY <1>1, <1>2, <1>3, <1>4, <1>5, AddressBytes, WrapType

\* The sensor takes the next part of the caller's buffer.
LEMMA DirectStores ==
  ASSUME DirectInv, NEW c \in Clients, NEW n \in 0 .. Direct!DataSize(c), Direct!Stored(c, n)
  PROVE  /\ registers' = PutRange(registers, req[c].reg, ubuf[c], index[c], n)
         /\ registers' \in [Reg -> Byte] /\ pointer' \in Reg
<1>1. registers' = PutRange(registers, req[c].reg, ubuf[c], index[c], n)
  BY DirectOperators DEF Direct!Stored
<1>2. pointer' \in Reg
  <2>1. Direct!ChunkAddress(c) + n \in Int
    BY DirectSizes, NumRegsType DEF Reg
  <2> QED BY <2>1, DirectOperators, WrapType DEF Direct!Stored
<1>3. \A r \in Reg : Distance(req[c].reg, r) \in index[c] .. index[c] + n - 1
                       => Distance(req[c].reg, r) \in Offset
  <2>1. index[c] + n <= MaxLen
    BY DirectSizes
  <2> QED BY <2>1, DirectSizes DEF Offset
<1>4. ubuf[c] \in [Offset -> Byte] /\ registers \in [Reg -> Byte]
  BY DEF DirectInv, DirectTypes, UserBuffer
<1>5. registers' \in [Reg -> Byte]
  BY <1>1, <1>3, <1>4 DEF PutRange
<1> QED BY <1>1, <1>2, <1>5

\* The caller gets the next part of the registers asked for.
LEMMA DirectLoads ==
  ASSUME Undisturbed, DirectInv, NEW c \in Clients, Direct!AtData(c),
         NEW n \in 0 .. Direct!DataSize(c), Direct!Loaded(c, Direct!From(c), n)
  PROVE  /\ ubuf' = [ubuf EXCEPT ![c] = GetRange(registers, req[c].reg, @, index[c], n)]
         /\ ubuf' \in [Clients -> UserBuffer] /\ pointer' \in Reg
<1> DEFINE a == req[c].reg
           k == index[c]
           f == Direct!From(c)
<1>1. a \in Reg /\ a \in Int /\ k \in Nat /\ n \in Nat /\ k + n <= MaxLen /\ MaxLen \in Nat
  BY DirectSizes
<1>2. f = Wrap(a + k)
  BY DirectSizes DEF Undisturbed, Direct!From, Direct!AtData, DirectInv, CourseOK
<1>3. f \in Int
  BY <1>1, <1>2, WrapType, NumRegsType DEF Reg
<1> HIDE DEF a, k, f
<1>4. ASSUME NEW i \in Offset, i - k \in 0 .. n - 1
      PROVE  Direct!Wrap(f + i - k) = Wrap(a + i)
  <2>1. i \in Nat /\ i - k \in Nat /\ k + (i - k) <= MaxLen /\ a + k + (i - k) = a + i
    BY <1>1, <1>4 DEF Offset
  <2>2. Wrap(Wrap(a + k) + (i - k)) = Wrap(a + k + (i - k))
    BY <1>1, <2>1, WrapShift
  <2>3. f + i - k = Wrap(a + k) + (i - k)
    BY <1>1, <1>2, <1>3, <2>1
  <2> QED BY <2>1, <2>2, <2>3, DirectOperators
<1>5. \A i \in Offset : i - k \in 0 .. n - 1 <=> i \in k .. k + n - 1
  BY <1>1 DEF Offset
<1>6. ubuf' = [ubuf EXCEPT ![c] = [i \in Offset |->
                 IF i - k \in 0 .. n - 1 THEN registers[Direct!Wrap(f + i - k)] ELSE @[i]]]
  BY DirectOperators DEF Direct!Loaded, k, f
<1>7. [i \in Offset |-> IF i - k \in 0 .. n - 1 THEN registers[Direct!Wrap(f + i - k)] ELSE ubuf[c][i]]
      = GetRange(registers, a, ubuf[c], k, n)
  BY <1>4, <1>5 DEF GetRange
<1>8. ubuf' = [ubuf EXCEPT ![c] = GetRange(registers, a, @, k, n)]
  BY <1>6, <1>7
<1>9. GetRange(registers, a, ubuf[c], k, n) \in UserBuffer
  <2>1. \A i \in Offset : Wrap(a + i) \in Reg
    BY <1>1, WrapType DEF Offset
  <2>2. ubuf[c] \in [Offset -> Byte] /\ registers \in [Reg -> Byte]
    BY DEF DirectInv, DirectTypes, UserBuffer
  <2> QED BY <2>1, <2>2 DEF GetRange, UserBuffer
<1>10. ubuf' \in [Clients -> UserBuffer]
  BY <1>8, <1>9 DEF DirectInv, DirectTypes
<1>11. pointer' \in Reg
  BY <1>1, <1>3, DirectOperators, WrapType DEF Direct!Loaded, f
<1> QED BY <1>8, <1>10, <1>11 DEF a, k

LEMMA DirectInvInit == Direct!Init => DirectInv
BY DirectOperators, NoCallType, PowerOnAssumption, NumRegsType, MaxLenAssumption
   DEF Direct!Init, DirectInv, DirectTypes, CourseOK, Reg, Result, NoCall, Call

LEMMA DirectInvInductive == Undisturbed /\ DirectInv /\ [Direct!Next]_(Direct!vars) => DirectInv'
<1> SUFFICES ASSUME Undisturbed, DirectInv, [Direct!Next]_(Direct!vars) PROVE DirectInv'
  OBVIOUS
<1>t. DirectTypes /\ \A c \in Clients : CourseOK(c)
  BY DEF DirectInv
\* A step of c takes nothing from the others: if they rely on the pointer,
\* there are none.
<1>a. ASSUME NEW c \in Clients, DirectTypes', CourseOK(c)',
             \A d \in Clients \ {c} : req'[d] = req[d] /\ index'[d] = index[d] /\ pc'[d] = pc[d]
      PROVE  DirectInv'
  <2>1. ASSUME NEW d \in Clients \ {c} PROVE CourseOK(d)'
    BY <1>a, <1>t, <2>1 DEF CourseOK, Undisturbed, OneClient
  <2> QED BY <1>a, <2>1 DEF DirectInv
<1>1. ASSUME NEW c \in Clients, Direct!Begin(c) PROVE DirectInv'
  <2>1. PICK k \in CallsOf[c] : req' = [req EXCEPT ![c] = k] /\ ubuf' = [ubuf EXCEPT ![c] = k.data]
    BY <1>1 DEF Direct!Begin
  <2>2. k \in Call
    BY CallsAssumption
  <2>3. DirectTypes'
    BY <1>1, <1>t, <2>1, <2>2, MaxLenAssumption DEF Direct!Begin, DirectTypes, Call, Result
  <2>4. req'[c] = k /\ index'[c] = 0 /\ pc'[c] = "chunk"
    BY <1>1, <1>t, <2>1 DEF Direct!Begin, DirectTypes
  <2>5. CourseOK(c)'
    BY <2>2, <2>4, MaxLenAssumption DEF CourseOK, Call
  <2> QED BY <1>1, <1>a, <1>t, <2>1, <2>3, <2>5 DEF Direct!Begin, DirectTypes
<1>2. ASSUME NEW c \in Clients, NEW code \in Result, Direct!Return(c, code), UNCHANGED <<req, index>>,
             registers' \in [Reg -> Byte], pointer' \in Reg, ubuf' \in [Clients -> UserBuffer]
      PROVE  DirectInv'
  <2>1. DirectTypes' /\ pc'[c] = "idle"
    BY <1>2, <1>t DEF Direct!Return, DirectTypes
  <2>2. CourseOK(c)'
    BY <1>2, <1>t, <2>1 DEF CourseOK
  <2> QED BY <1>2, <1>a, <1>t, <2>1, <2>2 DEF Direct!Return, DirectTypes
<1>3. ASSUME NEW c \in Clients, Direct!Advance(c), UNCHANGED req,
             registers' \in [Reg -> Byte], pointer' \in Reg, ubuf' \in [Clients -> UserBuffer]
      PROVE  DirectInv'
  <2>1. index' = [index EXCEPT ![c] = index[c] + Direct!DataSize(c)]
    BY <1>3 DEF Direct!Advance
  <2>2. index[c] + Direct!DataSize(c) \in 0 .. MaxLen /\ index[c] + Direct!DataSize(c) <= req[c].len
    BY DirectSizes
  <2>3. \/ pc' = [pc EXCEPT ![c] = "idle"]
        \/ pc' = [pc EXCEPT ![c] = "chunk"] /\ index[c] + Direct!DataSize(c) < req[c].len
    BY <1>3 DEF Direct!Advance, Direct!Return
  <2>4. ret' \in [Clients -> Result]
    BY <1>3, <1>t DEF Direct!Advance, Direct!Return, DirectTypes, Result
  <2>5. DirectTypes'
    BY <1>3, <1>t, <2>1, <2>2, <2>3, <2>4 DEF DirectTypes
  <2>6. CourseOK(c)'
    BY <1>3, <1>t, <2>1, <2>2, <2>3 DEF CourseOK, DirectTypes
  <2> QED BY <1>3, <1>a, <1>t, <2>1, <2>3, <2>5, <2>6 DEF DirectTypes
<1>4. ASSUME NEW c \in Clients, Direct!WriteChunk(c) PROVE DirectInv'
  <2>1. Direct!DataSize(c) \in 0 .. Direct!DataSize(c)
    BY DirectSizes
  <2> QED BY <1>3, <1>4, <1>t, <2>1, DirectStores DEF Direct!WriteChunk, DirectTypes
<1>5. ASSUME NEW c \in Clients, Direct!WriteFault(c) PROVE DirectInv'
  <2>1. registers' \in [Reg -> Byte] /\ pointer' \in Reg
    BY <1>5, <1>t, DirectStores DEF Direct!WriteFault, DirectTypes
  <2> QED BY <1>2, <1>5, <1>t, <2>1 DEF Direct!WriteFault, DirectTypes, Result
<1>6. ASSUME NEW c \in Clients, Direct!SendAddress(c) PROVE DirectInv'
  <2>1. pc' = [pc EXCEPT ![c] = "receive"] /\ pointer' = Wrap(req[c].reg + index[c]) /\ pointer' \in Reg
    BY <1>6, DirectSizes DEF Direct!SendAddress
  <2>2. DirectTypes'
    BY <1>6, <1>t, <2>1 DEF Direct!SendAddress, DirectTypes
  <2>3. CourseOK(c)'
    BY <1>6, <1>t, <2>1 DEF Direct!SendAddress, CourseOK
  <2> QED BY <1>6, <1>a, <1>t, <2>1, <2>2, <2>3 DEF Direct!SendAddress, DirectTypes
<1>7. ASSUME NEW c \in Clients, Direct!ReadChunk(c) PROVE DirectInv'
  <2>1. Direct!DataSize(c) \in 0 .. Direct!DataSize(c)
    BY DirectSizes
  <2>2. ubuf' \in [Clients -> UserBuffer] /\ pointer' \in Reg
    BY <1>7, <2>1, DirectLoads DEF Direct!ReadChunk
  <2> QED BY <1>3, <1>7, <1>t, <2>2 DEF Direct!ReadChunk, DirectTypes
<1>8. ASSUME NEW c \in Clients, Direct!ReadFault(c) PROVE DirectInv'
  <2>1. ubuf' \in [Clients -> UserBuffer] /\ pointer' \in Reg
    BY <1>8, <1>t, DirectLoads, DirectSizes DEF Direct!ReadFault, DirectTypes
  <2> QED BY <1>2, <1>8, <1>t, <2>1 DEF Direct!ReadFault, DirectTypes, Result
<1>9. CASE UNCHANGED Direct!vars
  BY <1>9 DEF Direct!vars, DirectInv, DirectTypes, CourseOK
<1> QED
  BY <1>1, <1>4, <1>5, <1>6, <1>7, <1>8, <1>9 DEF Direct!Next, Direct!Step

LEMMA DirectPromiseInit == Direct!Init => Promise!Init
<1> SUFFICES ASSUME Direct!Init PROVE Promise!Init
  OBVIOUS
<1>1. {c \in Clients : pc[c] # "idle"} = {}
  BY DEF Direct!Init
<1> QED BY <1>1, PromiseOperators, DirectOperators DEF Direct!Init, Promise!Init

LEMMA DirectPromiseStep ==
  Undisturbed /\ DirectInv /\ [Direct!Next]_(Direct!vars) => [Promise!Next]_(Promise!vars)
<1> SUFFICES ASSUME Undisturbed, DirectInv, [Direct!Next]_(Direct!vars)
             PROVE  [Promise!Next]_(Promise!vars)
  OBVIOUS
<1>0. ASSUME NEW c \in Clients
      PROVE  /\ pc \in [Clients -> {"idle", "chunk", "receive"}]
             /\ Direct!DataSize(c) \in Nat /\ index[c] \in Nat /\ req[c].len \in Nat
             /\ index[c] + Direct!DataSize(c) <= req[c].len
             /\ index[c] < req[c].len => Direct!DataSize(c) > 0
             /\ pc[c] # "idle" => index[c] < req[c].len \/ req[c].len = 0
             /\ ubuf \in [Clients -> UserBuffer] /\ registers \in [Reg -> Byte]
  BY DirectSizes DEF DirectInv, DirectTypes, CourseOK
<1>1. ASSUME NEW c \in Clients, Direct!Begin(c) PROVE Promise!Begin(c)
  <2>1. inside' = inside \cup {c} /\ c \notin inside
    BY <1>0, <1>1 DEF Direct!Begin, inside
  <2> QED BY <1>1, <2>1 DEF Direct!Begin, Promise!Begin, inside
<1>2. ASSUME NEW c \in Clients, pc[c] # "idle", NEW n \in 0 .. Direct!DataSize(c),
             Promise!Shift(c, n), Direct!Return(c, "EIO"), UNCHANGED <<req, index>>
      PROVE  Promise!Abort(c)
  <2>1. inside' = inside \ {c} /\ c \in inside
    BY <1>0, <1>2 DEF Direct!Return, inside
  <2>2. n \in 0 .. req[c].len - index[c]
    BY <1>0
  <2> QED BY <1>2, <2>1, <2>2 DEF Direct!Return, Promise!Abort, inside
<1>3. ASSUME NEW c \in Clients, pc[c] # "idle", Promise!Shift(c, Direct!DataSize(c)),
             Direct!Advance(c), pc[c] = "chunk" \/ pc[c] = "receive", UNCHANGED req
      PROVE  Promise!Move(c)
  <2> DEFINE n == Direct!DataSize(c)
  <2>1. n \in 0 .. req[c].len - index[c] /\ (n = 0 => req[c].len = 0)
    BY <1>0, <1>3
  <2>2. index' = [index EXCEPT ![c] = @ + n]
    BY <1>3 DEF Direct!Advance
  <2>3. c \in inside
    BY <1>3 DEF inside
  <2>4. IF index[c] + n < req[c].len
        THEN inside' = inside /\ ret' = ret
        ELSE inside' = inside \ {c} /\ ret' = [ret EXCEPT ![c] = "OK"]
    BY <1>0, <1>3 DEF Direct!Advance, Direct!Return, inside
  <2> HIDE DEF n
  <2> QED BY <1>3, <2>1, <2>2, <2>3, <2>4 DEF Promise!Move, inside, n
<1>4. ASSUME NEW c \in Clients, UNCHANGED <<registers, ubuf>> PROVE Promise!Shift(c, 0)
  <2>1. index[c] .. index[c] + 0 - 1 = {}
    BY <1>0
  <2>2. registers = PutRange(registers, req[c].reg, ubuf[c], index[c], 0)
    BY <1>0, <2>1 DEF PutRange
  <2>3. ubuf[c] = GetRange(registers, req[c].reg, ubuf[c], index[c], 0)
    BY <1>0, <2>1 DEF GetRange, UserBuffer
  <2>4. ubuf = [ubuf EXCEPT ![c] = GetRange(registers, req[c].reg, ubuf[c], index[c], 0)]
    BY <1>0, <2>3
  <2> QED BY <1>4, <2>2, <2>4, PromiseOperators DEF Promise!Shift
<1>5. ASSUME NEW c \in Clients, NEW n \in 0 .. Direct!DataSize(c), req[c].write,
             Direct!Stored(c, n), UNCHANGED ubuf
      PROVE  Promise!Shift(c, n)
  <2>1. registers' = PutRange(registers, req[c].reg, ubuf[c], index[c], n)
    BY <1>5, DirectStores
  <2> QED BY <1>5, <2>1, PromiseOperators DEF Promise!Shift
<1>6. ASSUME NEW c \in Clients, NEW n \in 0 .. Direct!DataSize(c), Direct!AtData(c),
             Direct!Loaded(c, Direct!From(c), n), UNCHANGED registers
      PROVE  Promise!Shift(c, n)
  <2>1. ubuf' = [ubuf EXCEPT ![c] = GetRange(registers, req[c].reg, @, index[c], n)]
    BY <1>6, DirectLoads
  <2>2. ~req[c].write
    BY <1>6 DEF Direct!AtData
  <2> QED BY <1>6, <2>1, <2>2, PromiseOperators DEF Promise!Shift
<1>7. ASSUME NEW c \in Clients, Direct!WriteChunk(c) PROVE Promise!Move(c)
  <2>1. Promise!Shift(c, Direct!DataSize(c))
    BY <1>0, <1>5, <1>7 DEF Direct!WriteChunk
  <2> QED BY <1>3, <1>7, <2>1 DEF Direct!WriteChunk
<1>8. ASSUME NEW c \in Clients, Direct!WriteFault(c) PROVE Promise!Abort(c)
  <2>1. \E n \in 0 .. Direct!DataSize(c) : Promise!Shift(c, n)
    BY <1>0, <1>4, <1>5, <1>8 DEF Direct!WriteFault
  <2> QED BY <1>2, <1>8, <2>1 DEF Direct!WriteFault
<1>9. ASSUME NEW c \in Clients, Direct!SendAddress(c) PROVE UNCHANGED Promise!vars
  <2>1. inside' = inside
    BY <1>0, <1>9 DEF Direct!SendAddress, inside
  <2> QED BY <1>9, <2>1 DEF Direct!SendAddress, Promise!vars, inside
<1>10. ASSUME NEW c \in Clients, Direct!ReadChunk(c) PROVE Promise!Move(c)
  <2>1. Promise!Shift(c, Direct!DataSize(c))
    BY <1>0, <1>6, <1>10 DEF Direct!ReadChunk
  <2>2. pc[c] \in {"chunk", "receive"}
    BY <1>10 DEF Direct!ReadChunk, Direct!AtData
  <2> QED BY <1>3, <1>10, <2>1, <2>2 DEF Direct!ReadChunk
<1>11. ASSUME NEW c \in Clients, Direct!ReadFault(c) PROVE Promise!Abort(c)
  <2>1. \E n \in 0 .. Direct!DataSize(c) : Promise!Shift(c, n)
    BY <1>0, <1>4, <1>6, <1>11 DEF Direct!ReadFault
  <2> QED BY <1>2, <1>11, <2>1 DEF Direct!ReadFault
<1>12. CASE UNCHANGED Direct!vars
  BY <1>12 DEF Direct!vars, Promise!vars
<1> QED
  BY <1>1, <1>7, <1>8, <1>9, <1>10, <1>11, <1>12
     DEF Direct!Next, Direct!Step, Promise!Next

\* The chunks of the probe, which sends the address and fetches the data of a
\* chunk apart, are a RegisterTransfer while nobody else uses the bus; those of
\* an i2c-dev bus are one for any number of processes.
THEOREM DirectImplementsPromise ==
  ASSUME Undisturbed
  PROVE  Direct!Spec => PromiseSpec
<1>1. Direct!Spec => []DirectInv
  BY DirectInvInit, DirectInvInductive, PTL DEF Direct!Spec
<1> QED BY <1>1, DirectPromiseInit, DirectPromiseStep, PTL
        DEF Direct!Spec, PromiseSpec, Promise!Spec
-----------------------------------------------------------------------------
(* What the promise is worth to its callers.                               *)

\* No process writes to registers that another one uses.
Apart ==
  \A c, d \in Clients : \A k \in CallsOf[c], m \in CallsOf[d] :
     c # d /\ k.write => \A i, j \in Offset :
        i < k.len /\ j < m.len => Wrap(k.reg + i) # Wrap(m.reg + j)

\* A call that has returned 0 has moved all its bytes.
Complete(c) == ret[c] = "OK" => index[c] = req[c].len

KeptInv ==
  /\ registers \in [Reg -> Byte]
  /\ ubuf \in [Clients -> UserBuffer]
  /\ req \in [Clients -> Call]
  /\ index \in [Clients -> Nat]
  /\ ret \in [Clients -> Result]
  /\ \A c \in Clients : /\ req[c] \in CallsOf[c] \cup {NoCall}
                        /\ index[c] <= req[c].len
                        /\ PrefixMoved(c)
                        /\ Complete(c)

LEMMA KeptInit == Promise!Init => KeptInv
<1> SUFFICES ASSUME Promise!Init PROVE KeptInv
  OBVIOUS
<1>1. /\ registers = PowerOn /\ ubuf = [c \in Clients |-> NoCall.data]
      /\ req = [c \in Clients |-> NoCall] /\ index = [c \in Clients |-> 0]
      /\ ret = [c \in Clients |-> "none"]
  BY PromiseOperators DEF Promise!Init
<1>2. \A c \in Clients : req[c] = NoCall /\ PrefixMoved(c) /\ Complete(c)
  BY <1>1, MaxLenAssumption DEF PrefixMoved, Complete, Offset
<1>3. NoCall.data \in UserBuffer /\ NoCall.len = 0
  BY NoCallType DEF NoCall, Call
<1> QED BY <1>1, <1>2, <1>3, NoCallType, PowerOnAssumption DEF KeptInv, Result

LEMMA DistanceBack ==
  ASSUME NEW a \in Reg, NEW r \in Reg
  PROVE  Wrap(a + Distance(a, r)) = r
<1>1. /\ a \in Int /\ 0 <= a /\ a < NumRegs /\ r \in Int /\ 0 <= r /\ r < NumRegs
      /\ NumRegs \in Nat
  BY NumRegsType DEF Reg
<1>2. Distance(a, r) = IF r >= a THEN r - a ELSE r - a + NumRegs
  BY DistanceIs
<1>3. a + Distance(a, r) = IF r >= a THEN r ELSE r + NumRegs
  BY <1>1, <1>2
<1> QED BY <1>1, <1>3, WrapOnce

\* Bytes that move next leave those alone that moved before, also those of
\* the other processes.
LEMMA ShiftKeeps ==
  ASSUME Apart, KeptInv, NEW c \in Clients, NEW n \in 0 .. req[c].len - index[c],
         Promise!Shift(c, n)
  PROVE  /\ registers' \in [Reg -> Byte] /\ ubuf' \in [Clients -> UserBuffer]
         /\ \A i \in Offset : i < index[c] + n => registers'[Wrap(req[c].reg + i)] = ubuf'[c][i]
         /\ \A d \in Clients \ {c} : \A i \in Offset :
               i < index[d] => registers'[Wrap(req[d].reg + i)] = ubuf'[d][i]
<1> DEFINE a == req[c].reg
           k == index[c]
<1>1. /\ a \in Reg /\ a \in Int /\ k \in Nat /\ n \in Nat /\ MaxLen \in Nat
      /\ req[c].len \in 0 .. MaxLen /\ k + n <= req[c].len /\ k + n <= MaxLen
      /\ ubuf[c] \in [Offset -> Byte] /\ registers \in [Reg -> Byte]
  BY MaxLenAssumption, NumRegsType DEF KeptInv, Call, Reg, UserBuffer
<1>2. \A d \in Clients, i \in Offset :
         /\ Wrap(req[d].reg + i) \in Reg
         /\ Distance(req[d].reg, Wrap(req[d].reg + i)) = i
  <2>1. \A d \in Clients : req[d].reg \in Reg
    BY DEF KeptInv, Call
  <2>2. \A i \in Offset : i \in 0 .. MaxLen
    BY MaxLenAssumption DEF Offset
  <2> QED BY <2>1, <2>2, DistanceWrap
<1>3. \A i \in Offset : i \in Nat /\ (i < k + n => i < k \/ i \in k .. k + n - 1)
  BY <1>1 DEF Offset
<1>4. \A d \in Clients : \A i \in Offset :
         i < index[d] => registers[Wrap(req[d].reg + i)] = ubuf[d][i]
  BY DEF KeptInv, PrefixMoved
<1>5. CASE req[c].write
  <2>1. registers' = PutRange(registers, a, ubuf[c], k, n) /\ ubuf' = ubuf
    BY <1>5, PromiseOperators DEF Promise!Shift
  <2>2. \A r \in Reg : registers'[r] = IF Distance(a, r) \in k .. k + n - 1
                                       THEN ubuf[c][Distance(a, r)] ELSE registers[r]
    BY <2>1 DEF PutRange
  <2>3. registers' \in [Reg -> Byte]
    <3>1. \A r \in Reg : Distance(a, r) \in k .. k + n - 1 => Distance(a, r) \in Offset
      BY <1>1 DEF Offset
    <3> QED BY <1>1, <2>1, <3>1 DEF PutRange
  <2>4. \A i \in Offset : i < k + n => registers'[Wrap(a + i)] = ubuf'[c][i]
    BY <1>2, <1>3, <1>4, <2>1, <2>2
  <2>5. ASSUME NEW d \in Clients \ {c}, NEW i \in Offset, i < index[d]
        PROVE  registers'[Wrap(req[d].reg + i)] = ubuf'[d][i]
    <3> DEFINE r == Wrap(req[d].reg + i)
    <3>1. r \in Reg /\ registers[r] = ubuf[d][i]
      BY <1>2, <1>4, <2>5
    <3>2. ASSUME Distance(a, r) \in k .. k + n - 1 PROVE FALSE
      <4>1. Distance(a, r) \in Offset /\ Distance(a, r) < req[c].len
        BY <1>1, <3>2 DEF Offset
      <4>2. Wrap(a + Distance(a, r)) = Wrap(req[d].reg + i)
        BY <1>1, <3>1, DistanceBack
      <4>3. req[c] \in CallsOf[c]
        BY <1>5 DEF KeptInv, NoCall
      <4>4. i < req[d].len /\ req[d] \in CallsOf[d]
        <5>1. i \in Nat /\ index[d] \in Nat /\ index[d] <= req[d].len /\ req[d].len \in Int
          BY <1>3 DEF KeptInv, Call
        <5>2. i < req[d].len
          BY <2>5, <5>1
        <5>3. req[d] # NoCall
          BY <5>1, <5>2 DEF NoCall
        <5> QED BY <5>2, <5>3 DEF KeptInv
      <4> HIDE DEF r
      <4> QED BY <1>5, <2>5, <4>1, <4>2, <4>3, <4>4 DEF Apart, r
    <3> QED BY <2>1, <2>2, <3>1, <3>2
  <2> QED BY <2>1, <2>3, <2>4, <2>5 DEF KeptInv
<1>6. CASE ~req[c].write
  <2>1. ubuf' = [ubuf EXCEPT ![c] = GetRange(registers, a, ubuf[c], k, n)] /\ registers' = registers
    BY <1>6, PromiseOperators DEF Promise!Shift
  <2>2. ubuf'[c] = GetRange(registers, a, ubuf[c], k, n) /\ \A d \in Clients \ {c} : ubuf'[d] = ubuf[d]
    BY <2>1 DEF KeptInv
  <2>3. GetRange(registers, a, ubuf[c], k, n) \in UserBuffer
    BY <1>1, <1>2 DEF GetRange, UserBuffer
  <2>4. ubuf' \in [Clients -> UserBuffer]
    BY <2>1, <2>3 DEF KeptInv
  <2>5. \A i \in Offset : i < k + n => registers'[Wrap(a + i)] = ubuf'[c][i]
    BY <1>3, <1>4, <2>1, <2>2 DEF GetRange
  <2> QED BY <1>1, <1>4, <2>1, <2>2, <2>4, <2>5
<1> QED BY <1>5, <1>6

LEMMA KeptStep == Apart /\ KeptInv /\ [Promise!Next]_(Promise!vars) => KeptInv'
<1> SUFFICES ASSUME Apart, KeptInv, [Promise!Next]_(Promise!vars) PROVE KeptInv'
  OBVIOUS
<1> USE DEF KeptInv
<1>1. ASSUME NEW c \in Clients, Promise!Begin(c) PROVE KeptInv'
  <2>1. PICK m \in CallsOf[c] : req' = [req EXCEPT ![c] = m] /\ ubuf' = [ubuf EXCEPT ![c] = m.data]
    BY <1>1 DEF Promise!Begin
  <2>2. m \in Call
    BY CallsAssumption
  <2>3. req' \in [Clients -> Call] /\ ubuf' \in [Clients -> UserBuffer]
    BY <2>1, <2>2 DEF Call
  <2>4. /\ index' = [index EXCEPT ![c] = 0] /\ ret' = [ret EXCEPT ![c] = "none"]
        /\ registers' = registers
    BY <1>1 DEF Promise!Begin
  <2>5. ASSUME NEW d \in Clients
        PROVE  /\ req'[d] \in CallsOf[d] \cup {NoCall} /\ index'[d] <= req'[d].len
               /\ PrefixMoved(d)' /\ Complete(d)'
    <3>1. CASE d = c
      BY <2>1, <2>2, <2>4, <3>1 DEF PrefixMoved, Complete, Offset, Call
    <3>2. CASE d # c
      BY <2>1, <2>4, <3>2 DEF PrefixMoved, Complete
    <3> QED BY <3>1, <3>2
  <2> QED BY <2>3, <2>4, <2>5 DEF Result
<1>2. ASSUME NEW c \in Clients, Promise!Refuse(c) PROVE KeptInv'
  BY <1>2 DEF Promise!Refuse, PrefixMoved, Complete, Result
<1>3. ASSUME NEW c \in Clients, Promise!Move(c) PROVE KeptInv'
  <2>1. PICK n \in 0 .. req[c].len - index[c] :
           /\ Promise!Shift(c, n)
           /\ index' = [index EXCEPT ![c] = @ + n]
           /\ IF index[c] + n < req[c].len
              THEN ret' = ret ELSE ret' = [ret EXCEPT ![c] = "OK"]
    BY <1>3 DEF Promise!Move
  <2>2. req' = req
    BY <1>3 DEF Promise!Move
  <2>3. n \in Nat /\ req[c].len \in Nat /\ index[c] + n <= req[c].len
    BY MaxLenAssumption DEF Call
  <2>4. index' \in [Clients -> Nat] /\ ret' \in [Clients -> Result]
    BY <2>1, <2>3 DEF Result
  <2>5. ASSUME NEW d \in Clients
        PROVE  index'[d] <= req'[d].len /\ PrefixMoved(d)' /\ Complete(d)'
    <3>1. CASE d = c
      <4>1. index'[c] = index[c] + n /\ (ret'[c] = "OK" => index[c] + n = req[c].len)
        <5>1. ret'[c] = "OK" /\ index[c] + n < req[c].len => index[c] = req[c].len
          BY <2>1 DEF Complete
        <5>2. index[c] \in Nat
          OBVIOUS
        <5> QED BY <2>1, <2>3, <5>1, <5>2
      <4> QED BY <2>1, <2>2, <2>3, <3>1, <4>1, ShiftKeeps DEF PrefixMoved, Complete
    <3>2. CASE d # c
      BY <2>1, <2>2, <3>2, ShiftKeeps DEF PrefixMoved, Complete
    <3> QED BY <3>1, <3>2
  <2> QED BY <2>1, <2>2, <2>4, <2>5, ShiftKeeps
<1>4. ASSUME NEW c \in Clients, Promise!Abort(c) PROVE KeptInv'
  <2>1. PICK n \in 0 .. req[c].len - index[c] : Promise!Shift(c, n)
    BY <1>4 DEF Promise!Abort
  <2>2. PICK code \in {"EIO", "EINVAL"} : ret' = [ret EXCEPT ![c] = code]
    BY <1>4 DEF Promise!Abort
  <2>3. req' = req /\ index' = index /\ n \in Nat
    BY <1>4 DEF Promise!Abort
  <2>4. \A d \in Clients : Complete(d)'
    BY <2>2, <2>3 DEF Complete
  <2>5. ASSUME NEW d \in Clients PROVE PrefixMoved(d)'
    <3>1. CASE d = c
      <4>1. \A i \in Offset : i < index[c] => i < index[c] + n
        BY <2>3, MaxLenAssumption DEF Offset
      <4> QED BY <2>1, <2>3, <3>1, <4>1, ShiftKeeps DEF PrefixMoved
    <3>2. CASE d # c
      BY <2>1, <2>3, <3>2, ShiftKeeps DEF PrefixMoved
    <3> QED BY <3>1, <3>2
  <2> QED BY <2>1, <2>2, <2>3, <2>4, <2>5, ShiftKeeps DEF Result
<1>5. CASE UNCHANGED Promise!vars
  BY <1>5 DEF Promise!vars, PrefixMoved, Complete
<1> QED BY <1>1, <1>2, <1>3, <1>4, <1>5 DEF Promise!Next

\* Whatever keeps the promise of RegisterTransfer gives processes that write
\* to no register of one another the right bytes: those counted so far are in
\* place, and a read that has returned 0 has its own registers.
THEOREM PromiseDelivers ==
  ASSUME Apart
  PROVE  PromiseSpec => [](Transferred /\ ReadDelivered)
<1>1. KeptInv => Transferred /\ ReadDelivered
  BY DEF KeptInv, Transferred, ReadDelivered, PrefixMoved, Complete
<1> QED BY <1>1, KeptInit, KeptStep, PTL DEF PromiseSpec, Promise!Spec

\* The ioctl of one process: a read that returned 0 has delivered its registers.
THEOREM OneClientReads ==
  ASSUME OneClient
  PROVE  Spec => []ReadDelivered
<1>1. Apart
  BY DEF OneClient, Apart
<1> QED BY <1>1, OneClientImplementsPromise, PromiseDelivers, PTL

\* The probe alone on the bus, and any number of processes on an i2c-dev bus
\* that keep to registers of their own, get and put the right bytes.
THEOREM DirectDelivers ==
  ASSUME Undisturbed, Apart
  PROVE  Direct!Spec => [](Transferred /\ ReadDelivered)
BY DirectImplementsPromise, PromiseDelivers, PTL
=============================================================================
