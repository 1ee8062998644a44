----------------------------- MODULE TofTransfer -----------------------------
(***************************************************************************)
(* ioctl(ST_TOF_IOCTL_TRANSFER) of the kernel driver, stmvl53l5cx_module.c: *)
(* processes move blocks of bytes between their memory and the registers   *)
(* of the sensor. A block is cut into chunks that pass through the one     *)
(* kernel buffer raw_data_buffer; every chunk is one or two I2C messages.  *)
(* The driver takes no lock: each action below is a point where another    *)
(* process may run. I2C messages and user copies may fail part way.        *)
(***************************************************************************)
EXTENDS TofMemory

CONSTANTS Clients,    \* the processes that hold /dev/stmvl53l5cx open
          CallsOf,    \* the ioctls each of them may issue
          ChunkSize   \* VL53L5CX_COMMS_CHUNK_SIZE, the size of raw_data_buffer

ASSUME CallsAssumption == CallsOf \in [Clients -> SUBSET Call]
ASSUME ChunkAssumption == ChunkSize \in Nat /\ ChunkSize > 2

VARIABLES registers,         \* the sensor's registers
          pointer,           \* the sensor's current register address
          raw_data_buffer,   \* shared by all the calls
          ubuf,              \* the user buffer of each client
          req,               \* comms_struct of each client
          index,             \* the number of bytes already transferred
          pc,                \* where each client is in the ioctl
          ret                \* what its last ioctl returned
vars == <<registers, pointer, raw_data_buffer, ubuf, req, index, pc, ret>>

Cell == 0 .. ChunkSize - 1
Label == {"idle", "chunk", "copyin", "send", "sendptr", "receive", "copyout"}
Result == {"none", "OK", "EIO", "EINVAL"}

TypeOK ==
  /\ registers \in [Reg -> Byte]
  /\ pointer \in Reg
  /\ raw_data_buffer \in [Cell -> Byte]
  /\ ubuf \in [Clients -> UserBuffer]
  /\ req \in [Clients -> Call]
  /\ index \in [Clients -> 0 .. MaxLen]
  /\ pc \in [Clients -> Label]
  /\ ret \in [Clients -> Result]

Init ==
  /\ registers = PowerOn
  /\ pointer = 0
  /\ raw_data_buffer = [i \in Cell |-> 0]
  /\ ubuf  = [c \in Clients |-> NoCall.data]
  /\ req   = [c \in Clients |-> NoCall]
  /\ index = [c \in Clients |-> 0]
  /\ pc    = [c \in Clients |-> "idle"]
  /\ ret   = [c \in Clients |-> "none"]
-----------------------------------------------------------------------------
\* Mutant: the two address bytes are forgotten.
ChunkLimitFull(c) == ChunkSize

ChunkLimit(c) == IF req[c].write THEN ChunkSize - 2 ELSE ChunkSize

TransferSize(c) ==
  LET left == req[c].len - index[c]
  IN  IF left > ChunkLimit(c) THEN ChunkLimit(c) ELSE left

Goto(c, label) == pc' = [pc EXCEPT ![c] = label] /\ UNCHANGED ret

Return(c, code) ==
  /\ pc'  = [pc EXCEPT ![c] = "idle"]
  /\ ret' = [ret EXCEPT ![c] = code]

\* Mutant: the loop goes on while index <= len.
AdvanceOnceMore(c) ==
  /\ index' = [index EXCEPT ![c] = @ + TransferSize(c)]
  /\ IF index[c] + TransferSize(c) <= req[c].len
     THEN Goto(c, "chunk") ELSE Return(c, "OK")

\* The end of the do-while loop.
Advance(c) ==
  /\ index' = [index EXCEPT ![c] = @ + TransferSize(c)]
  /\ IF index[c] + TransferSize(c) < req[c].len
     THEN Goto(c, "chunk") ELSE Return(c, "OK")

\* copy_from_user of the argument block, memdup_user, of which nobody uses the result
\* or looks at a failure, and the chunk size.
Begin(c) ==
  /\ pc[c] = "idle"
  /\ \E k \in CallsOf[c] :
        /\ req'  = [req  EXCEPT ![c] = k]
        /\ ubuf' = [ubuf EXCEPT ![c] = k.data]
  /\ index' = [index EXCEPT ![c] = 0]
  /\ pc'  = [pc EXCEPT ![c] = "chunk"]
  /\ ret' = [ret EXCEPT ![c] = "none"]
  /\ UNCHANGED <<registers, pointer, raw_data_buffer>>

BadArgument(c) ==
  /\ pc[c] = "idle"
  /\ Return(c, "EINVAL")
  /\ UNCHANGED <<registers, pointer, raw_data_buffer, ubuf, req, index>>

\* The register index of the chunk goes to the first two bytes of the buffer.
SetRegister(c) ==
  /\ pc[c] = "chunk"
  /\ raw_data_buffer' =
        [raw_data_buffer EXCEPT ![0] = HighByte(req[c].reg + index[c]),
                                ![1] = LowByte(req[c].reg + index[c])]
  /\ Goto(c, IF req[c].write THEN "copyin" ELSE "sendptr")
  /\ UNCHANGED <<registers, pointer, ubuf, req, index>>
-----------------------------------------------------------------------------
(* Writing a chunk: one copy from user memory and one I2C message.         *)

\* Mutant: every chunk is taken from the start of the user's buffer.
CopyFromUserStart(c, n) ==
  [i \in Cell |-> IF i - 2 \in 0 .. n - 1 THEN ubuf[c][i - 2] ELSE raw_data_buffer[i]]

\* copy_from_user: the n bytes that could be read, then zeros.
CopyFromUser(c, n) ==
  [i \in Cell |-> IF i - 2 \in 0 .. n - 1 THEN ubuf[c][index[c] + i - 2]
                  ELSE IF i - 2 \in n .. TransferSize(c) - 1 THEN 0
                  ELSE raw_data_buffer[i]]

CopyIn(c) ==
  /\ pc[c] = "copyin"
  /\ raw_data_buffer' = CopyFromUser(c, TransferSize(c))
  /\ Goto(c, "send")
  /\ UNCHANGED <<registers, pointer, ubuf, req, index>>

CopyInFault(c) ==
  /\ pc[c] = "copyin"
  /\ \E n \in 0 .. TransferSize(c) - 1 : raw_data_buffer' = CopyFromUser(c, n)
  /\ Return(c, "EINVAL")
  /\ UNCHANGED <<registers, pointer, ubuf, req, index>>

\* The sensor takes an address and n bytes of payload off the bus.
Address0 == Address(raw_data_buffer[0], raw_data_buffer[1])
SensorStores(n) ==
  /\ registers' = [r \in Reg |-> IF Distance(Address0, r) < n
                                 THEN raw_data_buffer[2 + Distance(Address0, r)]
                                 ELSE registers[r]]
  /\ pointer' = Wrap(Address0 + n)

SendMessage(c) ==
  /\ pc[c] = "send"
  /\ SensorStores(TransferSize(c))
  /\ Advance(c)
  /\ UNCHANGED <<raw_data_buffer, ubuf, req>>

\* i2c_transfer fails: nothing was sent, or the sensor took a part.
SendFault(c) ==
  /\ pc[c] = "send"
  /\ \/ UNCHANGED <<registers, pointer>>
     \/ \E n \in 0 .. TransferSize(c) : SensorStores(n)
  /\ Return(c, "EIO")
  /\ UNCHANGED <<raw_data_buffer, ubuf, req, index>>
-----------------------------------------------------------------------------
(* Reading a chunk: two I2C messages and one copy to user memory.          *)

SendPointer(c) ==
  /\ pc[c] = "sendptr"
  /\ pointer' = Address0
  /\ Goto(c, "receive")
  /\ UNCHANGED <<registers, raw_data_buffer, ubuf, req, index>>

SendPointerFault(c) ==
  /\ pc[c] = "sendptr"
  /\ pointer' \in {pointer, Address0}
  /\ Return(c, "EIO")
  /\ UNCHANGED <<registers, raw_data_buffer, ubuf, req, index>>

\* The sensor sends n bytes from its pointer on, which moves along.
SensorLoads(n) ==
  /\ raw_data_buffer' = [i \in Cell |-> IF i < n THEN registers[Wrap(pointer + i)]
                                        ELSE raw_data_buffer[i]]
  /\ pointer' = Wrap(pointer + n)

ReceiveMessage(c) ==
  /\ pc[c] = "receive"
  /\ SensorLoads(TransferSize(c))
  /\ Goto(c, "copyout")
  /\ UNCHANGED <<registers, ubuf, req, index>>

ReceiveFault(c) ==
  /\ pc[c] = "receive"
  /\ \E n \in 0 .. TransferSize(c) : SensorLoads(n)
  /\ Return(c, "EIO")
  /\ UNCHANGED <<registers, ubuf, req, index>>

\* Mutant: every chunk is copied to the start of the user's buffer.
CopyToUserStart(c, n) ==
  ubuf' = [ubuf EXCEPT ![c] = [i \in Offset |-> IF i \in 0 .. n - 1 THEN raw_data_buffer[i] ELSE @[i]]]

CopyToUser(c, n) ==
  ubuf' = [ubuf EXCEPT ![c] = [i \in Offset |->
             IF i - index[c] \in 0 .. n - 1 THEN raw_data_buffer[i - index[c]] ELSE @[i]]]

CopyOut(c) ==
  /\ pc[c] = "copyout"
  /\ CopyToUser(c, TransferSize(c))
  /\ Advance(c)
  /\ UNCHANGED <<registers, pointer, raw_data_buffer, req>>

CopyOutFault(c) ==
  /\ pc[c] = "copyout"
  /\ \E n \in 0 .. TransferSize(c) - 1 : CopyToUser(c, n)
  /\ Return(c, "EINVAL")
  /\ UNCHANGED <<registers, pointer, raw_data_buffer, req, index>>
-----------------------------------------------------------------------------
WriteStep(c) == SetRegister(c) \/ CopyIn(c) \/ CopyInFault(c) \/ SendMessage(c) \/ SendFault(c)
ReadStep(c)  == \/ SendPointer(c) \/ SendPointerFault(c)
                \/ ReceiveMessage(c) \/ ReceiveFault(c)
                \/ CopyOut(c) \/ CopyOutFault(c)
Step(c) == WriteStep(c) \/ ReadStep(c)

Next == \E c \in Clients : Begin(c) \/ BadArgument(c) \/ Step(c)

Spec == Init /\ [][Next]_vars

\* A process inside the ioctl is scheduled, and the I2C adapter answers or
\* times out; nobody has to issue a call.
FairSpec == Spec /\ \A c \in Clients : WF_vars(Step(c))
-----------------------------------------------------------------------------
(* Properties                                                              *)

\* A chunk never runs past the end of raw_data_buffer, which holds ChunkSize
\* bytes: the write path counts its two address bytes (236-239, 254).
MessageFitsBuffer ==
  \A c \in Clients : pc[c] \notin {"idle"} =>
     /\ index[c] + TransferSize(c) <= req[c].len
     /\ TransferSize(c) + (IF req[c].write THEN 2 ELSE 0) <= ChunkSize

\* The bytes a call has counted in index are where they belong, in order and
\* unchanged: in the registers for a write, in the user buffer for a read
\* (244-303). It speaks of a call in progress, failed or completed.
PrefixMoved(c) ==
  \A i \in Offset : i < index[c] => registers[Wrap(req[c].reg + i)] = ubuf[c][i]
Transferred == \A c \in Clients : PrefixMoved(c)

\* "copy to user buffer the read transfer" (stmvl53l5cx_module.c:291): a read
\* that returns 0 has left the content of its own registers in the user buffer.
ReadDelivered ==
  \A c \in Clients :
     (ret[c] = "OK" /\ ~req[c].write) =>
        \A i \in Offset : i < req[c].len => ubuf[c][i] = registers[Wrap(req[c].reg + i)]

\* The driver as its callers see it: see RegisterTransfer.
Promise == INSTANCE RegisterTransfer
             WITH done <- index, busy <- {c \in Clients : pc[c] # "idle"}
PromiseSpec == Promise!Spec

\* Every call returns, whatever its length, 0 included, and whatever fails.
CallReturns == \A c \in Clients : (pc[c] # "idle") ~> (pc[c] = "idle")
=============================================================================
