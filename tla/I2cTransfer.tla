----------------------------- MODULE I2cTransfer -----------------------------
(***************************************************************************)
(* The other two ways to the sensor's registers: the helpers of            *)
(* stmvl53l5cx_i2c.c that the probe of the kernel driver uses, and          *)
(* write_read_multi of platform.cpp on an i2c-dev bus, built without the    *)
(* kernel driver. Both cut a block into chunks and read straight into the   *)
(* caller's buffer. Each caller builds its messages in a buffer of its own, *)
(* so a message is built and sent in one step. The helpers send the address *)
(* and fetch the data of a chunk in two transfers, an I2C_RDWR ioctl does   *)
(* it in one that no other process interrupts.                             *)
(***************************************************************************)
EXTENDS TofMemory

CONSTANTS Clients,    \* the callers
          CallsOf,    \* the blocks each of them may move
          ChunkSize,  \* VL53L5CX_COMMS_CHUNK_SIZE
          Combined    \* whether a chunk is read in one transfer

VARIABLES registers,   \* the sensor's registers
          pointer,     \* the sensor's current register address
          ubuf,        \* pdata of each caller
          req,         \* its arguments
          position,    \* the number of bytes already moved
          pc,          \* where each caller is
          ret          \* what its last call returned
vars == <<registers, pointer, ubuf, req, position, pc, ret>>

Init ==
  /\ registers = PowerOn
  /\ pointer = 0
  /\ ubuf = [c \in Clients |-> NoCall.data]
  /\ req  = [c \in Clients |-> NoCall]
  /\ position = [c \in Clients |-> 0]
  /\ pc  = [c \in Clients |-> "idle"]
  /\ ret = [c \in Clients |-> "none"]
-----------------------------------------------------------------------------
DataSize(c) ==
  LET left  == req[c].len - position[c]
      limit == IF req[c].write THEN ChunkSize - 2 ELSE ChunkSize
  IN  IF left > limit THEN limit ELSE left

\* The two address bytes of the chunk, as the sensor puts them together.
ChunkAddress(c) ==
  LET a == req[c].reg + position[c] IN Address(HighByte(a), LowByte(a))

Return(c, code) ==
  /\ pc'  = [pc EXCEPT ![c] = "idle"]
  /\ ret' = [ret EXCEPT ![c] = code]

\* The end of the do-while loop.
Advance(c) ==
  /\ position' = [position EXCEPT ![c] = @ + DataSize(c)]
  /\ IF position[c] + DataSize(c) < req[c].len
     THEN pc' = [pc EXCEPT ![c] = "chunk"] /\ UNCHANGED ret
     ELSE Return(c, "OK")

Begin(c) ==
  /\ pc[c] = "idle"
  /\ \E k \in CallsOf[c] :
        /\ req'  = [req  EXCEPT ![c] = k]
        /\ ubuf' = [ubuf EXCEPT ![c] = k.data]
  /\ position' = [position EXCEPT ![c] = 0]
  /\ pc'  = [pc EXCEPT ![c] = "chunk"]
  /\ ret' = [ret EXCEPT ![c] = "none"]
  /\ UNCHANGED <<registers, pointer>>

\* The sensor takes n bytes of the chunk.
Stored(c, n) ==
  /\ registers' = PutRange(registers, req[c].reg, ubuf[c], position[c], n)
  /\ pointer' = Wrap(ChunkAddress(c) + n)

WriteChunk(c) ==
  /\ pc[c] = "chunk" /\ req[c].write
  /\ Stored(c, DataSize(c))
  /\ Advance(c)
  /\ UNCHANGED <<ubuf, req>>

\* The transfer fails: nothing was sent, or the sensor took a part.
WriteFault(c) ==
  /\ pc[c] = "chunk" /\ req[c].write
  /\ \/ UNCHANGED <<registers, pointer>>
     \/ \E n \in 0 .. DataSize(c) : Stored(c, n)
  /\ Return(c, "EIO")
  /\ UNCHANGED <<ubuf, req, position>>

\* n bytes come from where the sensor's pointer stands.
Loaded(c, from, n) ==
  /\ ubuf' = [ubuf EXCEPT ![c] = [k \in Offset |->
                IF k - position[c] \in 0 .. n - 1 THEN registers[Wrap(from + k - position[c])] ELSE @[k]]]
  /\ pointer' = Wrap(from + n)

SendAddress(c) ==
  /\ pc[c] = "chunk" /\ ~req[c].write /\ ~Combined
  /\ pointer' = ChunkAddress(c)
  /\ pc' = [pc EXCEPT ![c] = "receive"]
  /\ UNCHANGED <<registers, ubuf, req, position, ret>>

\* Where the bytes of a chunk are about to come from.
From(c) == IF Combined THEN ChunkAddress(c) ELSE pointer
AtData(c) == pc[c] = (IF Combined THEN "chunk" ELSE "receive") /\ ~req[c].write

ReadChunk(c) ==
  /\ AtData(c)
  /\ Loaded(c, From(c), DataSize(c))
  /\ Advance(c)
  /\ UNCHANGED <<registers, req>>

\* The address is not taken, or the data come in part.
ReadFault(c) ==
  /\ pc[c] \in {"chunk", "receive"} /\ ~req[c].write
  /\ \/ pointer' \in {pointer, ChunkAddress(c)} /\ UNCHANGED ubuf
     \/ AtData(c) /\ \E n \in 0 .. DataSize(c) : Loaded(c, From(c), n)
  /\ Return(c, "EIO")
  /\ UNCHANGED <<registers, req, position>>

Step(c) == \/ WriteChunk(c) \/ WriteFault(c)
           \/ SendAddress(c) \/ ReadChunk(c) \/ ReadFault(c)

Next == \E c \in Clients : Begin(c) \/ Step(c)

Spec == Init /\ [][Next]_vars
=============================================================================
