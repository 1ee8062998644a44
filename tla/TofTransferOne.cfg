SPECIFICATION PathsSpec
CONSTANTS
  c1 = c1
  c2 = c2
  Clients <- TwoClients
  CallsOf <- OneCalls
  ByteBase = 4
  ChunkSize = 4
  MaxLen = 5
  PowerOn <- Ramp
INVARIANTS
  TypeOK
  MessageFitsBuffer
  Transferred
PROPERTIES
  PromiseSpec
  CallReturns
