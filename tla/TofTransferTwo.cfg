SPECIFICATION IoctlSpec
CONSTANTS
  c1 = c1
  c2 = c2
  Clients <- TwoClients
  CallsOf <- TwoCalls
  ByteBase = 4
  ChunkSize = 4
  MaxLen = 5
  PowerOn <- Ramp
INVARIANT
  ReadDelivered
