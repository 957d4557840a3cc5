SPECIFICATION FairSpec
CONSTANTS
  BufferSize = 9
  HeaderSize = 2
  MaxRecv = 4
  ByteValues = 16
  MaxPackets = 5
  MaxReads = 6
  Packets <- MCPackets
  Junk <- MCJunk
INVARIANT
  EveryPacketHasHandler
CHECK_DEADLOCK FALSE
