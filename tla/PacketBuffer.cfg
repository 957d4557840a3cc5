SPECIFICATION FairSpec
CONSTANTS
  BufferSize = 9
  HeaderSize = 2
  MaxRecv = 4
  ByteValues = 16
  MaxPackets = 5
  MaxReads = 6
  Packets <- MCPackets
  Junk <- MCJunk
INVARIANTS
  TypeOK
  WindowIsStream
  FramingExact
PROPERTIES
  DropOnlyAtExactFill
  AllDelivered
CHECK_DEADLOCK FALSE
