SPECIFICATION Spec
CONSTANTS
  Frame <- MCFrame
  RawPacket <- MCShort
  MaxPackets = 3
  ReadSize = 12
CHECK_DEADLOCK FALSE
INVARIANTS
  WholePacketConsumed
