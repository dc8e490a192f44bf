SPECIFICATION Spec
CONSTANTS
  Frame <- MCFrame
  RawPacket = {}
  MaxPackets = 3
  ReadSize = 12
CHECK_DEADLOCK FALSE
INVARIANTS
  FramesFollowFormat
