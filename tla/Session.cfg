SPECIFICATION SessionSpec
CONSTANTS
  Session = {s1}
  ReadTimeout = 10
  Interval = 5
  Period = 1
  Lateness = 1
  Delay = 2
  MaxTime = 24
  Channel = {brand, other}
  Brand = brand
  Data <- MCData
  Window = {0, 1, 255}
  Slot <- MCSlot
  Hand = {0, 1, 2}
  Status <- MCStatus
  Face <- MCFace
  Flags = {0, 15}
  Axis = {x, z}
  Fine = 3
  Coordinate <- MCCoordinate
  Yaw <- MCYaw
  MaxMoves = 2
  BlockParts = 3
  MaxEntity = 120
  Stride = 47
CHECK_DEADLOCK FALSE
INVARIANTS
  PromptNeverTimedOut
  SilentIsTimedOut
  KeepAlivesRegular
  KickExact
  DriftBounded
  AngleClose
  HeadFollows
  ChunkExact
PROPERTIES
  ChunkMonotone
