SPECIFICATION WireSpec
CONSTANTS
  Frame <- MCFrame
  RawPacket <- MCOutOfRange
  MaxPackets = 3
  ReadSize = 15
  LongsPerSection = 2
  HeightmapLongs = 1
  Biomes = 1
CHECK_DEADLOCK FALSE
INVARIANTS
  RoundTrip
  CutIsIncomplete
  ExactUntilSplit
  PayloadRoundTrip
  OnlyWholePayloads
  CanonicalPayload
  Decodable
  PositionRoundTrip
  Packed
