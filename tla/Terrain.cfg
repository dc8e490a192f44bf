SPECIFICATION TerrainSpec
CONSTANTS
  Machine = {m1, m2}
  Name = {alice}
  NoName = NoName
  MinViewDistance = 2
  MaxViewDistance = 2
  RequestedViewDistance = {2}
  GarbageViewDistance = {0}
  Position <- MCRow
  MaxEntityId = 2
  MaxTeleportId = 0
  Site <- MCSite
  Block = {b1}
SYMMETRY Symmetry
CHECK_DEADLOCK FALSE
INVARIANTS
  TerrainFresh
  NoFalseHoles
PROPERTIES
  ToldInside
