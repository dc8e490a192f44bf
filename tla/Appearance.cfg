SPECIFICATION LookSpec
CONSTANTS
  Machine = {m1, m2}
  Name = {alice}
  NoName = NoName
  MinViewDistance = 1
  MaxViewDistance = 1
  RequestedViewDistance = {1}
  GarbageViewDistance = {0}
  Position <- MCAway
  MaxEntityId = 2
  MaxTeleportId = 0
SYMMETRY Symmetry
CHECK_DEADLOCK FALSE
INVARIANTS
  FlagsFresh
  PoseFresh
