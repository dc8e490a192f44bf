SPECIFICATION Spec
CONSTANTS
  Machine = {m1, m2}
  Name = {alice, bob}
  NoName = NoName
  MinViewDistance = 1
  MaxViewDistance = 2
  RequestedViewDistance = {1, 2}
  GarbageViewDistance = {0, 1}
  Position <- MCSpawnOnly
  MaxEntityId = 3
  MaxTeleportId = 0
SYMMETRY Symmetry
CHECK_DEADLOCK FALSE
INVARIANTS
  TabListComplete
  TabListNoGhost
  DanglingExplained
