SPECIFICATION Spec
CONSTANTS
  Machine = {m1}
  Name = {alice}
  NoName = NoName
  MinViewDistance = 1
  MaxViewDistance = 2
  RequestedViewDistance = {0, 1, 2, 4}
  GarbageViewDistance = {0, 1, 3}
  Position <- MCWalk
  MaxEntityId = 2
  MaxTeleportId = 1
CHECK_DEADLOCK FALSE
INVARIANTS
  FirstSettingsUntracked
