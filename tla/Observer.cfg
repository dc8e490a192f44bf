SPECIFICATION Spec
CONSTANTS
  Machine = {m1, m2}
  Name = {alice}
  NoName = NoName
  MinViewDistance = 1
  MaxViewDistance = 1
  RequestedViewDistance <- MCRequested
  GarbageViewDistance = {0}
  Position <- MCRow
  MaxEntityId = 3
  MaxTeleportId = 0
SYMMETRY Symmetry
CHECK_DEADLOCK FALSE
INVARIANTS
  TypeOK
  MembershipExact
  ObserverExact
