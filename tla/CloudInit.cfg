SPECIFICATION Spec
CONSTANTS
  name = name
  p = p
  s = s
  t = t
  Objects = {x, y}
  NoObject = NoObject
  Pools = {p, q}
  Storages = {s, t}
  Names = {name}
  Name <- OneName
  NoVolume = NoVolume
  Deletable = {p}
  AtFirst <- Apart
  Moves <- PJoinsOnce
  Worker = w
  Workers = {w}
  Served <- ServesAll
  Lagging = {}
SYMMETRY Alike
INVARIANTS
  ReadyExists
  NotForgotten
PROPERTIES
  PoolIsKept
\* every object may be gone
CHECK_DEADLOCK FALSE
