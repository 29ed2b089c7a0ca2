SPECIFICATION FairSpec
CONSTANTS
  Auths = {a1}
  Dialers = {d1}
  Dirs = {p1, p2, p3, p4, p5}
  MaxGeneration = 3
  MaxFailures = 2
  NoAuth = NoAuth
  NoDir = NoDir
INVARIANTS
  PathIsWhole
  NothingIsLeft
PROPERTIES
  NoOldFiles
  EntryCatchesUp
  ImplementsCredentials
CHECK_DEADLOCK FALSE
