SPECIFICATION Spec
CONSTANTS
  h = h
  a = a
  b = b
  Auths = {a, b}
  Hosts = {h}
  Objects = {h, a, b}
  NoObject = NoObject
  AuthWorker = AuthWorker
  HostWorker = HostWorker
  Workers = {AuthWorker, HostWorker}
  Served <- ByWorker
  Lagging = {h}
  MaxGeneration = 2
  Changing = {h}
  Choices = {a, b}
  Deletable = {h, a}
PROPERTIES
  FreeAuthIsUnused
  ImplementsOwnership
\* every object may be gone
CHECK_DEADLOCK FALSE
