SPECIFICATION FairSpec
CONSTANTS
  h = h
  a = a
  b = b
  Auths = {a, b}
  Hosts = {h}
  Objects = {h, a, b}
  NoObject = NoObject
  AuthWorker = AuthWorker
  HostWorker = HostWorker
  Workers = {AuthWorker, HostWorker}
  Served <- ByWorker
  Lagging = {}
  MaxGeneration = 2
  Changing = {h, a}
  Choices = {a, b}
  Deletable = {}
INVARIANTS
  CurrentConnectionIsNew
PROPERTIES
  StoresGoForward
  StoresCatchUp
\* the Specs may have reached the bound
CHECK_DEADLOCK FALSE
