SPECIFICATION Spec
CONSTANTS
  vm = vm
  disk = disk
  net = net
  Domains = {vm}
  NoDomain = NoDomain
  Resources = {disk, net}
  Images = {disk}
  Needs <- DiskAndNet
  Preexisting = {}
  Toggled = {vm}
  Stopping = {vm}
INVARIANTS
  TypeOK
PROPERTIES
  UndefineIsAskedFor
  NeedsAreKept
  ImplementsOwnership
\* the domain may be gone
CHECK_DEADLOCK FALSE
