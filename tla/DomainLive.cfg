SPECIFICATION FairSpec
CONSTANTS
  vm = vm
  disk = disk
  net = net
  Domains = {vm}
  NoDomain = NoDomain
  Resources = {disk}
  Images = {disk}
  Needs <- OneDisk
  Preexisting = {vm}
  Toggled = {vm}
  Stopping = {}
PROPERTIES
  CreationEnds
  ShutoffEnds
  DeletionEnds
\* the domain may be gone
CHECK_DEADLOCK FALSE
