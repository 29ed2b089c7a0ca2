SPECIFICATION PromptSpec
CONSTANTS
  vm = vm
  disk = disk
  net = net
  Domains = {vm}
  NoDomain = NoDomain
  Resources = {}
  Images = {}
  Needs <- Diskless
  Preexisting = {}
  Toggled = {}
  Stopping = {}
PROPERTY HostIsKept
\* the domain may be gone
CHECK_DEADLOCK FALSE
