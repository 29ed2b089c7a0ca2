SPECIFICATION Spec
CONSTANTS
  image = image
  overlay = overlay
  Volumes = {image, overlay}
  NoVolume = NoVolume
  Base <- ChainBase
  Sourced = {}
  Preexisting = {}
  MaxSize = 3
  UnitBytes = 2
  Width = 5
  Resized = {image}
INVARIANTS
  TypeOK
  ReadyExists
  StorageIsLabelled
PROPERTIES
  DropIsAskedFor
  BackingIsKept
  NeverShrinks
  ImplementsOwnership
\* every volume may be gone
CHECK_DEADLOCK FALSE
