SPECIFICATION Spec
CONSTANTS
  image = image
  overlay = overlay
  Volumes = {image, overlay}
  NoVolume = NoVolume
  Base <- ChainBase
  Sourced = {image}
  Preexisting = {}
  MaxSize = 1
  UnitBytes = 1
  Width = 1
  Resized = {}
INVARIANT ReadyIsWritten
CHECK_DEADLOCK FALSE
