SPECIFICATION FairSpec
CONSTANTS
  image = image
  overlay = overlay
  Volumes = {image, overlay}
  NoVolume = NoVolume
  Base <- ChainBase
  Sourced = {image}
  Preexisting = {}
  MaxSize = 1
  UnitBytes = 1
  Width = 1
  Resized = {}
PROPERTIES
  CreationEnds
  DeletionEnds
\* every volume may be gone
CHECK_DEADLOCK FALSE
