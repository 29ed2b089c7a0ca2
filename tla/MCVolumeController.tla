------------------------- MODULE MCVolumeController -------------------------
(***************************************************************************)
(* An instance of VolumeController for TLC: an image that is downloaded    *)
(* and a volume based on it.                                               *)
(***************************************************************************)
EXTENDS VolumeController

CONSTANTS image, overlay

ChainBase == [v \in {image, overlay} |-> IF v = overlay THEN image ELSE NoVolume]
=============================================================================
