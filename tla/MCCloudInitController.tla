------------------------ MODULE MCCloudInitController ------------------------
(***************************************************************************)
(* Instances of CloudInitController for TLC: objects of one name, of which *)
(* TLC chooses the Pools that they refer to.  Pool p names the pool s of   *)
(* libvirt and any other Pool t, until users make p name t, once.          *)
(***************************************************************************)
EXTENDS CloudInitController, TLC

CONSTANTS name, p, s, t

ServesAll == [w \in Workers |-> Objects]
OneName   == [x \in Objects |-> name]

Apart      == [pl \in Pools |-> IF pl = p THEN s ELSE t]
PJoinsOnce == [pl \in Pools |-> IF pl = p THEN {t} ELSE {}]

\* The objects are alike.
Alike == Permutations(Objects)
=============================================================================
