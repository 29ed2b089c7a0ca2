------------------------- MODULE MCDomainController -------------------------
(***************************************************************************)
(* Instances of DomainController for TLC: a domain with a disk and an      *)
(* interface, one with a disk only, and one with neither.                  *)
(***************************************************************************)
EXTENDS DomainController

CONSTANTS vm, disk, net

DiskAndNet == [d \in {vm} |-> <<disk, net>>]
OneDisk    == [d \in {vm} |-> <<disk>>]
Diskless   == [d \in {vm} |-> <<>>]
=============================================================================
