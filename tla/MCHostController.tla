--------------------------- MODULE MCHostController ---------------------------
(***************************************************************************)
(* An instance of HostController for TLC: a host and one or two Auths.     *)
(***************************************************************************)
EXTENDS HostController

CONSTANTS h, a, b

ByWorker == [w \in {AuthWorker, HostWorker} |-> IF w = AuthWorker THEN Auths ELSE Hosts]
=============================================================================
