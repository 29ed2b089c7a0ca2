-------------------------- MODULE MCProbedResource --------------------------
(***************************************************************************)
(* An instance of ProbedResource for TLC: a pool, a network or a device    *)
(* that users move between two hosts.                                      *)
(***************************************************************************)
EXTENDS ProbedResource

ServesAll == [v \in Workers |-> Objects]
=============================================================================
