------------------------------ MODULE Credentials ------------------------------
(***************************************************************************)
(* What the store of credentials promises to its callers, AuthReconciler   *)
(* which registers them and HostReconciler whose dialers read them through *)
(* the path of the entry.                                                  *)
(*                                                                         *)
(* A path serves nothing or the files of one generation; another           *)
(* generation takes its place at once.  A generation is announced (found   *)
(* by Lookup) only after it is served, and withdrawn before its files are. *)
(* What has been withdrawn is never served again under the same path.      *)
(***************************************************************************)
EXTENDS Naturals

CONSTANTS Auths, Generations, NoGeneration

VARIABLES
  served,     \* the generation whose files are under the path of an Auth
  announced,  \* the generation that Lookup returns
  withdrawn   \* the Auths that have been deregistered

vars == <<served, announced, withdrawn>>

Init ==
  /\ served = [a \in Auths |-> NoGeneration]
  /\ announced = served
  /\ withdrawn = {}

Serve(a) ==
  /\ a \notin withdrawn
  /\ \E g \in Generations \ {served[a]} : served' = [served EXCEPT ![a] = g]
  /\ UNCHANGED <<announced, withdrawn>>

Announce(a) ==
  /\ served[a] # NoGeneration
  /\ a \notin withdrawn
  /\ announced' = [announced EXCEPT ![a] = served[a]]
  /\ UNCHANGED <<served, withdrawn>>

Withdraw(a) ==
  /\ announced' = [announced EXCEPT ![a] = NoGeneration]
  /\ withdrawn' = withdrawn \cup {a}
  /\ UNCHANGED served

Remove(a) ==
  /\ a \in withdrawn
  /\ served' = [served EXCEPT ![a] = NoGeneration]
  /\ UNCHANGED <<announced, withdrawn>>

Next ==
  \E a \in Auths :
    Serve(a) \/ Announce(a) \/ Withdraw(a) \/ Remove(a)

Spec == Init /\ [][Next]_vars
=============================================================================
