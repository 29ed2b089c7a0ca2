------------------------------ MODULE Ownership ------------------------------
(***************************************************************************)
(* What the controllers promise about what they make outside of the API    *)
(* server: a connection, credentials, a volume or a domain, for an object. *)
(*                                                                         *)
(* Nothing is made for an object before it holds the finalizer, and the    *)
(* object does not go before what was made for it is given up.  That is    *)
(* done only when the object is retired: its deletion has begun, and the   *)
(* controller knows.  What has been given up is never made again, so that  *)
(* nothing stays behind when the object goes.                              *)
(***************************************************************************)

CONSTANTS
  Objects,
  Volatile   \* what is made is in the memory of the operator

VARIABLES
  life,      \* of an object: "absent", "live", "deleting" or "gone"
  held,      \* the objects with the finalizer
  has,       \* the objects that something was made for
  retired    \* the objects whose deletion the controller works on

vars == <<life, held, has, retired>>

Init ==
  /\ life = [x \in Objects |-> "absent"]
  /\ held = {} /\ has = {} /\ retired = {}

Lives(x, from, to) == life[x] = from /\ life' = [life EXCEPT ![x] = to]

Create(x) == Lives(x, "absent", "live") /\ UNCHANGED <<held, has>>

Hold(x) ==
  /\ life[x] = "live"
  /\ held' = held \cup {x}
  /\ UNCHANGED <<life, has>>

Delete(x) ==
  /\ Lives(x, "live", IF x \in held THEN "deleting" ELSE "gone")
  /\ UNCHANGED <<held, has>>

Make(x) ==
  /\ x \in held \ retired
  /\ has' = has \cup {x}
  /\ UNCHANGED <<life, held>>

Drop(x) ==
  /\ x \in retired
  /\ has' = has \ {x}
  /\ UNCHANGED <<life, held>>

Release(x) ==
  /\ x \in retired \ has
  /\ Lives(x, "deleting", "gone")
  /\ held' = held \ {x}
  /\ UNCHANGED has

\* The operator restarts.
Lose == Volatile /\ has' = {} /\ UNCHANGED <<life, held>>

\* The controller may learn of deletions at any time.
Retires ==
  /\ retired \subseteq retired'
  /\ \A x \in retired' : life'[x] \in {"deleting", "gone"}

Next ==
  /\ Retires
  /\ \/ \E x \in Objects :
          Create(x) \/ Hold(x) \/ Delete(x) \/ Make(x) \/ Drop(x) \/ Release(x)
     \/ Lose
     \/ UNCHANGED <<life, held, has>>

Spec == Init /\ [][Next]_vars
=============================================================================
