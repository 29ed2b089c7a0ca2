----------------------------- MODULE Reconcilers -----------------------------
(***************************************************************************)
(* What the controllers run on: the API server, the informer cache of the  *)
(* manager, the work queue and one worker for each controller (the default *)
(* of MaxConcurrentReconciles).  A controller's module extends this one    *)
(* and adds what an object holds, the places of its worker and its calls.  *)
(*                                                                         *)
(* The cache lags behind the API server.  Any call may fail; it may also   *)
(* take effect although its caller sees an error.  The API server refuses  *)
(* an update that is based on an old version of the object: versions are   *)
(* not numbered, what matters of a copy is whether it is the newest one.   *)
(* A name is used once: a deleted object is not created again.             *)
(***************************************************************************)

CONSTANTS
  Objects,    \* the objects that users may create
  NoObject,
  Workers,    \* the workers of the controllers
  Served,     \* Served[w]: the objects that worker w reconciles
  Lagging     \* bound: the objects whose newest version may be missing in the
              \* cache while anything else happens

ASSUME NoObjectIsNoObject == NoObject \notin Objects
ASSUME LaggingAreObjects  == Lagging \subseteq Objects
ASSUME ServedAreObjects   == Served \in [Workers -> SUBSET Objects]
ASSUME ServedOnce         == \A v, w \in Workers : v # w => Served[v] \cap Served[w] = {}

VARIABLES
  obj,      \* the objects of the API server
  cache,    \* the informer cache
  behind,   \* the objects of which the cache is not the newest version
  queued,   \* the work queues
  pc,       \* where a worker is
  cur,      \* the object it reconciles
  loc,      \* its copy of that object
  fresh     \* the workers whose copy is the newest version

apiVars    == <<obj, behind>>
workerVars == <<pc, cur, loc, fresh>>
coreVars   == <<apiVars, cache, queued, workerVars>>

\* An object that is there is a record with a life, a finalizer and whatever
\* its controller looks at; of others nothing is left but their life.
Absent     == [life |-> "absent"]
Gone       == [life |-> "gone"]
Missing    == {Absent, Gone}
Present(o)  == o.life \in {"live", "deleting"}
Deleting(o) == o.life = "deleting"

CoreInit ==
  /\ obj = [x \in Objects |-> Absent]
  /\ cache = obj
  /\ behind = {} /\ queued = {}
  /\ pc = [w \in Workers |-> "idle"]
  /\ cur = [w \in Workers |-> NoObject]
  /\ loc = [w \in Workers |-> Absent]
  /\ fresh = {}

\* With Object the set of the objects that are there and Places those of a
\* worker: the variables have their types, and a copy is the newest version if
\* the API server says so.
CoreTypeOK(Object, Places) ==
  /\ obj \in [Objects -> Object \cup Missing]
  /\ cache \in [Objects -> Object \cup Missing]
  /\ behind \in SUBSET Objects /\ queued \in SUBSET Objects
  /\ pc \in [Workers -> Places \cup {"idle"}]
  /\ cur \in [Workers -> Objects \cup {NoObject}]
  /\ loc \in [Workers -> Object \cup {Absent}]
  /\ fresh \in SUBSET Workers
  /\ \A w \in Workers : IF pc[w] = "idle" THEN cur[w] = NoObject
                        ELSE cur[w] \in Served[w] /\ loc[w] \in Object
  /\ \A w \in fresh : pc[w] # "idle" /\ obj[cur[w]] = loc[w]
  /\ \A x \in Objects \ behind : cache[x] = obj[x]

-----------------------------------------------------------------------------
(***************************************************************************)
(* The API server.                                                         *)
(***************************************************************************)

\* An object that is being deleted is removed with its finalizer.
Stored(o) == IF Deleting(o) /\ ~o.finalizer THEN Gone ELSE o

Store(x, o) ==
  /\ obj' = [obj EXCEPT ![x] = Stored(o)]
  /\ behind' = behind \cup {x}

\* The cache has caught up on the objects that do not lag.
Prompt == behind \subseteq Lagging

\* A write of somebody else
OthersWrite(x, o) ==
  /\ Prompt
  /\ Store(x, o)
  /\ fresh' = {w \in fresh : cur[w] # x}
  /\ UNCHANGED <<cache, queued, pc, cur, loc>>

Delete(x) ==
  /\ obj[x].life = "live"
  /\ OthersWrite(x, [obj[x] EXCEPT !.life = "deleting"])

\* The cache learns of a write later.  What it then enqueues depends on the
\* watches of the controllers: xs.
Learn(x, xs) ==
  /\ x \in behind
  /\ behind' = behind \ {x}
  /\ cache' = [cache EXCEPT ![x] = obj[x]]
  /\ queued' = queued \cup xs
  /\ UNCHANGED <<obj, workerVars>>

-----------------------------------------------------------------------------
(***************************************************************************)
(* A worker.  It takes an object from its queue and reads it from the      *)
(* cache; its reconcile has returned nil when it is Done, and an error or  *)
(* Requeue when the object is to be reconciled again.                      *)
(***************************************************************************)
At(w, l) == pc[w] = l /\ Prompt

End(w) ==
  /\ pc' = [pc EXCEPT ![w] = "idle"]
  /\ cur' = [cur EXCEPT ![w] = NoObject]
  /\ loc' = [loc EXCEPT ![w] = Absent]
  /\ fresh' = fresh \ {w}

Goto(w, l) == pc' = [pc EXCEPT ![w] = l] /\ UNCHANGED <<cur, loc, fresh>>

\* Neither the API server nor its cache takes part in a step.
Local == UNCHANGED <<apiVars, cache>>

Jump(w, l) == Goto(w, l) /\ UNCHANGED queued
Done(w)    == End(w) /\ UNCHANGED queued
Retry(w)   == End(w) /\ queued' = queued \cup {cur[w]}

Take(w, x, l) ==
  /\ At(w, "idle") /\ x \in queued \cap Served[w]
  /\ queued' = queued \ {x}
  /\ IF Present(cache[x])
       THEN /\ pc' = [pc EXCEPT ![w] = l]
            /\ cur' = [cur EXCEPT ![w] = x]
            /\ loc' = [loc EXCEPT ![w] = cache[x]]
            /\ fresh' = IF x \in behind THEN fresh ELSE fresh \cup {w}
       ELSE UNCHANGED workerVars
  /\ Local

\* A write whatever the version
WriteOverwrites(w, o, l) ==
  /\ Store(cur[w], o)
  /\ pc' = [pc EXCEPT ![w] = l]
  /\ loc' = [loc EXCEPT ![w] = o]
  /\ UNCHANGED <<cache, queued, cur, fresh>>

\* Update and Status().Update write the copy o, if it is the newest version;
\* what was stored takes the place of the copy.
WriteOk(w, o, l) ==
  /\ w \in fresh
  /\ Store(cur[w], o)
  /\ pc' = [pc EXCEPT ![w] = l]
  /\ loc' = [loc EXCEPT ![w] = o]
  /\ UNCHANGED <<cache, queued, cur, fresh>>

\* The last write of a reconcile
WriteEnds(w, o) ==
  /\ w \in fresh
  /\ Store(cur[w], o)
  /\ UNCHANGED cache

\* A write is refused or lost, or only the reply is.
WriteFails(w, o) ==
  /\ UNCHANGED apiVars \/ (w \in fresh /\ Store(cur[w], o))
  /\ Retry(w)
  /\ UNCHANGED cache

\* The operator crashes.  The next one lists every object, which fills its
\* cache and its queues, before it reconciles.
Restart ==
  /\ cache' = obj /\ behind' = {}
  /\ queued' = {x \in Objects : Present(obj[x])}
  /\ pc' = [w \in Workers |-> "idle"]
  /\ cur' = [w \in Workers |-> NoObject]
  /\ loc' = [w \in Workers |-> Absent]
  /\ fresh' = {}
  /\ UNCHANGED obj

-----------------------------------------------------------------------------
(***************************************************************************)
(* What Ownership sees of the objects.                                     *)
(***************************************************************************)
LifeOf == [x \in Objects |-> obj[x].life]
Held   == {x \in Objects : Present(obj[x]) /\ obj[x].finalizer}

\* The cache knows that x is being deleted, and no reconcile has an older copy.
Retired ==
  {x \in Objects :
     /\ cache[x].life \in {"deleting", "gone"}
     /\ \A w \in Workers : pc[w] # "idle" /\ cur[w] = x => Deleting(loc[w])}
=============================================================================
