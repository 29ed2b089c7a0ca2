------------------------- MODULE HostControllerProofs -------------------------
(***************************************************************************)
(* No credentials outlive their Auth and no connection its Host; the label *)
(* of a Host names the Auth its connection was made with; and the check of *)
(* the deletion of an Auth misses such a Host only in the cases that       *)
(* FreeAuthIsUnused names.  All of it for any objects, generations and     *)
(* interleavings of the two workers.                                       *)
(*                                                                         *)
(* The difficulty is that HostReconciler compares the label of an old copy *)
(* with the reference of that copy.  What makes it sound is Shows: an old  *)
(* version whose label is the one of its reference shows the label that    *)
(* the newest version has.                                                 *)
(***************************************************************************)
EXTENDS HostController, ReconcilersProofs

Removing == {"check", "deregister", "unfinalize"}
OfAuths  == {"secret", "register"}
OfHosts  == {"auth", "creds", "entry", "dial", "label", "probe"}

\* What a reconcile knows at the places it gets to
PlaceInv ==
  /\ \A w \in Workers :
       /\ pc[w] \in Removing => Deleting(Copy(w)) /\ Copy(w).finalizer
       /\ pc[w] \in OfAuths \cup OfHosts => ~Deleting(Copy(w)) /\ Copy(w).finalizer
       /\ pc[w] \in OfAuths => w = AuthWorker
       /\ pc[w] \in OfHosts => w = HostWorker
  /\ pc[AuthWorker] = "unfinalize" => creds[cur[AuthWorker]] = 0
  /\ pc[HostWorker] = "unfinalize" => conns[cur[HostWorker]] = NoConnection
  /\ pc[HostWorker] \in {"creds", "entry", "dial"} => spec # 0
  /\ pc[HostWorker] \in {"entry", "dial"} => cred # 0

\* Of the two kinds of objects only a Host refers to an Auth.
Refers(o, x) == Present(o) => (o.ref = NoObject <=> x \in Auths)
RefInv ==
  /\ \A x \in Objects : Refers(obj[x], x) /\ Refers(cache[x], x)
  /\ \A w \in Workers : pc[w] # "idle" => Refers(Copy(w), cur[w])

\* What the label in version c of x shows
Shows(c, x) == Present(c) /\ c.label = c.ref => (Present(obj[x]) => obj[x].label = c.label)
LabelInv ==
  /\ \A x \in Hosts : Shows(cache[x], x)
  /\ pc[HostWorker] # "idle" => Shows(host, cur[HostWorker])
  /\ HostWorker \in fresh /\ pc[HostWorker] # "probe" =>
       LET c == cache[cur[HostWorker]] IN Present(c) /\ c.ref = host.ref /\ c.label = host.label
  /\ pc[HostWorker] = "label" =>
       LET c == conns[cur[HostWorker]] IN c # NoConnection /\ c.auth = host.ref

IInv == TypeOK /\ SeenInv /\ PlaceInv /\ RefInv /\ StoresAreOwned /\ LabelInv
        /\ ConnectionIsLabelled

-----------------------------------------------------------------------------
\* The objects and the workers are of two kinds.
LEMMA Kinds ==
  /\ AuthWorker \in Workers /\ HostWorker \in Workers /\ AuthWorker # HostWorker
  /\ \A w \in Workers : w = AuthWorker \/ w = HostWorker
  /\ Auths \subseteq Objects /\ Hosts \subseteq Objects /\ Auths \cap Hosts = {}
  /\ \A x \in Objects : x \in Auths \/ x \in Hosts
  /\ NoObject \notin Auths /\ NoObject \notin Hosts
  /\ Served[AuthWorker] = Auths /\ Served[HostWorker] = Hosts
BY ObjectsAreOfTwoKinds, NoObjectIsNoObject

\* The writes of the controllers, field by field
LEMMA Writings ==
  ASSUME NEW o \in Object
  PROVE  /\ \A p \in {WithFinalizer(o), Prevented(o), Labelled(o)} : p \in Object /\ Follows(p, o)
         /\ \A p \in {WithFinalizer(o), Prevented(o), Unfinalized(o)} :
              p.ref = o.ref /\ p.label = o.label
         /\ Unfinalized(o) \in Object /\ Unfinalized(o).life = o.life
         /\ WithFinalizer(o).finalizer
         /\ Labelled(o).ref = o.ref /\ Labelled(o).label = o.ref
         /\ Labelled(o).finalizer = o.finalizer
         /\ \A p \in {WithFinalizer(o), Prevented(o), Unfinalized(o), Labelled(o)} :
              p.generation = o.generation
<1>1. /\ WithFinalizer(o) \in Object /\ Prevented(o) \in Object /\ Unfinalized(o) \in Object
      /\ WithFinalizer(o).finalizer
      /\ \A p \in {WithFinalizer(o), Prevented(o), Unfinalized(o)} :
           p.ref = o.ref /\ p.label = o.label /\ p.life = o.life
           /\ p.generation = o.generation
      /\ Prevented(o).finalizer = o.finalizer
  BY DEF WithFinalizer, Prevented, Unfinalized, Object
<1>2. /\ Labelled(o) \in Object /\ Labelled(o).life = o.life /\ Labelled(o).ref = o.ref
      /\ Labelled(o).label = o.ref /\ Labelled(o).finalizer = o.finalizer
      /\ Labelled(o).generation = o.generation
  BY DEF Labelled, Object
<1> QED
  BY <1>1, <1>2 DEF Follows

\* Objects are what ReconcilersProofs calls so.
LEMMA ObjectsAreObjects == AreObjects(Object)
BY DEF AreObjects, Object, Present

\* A worker and its copy, between two steps of a reconcile
LEMMA Working ==
  ASSUME TypeOK, NEW w \in Workers
  PROVE  /\ CoreTypeOK(Object, Places)
         /\ pc \in [Workers -> Places \cup {"idle"}]
         /\ pc[w] # "idle" => /\ Copy(w) \in Object /\ cur[w] \in Objects
                              /\ w = AuthWorker => cur[w] \in Auths
                              /\ w = HostWorker => cur[w] \in Hosts
BY Kinds, ServedAreObjects DEF TypeOK, CoreTypeOK, Copy

\* The initial state satisfies the invariant.
LEMMA InitIInv == Init => IInv
<1> SUFFICES ASSUME Init PROVE IInv
  OBVIOUS
<1>1. CoreTypeOK(Object, Places)
  BY ServedAreObjects DEF Init, CoreInit, CoreTypeOK, Missing, Absent
<1>2. /\ \A w \in Workers : pc[w] = "idle"
      /\ \A x \in Objects : obj[x] = Absent /\ cache[x] = Absent
      /\ ~Present(Absent) /\ fresh = {}
  BY DEF Init, CoreInit, Present, Absent
<1>3. TypeOK
  BY <1>1, <1>2, MaxGenerationIsPositive DEF Init, TypeOK, NoConnection
<1>4. SeenInv
  BY <1>2 DEF SeenInv, Tells, Over, Absent
<1>5. PlaceInv /\ RefInv /\ LabelInv
  BY <1>2, Kinds DEF PlaceInv, Removing, OfAuths, OfHosts, RefInv, Refers, LabelInv, Shows
<1>6. StoresAreOwned /\ ConnectionIsLabelled
  BY DEF Init, StoresAreOwned, ConnectionIsLabelled, Connected, NoConnection
<1> QED
  BY <1>3, <1>4, <1>5, <1>6 DEF IInv

-----------------------------------------------------------------------------
(***************************************************************************)
(* The steps of the reconciles are steps of a worker, of which only two    *)
(* may remove the finalizer.                                               *)
(***************************************************************************)
Steps(w) == \/ CommonOk(w) \/ CommonFails(w)
            \/ w = AuthWorker /\ (SecretOk \/ RegisterOk \/ SecretFails \/ RegisterFails)
            \/ w = HostWorker /\ (GetAuthOk \/ LookupOk \/ EntryOk \/ DialOk \/ AuthLabelOk
                                  \/ Probe \/ GetAuthFails \/ AuthLabelFails \/ ProbeFails)
RemovingSteps(w) == UnfinalizeOk(w) \/ UnfinalizeFails(w)

Around == \/ \E w \in Workers, x \in Objects : Begin(w, x)
          \/ Environment \/ UNCHANGED vars

LEMMA NextSteps == ASSUME [Next]_vars PROVE (\E w \in Workers : Steps(w)) \/ Around
BY Kinds DEF Next, AuthOk, AuthFails, HostOk, HostFails, Steps, Around

LEMMA StepShape ==
  ASSUME TypeOK, PlaceInv, NEW w \in Workers, Steps(w)
  PROVE  /\ pc[w] # "idle" /\ WorkerStep(w, Object, Places)
         /\ IF RemovingSteps(w) THEN RemovingStep(w) /\ pc[w] = "unfinalize"
                                ELSE KeepingStep(w)
<1>1. pc[w] # "idle"
  BY DEF Steps, CommonOk, CommonFails, At, AddFinalizerOk, Dispatch, FreeOk, PreventOk,
         Deregister, UnfinalizeOk, AddFinalizerFails, PreventFails, UnfinalizeFails, SecretOk,
         RegisterOk, SecretFails, RegisterFails, GetAuthOk, LookupOk, EntryOk, DialOk,
         AuthLabelOk, Probe, ProbeFails, GetAuthFails, AuthLabelFails
<1>2. Copy(w) \in Object /\ Copy(w) = loc[w]
  BY <1>1, Working DEF Copy
<1>3. CASE Dispatch(w) \/ FreeOk(w) \/ Deregister(w) \/ (w = AuthWorker /\ (SecretOk
             \/ SecretFails \/ RegisterFails))
           \/ (w = HostWorker /\ (GetAuthOk \/ LookupOk \/ EntryOk \/ DialOk
             \/ GetAuthFails))
  <2>1. /\ (\E l \in Places \ {"idle"} : Jump(w, l)) \/ Done(w) \/ Retry(w)
        /\ Local
    BY <1>3 DEF Dispatch, FreeOk, Deregister, SecretOk, SecretFails, RegisterFails,
                GetAuthOk, LookupOk, EntryOk, DialOk, GetAuthFails, Places
  <2>2. ~RemovingSteps(w)
    BY <1>3, Kinds
       DEF RemovingSteps, UnfinalizeOk, UnfinalizeFails, Dispatch, FreeOk, Deregister, SecretOk,
           SecretFails, RegisterFails, GetAuthOk, LookupOk, EntryOk, DialOk,
           GetAuthFails, At
  <2> QED
    BY <1>1, <2>1, <2>2 DEF WorkerStep, KeepingStep
<1>4. CASE AddFinalizerOk(w) \/ (w = HostWorker /\ AuthLabelOk)
  <2>1. \/ Jump(w, "probe") /\ Local
        \/ \E o \in Object, l \in Places \ {"idle"} :
             Follows(o, loc[w]) /\ o.finalizer /\ WriteOk(w, o, l)
    BY <1>2, <1>4, Writings
       DEF AddFinalizerOk, AuthLabelOk, PlaceInv, OfHosts, Places, At, host
  <2>2. ~RemovingSteps(w)
    BY <1>4 DEF RemovingSteps, UnfinalizeOk, UnfinalizeFails, AddFinalizerOk, AuthLabelOk, At
  <2>3. \A o \in Object : o.finalizer => Stored(o) = o
    BY DEF Stored
  <2> QED
    BY <1>1, <2>1, <2>2, <2>3 DEF WorkerStep, KeepingStep, Places
<1>5. CASE PreventOk(w) \/ (w = HostWorker /\ Probe)
  <2>1. \/ Local /\ Retry(w)
        \/ \E o \in Object : Follows(o, loc[w]) /\ WriteEnds(w, o) /\ Retry(w)
    BY <1>2, <1>5, Writings DEF PreventOk, Probe, host, Follows
  <2>2. ~RemovingSteps(w)
    BY <1>5 DEF RemovingSteps, UnfinalizeOk, UnfinalizeFails, PreventOk, Probe, At
  <2> QED
    BY <1>1, <2>1, <2>2 DEF WorkerStep, KeepingStep
<1>6. CASE AddFinalizerFails(w) \/ PreventFails(w)
           \/ (w = HostWorker /\ (AuthLabelFails \/ ProbeFails))
  <2>1. \E o \in Object : Follows(o, loc[w]) /\ WriteFails(w, o)
    BY <1>2, <1>6, Writings
       DEF AddFinalizerFails, PreventFails, AuthLabelFails, ProbeFails, host, Follows
  <2>2. ~RemovingSteps(w)
    BY <1>6 DEF RemovingSteps, UnfinalizeOk, UnfinalizeFails, AddFinalizerFails, PreventFails,
                AuthLabelFails, ProbeFails, At
  <2> QED
    BY <1>1, <2>1, <2>2 DEF WorkerStep, KeepingStep
<1>8. CASE w = AuthWorker /\ RegisterOk
  <2>1. \/ Done(w) /\ Local
        \/ \E o \in Object : Follows(o, loc[w]) /\ WriteEnds(w, o) /\ Done(w)
        \/ \E o \in Object : Follows(o, loc[w]) /\ WriteFails(w, o)
    BY <1>2, <1>8 DEF RegisterOk, Follows
  <2>2. ~RemovingSteps(w)
    BY <1>8 DEF RemovingSteps, UnfinalizeOk, UnfinalizeFails, RegisterOk, At
  <2> QED
    BY <1>1, <2>1, <2>2 DEF WorkerStep, KeepingStep
<1>7. CASE RemovingSteps(w)
  <2>1. pc[w] = "unfinalize" /\ Deleting(loc[w])
    BY <1>7 DEF RemovingSteps, UnfinalizeOk, UnfinalizeFails, At, PlaceInv, Removing, Copy
  <2>2. \E o \in Object : /\ Deleting(o)
                          /\ \/ WriteEnds(w, o) /\ Done(w)
                             \/ WriteFails(w, o)
    BY <1>2, <1>7, <2>1, Writings DEF RemovingSteps, UnfinalizeOk, UnfinalizeFails, Deleting
  <2> QED
    BY <1>1, <1>7, <2>1, <2>2 DEF WorkerStep, RemovingStep
<1> QED
  BY <1>3, <1>4, <1>5, <1>6, <1>7, <1>8 DEF Steps, CommonOk, CommonFails, RemovingSteps

\* What users write
LEMMA UserWrites ==
  ASSUME TypeOK, RefInv, NEW x \in Objects, UserCreates(x) \/ UserChanges(x) \/ UserDeletes(x)
  PROVE  \E o \in Object :
           /\ OthersWrite(x, o) /\ Refers(o, x) /\ Present(o)
           /\ \/ obj[x] = Absent /\ ~Deleting(o) /\ ~o.finalizer
              \/ /\ Present(obj[x]) /\ o.finalizer = obj[x].finalizer /\ o.label = obj[x].label
                 /\ Deleting(obj[x]) => Deleting(o)
                 /\ obj[x].generation <= o.generation
                 /\ obj[x].generation = o.generation => obj[x].ref = o.ref
<1>0. References(x) \subseteq Auths \cup {NoObject}
      /\ \A r \in References(x) : r = NoObject <=> x \in Auths
  BY Kinds, ObjectsAreOfTwoKinds DEF References
<1>1. CASE UserCreates(x)
  <2>1. PICK r \in References(x) : OthersWrite(x, Created(r)) /\ obj[x] = Absent
    BY <1>1 DEF UserCreates
  <2>2. 1 \in Generation
    BY MaxGenerationIsPositive DEF Generation
  <2>3. Created(r) \in Object /\ Created(r).ref = r /\ ~Deleting(Created(r)) /\ Present(Created(r))
        /\ ~Created(r).finalizer
    BY <1>0, <2>2 DEF Created, Object, Deleting, Present
  <2> QED
    BY <1>0, <2>1, <2>3 DEF Refers
<1>2. CASE UserChanges(x)
  <2>1. PICK r \in References(x) :
          OthersWrite(x, [obj[x] EXCEPT !.generation = @ + 1, !.ref = r])
    BY <1>2 DEF UserChanges
  <2>2. obj[x] \in Object /\ Present(obj[x]) /\ obj[x].generation < MaxGeneration
    BY <1>2, PresentObject DEF UserChanges, TypeOK, CoreTypeOK
  <2> DEFINE p == [obj[x] EXCEPT !.generation = obj[x].generation + 1]
  <2> DEFINE o == [p EXCEPT !.ref = r]
  <2>3. /\ obj[x].generation + 1 \in Generation
        /\ obj[x].generation <= obj[x].generation + 1 /\ obj[x].generation # obj[x].generation + 1
    BY <2>2, MaxGenerationIsPositive DEF Object, Generation
  <2>4. p \in Object /\ p.finalizer = obj[x].finalizer /\ p.label = obj[x].label
        /\ p.life = obj[x].life /\ p.generation = obj[x].generation + 1
    BY <2>2, <2>3 DEF Object
  <2>5. OthersWrite(x, o)
    BY <2>1
  <2> HIDE DEF p
  <2>6. o \in Object /\ o.finalizer = p.finalizer /\ o.label = p.label /\ o.life = p.life
        /\ o.ref = r /\ o.generation = p.generation
    BY <1>0, <2>4 DEF Object
  <2> HIDE DEF o
  <2> QED
    BY <1>0, <2>2, <2>3, <2>4, <2>5, <2>6 DEF Refers, Present, Deleting
<1>3. CASE UserDeletes(x)
  <2> DEFINE o == [obj[x] EXCEPT !.life = "deleting"]
  <2>1. OthersWrite(x, o)
    BY <1>3 DEF UserDeletes, Delete
  <2>2. obj[x] \in Object /\ Present(obj[x])
    BY <1>3, PresentObject DEF UserDeletes, Delete, Present, TypeOK, CoreTypeOK
  <2>3. o \in Object /\ o.finalizer = obj[x].finalizer /\ o.label = obj[x].label
        /\ o.ref = obj[x].ref /\ Deleting(o) /\ Present(o) /\ obj[x].generation <= o.generation
    BY <2>2, MaxGenerationIsPositive DEF Object, Generation, Deleting, Present
  <2> HIDE DEF o
  <2> QED
    BY <2>1, <2>2, <2>3 DEF RefInv, Refers
<1> QED
  BY <1>1, <1>2, <1>3

\* The other steps are steps around the workers.
LEMMA AroundKeeps ==
  ASSUME TypeOK, SeenInv, RefInv, Around
  PROVE  /\ CoreTypeOK(Object, Places)' /\ SeenInv'
         /\ \A x \in Objects : Keeps(x)
<1>0. HostWorker \in Workers /\ CoreTypeOK(Object, Places)
  BY Working, Kinds
<1>1. CASE \E w \in Workers, x \in Objects : Begin(w, x)
  <2>1. PICK w \in Workers : \E x \in Objects, l \in Places \ {"idle"} : Take(w, x, l)
    BY <1>1 DEF Begin, Places
  <2> QED
    BY <1>0, <2>1, CoreTypes, ReadingSeen, ObjectsAreObjects
<1>2. CASE \E x \in Objects : UserCreates(x) \/ UserChanges(x) \/ UserDeletes(x)
  <2>1. OtherStep(Object) /\ TouchingStep
    BY <1>2, UserWrites DEF OtherStep, TouchingStep
  <2> QED
    BY <1>0, <2>1, CoreTypes, TouchingSeen, ObjectsAreObjects
<1>3. CASE \E x \in Objects : CacheSync(x)
  <2>1. \A x \in Objects : Enqueued(x) \in SUBSET Objects
    BY Kinds DEF Enqueued, WithLabel
  <2>2. \E x \in Objects, xs \in SUBSET Objects : Learn(x, xs)
    BY <1>3, <2>1 DEF CacheSync
  <2> QED
    BY <1>0, <2>2, CoreTypes, ReadingSeen, ObjectsAreObjects DEF OtherStep
<1>4. CASE Crash
  BY <1>0, <1>4, CoreTypes, ReadingSeen, ObjectsAreObjects DEF Crash, OtherStep
<1>5. CASE UNCHANGED vars
  BY <1>0, <1>5, CoreTypes, ReadingSeen, ObjectsAreObjects DEF vars
<1> QED
  BY <1>1, <1>2, <1>3, <1>4, <1>5 DEF Around, Environment

\* Every step but the removal of a finalizer keeps the finalizers.
LEMMA NextCore ==
  ASSUME TypeOK, SeenInv, PlaceInv, RefInv, [Next]_vars
  PROVE  /\ CoreTypeOK(Object, Places)' /\ SeenInv'
         /\ \A x \in Objects :
              Keeps(x) \/ \E w \in Workers : x = cur[w] /\ pc[w] = "unfinalize"
<1>1. ASSUME NEW w \in Workers, Steps(w)
      PROVE  /\ CoreTypeOK(Object, Places)' /\ SeenInv'
             /\ \A x \in Objects : Keeps(x) \/ (x = cur[w] /\ pc[w] = "unfinalize")
  BY <1>1, Working, StepShape, CoreTypes, KeepingSeen, RemovingSeen, ObjectsAreObjects
<1> QED
  BY <1>1, NextSteps, AroundKeeps

-----------------------------------------------------------------------------
(***************************************************************************)
(* Who writes what                                                         *)
(***************************************************************************)

\* A write of a worker that leaves the object there
LEMMA Written ==
  ASSUME TypeOK, NEW w \in Workers, Steps(w), NEW x \in Objects, obj'[x] # obj[x], Present(obj'[x])
  PROVE  /\ x = cur[w] /\ w \in fresh /\ obj[x] = Copy(w) /\ Copy(w) \in Object /\ cache' = cache
         /\ \/ obj'[x] \in {WithFinalizer(Copy(w)), Prevented(Copy(w)), Unfinalized(Copy(w))}
            \/ /\ w = HostWorker /\ pc[w] = "label" /\ NeedsLabel(host)
               /\ obj'[x] = Labelled(host)
<1>1. CoreTypeOK(Object, Places) /\ obj' # obj
  BY Working
<1>2. PICK o : /\ w \in fresh /\ Store(cur[w], o) /\ cache' = cache
               /\ \/ o \in {WithFinalizer(Copy(w)), Prevented(Copy(w)), Unfinalized(Copy(w))}
                  \/ /\ w = HostWorker /\ pc[w] = "label" /\ NeedsLabel(host)
                     /\ o = Labelled(host)
                  \/ o = Copy(w)
  BY <1>1 DEF Steps, CommonOk, CommonFails, At, AddFinalizerOk, Dispatch, FreeOk, PreventOk,
         Deregister, UnfinalizeOk, AddFinalizerFails, PreventFails, UnfinalizeFails, SecretOk,
         RegisterOk, SecretFails, RegisterFails, GetAuthOk, LookupOk, EntryOk, DialOk,
         AuthLabelOk, Probe, ProbeFails, GetAuthFails, AuthLabelFails, WriteOk, WriteEnds,
         WriteFails, Local, apiVars, host
<1>3. /\ x = cur[w] /\ obj[x] = loc[w] /\ loc[w] \in Object /\ obj'[x] = Stored(o)
  BY <1>1, <1>2, WrittenObject
<1>4. obj'[x] = o
  BY <1>3, StoredPresent
<1> QED
  BY <1>2, <1>3, <1>4 DEF Copy

\* ... and of anybody
LEMMA ObjSteps ==
  ASSUME TypeOK, RefInv, [Next]_vars, NEW x \in Objects, obj'[x] # obj[x], Present(obj'[x])
  PROVE  \/ obj[x] = Absent /\ Refers(obj'[x], x)
         \/ Present(obj[x]) /\ obj'[x].label = obj[x].label /\ Refers(obj'[x], x)
         \/ /\ x = cur[HostWorker] /\ HostWorker \in fresh /\ pc[HostWorker] = "label"
            /\ obj[x] = host /\ host \in Object /\ NeedsLabel(host)
            /\ obj'[x] = Labelled(host) /\ cache' = cache
<1>1. ASSUME NEW w \in Workers, Steps(w)
      PROVE  \/ Present(obj[x]) /\ obj'[x].label = obj[x].label /\ Refers(obj'[x], x)
             \/ /\ x = cur[HostWorker] /\ HostWorker \in fresh /\ pc[HostWorker] = "label"
                /\ obj[x] = host /\ host \in Object /\ NeedsLabel(host)
                /\ obj'[x] = Labelled(host) /\ cache' = cache
  <2>1. CASE obj'[x] \in {WithFinalizer(Copy(w)), Prevented(Copy(w)), Unfinalized(Copy(w))}
    <3>1. obj[x] \in Object /\ obj'[x].ref = obj[x].ref /\ obj'[x].label = obj[x].label
      BY <1>1, <2>1, Written, Writings
    <3>2. Present(obj[x])
      BY <3>1 DEF Object, Present
    <3> QED
      BY <3>1, <3>2 DEF RefInv, Refers
  <2>2. CASE ~(obj'[x] \in {WithFinalizer(Copy(w)), Prevented(Copy(w)), Unfinalized(Copy(w))})
    BY <1>1, <2>2, Written DEF host
  <2> QED
    BY <2>1, <2>2
<1>2. ASSUME NEW y \in Objects, UserCreates(y) \/ UserChanges(y) \/ UserDeletes(y)
      PROVE  \/ obj[x] = Absent /\ Refers(obj'[x], x)
             \/ Present(obj[x]) /\ obj'[x].label = obj[x].label /\ Refers(obj'[x], x)
  <2>1. PICK o \in Object :
           /\ OthersWrite(y, o) /\ Refers(o, y) /\ Present(o)
           /\ \/ obj[y] = Absent /\ ~Deleting(o)
              \/ /\ Present(obj[y]) /\ o.finalizer = obj[y].finalizer /\ o.label = obj[y].label
                 /\ Deleting(obj[y]) => Deleting(o)
    BY <1>2, UserWrites
  <2>2. x = y /\ obj'[x] = Stored(o)
    BY <2>1 DEF OthersWrite, Store, TypeOK, CoreTypeOK
  <2>3. obj'[x] = o
    BY <2>2, StoredPresent
  <2> QED
    BY <2>1, <2>2, <2>3
<1>3. CASE Around /\ ~\E y \in Objects : UserCreates(y) \/ UserChanges(y) \/ UserDeletes(y)
  BY <1>3 DEF Around, Environment, Begin, Take, CacheSync, Learn, Crash, Restart, Local, apiVars,
     coreVars, vars
<1> QED
  BY <1>1, <1>2, <1>3, NextSteps

\* Where the cache and the copies come from
LEMMA CacheSteps ==
  ASSUME TypeOK, RefInv, [Next]_vars, NEW x \in Objects
  PROVE  cache'[x] = cache[x] \/ (cache'[x] = obj[x] /\ obj' = obj)
<1>1. ASSUME NEW w \in Workers, Steps(w) PROVE cache' = cache
  BY <1>1 DEF Steps, CommonOk, CommonFails, At, AddFinalizerOk, Dispatch, FreeOk, PreventOk,
         Deregister, UnfinalizeOk, AddFinalizerFails, PreventFails, UnfinalizeFails, SecretOk,
         RegisterOk, SecretFails, RegisterFails, GetAuthOk, LookupOk, EntryOk, DialOk,
         AuthLabelOk, Probe, ProbeFails, GetAuthFails, AuthLabelFails, WriteOk, WriteEnds, WriteFails, Local
<1>2. CASE \E y \in Objects : CacheSync(y)
  BY <1>2 DEF CacheSync, Learn, TypeOK, CoreTypeOK
<1>3. CASE \E y \in Objects : UserCreates(y) \/ UserChanges(y) \/ UserDeletes(y)
  BY <1>3, UserWrites DEF OthersWrite
<1>4. CASE (\E w \in Workers, y \in Objects : Begin(w, y)) \/ Crash \/ UNCHANGED vars
  BY <1>4 DEF Begin, Take, Crash, Restart, Local, coreVars, vars
<1> QED
  BY <1>1, <1>2, <1>3, <1>4, NextSteps DEF Around, Environment

\* A step of a worker is one of these, with regard to the workers.
Moves(w) == \/ \E l : Jump(w, l)
            \/ Done(w) \/ Retry(w)
            \/ \E o, l : WriteOk(w, o, l)

LEMMA StepMoves == ASSUME NEW w \in Workers, Steps(w) PROVE Moves(w)
BY DEF Moves, Steps, CommonOk, CommonFails, At, AddFinalizerOk, Dispatch, FreeOk, PreventOk,
       Deregister, UnfinalizeOk, AddFinalizerFails, PreventFails, UnfinalizeFails, SecretOk,
       RegisterOk, SecretFails, RegisterFails, GetAuthOk, LookupOk, EntryOk, DialOk,
       AuthLabelOk, Probe, ProbeFails, GetAuthFails, AuthLabelFails, WriteFails, host

LEMMA CopySteps ==
  ASSUME TypeOK, RefInv, [Next]_vars, NEW w \in Workers, pc'[w] # "idle"
  PROVE  \/ pc[w] # "idle" /\ loc'[w] = loc[w] /\ cur'[w] = cur[w]
         \/ w \in fresh'
         \/ /\ cur'[w] \in Objects /\ loc'[w] = cache[cur'[w]] /\ Present(loc'[w]) /\ obj' = obj
            /\ cache' = cache
<1>1. /\ pc \in [Workers -> Places \cup {"idle"}]
      /\ cur \in [Workers -> Objects \cup {NoObject}] /\ loc \in [Workers -> Object \cup {Absent}]
      /\ fresh \in SUBSET Workers
  BY Working DEF TypeOK, CoreTypeOK
<1>2. ASSUME NEW v \in Workers, Steps(v)
      PROVE  pc[w] # "idle" /\ ((loc'[w] = loc[w] /\ cur'[w] = cur[w]) \/ w \in fresh')
  <2>1. Moves(v)
    BY <1>2, StepMoves
  <2>2. pc[v] # "idle"
    BY <1>2 DEF Steps, CommonOk, CommonFails, At, AddFinalizerOk, Dispatch, FreeOk, PreventOk,
         Deregister, UnfinalizeOk, AddFinalizerFails, PreventFails, UnfinalizeFails, SecretOk,
         RegisterOk, SecretFails, RegisterFails, GetAuthOk, LookupOk, EntryOk, DialOk,
         AuthLabelOk, Probe, ProbeFails, GetAuthFails, AuthLabelFails
  <2> QED
    BY <1>1, <2>1, <2>2 DEF Moves, Jump, Goto, Done, Retry, End, WriteOk
<1>3. CASE \E v \in Workers, x \in Objects : Begin(v, x)
  BY <1>1, <1>3 DEF Begin, Take, workerVars, Local, apiVars
<1>4. CASE \E x \in Objects : CacheSync(x)
  BY <1>4 DEF CacheSync, Learn, workerVars
<1>5. CASE \E y \in Objects : UserCreates(y) \/ UserChanges(y) \/ UserDeletes(y)
  BY <1>5, UserWrites DEF OthersWrite
<1>6. CASE Crash \/ UNCHANGED vars
  BY <1>1, <1>6 DEF Crash, Restart, coreVars, workerVars, vars
<1> QED
  BY <1>2, <1>3, <1>4, <1>5, <1>6, NextSteps DEF Around, Environment

-----------------------------------------------------------------------------
(***************************************************************************)
(* Every step keeps the invariant.                                         *)
(***************************************************************************)

\* A version is of the kind that its object is.
LEMMA NextRef ==
  ASSUME TypeOK, SeenInv, PlaceInv, RefInv, [Next]_vars
  PROVE  RefInv'
<1>1. ASSUME NEW x \in Objects PROVE Refers(obj'[x], x)
  <2>1. CASE obj'[x] = obj[x] \/ ~Present(obj'[x])
    BY <2>1 DEF RefInv, Refers
  <2>2. CASE obj'[x] = Labelled(host) /\ obj[x] = host /\ host \in Object
    <3>1. Present(host) /\ Labelled(host).ref = host.ref
      BY <2>2, Writings DEF Object, Present
    <3> QED
      BY <2>2, <3>1 DEF RefInv, Refers
  <2> QED
    BY <2>1, <2>2, ObjSteps
<1>2. ASSUME NEW x \in Objects PROVE Refers(cache'[x], x)
  BY CacheSteps DEF RefInv
<1>3. ASSUME NEW w \in Workers, pc'[w] # "idle" PROVE Refers(Copy(w)', cur'[w])
  <2>1. CASE pc[w] # "idle" /\ loc'[w] = loc[w] /\ cur'[w] = cur[w]
    BY <2>1 DEF RefInv, Copy
  <2>2. CASE w \in fresh'
    <3>1. obj'[cur'[w]] = loc'[w] /\ cur'[w] \in Objects
      BY <1>3, <2>2, NextCore, ServedAreObjects DEF CoreTypeOK
    <3> QED
      BY <1>1, <3>1 DEF Copy
  <2>3. CASE cur'[w] \in Objects /\ loc'[w] = cache[cur'[w]]
    BY <2>3 DEF RefInv, Copy
  <2> QED
    BY <1>3, <2>1, <2>2, <2>3, CopySteps
<1> QED
  BY <1>1, <1>2, <1>3 DEF RefInv, Refers

\* The Auth of the Host that is reconciled
LEMMA HostRef ==
  ASSUME TypeOK, RefInv, pc[HostWorker] # "idle"
  PROVE  host \in Object /\ cur[HostWorker] \in Hosts /\ host.ref \in Auths
<1>1. host \in Object /\ cur[HostWorker] \in Hosts /\ Refers(host, cur[HostWorker])
  BY Working, Kinds DEF RefInv, host
<1>2. Present(host) /\ host.ref \in Auths \cup {NoObject}
  BY <1>1 DEF Object, Present
<1> QED
  BY <1>1, <1>2, Kinds DEF Refers

LEMMA NextTypes ==
  ASSUME TypeOK, SeenInv, PlaceInv, RefInv, [Next]_vars
  PROVE  TypeOK'
<1>1. CoreTypeOK(Object, Places)'
  BY NextCore
<1>2. \A x \in Objects : Present(obj'[x]) => (obj'[x].ref = NoObject <=> x \in Auths)
  BY NextRef DEF RefInv, Refers
<1>3. /\ creds \in [Auths -> 0..MaxGeneration]
      /\ conns \in [Hosts -> Connection \cup {NoConnection}]
      /\ spec \in 0..MaxGeneration /\ cred \in 0..MaxGeneration
      /\ unlabelled \in SUBSET Hosts
      /\ MaxGeneration \in Nat \ {0}
  BY MaxGenerationIsPositive DEF TypeOK
<1>4. /\ creds' \in [Auths -> 0..MaxGeneration]
      /\ conns' \in [Hosts -> Connection \cup {NoConnection}]
      /\ spec' \in 0..MaxGeneration /\ cred' \in 0..MaxGeneration
      /\ unlabelled' \in SUBSET Hosts
  <2> USE <1>3 DEF storeVars, localVars, Same, Forget
  <2>1. ASSUME NEW w \in Workers, CommonOk(w) \/ CommonFails(w)
        PROVE  /\ UNCHANGED <<localVars, unlabelled>>
               /\ \/ UNCHANGED storeVars
                  \/ creds' = [creds EXCEPT ![cur[w]] = 0] /\ UNCHANGED conns
                  \/ conns' = [conns EXCEPT ![cur[w]] = NoConnection] /\ UNCHANGED creds
    BY <2>1 DEF CommonOk, CommonFails, AddFinalizerOk, Dispatch, FreeOk, PreventOk, Deregister,
                UnfinalizeOk, AddFinalizerFails, PreventFails, UnfinalizeFails
  <2>2. CASE \E w \in Workers : CommonOk(w) \/ CommonFails(w)
    BY <2>1, <2>2
  <2>3. CASE SecretOk \/ RegisterFails \/ SecretFails \/ GetAuthFails \/ Probe \/ ProbeFails
    BY <2>3 DEF SecretOk, RegisterFails, SecretFails, GetAuthFails, Probe, ProbeFails
  <2>4. CASE RegisterOk
    <3>1. Copy(AuthWorker).generation \in 0..MaxGeneration
      BY <2>4, Working, Kinds DEF RegisterOk, At, Object, Generation
    <3> QED
      BY <2>4, <3>1 DEF RegisterOk
  <2>5. CASE GetAuthOk
    <3>1. host.ref \in Objects /\ Present(cache[host.ref])
      BY <2>5, HostRef, Kinds DEF GetAuthOk, At
    <3>2. cache[host.ref] \in Object
      BY <3>1, PresentObject DEF TypeOK, CoreTypeOK
    <3> QED
      BY <2>5, <3>2 DEF GetAuthOk, Object, Generation
  <2>6. CASE LookupOk
    BY <2>6, HostRef DEF LookupOk, At
  <2>7. CASE EntryOk
    BY <2>7 DEF EntryOk
  <2>8. CASE DialOk
    <3>1. /\ host \in Object /\ cur[HostWorker] \in Hosts /\ host.ref \in Auths
          /\ spec # 0 /\ cred # 0
      BY <2>8, HostRef DEF DialOk, At, PlaceInv
    <3>2. /\ host.generation \in 1..MaxGeneration /\ spec \in 1..MaxGeneration
          /\ cred \in 1..MaxGeneration
      BY <3>1 DEF Object, Generation
    <3>3. host.generation + cred \in 2..(2 * MaxGeneration)
      BY <3>2
    <3>4. [at |-> host.generation + cred, host |-> host.generation, auth |-> host.ref,
           spec |-> spec] \in Connection
      BY <3>1, <3>2, <3>3 DEF Connection, Generation
    <3>5. conns' \in [Hosts -> Connection \cup {NoConnection}]
      BY <2>8, <3>1, <3>4 DEF DialOk, combinedGeneration, Combined
    <3> QED
      BY <2>8, <3>5 DEF DialOk
  <2>9. CASE AuthLabelOk \/ AuthLabelFails
    BY <2>9, HostRef DEF AuthLabelOk, AuthLabelFails, At
  <2>10. CASE \E w \in Workers, x \in Objects : Begin(w, x)
    BY <2>10 DEF Begin
  <2>11. CASE Environment
    <3>1. UNCHANGED <<storeVars, localVars, unlabelled>> \/ Crash
      BY <2>11 DEF Environment, UserCreates, UserChanges, UserDeletes, CacheSync
    <3>2. CASE Crash
      <4>1. creds' \in [Auths -> 0..MaxGeneration] /\ spec' = 0 /\ cred' = 0 /\ unlabelled' = {}
        BY <3>2 DEF Crash
      <4>2. conns' \in [Hosts -> Connection \cup {NoConnection}]
        BY <3>2 DEF Crash
      <4> QED
        BY <4>1, <4>2
    <3> QED
      BY <3>1, <3>2
  <2>12. CASE UNCHANGED vars
    BY <2>12 DEF vars
  <2> QED
    BY <2>2, <2>3, <2>4, <2>5, <2>6, <2>7, <2>8, <2>9, <2>10, <2>11, <2>12, NextSteps
       DEF Steps, Around
<1> QED
  BY <1>1, <1>2, <1>4 DEF TypeOK

\* What one worker knows, the other leaves alone.
LEMMA NextPlace ==
  ASSUME TypeOK, PlaceInv, RefInv, [Next]_vars
  PROVE  PlaceInv'
<1>1. /\ pc \in [Workers -> Places \cup {"idle"}] /\ fresh \in SUBSET Workers
      /\ cur \in [Workers -> Objects \cup {NoObject}] /\ loc \in [Workers -> Object \cup {Absent}]
      /\ creds \in [Auths -> 0..MaxGeneration]
      /\ conns \in [Hosts -> Connection \cup {NoConnection}]
      /\ MaxGeneration \in Nat \ {0}
  BY Working, Kinds, MaxGenerationIsPositive DEF TypeOK, CoreTypeOK
<1>2. \A w \in Workers : pc[w] # "idle" =>
        /\ Copy(w) \in Object
        /\ w = AuthWorker => cur[w] \in Auths
        /\ w = HostWorker => cur[w] \in Hosts
  BY Working
<1> USE <1>1, <1>2, Kinds DEF PlaceInv, Removing, OfAuths, OfHosts, Copy, At, Same, Forget,
        storeVars, localVars, host
<1>3. ASSUME NEW w \in Workers, AddFinalizerOk(w) PROVE PlaceInv'
  <2>1. /\ pc'[w] = "meta" /\ cur' = cur /\ UNCHANGED <<storeVars, localVars>>
        /\ \A v \in Workers \ {w} : pc'[v] = pc[v] /\ loc'[v] = loc[v]
    BY <1>3 DEF AddFinalizerOk, WriteOk
  <2> QED
    BY <2>1
<1>4. ASSUME NEW w \in Workers, Dispatch(w) PROVE PlaceInv'
  <2>1. /\ \/ cur' = cur /\ loc' = loc
           \/ /\ pc'[w] = "idle"
              /\ \A v \in Workers \ {w} : cur'[v] = cur[v] /\ loc'[v] = loc[v]
        /\ UNCHANGED <<storeVars, localVars>>
        /\ \A v \in Workers \ {w} : pc'[v] = pc[v]
        /\ pc'[w] \in {"idle", "check", "secret", "auth"}
        /\ pc'[w] = "check" => Deleting(Copy(w)) /\ Copy(w).finalizer
        /\ pc'[w] = "secret" => ~Deleting(Copy(w)) /\ Copy(w).finalizer /\ w = AuthWorker
        /\ pc'[w] = "auth" => ~Deleting(Copy(w)) /\ Copy(w).finalizer /\ w = HostWorker
    BY <1>4 DEF Dispatch, Jump, Goto, Done, End
  <2> QED
    BY <2>1
<1>5. ASSUME NEW w \in Workers, FreeOk(w) PROVE PlaceInv'
  BY <1>5 DEF FreeOk, Jump, Goto
<1>6. ASSUME NEW w \in Workers, Deregister(w) PROVE PlaceInv'
  <2>1. /\ pc'[w] = "unfinalize" /\ UNCHANGED <<cur, loc, localVars>> /\ pc[w] = "deregister"
        /\ \A v \in Workers \ {w} : pc'[v] = pc[v]
        /\ w = AuthWorker => creds' = [creds EXCEPT ![cur[w]] = 0] /\ UNCHANGED conns
        /\ w = HostWorker => conns' = [conns EXCEPT ![cur[w]] = NoConnection] /\ UNCHANGED creds
    BY <1>6 DEF Deregister, Jump, Goto
  <2> QED
    BY <2>1
<1>7. ASSUME NEW w \in Workers, Done(w) \/ Retry(w), UNCHANGED <<conns>>,
             w = AuthWorker => UNCHANGED localVars,
             w = HostWorker => UNCHANGED creds,
             \A a \in Auths : creds'[a] = creds[a] \/ (w = AuthWorker /\ a = cur[w])
      PROVE  PlaceInv'
  <2>1. /\ pc'[w] = "idle"
        /\ \A v \in Workers \ {w} : pc'[v] = pc[v] /\ cur'[v] = cur[v] /\ loc'[v] = loc[v]
    BY <1>7 DEF Done, Retry, End
  <2> QED
    BY <1>7, <2>1
<1>8. ASSUME NEW w \in Workers, PreventOk(w) \/ UnfinalizeOk(w) \/ CommonFails(w) PROVE PlaceInv'
  <2>1. (Done(w) \/ Retry(w)) /\ UNCHANGED <<storeVars, localVars>>
    BY <1>8 DEF PreventOk, UnfinalizeOk, CommonFails, AddFinalizerFails, PreventFails,
                UnfinalizeFails, WriteFails
  <2> QED
    BY <1>7, <2>1
<1>9. CASE SecretOk \/ SecretFails \/ RegisterOk \/ RegisterFails
  <2>1. CASE SecretOk /\ Jump(AuthWorker, "register")
    BY <2>1 DEF SecretOk, Jump, Goto
  <2>2. CASE ~Jump(AuthWorker, "register")
    <3>1. /\ Done(AuthWorker) \/ Retry(AuthWorker)
          /\ UNCHANGED <<conns, localVars>>
          /\ \A a \in Auths : creds'[a] = creds[a] \/ a = cur[AuthWorker]
      BY <1>9, <2>2 DEF SecretOk, SecretFails, RegisterOk, RegisterFails, WriteFails
    <3> QED
      BY <1>7, <3>1
  <2>3. CASE ~SecretOk /\ Jump(AuthWorker, "register")
    <3>1. /\ Done(AuthWorker) \/ Retry(AuthWorker)
          /\ UNCHANGED <<conns, localVars>>
          /\ \A a \in Auths : creds'[a] = creds[a] \/ a = cur[AuthWorker]
      BY <1>9, <2>3 DEF SecretFails, RegisterOk, RegisterFails, WriteFails
    <3> QED
      BY <1>7, <3>1
  <2> QED
    BY <2>1, <2>2, <2>3
<1>10. CASE GetAuthOk
  <2>1. cache[host.ref].generation # 0
    <3>1. host.ref \in Objects /\ Present(cache[host.ref])
      BY <1>10, HostRef DEF GetAuthOk
    <3>2. cache[host.ref] \in Object
      BY <3>1, PresentObject DEF TypeOK, CoreTypeOK
    <3> QED
      BY <3>2 DEF Object, Generation
  <2>2. /\ pc' = [pc EXCEPT ![HostWorker] = "creds"] /\ pc[HostWorker] = "auth"
        /\ UNCHANGED <<cur, loc, storeVars, cred>> /\ spec' # 0
    BY <1>10, <2>1 DEF GetAuthOk, Jump, Goto
  <2> QED
    BY <2>2
<1>11. CASE LookupOk
  <2>1. CASE creds[host.ref] = 0
    <3>1. Retry(HostWorker) /\ UNCHANGED storeVars
      BY <1>11, <2>1 DEF LookupOk
    <3> QED
      BY <1>7, <3>1
  <2>2. CASE creds[host.ref] # 0
    <3>1. /\ pc' = [pc EXCEPT ![HostWorker] = "entry"] /\ pc[HostWorker] = "creds"
          /\ UNCHANGED <<cur, loc, storeVars, spec>> /\ cred' # 0
      BY <1>11, <2>2 DEF LookupOk, Jump, Goto
    <3> QED
      BY <3>1
  <2> QED
    BY <2>1, <2>2
<1>12. CASE EntryOk
  <2>1. /\ pc[HostWorker] = "entry" /\ UNCHANGED <<cur, loc, storeVars>>
        /\ \/ pc' = [pc EXCEPT ![HostWorker] = "dial"] /\ UNCHANGED localVars
           \/ pc' = [pc EXCEPT ![HostWorker] = "probe"]
    BY <1>12 DEF EntryOk, Jump, Goto
  <2> QED
    BY <2>1
<1>13. CASE DialOk
  <2>1. /\ pc[HostWorker] = "dial" /\ pc' = [pc EXCEPT ![HostWorker] = "label"]
        /\ UNCHANGED <<cur, loc, creds>>
    BY <1>13 DEF DialOk, Jump, Goto
  <2> QED
    BY <2>1
<1>14. CASE AuthLabelOk
  <2>1. /\ pc[HostWorker] = "label" /\ pc' = [pc EXCEPT ![HostWorker] = "probe"] /\ cur' = cur
        /\ UNCHANGED <<storeVars, localVars>>
        /\ loc' = loc \/ loc' = [loc EXCEPT ![HostWorker] = Labelled(loc[HostWorker])]
    BY <1>14 DEF AuthLabelOk, Jump, Goto, WriteOk
  <2>2. /\ Labelled(loc[HostWorker]).life = loc[HostWorker].life
        /\ Labelled(loc[HostWorker]).finalizer = loc[HostWorker].finalizer
    BY <2>1, Writings DEF Follows
  <2>3. ~Deleting(loc'[HostWorker]) /\ loc'[HostWorker].finalizer
    BY <2>1, <2>2 DEF Deleting
  <2> QED
    BY <2>1, <2>3
<1>15. CASE Probe \/ ProbeFails \/ GetAuthFails \/ AuthLabelFails
  <2>1. (Done(HostWorker) \/ Retry(HostWorker)) /\ UNCHANGED <<storeVars, localVars>>
    BY <1>15 DEF Probe, ProbeFails, GetAuthFails, AuthLabelFails, WriteFails, Same, storeVars
  <2> QED
    BY <1>7, <2>1
<1>16. CASE \E w \in Workers, x \in Objects : Begin(w, x)
  <2>1. PICK w \in Workers : \E x \in Objects : Begin(w, x)
    BY <1>16
  <2>2. /\ UNCHANGED <<storeVars, localVars>>
        /\ \A v \in Workers \ {w} : pc'[v] = pc[v] /\ cur'[v] = cur[v] /\ loc'[v] = loc[v]
        /\ pc'[w] = "meta" \/ UNCHANGED <<pc, cur, loc>>
    BY <2>1 DEF Begin, Take, workerVars
  <2> QED
    BY <2>2
<1>17. ASSUME UNCHANGED <<pc, cur, loc, storeVars, localVars>> PROVE PlaceInv'
  BY <1>17
<1>18. CASE \E x \in Objects : UserCreates(x) \/ UserChanges(x) \/ UserDeletes(x)
  BY <1>17, <1>18 DEF UserCreates, UserChanges, UserDeletes, Delete, OthersWrite
<1>19. CASE \E x \in Objects : CacheSync(x)
  BY <1>17, <1>19 DEF CacheSync, Learn, workerVars
<1>20. CASE UNCHANGED vars
  BY <1>17, <1>20 DEF vars, coreVars, workerVars
<1>21. CASE Crash
  BY <1>21 DEF Crash, Restart
<1> QED
  BY <1>3, <1>4, <1>5, <1>6, <1>8, <1>9, <1>10, <1>11, <1>12, <1>13, <1>14, <1>15, <1>16, <1>18,
     <1>19, <1>20, <1>21, NextSteps DEF Steps, CommonOk, Around, Environment

\* Only a registration fills a store.
LEMMA StoreSteps ==
  ASSUME TypeOK, RefInv, [Next]_vars
  PROVE  /\ \A a \in Auths : creds'[a] # 0 /\ creds'[a] # creds[a] =>
              /\ a = cur[AuthWorker] /\ pc[AuthWorker] = "register"
              /\ creds'[a] = Copy(AuthWorker).generation
         /\ \A h \in Hosts : conns'[h] # NoConnection /\ conns'[h] # conns[h] =>
              /\ DialOk /\ h = cur[HostWorker] /\ conns'[h].auth = host.ref
              /\ pc'[HostWorker] = "label" /\ cur' = cur /\ loc' = loc
<1>1. /\ creds \in [Auths -> 0..MaxGeneration]
      /\ conns \in [Hosts -> Connection \cup {NoConnection}]
      /\ pc \in [Workers -> Places \cup {"idle"}] /\ HostWorker \in Workers
  BY Working, Kinds DEF TypeOK
<1> USE <1>1 DEF Same, storeVars
<1>2. CASE \E w \in Workers : CommonOk(w) \/ CommonFails(w)
  <2>1. \/ UNCHANGED storeVars
        \/ \E x : creds' = [creds EXCEPT ![x] = 0] /\ UNCHANGED conns
        \/ \E x : conns' = [conns EXCEPT ![x] = NoConnection] /\ UNCHANGED creds
    BY <1>2 DEF CommonOk, CommonFails, AddFinalizerOk, Dispatch, FreeOk, PreventOk, Deregister,
                UnfinalizeOk, AddFinalizerFails, PreventFails, UnfinalizeFails
  <2> QED
    BY <2>1
<1>3. CASE RegisterOk
  BY <1>3 DEF RegisterOk, At
<1>4. CASE DialOk
  BY <1>4, HostRef DEF DialOk, At, Jump, Goto
<1>5. CASE Crash
  BY <1>5 DEF Crash
<1> QED
  BY <1>2, <1>3, <1>4, <1>5, NextSteps
     DEF Steps, SecretOk, SecretFails, RegisterFails, GetAuthOk, LookupOk, EntryOk, AuthLabelOk,
         Probe, ProbeFails, GetAuthFails, AuthLabelFails, Around, Environment, Begin, UserCreates,
         UserChanges, UserDeletes, CacheSync, vars

LEMMA NextStores ==
  ASSUME TypeOK, SeenInv, PlaceInv, RefInv, StoresAreOwned, [Next]_vars
  PROVE  StoresAreOwned'
<1>1. ASSUME NEW w \in Workers, pc[w] \in {"register", "dial"}, NEW x, x = cur[w] PROVE Owned(x)
  <2>1. /\ loc[w] \in Object /\ ~Deleting(loc[w]) /\ loc[w].finalizer
    BY <1>1, Working DEF PlaceInv, OfAuths, OfHosts, Copy
  <2>2. loc[w].life = "live"
    BY <2>1 DEF Object, Deleting
  <2> QED
    BY <1>1, <2>1, <2>2 DEF SeenInv, Tells
<1>2. ASSUME NEW a \in Auths, creds'[a] # 0 PROVE Owned(a)'
  <2>1. Owned(a)
    <3>1. CASE creds'[a] = creds[a]
      BY <1>2, <3>1 DEF StoresAreOwned, Owned
    <3> QED
      BY <1>1, <1>2, <3>1, StoreSteps, Kinds
  <2>2. ~\E w \in Workers : a = cur[w] /\ pc[w] = "unfinalize"
    <3>1. ASSUME NEW w \in Workers, a = cur[w], pc[w] = "unfinalize" PROVE FALSE
      <4>1. w = AuthWorker
        BY <3>1, Working, Kinds
      <4>2. creds[a] = 0
        BY <3>1, <4>1 DEF PlaceInv
      <4> QED
        BY <1>2, <3>1, <4>1, <4>2, StoreSteps
    <3> QED
      BY <3>1
  <2> QED
    BY <2>1, <2>2, NextCore, Kinds DEF Keeps
<1>3. ASSUME NEW h \in Hosts, conns'[h] # NoConnection PROVE Owned(h)'
  <2>1. Owned(h)
    <3>1. CASE conns'[h] = conns[h]
      BY <1>3, <3>1 DEF StoresAreOwned, Owned, Connected
    <3>2. CASE conns'[h] # conns[h]
      <4>1. h = cur[HostWorker] /\ pc[HostWorker] = "dial"
        BY <1>3, <3>2, StoreSteps DEF DialOk, At
      <4> QED
        BY <1>1, <4>1, Kinds
    <3> QED
      BY <3>1, <3>2
  <2>2. ~\E w \in Workers : h = cur[w] /\ pc[w] = "unfinalize"
    <3>1. ASSUME NEW w \in Workers, h = cur[w], pc[w] = "unfinalize" PROVE FALSE
      <4>1. w = HostWorker
        BY <3>1, Working, Kinds
      <4>2. conns[h] = NoConnection
        BY <3>1, <4>1 DEF PlaceInv
      <4> QED
        BY <1>3, <3>1, <4>1, <4>2, StoreSteps DEF DialOk, At
    <3> QED
      BY <3>1
  <2> QED
    BY <2>1, <2>2, NextCore, Kinds DEF Keeps
<1> QED
  BY <1>2, <1>3 DEF StoresAreOwned, Connected, Owned

\* A label changes to the reference of a copy with another label.
LEMMA LabelSteps ==
  ASSUME TypeOK, SeenInv, RefInv, [Next]_vars, NEW x \in Objects, Present(obj[x]),
         Present(obj'[x]), obj'[x].label # obj[x].label
  PROVE  /\ x = cur[HostWorker] /\ HostWorker \in fresh /\ pc[HostWorker] = "label"
         /\ obj[x] = host /\ NeedsLabel(host)
         /\ obj'[x].label = host.ref /\ cache' = cache
<1>1. obj[x] # Absent
  BY DEF Present, Absent
<1> QED
  BY <1>1, ObjSteps, Writings

\* What versions show is still so.
LEMMA NextShows ==
  ASSUME TypeOK, SeenInv, PlaceInv, RefInv, LabelInv, [Next]_vars
  PROVE  /\ \A x \in Hosts : Shows(cache[x], x)'
         /\ pc'[HostWorker] # "idle" => Shows(host, cur[HostWorker])'
<1>1. ASSUME NEW x \in Hosts, Present(cache'[x]), cache'[x].label = cache'[x].ref, Present(obj'[x])
      PROVE  obj'[x].label = cache'[x].label
  <2>1. CASE cache'[x] = cache[x]
    <3>1. x \in Objects /\ obj[x] # Absent
      BY <1>1, <2>1, Kinds DEF SeenInv, Tells, Present, Absent
    <3>2. Present(obj[x])
      <4>1. Over(obj[x]) => Deleting(obj[x]) \/ obj[x].life = "gone"
        BY DEF Over, Deleting
      <4>2. obj[x] \in Object \cup Missing
        BY <3>1 DEF TypeOK, CoreTypeOK
      <4>3. obj[x] \in Object \/ obj[x] = Gone
        BY <3>1, <4>2 DEF Missing
      <4>4. obj[x] = Gone => obj'[x] = obj[x]
        BY <1>1, <3>1, ObjSteps DEF Gone, Absent, Present, Object
      <4> QED
        BY <1>1, <4>3, <4>4 DEF Gone, Present, Object
    <3>3. obj[x].label = cache[x].label
      BY <1>1, <2>1, <3>2 DEF LabelInv, Shows
    <3>4. CASE obj'[x].label # obj[x].label
      <4>1. x = cur[HostWorker] /\ HostWorker \in fresh /\ pc[HostWorker] = "label"
            /\ NeedsLabel(host)
        BY <3>1, <3>2, <3>4, <1>1, LabelSteps
      <4>2. cache[x].ref = host.ref /\ cache[x].label = host.label
        BY <4>1 DEF LabelInv
      <4> QED
        BY <1>1, <2>1, <4>1, <4>2 DEF NeedsLabel
    <3> QED
      BY <2>1, <3>3, <3>4
  <2>2. CASE cache'[x] = obj[x] /\ obj' = obj
    BY <2>2
  <2> QED
    BY <2>1, <2>2, CacheSteps, Kinds
<1>2. ASSUME pc'[HostWorker] # "idle", Present(host'), host'.label = host'.ref,
             NEW x \in Hosts, x = cur'[HostWorker], Present(obj'[x])
      PROVE  obj'[x].label = host'.label
  <2>1. CASE pc[HostWorker] # "idle" /\ loc'[HostWorker] = loc[HostWorker]
             /\ cur'[HostWorker] = cur[HostWorker]
    <3>1. x \in Objects /\ x = cur[HostWorker] /\ host' = host /\ Tells(host, x)
      BY <1>2, <2>1, Kinds DEF SeenInv, host, Copy
    <3>2. obj[x] # Absent
      BY <1>2, <3>1 DEF Tells, Present, Absent
    <3>3. Present(obj[x])
      <4>1. obj[x] \in Object \/ obj[x] = Gone
        BY <3>1, <3>2 DEF TypeOK, CoreTypeOK, Missing
      <4>2. obj[x] = Gone => obj'[x] = obj[x]
        BY <1>2, <3>1, ObjSteps DEF Gone, Absent, Present, Object
      <4> QED
        BY <1>2, <4>1, <4>2 DEF Gone, Present, Object
    <3>4. obj[x].label = host.label
      BY <1>2, <2>1, <3>1, <3>3 DEF LabelInv, Shows
    <3>5. CASE obj'[x].label # obj[x].label
      <4>1. NeedsLabel(host)
        BY <1>2, <3>1, <3>3, <3>5, LabelSteps
      <4> QED
        BY <1>2, <3>1, <4>1 DEF NeedsLabel
    <3> QED
      BY <3>1, <3>4, <3>5
  <2>2. CASE HostWorker \in fresh'
    <3>1. obj'[cur'[HostWorker]] = loc'[HostWorker]
      BY <2>2, NextCore DEF CoreTypeOK
    <3> QED
      BY <1>2, <3>1 DEF host, Copy
  <2>3. CASE loc'[HostWorker] = cache[cur'[HostWorker]] /\ obj' = obj /\ cache' = cache
    <3>1. cache'[x] = host'
      BY <1>2, <2>3 DEF host, Copy
    <3> QED
      BY <1>1, <1>2, <3>1
  <2> QED
    BY <1>2, <2>1, <2>2, <2>3, CopySteps, Kinds
<1>3. pc'[HostWorker] # "idle" => cur'[HostWorker] \in Hosts
  BY NextCore, Kinds DEF CoreTypeOK
<1> QED
  BY <1>1, <1>2, <1>3 DEF Shows

\* The cache still has the label and the reference of a copy that is the newest
\* version.
LEMMA NextFresh ==
  ASSUME TypeOK, SeenInv, PlaceInv, RefInv, LabelInv, [Next]_vars,
         HostWorker \in fresh', pc'[HostWorker] # "probe"
  PROVE  LET c == cache[cur[HostWorker]] IN
           (Present(c) /\ c.ref = host.ref /\ c.label = host.label)'
<1>1. /\ pc \in [Workers -> Places \cup {"idle"}] /\ fresh \in SUBSET Workers
      /\ cur \in [Workers -> Objects \cup {NoObject}] /\ loc \in [Workers -> Object \cup {Absent}]
      /\ \A w \in fresh : pc[w] # "idle" /\ obj[cur[w]] = loc[w]
      /\ \A x \in Objects \ behind : cache[x] = obj[x]
      /\ cache \in [Objects -> Object \cup Missing]
      /\ pc[HostWorker] # "idle" => loc[HostWorker] \in Object /\ cur[HostWorker] \in Objects
  BY Working, Kinds DEF TypeOK, CoreTypeOK, Copy
<1> USE <1>1, Kinds DEF host, Copy, At
<1>2. ASSUME HostWorker \in fresh, pc[HostWorker] # "probe", cache' = cache,
             cur'[HostWorker] = cur[HostWorker], loc'[HostWorker] = loc[HostWorker]
      PROVE  LET c == cache[cur[HostWorker]] IN
               (Present(c) /\ c.ref = host.ref /\ c.label = host.label)'
  BY <1>2 DEF LabelInv
<1>3. CASE Steps(HostWorker)
  <2>1. CASE AddFinalizerOk(HostWorker)
    <3>1. /\ loc[HostWorker] \in Object /\ loc'[HostWorker] = WithFinalizer(loc[HostWorker])
          /\ cur' = cur /\ cache' = cache /\ HostWorker \in fresh /\ pc[HostWorker] = "meta"
      BY <2>1 DEF AddFinalizerOk, WriteOk
    <3>2. /\ WithFinalizer(loc[HostWorker]).ref = loc[HostWorker].ref
          /\ WithFinalizer(loc[HostWorker]).label = loc[HostWorker].label
      BY <3>1, Writings
    <3> QED
      BY <3>1, <3>2 DEF LabelInv
  <2>2. CASE AuthLabelOk
    BY <2>2 DEF AuthLabelOk, WriteOk, Jump, Goto
  <2>3. CASE Done(HostWorker) \/ Retry(HostWorker)
    BY <2>3 DEF Done, Retry, End
  <2>4. CASE ~AddFinalizerOk(HostWorker) /\ ~AuthLabelOk
             /\ ~(Done(HostWorker) \/ Retry(HostWorker))
    <3>1. (\E l : Jump(HostWorker, l)) /\ Local /\ pc[HostWorker] # "probe"
      BY <1>3, <2>4
         DEF Steps, CommonOk, CommonFails, Dispatch, FreeOk, PreventOk, Deregister, UnfinalizeOk,
             AddFinalizerFails, PreventFails, UnfinalizeFails, GetAuthOk, LookupOk, EntryOk,
             DialOk, Probe, ProbeFails, GetAuthFails, AuthLabelFails, WriteFails
    <3> QED
      BY <1>2, <3>1 DEF Jump, Goto, Local
  <2> QED
    BY <2>1, <2>2, <2>3, <2>4
<1>4. CASE Steps(AuthWorker)
  <2>1. /\ pc'[HostWorker] = pc[HostWorker] /\ cur'[HostWorker] = cur[HostWorker]
        /\ loc'[HostWorker] = loc[HostWorker] /\ HostWorker \in fresh
    <3>1. \/ \E l : Jump(AuthWorker, l)
          \/ Done(AuthWorker) \/ Retry(AuthWorker)
          \/ \E o, l : WriteOk(AuthWorker, o, l)
      BY <1>4
         DEF Steps, CommonOk, CommonFails, AddFinalizerOk, Dispatch, FreeOk, PreventOk,
             Deregister, UnfinalizeOk, AddFinalizerFails, PreventFails, UnfinalizeFails, SecretOk,
             RegisterOk, SecretFails, RegisterFails, WriteFails
    <3> QED
      BY <3>1 DEF Jump, Goto, Done, Retry, End, WriteOk
  <2>2. cache' = cache
    BY <1>4
       DEF Steps, CommonOk, CommonFails, AddFinalizerOk, Dispatch, FreeOk, PreventOk,
           Deregister, UnfinalizeOk, AddFinalizerFails, PreventFails, UnfinalizeFails, SecretOk,
           RegisterOk, SecretFails, RegisterFails, WriteOk, WriteEnds, WriteFails, Local
  <2> QED
    BY <1>2, <2>1, <2>2
<1>5. CASE \E w \in Workers, x \in Objects : Begin(w, x)
  <2>1. PICK w \in Workers, x \in Objects : Take(w, x, "meta")
    BY <1>5 DEF Begin
  <2>2. cache' = cache
    BY <2>1 DEF Take, Local
  <2>3. CASE w = HostWorker /\ Present(cache[x])
    <3>1. HostWorker \notin fresh /\ cur'[HostWorker] = x /\ loc'[HostWorker] = cache[x]
      BY <2>1, <2>3 DEF Take
    <3> QED
      BY <2>2, <2>3, <3>1
  <2>4. CASE w # HostWorker \/ ~Present(cache[x])
    <3>1. /\ pc'[HostWorker] = pc[HostWorker] /\ cur'[HostWorker] = cur[HostWorker]
          /\ loc'[HostWorker] = loc[HostWorker] /\ HostWorker \in fresh
      BY <2>1, <2>4 DEF Take, workerVars
    <3> QED
      BY <1>2, <2>2, <3>1
  <2> QED
    BY <2>3, <2>4
<1>6. CASE \E x \in Objects : UserCreates(x) \/ UserChanges(x) \/ UserDeletes(x)
  BY <1>2, <1>6 DEF UserCreates, UserChanges, UserDeletes, Delete, OthersWrite
<1>7. CASE \E x \in Objects : CacheSync(x)
  <2>1. PICK x \in Objects : Learn(x, Enqueued(x))
    BY <1>7 DEF CacheSync
  <2>2. /\ pc' = pc /\ cur' = cur /\ loc' = loc /\ fresh' = fresh
        /\ cache' = [cache EXCEPT ![x] = obj[x]]
    BY <2>1 DEF Learn, workerVars
  <2>3. CASE x = cur[HostWorker]
    <3>1. cache'[x] = loc[HostWorker] /\ loc[HostWorker] \in Object
      BY <2>2, <2>3
    <3> QED
      BY <2>2, <2>3, <3>1 DEF Present, Object
  <2>4. CASE x # cur[HostWorker]
    BY <2>2, <2>4 DEF LabelInv
  <2> QED
    BY <2>3, <2>4
<1>8. CASE Crash
  BY <1>8 DEF Crash, Restart
<1>9. CASE UNCHANGED vars
  BY <1>2, <1>9 DEF vars, coreVars, workerVars
<1> QED
  BY <1>3, <1>4, <1>5, <1>6, <1>7, <1>8, <1>9, NextSteps DEF Around, Environment

\* From dialling to labelling
LEMMA DialSteps ==
  ASSUME TypeOK, RefInv, [Next]_vars
  PROVE  /\ pc'[HostWorker] = "label" =>
              \/ DialOk
              \/ /\ pc[HostWorker] = "label" /\ cur'[HostWorker] = cur[HostWorker]
                 /\ loc'[HostWorker] = loc[HostWorker] /\ conns' = conns
         /\ \/ pc[HostWorker] = "label" => UNCHANGED <<pc[HostWorker], cur[HostWorker]>>
            \/ AuthLabelOk \/ AuthLabelFails \/ Crash
         /\ unlabelled' = unlabelled \/ AuthLabelOk \/ AuthLabelFails \/ Crash
<1>1. /\ pc \in [Workers -> Places \cup {"idle"}]
      /\ cur \in [Workers -> Objects \cup {NoObject}] /\ loc \in [Workers -> Object \cup {Absent}]
  BY Working, Kinds DEF TypeOK, CoreTypeOK
<1> USE <1>1, Kinds DEF At, Same
<1>2. CASE Steps(AuthWorker)
  <2>1. \/ \E l : Jump(AuthWorker, l)
        \/ Done(AuthWorker) \/ Retry(AuthWorker)
        \/ \E o, l : WriteOk(AuthWorker, o, l)
    BY <1>2
       DEF Steps, CommonOk, CommonFails, AddFinalizerOk, Dispatch, FreeOk, PreventOk,
           Deregister, UnfinalizeOk, AddFinalizerFails, PreventFails, UnfinalizeFails, SecretOk,
           RegisterOk, SecretFails, RegisterFails, WriteFails
  <2>2. /\ pc'[HostWorker] = pc[HostWorker] /\ cur'[HostWorker] = cur[HostWorker]
        /\ loc'[HostWorker] = loc[HostWorker]
    BY <2>1 DEF Jump, Goto, Done, Retry, End, WriteOk
  <2>3. conns' = conns /\ unlabelled' = unlabelled
    BY <1>2
       DEF Steps, CommonOk, CommonFails, AddFinalizerOk, Dispatch, FreeOk, PreventOk,
           Deregister, UnfinalizeOk, AddFinalizerFails, PreventFails, UnfinalizeFails, SecretOk,
           RegisterOk, SecretFails, RegisterFails, storeVars
  <2> QED
    BY <2>2, <2>3
<1>3. CASE CommonOk(HostWorker) \/ CommonFails(HostWorker)
  <2>1. unlabelled' = unlabelled /\ pc[HostWorker] # "label"
    BY <1>3
       DEF CommonOk, CommonFails, AddFinalizerOk, Dispatch, FreeOk, PreventOk, Deregister,
           UnfinalizeOk, AddFinalizerFails, PreventFails, UnfinalizeFails
  <2>2. pc'[HostWorker] # "label"
    BY <1>3
       DEF CommonOk, CommonFails, AddFinalizerOk, Dispatch, FreeOk, PreventOk, Deregister,
           UnfinalizeOk, AddFinalizerFails, PreventFails, UnfinalizeFails, WriteOk, WriteFails,
           Jump, Goto, Done, Retry, End
  <2> QED
    BY <2>1, <2>2
<1>4. CASE GetAuthOk \/ LookupOk \/ EntryOk \/ DialOk \/ Probe \/ ProbeFails
           \/ GetAuthFails
  <2>1. unlabelled' = unlabelled /\ pc[HostWorker] # "label"
    BY <1>4 DEF GetAuthOk, LookupOk, EntryOk, DialOk, Probe, ProbeFails, GetAuthFails, At, Same
  <2>2. pc'[HostWorker] # "label" \/ DialOk
    BY <1>4 DEF GetAuthOk, LookupOk, EntryOk, Probe, ProbeFails, GetAuthFails, WriteFails,
       Jump, Goto, Retry, End
  <2> QED
    BY <2>1, <2>2
<1>5. CASE AuthLabelOk \/ AuthLabelFails
  <2>1. pc'[HostWorker] # "label"
    BY <1>5 DEF AuthLabelOk, AuthLabelFails, WriteOk, WriteFails, Jump, Goto, Retry, End
  <2> QED
    BY <1>5, <2>1
<1>6. CASE \E w \in Workers, x \in Objects : Begin(w, x)
  BY <1>6 DEF Begin, Take, workerVars, storeVars
<1>7. CASE \E x \in Objects : UserCreates(x) \/ UserChanges(x) \/ UserDeletes(x) \/ CacheSync(x)
  BY <1>7 DEF UserCreates, UserChanges, UserDeletes, Delete, OthersWrite, CacheSync, Learn,
     workerVars, storeVars
<1>8. CASE Crash
  BY <1>8 DEF Crash, Restart
<1>9. CASE UNCHANGED vars
  BY <1>9 DEF vars, coreVars, workerVars, storeVars
<1> QED
  BY <1>2, <1>3, <1>4, <1>5, <1>6, <1>7, <1>8, <1>9, NextSteps DEF Steps, Around, Environment

LEMMA NextLabel ==
  ASSUME TypeOK, SeenInv, PlaceInv, RefInv, LabelInv, [Next]_vars
  PROVE  LabelInv'
<1>1. pc'[HostWorker] = "label" =>
        LET c == conns[cur[HostWorker]] IN (c # NoConnection /\ c.auth = host.ref)'
  <2>1. CASE DialOk
    <3>1. /\ cur[HostWorker] \in Hosts /\ cur' = cur /\ loc' = loc
          /\ conns'[cur[HostWorker]] = [at |-> combinedGeneration, host |-> host.generation,
                                        auth |-> host.ref, spec |-> spec]
      BY <2>1, HostRef DEF DialOk, At, Jump, Goto, TypeOK
    <3>2. combinedGeneration # 0
      BY <2>1, HostRef, MaxGenerationIsPositive
         DEF DialOk, At, combinedGeneration, Combined, Object, Generation, TypeOK
    <3> QED
      BY <3>1, <3>2 DEF NoConnection, host, Copy
  <2> QED
    BY <2>1, DialSteps DEF LabelInv, host, Copy
<1> QED
  BY <1>1, NextShows, NextFresh DEF LabelInv

LEMMA NextLabelled ==
  ASSUME TypeOK, SeenInv, PlaceInv, RefInv, StoresAreOwned, LabelInv, ConnectionIsLabelled,
         [Next]_vars
  PROVE  ConnectionIsLabelled'
<1> SUFFICES ASSUME NEW h \in Hosts, conns'[h] # NoConnection
             PROVE  \/ obj'[h].label = conns'[h].auth
                    \/ pc'[HostWorker] = "label" /\ cur'[HostWorker] = h
                    \/ h \in unlabelled'
  BY DEF ConnectionIsLabelled, Connected, BetweenDialAndLabel
<1>1. CASE conns'[h] # conns[h]
  BY <1>1, StoreSteps
<1>2. CASE conns'[h] = conns[h]
  <2>1. h \in Objects /\ Present(obj[h]) /\ Present(obj'[h]) /\ ~Crash
    BY <1>2, NextStores, Kinds DEF StoresAreOwned, Connected, Crash
  <2>2. CASE obj[h].label = conns[h].auth
    BY <1>2, <2>1, <2>2, LabelSteps DEF LabelInv
  <2>3. CASE AuthLabelOk /\ h = cur[HostWorker]
    <3>1. conns[h].auth = host.ref /\ host \in Object
      BY <2>3, HostRef DEF AuthLabelOk, At, LabelInv
    <3>2. CASE NeedsLabel(host)
      <4>1. Labelled(host).label = host.ref /\ Store(h, Labelled(host))
        BY <2>3, <3>1, <3>2, Writings DEF AuthLabelOk, WriteOk
      <4>2. obj'[h] = Stored(Labelled(host))
        BY <2>1, <4>1 DEF Store, TypeOK, CoreTypeOK
      <4> QED
        BY <1>2, <2>1, <3>1, <4>1, <4>2, StoredPresent
    <3>3. CASE ~NeedsLabel(host)
      <4>1. obj' = obj /\ host.label = host.ref /\ Present(host)
        BY <2>3, <3>1, <3>3 DEF AuthLabelOk, Local, apiVars, NeedsLabel, Object, Present
      <4>2. obj[h].label = host.label
        BY <2>1, <2>3, <4>1 DEF LabelInv, Shows, AuthLabelOk, At
      <4> QED
        BY <1>2, <3>1, <4>1, <4>2
    <3> QED
      BY <3>2, <3>3
  <2>4. CASE AuthLabelFails
    BY <2>1, <2>2, <2>4, <1>2 DEF AuthLabelFails, ConnectionIsLabelled, Connected,
       BetweenDialAndLabel
  <2>5. CASE AuthLabelOk /\ h # cur[HostWorker]
    BY <1>2, <2>2, <2>5 DEF AuthLabelOk, ConnectionIsLabelled, Connected, BetweenDialAndLabel
  <2>6. CASE ~AuthLabelOk /\ ~AuthLabelFails
    BY <1>2, <2>1, <2>2, <2>6, DialSteps DEF ConnectionIsLabelled, Connected,
       BetweenDialAndLabel
  <2> QED
    BY <2>3, <2>4, <2>5, <2>6
<1> QED
  BY <1>1, <1>2

-----------------------------------------------------------------------------
(***************************************************************************)
(* Generations.  No version of an object is of a later generation than a   *)
(* later version, so the credentials of an Auth never go back, but for     *)
(* those of an Auth that is deregistered; and a connection was made with   *)
(* credentials that were no newer than the ones in the store.              *)
(***************************************************************************)

\* The version c is of a generation that d has reached.
UpTo(c, d) == Present(c) /\ Present(d) => c.generation <= d.generation

\* Generation g of Auth a has been reached wherever the Auth is read from,
Shown(g, a) ==
  /\ obj[a] # Absent
  /\ Present(obj[a]) => g <= obj[a].generation
  /\ Present(cache[a]) => g <= cache[a].generation
  /\ pc[AuthWorker] # "idle" /\ cur[AuthWorker] = a => g <= Copy(AuthWorker).generation

\* and the credentials, if there are any, are no older.
Reached(g, a) == Shown(g, a) /\ (creds[a] # 0 => g <= creds[a])

VersionInv ==
  /\ \A x \in Objects : UpTo(cache[x], obj[x])
  /\ \A w \in Workers : pc[w] # "idle" =>
       UpTo(Copy(w), cache[cur[w]]) /\ UpTo(Copy(w), obj[cur[w]])

ReachedInv ==
  /\ \A a \in Auths : creds[a] # 0 => Reached(creds[a], a)
  /\ pc[HostWorker] \in {"entry", "dial"} => Reached(cred, host.ref)
  /\ \A h \in Hosts : Connected(h) =>
       /\ Present(obj[h]) => conns[h].host <= obj[h].generation
       /\ \E g \in Generation : conns[h].at = conns[h].host + g /\ Reached(g, conns[h].auth)

\* What is present is of a generation.
LEMMA Generations ==
  ASSUME TypeOK
  PROVE  /\ \A x \in Objects : Present(obj[x]) => obj[x] \in Object /\ obj[x].generation \in Nat
         /\ \A x \in Objects : Present(cache[x]) =>
              cache[x] \in Object /\ cache[x].generation \in Nat
         /\ \A w \in Workers : pc[w] # "idle" =>
              Copy(w) \in Object /\ Present(Copy(w)) /\ Copy(w).generation \in Nat
<1>1. \A o \in Object : o.generation \in Nat /\ Present(o)
  BY MaxGenerationIsPositive DEF Object, Generation, Present
<1> QED
  BY <1>1, Working, PresentObject DEF TypeOK, CoreTypeOK

\* Whoever writes an object leaves or raises its generation, and raises it with
\* another reference.
LEMMA ObjGenerations ==
  ASSUME TypeOK, RefInv, [Next]_vars, NEW x \in Objects, obj[x] # Absent, Present(obj'[x])
  PROVE  /\ Present(obj[x]) /\ obj[x].generation <= obj'[x].generation
         /\ obj[x].generation = obj'[x].generation => obj[x].ref = obj'[x].ref
<1>1. CASE obj'[x] = obj[x]
  BY <1>1, Generations
<1>2. ASSUME NEW w \in Workers, Steps(w), obj'[x] # obj[x]
      PROVE  /\ Present(obj[x]) /\ obj[x].generation <= obj'[x].generation
             /\ obj[x].ref = obj'[x].ref
  <2>1. obj[x] \in Object /\ obj'[x].generation = obj[x].generation /\ obj'[x].ref = obj[x].ref
    BY <1>2, Written, Writings DEF host
  <2>2. Present(obj[x])
    BY <2>1 DEF Object, Present
  <2> QED
    BY <2>1, <2>2, Generations
<1>3. ASSUME NEW y \in Objects, UserCreates(y) \/ UserChanges(y) \/ UserDeletes(y),
             obj'[x] # obj[x]
      PROVE  /\ Present(obj[x]) /\ obj[x].generation <= obj'[x].generation
             /\ obj[x].generation = obj'[x].generation => obj[x].ref = obj'[x].ref
  <2>1. PICK o \in Object :
           /\ OthersWrite(y, o)
           /\ \/ obj[y] = Absent
              \/ /\ Present(obj[y]) /\ obj[y].generation <= o.generation
                 /\ obj[y].generation = o.generation => obj[y].ref = o.ref
    BY <1>3, UserWrites
  <2>2. x = y /\ obj'[x] = Stored(o)
    BY <1>3, <2>1 DEF OthersWrite, Store, TypeOK, CoreTypeOK
  <2>3. obj'[x] = o
    BY <2>2, StoredPresent
  <2> QED
    BY <2>1, <2>2, <2>3
<1>4. CASE Around /\ ~\E y \in Objects : UserCreates(y) \/ UserChanges(y) \/ UserDeletes(y)
  BY <1>1, <1>4 DEF Around, Environment, Begin, Take, CacheSync, Learn, Crash, Restart, Local,
     apiVars, coreVars, vars
<1> QED
  BY <1>1, <1>2, <1>3, <1>4, NextSteps

\* A copy is read from the cache, and its Spec stays the same.
LEMMA CopyGenerations ==
  ASSUME TypeOK, RefInv, [Next]_vars, NEW w \in Workers, pc'[w] # "idle"
  PROVE  \/ /\ pc[w] # "idle" /\ cur'[w] = cur[w]
            /\ Copy(w)'.generation = Copy(w).generation /\ Copy(w)'.ref = Copy(w).ref
         \/ /\ cur'[w] \in Objects /\ Copy(w)' = cache[cur'[w]] /\ Present(Copy(w)')
            /\ UNCHANGED <<obj, cache, creds>>
<1>1. /\ pc \in [Workers -> Places \cup {"idle"}]
      /\ cur \in [Workers -> Objects \cup {NoObject}] /\ loc \in [Workers -> Object \cup {Absent}]
  BY Working DEF TypeOK, CoreTypeOK
<1>2. ASSUME NEW v \in Workers, Steps(v)
      PROVE  /\ pc[w] # "idle" /\ cur'[w] = cur[w]
             /\ Copy(w)'.generation = Copy(w).generation /\ Copy(w)'.ref = Copy(w).ref
  <2>1. pc[v] # "idle" /\ Copy(v) \in Object /\ Copy(v) = loc[v]
    BY <1>2, Working
       DEF Steps, CommonOk, CommonFails, At, AddFinalizerOk, Dispatch, FreeOk, PreventOk,
           Deregister, UnfinalizeOk, AddFinalizerFails, PreventFails, UnfinalizeFails, SecretOk,
           RegisterOk, SecretFails, RegisterFails, GetAuthOk, LookupOk, EntryOk, DialOk,
           AuthLabelOk, Probe, ProbeFails, GetAuthFails, AuthLabelFails, Copy
  <2>2. \/ \E l : Jump(v, l)
        \/ Done(v) \/ Retry(v)
        \/ \E o \in {WithFinalizer(loc[v]), Labelled(loc[v])}, l \in Places : WriteOk(v, o, l)
    BY <1>2
       DEF Steps, CommonOk, CommonFails, At, AddFinalizerOk, Dispatch, FreeOk, PreventOk,
           Deregister, UnfinalizeOk, AddFinalizerFails, PreventFails, UnfinalizeFails, SecretOk,
           RegisterOk, SecretFails, RegisterFails, GetAuthOk, LookupOk, EntryOk, DialOk,
           AuthLabelOk, Probe, ProbeFails, GetAuthFails, AuthLabelFails, WriteFails, Copy, host,
           Places
  <2>3. CASE v # w
    BY <1>1, <2>2, <2>3 DEF Jump, Goto, Done, Retry, End, WriteOk, Copy
  <2>4. CASE v = w
    <3>1. \A o \in {WithFinalizer(loc[w]), Labelled(loc[w])} :
            o.generation = loc[w].generation /\ o.ref = loc[w].ref
      BY <2>1, <2>4, Writings
    <3> QED
      BY <1>1, <2>1, <2>2, <2>4, <3>1 DEF Jump, Goto, Done, Retry, End, WriteOk, Copy
  <2> QED
    BY <2>3, <2>4
<1>3. CASE \E v \in Workers, x \in Objects : Begin(v, x)
  BY <1>1, <1>3 DEF Begin, Take, workerVars, Local, apiVars, Same, storeVars, Copy
<1>4. CASE \E x \in Objects : CacheSync(x)
  BY <1>4 DEF CacheSync, Learn, workerVars, Copy
<1>5. CASE \E y \in Objects : UserCreates(y) \/ UserChanges(y) \/ UserDeletes(y)
  BY <1>5, UserWrites DEF OthersWrite, Copy
<1>6. CASE Crash \/ UNCHANGED vars
  BY <1>1, <1>6 DEF Crash, Restart, coreVars, workerVars, vars, Copy
<1> QED
  BY <1>2, <1>3, <1>4, <1>5, <1>6, NextSteps DEF Around, Environment

\* What was there once does not come back as something that never was.
LEMMA StaysCreated ==
  ASSUME TypeOK, PlaceInv, RefInv, [Next]_vars, NEW x \in Objects, obj[x] # Absent
  PROVE  obj'[x] # Absent
<1>1. obj'[x] = obj[x] \/ \E o \in Object : obj'[x] = Stored(o)
  <2>1. ASSUME NEW w \in Workers, Steps(w)
        PROVE  obj'[x] = obj[x] \/ \E o \in Object : obj'[x] = Stored(o)
    <3>1. obj' = obj \/ \E o \in Object : Store(cur[w], o)
      BY <2>1, StepShape
         DEF WorkerStep, Local, apiVars, WriteOk, WriteEnds, WriteFails
    <3> QED
      BY <3>1, Working, <2>1 DEF Store, CoreTypeOK
  <2>2. ASSUME NEW y \in Objects, UserCreates(y) \/ UserChanges(y) \/ UserDeletes(y)
        PROVE  obj'[x] = obj[x] \/ \E o \in Object : obj'[x] = Stored(o)
    BY <2>2, UserWrites DEF OthersWrite, Store, TypeOK, CoreTypeOK
  <2>3. CASE Around /\ ~\E y \in Objects : UserCreates(y) \/ UserChanges(y) \/ UserDeletes(y)
    BY <2>3 DEF Around, Environment, Begin, Take, CacheSync, Learn, Crash, Restart, Local,
       apiVars, coreVars, vars
  <2> QED
    BY <2>1, <2>2, <2>3, NextSteps
<1>2. \A o \in Object : Stored(o) # Absent
  BY DEF Stored, Object, Absent, Gone
<1> QED
  BY <1>1, <1>2

LEMMA NextVersion ==
  ASSUME TypeOK, SeenInv, PlaceInv, RefInv, VersionInv, [Next]_vars
  PROVE  VersionInv'
<1>1. TypeOK'
  BY NextTypes
<1>2. /\ \A x \in Objects : Present(obj'[x]) => obj'[x].generation \in Nat
      /\ \A x \in Objects : Present(cache'[x]) => cache'[x].generation \in Nat
      /\ \A w \in Workers : pc'[w] # "idle" => Copy(w)'.generation \in Nat /\ cur'[w] \in Objects
  <2>1. \A o \in Object : o.generation \in Nat
    BY MaxGenerationIsPositive DEF Object, Generation
  <2> QED
    BY <1>1, <2>1, PresentObject, ServedAreObjects DEF TypeOK, CoreTypeOK, Copy
<1>3. ASSUME NEW x \in Objects, Present(cache'[x]), Present(obj'[x])
      PROVE  cache'[x].generation <= obj'[x].generation
  <2>1. CASE cache'[x] = cache[x]
    <3>1. obj[x] # Absent
      BY <1>3, <2>1 DEF SeenInv, Tells, Present, Absent
    <3>2. Present(obj[x]) /\ obj[x].generation <= obj'[x].generation
      BY <1>3, <3>1, ObjGenerations
    <3>3. cache[x].generation <= obj[x].generation
      BY <1>3, <2>1, <3>2 DEF VersionInv, UpTo
    <3> QED
      BY <1>2, <1>3, <2>1, <3>2, <3>3, Generations
  <2>2. CASE cache'[x] = obj[x] /\ obj' = obj
    BY <1>2, <1>3, <2>2
  <2> QED
    BY <2>1, <2>2, CacheSteps
<1>4. ASSUME NEW w \in Workers, pc'[w] # "idle"
      PROVE  UpTo(Copy(w), cache[cur[w]])' /\ UpTo(Copy(w), obj[cur[w]])'
  <2>1. CASE /\ pc[w] # "idle" /\ cur'[w] = cur[w]
             /\ Copy(w)'.generation = Copy(w).generation
    <3> DEFINE x == cur[w]
    <3>1. x \in Objects /\ Present(Copy(w)) /\ Copy(w) = loc[w] /\ obj[x] # Absent
      BY <1>4, <2>1, Working, Generations DEF SeenInv, Tells, Present, Absent, Copy
    <3>2. ASSUME Present(obj'[x]) PROVE Copy(w).generation <= obj'[x].generation
      <4>1. Present(obj[x]) /\ obj[x].generation <= obj'[x].generation
        BY <3>1, <3>2, ObjGenerations
      <4>2. Copy(w).generation <= obj[x].generation
        BY <2>1, <3>1, <4>1 DEF VersionInv, UpTo
      <4> QED
        BY <1>2, <2>1, <3>1, <3>2, <4>1, <4>2, Generations
    <3>3. ASSUME Present(cache'[x]) PROVE Copy(w).generation <= cache'[x].generation
      BY <2>1, <3>1, <3>2, <3>3, CacheSteps DEF VersionInv, UpTo
    <3> QED
      BY <2>1, <3>2, <3>3 DEF UpTo
  <2>2. CASE cur'[w] \in Objects /\ Copy(w)' = cache[cur'[w]] /\ obj' = obj /\ cache' = cache
    BY <1>2, <1>3, <1>4, <2>2 DEF UpTo
  <2> QED
    BY <1>4, <2>1, <2>2, CopyGenerations
<1> QED
  BY <1>3, <1>4 DEF VersionInv, UpTo

\* No step goes back behind a generation, not even a crash, which empties the
\* store.
LEMMA ReachedStays ==
  ASSUME TypeOK, SeenInv, PlaceInv, RefInv, VersionInv, [Next]_vars,
         NEW a \in Auths, NEW g \in Nat, Shown(g, a)
  PROVE  Shown(g, a)' /\ (Reached(g, a) => Reached(g, a)')
<1>1. TypeOK' /\ a \in Objects /\ AuthWorker \in Workers
  BY NextTypes, Kinds
<1>2. /\ Present(obj'[a]) => obj'[a].generation \in Nat
      /\ Present(cache'[a]) => cache'[a].generation \in Nat
      /\ pc[AuthWorker] # "idle" => Copy(AuthWorker).generation \in Nat
  <2>1. \A o \in Object : o.generation \in Nat
    BY MaxGenerationIsPositive DEF Object, Generation
  <2> QED
    BY <1>1, <2>1, PresentObject, Generations DEF TypeOK, CoreTypeOK
<1>3. obj'[a] # Absent
  BY <1>1, StaysCreated DEF Shown
<1>4. ASSUME Present(obj'[a]) PROVE g <= obj'[a].generation
  <2>1. Present(obj[a]) /\ obj[a].generation <= obj'[a].generation /\ g <= obj[a].generation
    BY <1>1, <1>4, ObjGenerations DEF Shown
  <2> QED
    BY <1>1, <1>2, <1>4, <2>1, Generations
<1>5. ASSUME Present(cache'[a]) PROVE g <= cache'[a].generation
  BY <1>1, <1>5, CacheSteps DEF Shown
<1>6. ASSUME pc'[AuthWorker] # "idle", cur'[AuthWorker] = a
      PROVE  g <= Copy(AuthWorker)'.generation
  BY <1>1, <1>6, CopyGenerations DEF Shown
<1>7. ASSUME Reached(g, a), creds'[a] # 0 PROVE g <= creds'[a]
  <2>1. CASE creds'[a] = creds[a]
    BY <1>7, <2>1 DEF Reached
  <2>2. CASE creds'[a] # creds[a]
    BY <1>7, <2>2, StoreSteps, Kinds DEF Shown, PlaceInv
  <2> QED
    BY <2>1, <2>2
<1> QED
  BY <1>3, <1>4, <1>5, <1>6, <1>7 DEF Shown, Reached

\* The credentials that HostReconciler has looked up
LEMMA EntrySteps ==
  ASSUME TypeOK, RefInv, [Next]_vars, pc'[HostWorker] \in {"entry", "dial"}
  PROVE  /\ host' = host /\ pc[HostWorker] # "idle"
         /\ \/ cred' = creds[host.ref] /\ creds[host.ref] # 0
            \/ pc[HostWorker] \in {"entry", "dial"} /\ cred' = cred
<1>1. /\ pc \in [Workers -> Places \cup {"idle"}] /\ HostWorker \in Workers
      /\ HostWorker # AuthWorker /\ AuthWorker \in Workers
  BY Working, Kinds
<1> USE <1>1 DEF At, Same, localVars, host, Copy
<1>2. CASE Steps(AuthWorker)
  <2>1. /\ pc'[HostWorker] = pc[HostWorker] /\ loc'[HostWorker] = loc[HostWorker]
    BY <1>2, StepMoves, Working
       DEF Moves, Jump, Goto, Done, Retry, End, WriteOk, CoreTypeOK
  <2>2. cred' = cred
    BY <1>2
       DEF Steps, CommonOk, CommonFails, AddFinalizerOk, Dispatch, FreeOk, PreventOk,
           Deregister, UnfinalizeOk, AddFinalizerFails, PreventFails, UnfinalizeFails, SecretOk,
           RegisterOk, SecretFails, RegisterFails
  <2> QED
    BY <2>1, <2>2
<1>3. CASE CommonOk(HostWorker) \/ CommonFails(HostWorker) \/ GetAuthOk \/ DialOk \/ AuthLabelOk
           \/ Probe \/ GetAuthFails \/ AuthLabelFails \/ ProbeFails
  BY <1>3
     DEF CommonOk, CommonFails, AddFinalizerOk, Dispatch, FreeOk, PreventOk, Deregister,
         UnfinalizeOk, AddFinalizerFails, PreventFails, UnfinalizeFails, WriteOk, WriteFails,
         GetAuthOk, DialOk, AuthLabelOk, Probe, GetAuthFails, AuthLabelFails, ProbeFails,
         Jump, Goto, Done, Retry, End
<1>4. CASE LookupOk \/ EntryOk
  BY <1>4 DEF LookupOk, EntryOk, Jump, Goto, Retry, End
<1>5. CASE \E w \in Workers, x \in Objects : Begin(w, x)
  BY <1>5, Working DEF Begin, Take, workerVars, CoreTypeOK
<1>6. CASE \E x \in Objects : UserCreates(x) \/ UserChanges(x) \/ UserDeletes(x) \/ CacheSync(x)
  BY <1>6 DEF UserCreates, UserChanges, UserDeletes, Delete, OthersWrite, CacheSync, Learn,
     workerVars
<1>7. CASE Crash \/ UNCHANGED vars
  BY <1>7 DEF Crash, Restart, vars, coreVars, workerVars
<1> HIDE DEF At, Same, localVars, host, Copy
<1>8. ASSUME NEW w \in Workers, Steps(w) PROVE Steps(AuthWorker) \/ Steps(HostWorker)
  BY <1>8, Kinds
<1>9. Steps(HostWorker) =>
        \/ CommonOk(HostWorker) \/ CommonFails(HostWorker) \/ GetAuthOk \/ DialOk \/ AuthLabelOk
           \/ Probe \/ GetAuthFails \/ AuthLabelFails \/ ProbeFails
        \/ LookupOk \/ EntryOk
  BY Kinds DEF Steps
<1> QED
  BY <1>2, <1>3, <1>4, <1>5, <1>6, <1>7, <1>8, <1>9, NextSteps DEF Around, Environment

LEMMA NextReached ==
  ASSUME TypeOK, SeenInv, PlaceInv, RefInv, StoresAreOwned, VersionInv, ReachedInv, [Next]_vars
  PROVE  ReachedInv'
<1>1. /\ TypeOK' /\ AuthWorker \in Workers /\ HostWorker \in Workers
      /\ creds \in [Auths -> 0..MaxGeneration] /\ cred \in 0..MaxGeneration
      /\ conns \in [Hosts -> Connection \cup {NoConnection}]
      /\ MaxGeneration \in Nat /\ Generation \subseteq Nat
      /\ Auths \subseteq Objects /\ Hosts \subseteq Objects
  BY NextTypes, Kinds, MaxGenerationIsPositive DEF TypeOK, Generation
<1>2. ASSUME NEW a \in Auths, creds'[a] # 0 PROVE Reached(creds[a], a)'
  <2>1. CASE creds'[a] = creds[a]
    <3>1. PICK n \in Nat : n = creds[a]
      BY <1>1
    <3>2. Reached(n, a)'
      BY <1>2, <2>1, <3>1, ReachedStays DEF ReachedInv, Reached
    <3> QED
      BY <2>1, <3>1, <3>2 DEF Reached, Shown
  <2>2. CASE creds'[a] # creds[a]
    <3>1. a = cur[AuthWorker] /\ pc[AuthWorker] = "register"
          /\ creds'[a] = Copy(AuthWorker).generation
      BY <1>2, <2>2, StoreSteps
    <3>2. Present(Copy(AuthWorker)) /\ obj[a] # Absent
      BY <1>1, <3>1, Generations DEF SeenInv, Tells, Copy, Present, Absent
    <3>3. PICK n \in Nat : n = Copy(AuthWorker).generation
      BY <1>1, <3>1, Generations
    <3>4. Shown(n, a)
      BY <1>1, <3>1, <3>2, <3>3 DEF Shown, VersionInv, UpTo
    <3>5. Shown(n, a)'
      BY <3>4, ReachedStays
    <3> QED
      BY <3>1, <3>3, <3>5 DEF Reached, Shown
  <2> QED
    BY <2>1, <2>2
<1>3. ASSUME pc'[HostWorker] \in {"entry", "dial"} PROVE Reached(cred, host.ref)'
  <2>1. host' = host /\ host.ref \in Auths
    BY <1>3, EntrySteps, HostRef
  <2>2. PICK a \in Auths : a = host.ref
    BY <2>1
  <2>3. PICK n \in Nat : n = cred' /\ Reached(n, a)
    BY <1>1, <1>3, <2>2, EntrySteps DEF ReachedInv
  <2>4. Reached(n, a)'
    BY <2>3, ReachedStays DEF Reached
  <2> QED
    BY <2>1, <2>2, <2>3, <2>4 DEF Reached, Shown
<1>4. ASSUME NEW h \in Hosts, conns'[h] # NoConnection
      PROVE  /\ Present(obj'[h]) => conns'[h].host <= obj'[h].generation
             /\ \E g \in Generation :
                  conns'[h].at = conns'[h].host + g /\ Reached(g, conns[h].auth)'
  <2>1. Present(obj'[h]) => obj'[h].generation \in Nat
    BY <1>1, <1>4, PresentObject, MaxGenerationIsPositive
       DEF TypeOK, CoreTypeOK, Object, Generation
  <2>2. CASE conns'[h] = conns[h]
    <3>1. /\ Present(obj[h]) /\ obj[h] # Absent
          /\ conns[h].host <= obj[h].generation
          /\ conns[h].auth \in Auths /\ conns[h].host \in Nat
      <4>1. Connected(h) /\ conns[h] \in Connection
        BY <1>1, <1>4, <2>2 DEF Connected
      <4>2. Present(obj[h]) /\ conns[h].host <= obj[h].generation
        BY <4>1 DEF ReachedInv, StoresAreOwned
      <4> QED
        <5>1. conns[h].auth \in Auths /\ conns[h].host \in Nat
          BY <1>1, <4>1 DEF Connection, Generation
        <5>2. obj[h] # Absent
          BY <4>2 DEF Present, Absent
        <5> QED
          BY <1>1, <4>2, <5>1, <5>2
    <3>2. PICK g \in Generation : conns[h].at = conns[h].host + g /\ Reached(g, conns[h].auth)
      BY <1>4, <2>2 DEF ReachedInv, Connected
    <3>3. PICK a \in Auths : a = conns[h].auth
      BY <3>1
    <3>4. Reached(g, a)'
      BY <1>1, <3>2, <3>3, ReachedStays DEF Reached
    <3>5. Reached(g, conns[h].auth)'
      BY <2>2, <3>3, <3>4 DEF Reached, Shown
    <3>6. Present(obj'[h]) => conns'[h].host <= obj'[h].generation
      BY <1>1, <2>1, <2>2, <3>1, ObjGenerations, Generations
    <3> QED
      BY <2>2, <3>2, <3>5, <3>6
  <2>3. CASE conns'[h] # conns[h]
    <3>1. DialOk /\ h = cur[HostWorker] /\ pc[HostWorker] = "dial" /\ pc[HostWorker] # "idle"
      BY <1>4, <2>3, StoreSteps DEF DialOk, At
    <3>2. /\ host \in Object /\ host.ref \in Auths /\ host.generation \in Nat /\ Present(host)
          /\ cred \in Generation /\ Reached(cred, host.ref)
      BY <1>1, <3>1, HostRef, Generations
         DEF PlaceInv, ReachedInv, Generation, host
    <3>3. conns'[h] = [at |-> host.generation + cred, host |-> host.generation,
                       auth |-> host.ref, spec |-> spec]
      BY <1>1, <3>1 DEF DialOk, combinedGeneration, Combined
    <3>4. PICK a \in Auths : a = host.ref
      BY <3>2
    <3>5. PICK g \in Generation : g = cred
      BY <3>2
    <3>6. Reached(g, a)'
      BY <1>1, <3>2, <3>4, <3>5, ReachedStays DEF Reached
    <3>7. Reached(g, conns[h].auth)'
      BY <3>3, <3>4, <3>6 DEF Reached, Shown
    <3>8. obj[h] # Absent /\ (Present(obj[h]) => host.generation <= obj[h].generation)
      BY <1>1, <3>1, <3>2 DEF SeenInv, Tells, VersionInv, UpTo, host, Copy, Present, Absent
    <3>9. Present(obj'[h]) => host.generation <= obj'[h].generation
      BY <1>1, <2>1, <3>2, <3>8, ObjGenerations, Generations
    <3> QED
      BY <3>3, <3>5, <3>7, <3>9
  <2> QED
    BY <2>2, <2>3
<1> QED
  BY <1>2, <1>3, <1>4 DEF ReachedInv, Connected

-----------------------------------------------------------------------------
(***************************************************************************)
(* A Spec refers to one Auth: what is of the generation that an object has *)
(* is of its reference, too.                                               *)
(***************************************************************************)
OfSpec(g, r, x) ==
  /\ obj[x] # Absent
  /\ Present(obj[x]) => g < obj[x].generation \/ (g = obj[x].generation /\ r = obj[x].ref)

SpecInv ==
  /\ \A x \in Objects : Present(cache[x]) => OfSpec(cache[x].generation, cache[x].ref, x)
  /\ \A w \in Workers : pc[w] # "idle" => OfSpec(Copy(w).generation, Copy(w).ref, cur[w])
  /\ \A h \in Hosts : Connected(h) => OfSpec(conns[h].host, conns[h].auth, h)

\* Whatever is written to the object leaves this as it is.
LEMMA OfSpecStays ==
  ASSUME TypeOK, SeenInv, PlaceInv, RefInv, [Next]_vars, NEW x \in Objects, NEW g \in Nat,
         NEW r, OfSpec(g, r, x)
  PROVE  OfSpec(g, r, x)'
<1>1. obj'[x] # Absent
  BY StaysCreated DEF OfSpec
<1>2. ASSUME Present(obj'[x])
      PROVE  g < obj'[x].generation \/ (g = obj'[x].generation /\ r = obj'[x].ref)
  <2>1. /\ Present(obj[x]) /\ obj[x].generation <= obj'[x].generation
        /\ obj[x].generation = obj'[x].generation => obj[x].ref = obj'[x].ref
    BY <1>2, ObjGenerations DEF OfSpec
  <2>2. obj[x].generation \in Nat
    BY <2>1, Generations
  <2>3. obj'[x].generation \in Nat
    <3>1. \A o \in Object : o.generation \in Nat
      BY MaxGenerationIsPositive DEF Object, Generation
    <3> QED
      BY <1>2, <3>1, NextTypes, PresentObject DEF TypeOK, CoreTypeOK
  <2> QED
    BY <2>1, <2>2, <2>3 DEF OfSpec
<1> QED
  BY <1>1, <1>2 DEF OfSpec

LEMMA NextSpecInv ==
  ASSUME TypeOK, SeenInv, PlaceInv, RefInv, SpecInv, [Next]_vars
  PROVE  SpecInv'
<1>1. ASSUME NEW x \in Objects, Present(cache'[x])
      PROVE  OfSpec(cache[x].generation, cache[x].ref, x)'
  <2>1. CASE cache'[x] = cache[x]
    <3>1. PICK g, r : g \in Nat /\ g = cache[x].generation /\ r = cache[x].ref
      BY <1>1, <2>1, Generations
    <3>2. OfSpec(g, r, x)'
      BY <1>1, <2>1, <3>1, OfSpecStays DEF SpecInv
    <3> QED
      BY <2>1, <3>1, <3>2 DEF OfSpec
  <2>2. CASE cache'[x] = obj[x] /\ obj' = obj
    BY <1>1, <2>2 DEF OfSpec, Present, Absent
  <2> QED
    BY <2>1, <2>2, CacheSteps
<1>2. ASSUME NEW w \in Workers, pc'[w] # "idle"
      PROVE  OfSpec(Copy(w).generation, Copy(w).ref, cur[w])'
  <2>1. CASE /\ pc[w] # "idle" /\ cur'[w] = cur[w]
             /\ Copy(w)'.generation = Copy(w).generation /\ Copy(w)'.ref = Copy(w).ref
    <3>1. PICK g, r : g \in Nat /\ g = Copy(w).generation /\ r = Copy(w).ref
      BY <2>1, Generations
    <3>2. PICK x \in Objects : x = cur[w]
      BY <2>1, Working
    <3>3. OfSpec(g, r, x)'
      BY <2>1, <3>1, <3>2, OfSpecStays DEF SpecInv
    <3> QED
      BY <2>1, <3>1, <3>2, <3>3 DEF OfSpec
  <2>2. CASE /\ cur'[w] \in Objects /\ Copy(w)' = cache[cur'[w]] /\ Present(Copy(w)')
             /\ obj' = obj
    <3>1. PICK x \in Objects : x = cur'[w]
      BY <2>2
    <3>2. OfSpec(cache[x].generation, cache[x].ref, x)
      BY <2>2, <3>1 DEF SpecInv
    <3> QED
      BY <2>2, <3>1, <3>2 DEF OfSpec
  <2> QED
    BY <1>2, <2>1, <2>2, CopyGenerations
<1>3. ASSUME NEW h \in Hosts, conns'[h] # NoConnection
      PROVE  OfSpec(conns[h].host, conns[h].auth, h)'
  <2>0. h \in Objects
    BY Kinds
  <2>1. CASE conns'[h] = conns[h]
    <3>1. conns[h].host \in Nat
      BY <1>3, <2>1, MaxGenerationIsPositive DEF TypeOK, Connection, Generation
    <3>2. PICK g, r : g \in Nat /\ g = conns[h].host /\ r = conns[h].auth
      BY <3>1
    <3>3. OfSpec(g, r, h)'
      BY <1>3, <2>0, <2>1, <3>2, OfSpecStays DEF SpecInv, Connected
    <3> QED
      BY <2>1, <3>2, <3>3 DEF OfSpec
  <2>2. CASE conns'[h] # conns[h]
    <3>1. DialOk /\ h = cur[HostWorker] /\ pc[HostWorker] # "idle"
      BY <1>3, <2>2, StoreSteps DEF DialOk, At
    <3>2. conns'[h].host = host.generation /\ conns'[h].auth = host.ref
      BY <3>1 DEF DialOk, TypeOK
    <3>3. PICK g, r : g \in Nat /\ g = host.generation /\ r = host.ref
      BY <3>1, Kinds, Generations DEF host
    <3>4. OfSpec(g, r, h)'
      BY <2>0, <3>1, <3>3, Kinds, OfSpecStays DEF SpecInv, host
    <3> QED
      BY <3>2, <3>3, <3>4 DEF OfSpec
  <2> QED
    BY <2>1, <2>2
<1> QED
  BY <1>1, <1>2, <1>3 DEF SpecInv, Connected

-----------------------------------------------------------------------------
\* Every reachable state satisfies the invariant.
LEMMA Invariance == Spec => []IInv
<1>1. IInv /\ [Next]_vars => IInv'
  BY NextCore, NextTypes, NextPlace, NextRef, NextStores, NextLabel, NextLabelled DEF IInv
<1> QED
  BY InitIInv, <1>1, PTL DEF Spec

LEMMA GenerationInvariance == Spec => [](VersionInv /\ ReachedInv)
<1>1. Init => VersionInv /\ ReachedInv
  BY InitIInv, Kinds
     DEF Init, CoreInit, VersionInv, ReachedInv, UpTo, Present, Absent, Connected, NoConnection
<1>2. IInv /\ VersionInv /\ ReachedInv /\ [Next]_vars => (VersionInv /\ ReachedInv)'
  BY NextVersion, NextReached DEF IInv
<1> QED
  BY <1>1, <1>2, Invariance, PTL DEF Spec

LEMMA SpecInvariance == Spec => []SpecInv
<1>1. Init => SpecInv
  BY InitIInv, Kinds DEF Init, CoreInit, SpecInv, Present, Absent, Connected, NoConnection
<1>2. IInv /\ SpecInv /\ [Next]_vars => SpecInv'
  BY NextSpecInv DEF IInv
<1> QED
  BY <1>1, <1>2, Invariance, PTL DEF Spec

\* The variables have their types.
THEOREM TypeCorrect == Spec => []TypeOK
<1>1. IInv => TypeOK
  BY DEF IInv
<1> QED
  BY Invariance, <1>1, PTL

\* No connection outlives its Host and no credentials outlive their Auth.
THEOREM StoresOwned == Spec => []StoresAreOwned
<1>1. IInv => StoresAreOwned
  BY DEF IInv
<1> QED
  BY Invariance, <1>1, PTL

\* The label of a Host names the Auth its connection was made with, unless it is
\* about to be written or could not be.
THEOREM ConnectionLabelled == Spec => []ConnectionIsLabelled
<1>1. IInv => ConnectionIsLabelled
  BY DEF IInv
<1> QED
  BY Invariance, <1>1, PTL

\* A connection with the current number was made for this Spec of the Host, but
\* for one with another Auth, of a larger generation than the one referred to now:
\* an Auth's credentials only get newer, so with the same Auth the sums are the same
\* only if both terms are; with another one the Spec of the Host is another one,
\* too, hence an earlier one, and the other term must have been larger.
THEOREM CurrentConnectionNew == Spec => []CurrentConnectionIsNew
<1>1. IInv /\ ReachedInv /\ SpecInv => CurrentConnectionIsNew
  <2> SUFFICES ASSUME IInv, ReachedInv, SpecInv, NEW h \in Hosts, Connected(h), Present(obj[h]),
                      creds[obj[h].ref] # 0,
                      conns[h].at = Combined(obj[h].generation, creds[obj[h].ref])
               PROVE  \/ conns[h].host = obj[h].generation /\ conns[h].auth = obj[h].ref
                      \/ /\ conns[h].auth # obj[h].ref
                         /\ creds[obj[h].ref] < CredOf(conns[h])
    BY DEF CurrentConnectionIsNew
  <2>1. /\ obj[h].generation \in Nat /\ conns[h].host \in Nat /\ Generation \subseteq Nat
        /\ creds[conns[h].auth] \in Nat /\ creds[obj[h].ref] \in Nat
    <3>1. TypeOK /\ h \in Objects /\ h \notin Auths
      BY Kinds DEF IInv
    <3>2. conns[h].auth \in Auths /\ conns[h].host \in Nat /\ Generation \subseteq Nat
      BY <3>1, MaxGenerationIsPositive DEF TypeOK, Connected, Connection, Generation
    <3>3. creds \in [Auths -> 0..MaxGeneration] /\ MaxGeneration \in Nat
      BY <3>1, MaxGenerationIsPositive DEF TypeOK
    <3>4. obj[h] \in Object /\ obj[h].generation \in Nat
      BY <3>1, Generations
    <3>5. obj[h].ref \in Auths
      BY <3>1, <3>4 DEF IInv, RefInv, Refers, Object
    <3> QED
      BY <3>2, <3>3, <3>4, <3>5
  <2>2. PICK g \in Generation :
          /\ conns[h].at = conns[h].host + g
          /\ creds[conns[h].auth] # 0 => g <= creds[conns[h].auth]
    BY DEF ReachedInv, Reached
  <2>3. \/ conns[h].host < obj[h].generation
        \/ conns[h].host = obj[h].generation /\ conns[h].auth = obj[h].ref
    BY DEF SpecInv, OfSpec
  <2>4. CASE conns[h].auth = obj[h].ref
    BY <2>1, <2>2, <2>3, <2>4 DEF Combined
  <2>5. CASE conns[h].auth # obj[h].ref
    BY <2>1, <2>2, <2>3, <2>5 DEF Combined, CredOf
  <2> QED
    BY <2>4, <2>5
<1> QED
  BY <1>1, Invariance, GenerationInvariance, SpecInvariance, PTL

\* The deletion of an Auth that a Host is connected with is let through only in
\* the cases that FreeAuthIsUnused names.
THEOREM FreeAuthUnused == Spec => FreeAuthIsUnused
<1>1. IInv /\ [Next]_vars =>
        [\A a \in Auths :
           At(AuthWorker, "check") /\ cur[AuthWorker] = a /\ pc'[AuthWorker] = "deregister" =>
             \A h \in Hosts : Connected(h) /\ conns[h].auth = a =>
               h \in behind \cup unlabelled \/ BetweenDialAndLabel(h)]_vars
  <2> SUFFICES ASSUME IInv, [Next]_vars, At(AuthWorker, "check"), pc'[AuthWorker] = "deregister",
                      NEW h \in Hosts, Connected(h), conns[h].auth = cur[AuthWorker],
                      h \notin behind, h \notin unlabelled, ~BetweenDialAndLabel(h)
               PROVE  FALSE
    OBVIOUS
  <2>1. /\ Present(obj[h]) /\ cache[h] = obj[h] /\ obj[h].label = cur[AuthWorker]
    BY Kinds DEF IInv, StoresAreOwned, ConnectionIsLabelled, TypeOK, CoreTypeOK
  <2>2. h \in WithLabel(cur[AuthWorker])
    BY <2>1 DEF WithLabel
  <2>3. TypeOK /\ RefInv
    BY DEF IInv
  <2>4. pc \in [Workers -> Places \cup {"idle"}]
    BY <2>3 DEF TypeOK, CoreTypeOK
  <2>5. CASE Steps(AuthWorker)
    BY <2>2, <2>4, <2>5, Kinds
       DEF Steps, CommonOk, CommonFails, At, AddFinalizerOk, Dispatch, FreeOk, PreventOk,
           Deregister, UnfinalizeOk, AddFinalizerFails, PreventFails, UnfinalizeFails, SecretOk,
           RegisterOk, SecretFails, RegisterFails, WriteFails, Retry, End
  <2>6. CASE Steps(HostWorker)
    <3>1. Moves(HostWorker)
      BY <2>6, Kinds, StepMoves
    <3> QED
      BY <2>4, <3>1, Kinds DEF Moves, At, Jump, Goto, Done, Retry, End, WriteOk
  <2>7. CASE Around
    BY <2>4, <2>7, Kinds
       DEF At, Around, Environment, Begin, Take, UserCreates, UserChanges, UserDeletes, Delete,
           OthersWrite, CacheSync, Learn, Crash, Restart, coreVars, workerVars, vars
  <2> QED
    BY <2>5, <2>6, <2>7, NextSteps, Kinds
<1> QED
  BY <1>1, Invariance, PTL DEF Spec, FreeAuthIsUnused

-----------------------------------------------------------------------------
(***************************************************************************)
(* The stores go forward.  A connection is of generations that the cache   *)
(* has reached, so that what is read from it later is no older.            *)
(***************************************************************************)

\* Generation g of x has been reached in the API server and in the cache.
Known(g, x) ==
  /\ obj[x] # Absent
  /\ Present(obj[x]) => g <= obj[x].generation
  /\ Present(cache[x]) => g <= cache[x].generation

HasSpec == pc[HostWorker] \in {"creds", "entry", "dial"}

KnownInv ==
  /\ \A h \in Hosts : Connected(h) =>
       /\ Known(conns[h].host, h) /\ Known(conns[h].spec, conns[h].auth)
       /\ pc[HostWorker] # "idle" /\ cur[HostWorker] = h => conns[h].host <= host.generation
  /\ HasSpec =>
       LET c == conns[cur[HostWorker]] IN
       Known(spec, host.ref) /\ (c # NoConnection /\ c.auth = host.ref => c.spec <= spec)

\* What has been reached stays so.
LEMMA KnownStays ==
  ASSUME TypeOK, PlaceInv, RefInv, [Next]_vars, TypeOK',
         NEW x \in Objects, NEW g \in Nat, Known(g, x)
  PROVE  Known(g, x)'
<1>1. ASSUME Present(obj'[x]) PROVE g <= obj'[x].generation
  <2>1. Present(obj[x]) /\ obj[x].generation <= obj'[x].generation /\ g <= obj[x].generation
    BY <1>1, ObjGenerations DEF Known
  <2>2. obj'[x].generation \in Nat
    <3>1. \A o \in Object : o.generation \in Nat
      BY MaxGenerationIsPositive DEF Object, Generation
    <3> QED
      BY <1>1, <3>1, PresentObject DEF TypeOK, CoreTypeOK
  <2> QED
    BY <2>1, <2>2, Generations
<1>2. ASSUME Present(cache'[x]) PROVE g <= cache'[x].generation
  BY <1>2, CacheSteps DEF Known
<1> QED
  BY <1>1, <1>2, StaysCreated DEF Known

\* Where the HostReconciler has the generation of the Auth from
LEMMA SpecSteps ==
  ASSUME TypeOK, RefInv, [Next]_vars, HasSpec'
  PROVE  /\ host' = host /\ cur'[HostWorker] = cur[HostWorker] /\ pc[HostWorker] # "idle"
         /\ \/ /\ Present(cache[host.ref]) /\ spec' = cache[host.ref].generation
               /\ UNCHANGED <<obj, cache, conns>>
            \/ HasSpec /\ spec' = spec
<1>1. /\ pc \in [Workers -> Places \cup {"idle"}] /\ HostWorker \in Workers
      /\ HostWorker # AuthWorker /\ AuthWorker \in Workers
  BY Working, Kinds
<1> USE <1>1 DEF At, Same, localVars, host, Copy, HasSpec
<1>2. CASE Steps(AuthWorker)
  <2>1. /\ pc'[HostWorker] = pc[HostWorker] /\ loc'[HostWorker] = loc[HostWorker]
        /\ cur'[HostWorker] = cur[HostWorker]
    BY <1>2, StepMoves, Working
       DEF Moves, Jump, Goto, Done, Retry, End, WriteOk, CoreTypeOK
  <2>2. spec' = spec
    BY <1>2
       DEF Steps, CommonOk, CommonFails, AddFinalizerOk, Dispatch, FreeOk, PreventOk,
           Deregister, UnfinalizeOk, AddFinalizerFails, PreventFails, UnfinalizeFails, SecretOk,
           RegisterOk, SecretFails, RegisterFails
  <2> QED
    BY <2>1, <2>2
<1>3. CASE CommonOk(HostWorker) \/ CommonFails(HostWorker) \/ DialOk \/ AuthLabelOk
           \/ Probe \/ GetAuthFails \/ AuthLabelFails \/ ProbeFails
  BY <1>3
     DEF CommonOk, CommonFails, AddFinalizerOk, Dispatch, FreeOk, PreventOk, Deregister,
         UnfinalizeOk, AddFinalizerFails, PreventFails, UnfinalizeFails, WriteOk, WriteFails,
         DialOk, AuthLabelOk, Probe, GetAuthFails, AuthLabelFails, ProbeFails,
         Jump, Goto, Done, Retry, End
<1>4. CASE LookupOk \/ EntryOk
  BY <1>4 DEF LookupOk, EntryOk, Jump, Goto, Retry, End
<1>5. CASE GetAuthOk
  BY <1>5 DEF GetAuthOk, Jump, Goto, Local, apiVars, storeVars
<1>6. CASE \E w \in Workers, x \in Objects : Begin(w, x)
  BY <1>6, Working DEF Begin, Take, workerVars, CoreTypeOK
<1>7. CASE \E x \in Objects : UserCreates(x) \/ UserChanges(x) \/ UserDeletes(x) \/ CacheSync(x)
  BY <1>7 DEF UserCreates, UserChanges, UserDeletes, Delete, OthersWrite, CacheSync, Learn,
     workerVars
<1>8. CASE Crash \/ UNCHANGED vars
  BY <1>8 DEF Crash, Restart, vars, coreVars, workerVars
<1> HIDE DEF At, Same, localVars, host, Copy, HasSpec
<1>9. ASSUME NEW w \in Workers, Steps(w) PROVE Steps(AuthWorker) \/ Steps(HostWorker)
  BY <1>9, Kinds
<1>10. Steps(HostWorker) =>
         \/ CommonOk(HostWorker) \/ CommonFails(HostWorker) \/ DialOk \/ AuthLabelOk
            \/ Probe \/ GetAuthFails \/ AuthLabelFails \/ ProbeFails
         \/ LookupOk \/ EntryOk \/ GetAuthOk
  BY Kinds DEF Steps
<1> QED
  BY <1>2, <1>3, <1>4, <1>5, <1>6, <1>7, <1>8, <1>9, <1>10, NextSteps DEF Around, Environment

\* A new connection, and what is known of its parts
LEMMA NewConnection ==
  ASSUME TypeOK, SeenInv, PlaceInv, RefInv, VersionInv, KnownInv, [Next]_vars,
         NEW h \in Hosts, conns'[h] # NoConnection, conns'[h] # conns[h]
  PROVE  /\ h = cur[HostWorker] /\ pc[HostWorker] # "idle" /\ HasSpec
         /\ conns'[h].host = host.generation /\ conns'[h].auth = host.ref
         /\ conns'[h].spec = spec /\ host' = host
         /\ Known(host.generation, h) /\ Known(spec, host.ref)
         /\ host.generation \in Nat /\ spec \in Nat /\ host.ref \in Auths
<1>1. /\ DialOk /\ h = cur[HostWorker] /\ loc' = loc /\ pc[HostWorker] = "dial"
      /\ pc[HostWorker] # "idle" /\ HasSpec
  BY StoreSteps DEF DialOk, At, HasSpec
<1>2. /\ host \in Object /\ host.ref \in Auths /\ host.generation \in Nat /\ Present(host)
      /\ conns \in [Hosts -> Connection \cup {NoConnection}] /\ spec \in Nat
      /\ HostWorker \in Workers /\ h \in Objects
  BY <1>1, HostRef, Generations, Kinds, MaxGenerationIsPositive DEF TypeOK, host
<1>3. conns'[h] = [at |-> combinedGeneration, host |-> host.generation,
                   auth |-> host.ref, spec |-> spec]
  BY <1>1, <1>2 DEF DialOk
<1>4. obj[h] # Absent
  BY <1>1, <1>2 DEF SeenInv, Tells, host, Copy, Present, Absent
<1>5. Known(host.generation, h)
  BY <1>1, <1>2, <1>4 DEF VersionInv, UpTo, Known, host
<1> QED
  BY <1>1, <1>2, <1>3, <1>5 DEF KnownInv, host, Copy

LEMMA NextKnown ==
  ASSUME TypeOK, SeenInv, PlaceInv, RefInv, VersionInv, KnownInv, [Next]_vars
  PROVE  KnownInv'
<1>1. /\ TypeOK' /\ HostWorker \in Workers /\ Hosts \subseteq Objects /\ Auths \subseteq Objects
      /\ conns \in [Hosts -> Connection \cup {NoConnection}]
      /\ \A c \in Connection : c.host \in Nat /\ c.spec \in Nat /\ c.auth \in Auths
  BY NextTypes, Kinds, MaxGenerationIsPositive DEF TypeOK, Connection, Generation
<1>2. ASSUME NEW h \in Hosts, conns'[h] # NoConnection
      PROVE  /\ Known(conns[h].host, h)' /\ Known(conns[h].spec, conns[h].auth)'
             /\ pc'[HostWorker] # "idle" /\ cur'[HostWorker] = h =>
                  conns'[h].host <= host'.generation
  <2>1. CASE conns'[h] = conns[h]
    <3>1. PICK m \in Nat, n \in Nat, a \in Auths :
             /\ m = conns[h].host /\ n = conns[h].spec /\ a = conns[h].auth
             /\ Known(m, h) /\ Known(n, a)
             /\ pc[HostWorker] # "idle" /\ cur[HostWorker] = h => m <= host.generation
      BY <1>1, <1>2, <2>1 DEF KnownInv, Connected
    <3>2. Known(m, h)' /\ Known(n, a)'
      BY <1>1, <3>1, KnownStays
    <3>3. ASSUME pc'[HostWorker] # "idle", cur'[HostWorker] = h PROVE m <= host'.generation
      <4>1. CASE /\ pc[HostWorker] # "idle" /\ cur'[HostWorker] = cur[HostWorker]
                 /\ Copy(HostWorker)'.generation = Copy(HostWorker).generation
        BY <3>1, <3>3, <4>1 DEF host
      <4>2. CASE Copy(HostWorker)' = cache[h] /\ Present(cache[h])
        BY <3>1, <4>2 DEF host, Known
      <4> QED
        BY <1>1, <3>3, <4>1, <4>2, CopyGenerations
    <3> QED
      BY <2>1, <3>1, <3>2, <3>3 DEF Known
  <2>2. CASE conns'[h] # conns[h]
    <3>1. PICK m \in Nat, n \in Nat, a \in Auths :
             /\ m = conns'[h].host /\ n = conns'[h].spec /\ a = conns'[h].auth
             /\ Known(m, h) /\ Known(n, a) /\ m = host.generation /\ host' = host
      BY <1>2, <2>2, NewConnection
    <3>2. Known(m, h)' /\ Known(n, a)'
      BY <1>1, <3>1, KnownStays
    <3> QED
      BY <3>1, <3>2 DEF Known
  <2> QED
    BY <2>1, <2>2
<1>3. ASSUME HasSpec'
      PROVE  LET c == conns[cur[HostWorker]] IN
             (Known(spec, host.ref) /\ (c # NoConnection /\ c.auth = host.ref => c.spec <= spec))'
  <2>1. /\ host' = host /\ cur'[HostWorker] = cur[HostWorker] /\ pc[HostWorker] # "idle"
        /\ host.ref \in Auths /\ cur[HostWorker] \in Hosts
        /\ \/ /\ Present(cache[host.ref]) /\ spec' = cache[host.ref].generation
              /\ UNCHANGED <<obj, cache, conns>>
           \/ HasSpec /\ spec' = spec
    BY <1>3, SpecSteps, HostRef
  <2>2. CASE /\ Present(cache[host.ref]) /\ spec' = cache[host.ref].generation
             /\ UNCHANGED <<obj, cache, conns>>
    <3>1. /\ obj[host.ref] # Absent
          /\ Present(obj[host.ref]) => spec' <= obj[host.ref].generation
      BY <1>1, <2>1, <2>2 DEF SeenInv, Tells, VersionInv, UpTo, Present, Absent
    <3>2. spec' \in Nat
      BY <1>1, <2>1, <2>2, Generations
    <3>3. Known(spec, host.ref)'
      BY <2>1, <2>2, <3>1, <3>2 DEF Known
    <3>4. ASSUME conns[cur[HostWorker]] # NoConnection, conns[cur[HostWorker]].auth = host.ref
          PROVE  conns[cur[HostWorker]].spec <= spec'
      BY <2>1, <2>2, <3>4 DEF KnownInv, Known, Connected
    <3> QED
      BY <2>1, <2>2, <3>3, <3>4
  <2>3. CASE HasSpec /\ spec' = spec
    <3>1. spec \in Nat
      BY MaxGenerationIsPositive DEF TypeOK
    <3>2. PICK n \in Nat, a \in Auths : n = spec /\ a = host.ref /\ Known(n, a)
      BY <2>1, <2>3, <3>1 DEF KnownInv
    <3>3. Known(n, a)'
      BY <1>1, <3>2, KnownStays
    <3>4. Known(spec, host.ref)'
      BY <2>1, <2>3, <3>2, <3>3 DEF Known
    <3>5. ASSUME NEW h \in Hosts, h = cur[HostWorker], conns'[h] # NoConnection,
                 conns'[h].auth = host.ref
          PROVE  conns'[h].spec <= spec
      <4>1. CASE conns'[h] = conns[h]
        BY <2>3, <3>5, <4>1 DEF KnownInv
      <4>2. CASE conns'[h] # conns[h]
        BY <3>1, <3>5, <4>2, NewConnection
      <4> QED
        BY <4>1, <4>2
    <3> QED
      BY <2>1, <2>3, <3>4, <3>5
  <2> QED
    BY <2>1, <2>2, <2>3
<1> QED
  BY <1>2, <1>3 DEF KnownInv, Connected

\* Neither store goes back to an older Spec, however old the copies are that the
\* reconciles work on.
THEOREM StoresForward == Spec => StoresGoForward
<1>1. Init => KnownInv
  BY Kinds DEF Init, CoreInit, KnownInv, HasSpec, Connected
<1>2. IInv /\ VersionInv /\ KnownInv /\ [Next]_vars => KnownInv'
  BY NextKnown DEF IInv
<1>3. IInv /\ VersionInv /\ ReachedInv /\ KnownInv /\ [Next]_vars =>
        [/\ \A a \in Auths : creds'[a] # 0 => creds[a] <= creds'[a]
         /\ \A h \in Hosts : Connected(h) /\ Connected(h)' => NotOlder(conns[h], conns'[h])]_vars
  <2> SUFFICES ASSUME IInv, VersionInv, ReachedInv, KnownInv, [Next]_vars
               PROVE  /\ \A a \in Auths : creds'[a] # 0 => creds[a] <= creds'[a]
                      /\ \A h \in Hosts : Connected(h) /\ Connected(h)' =>
                           NotOlder(conns[h], conns'[h])
    OBVIOUS
  <2>0. /\ TypeOK /\ SeenInv /\ PlaceInv /\ RefInv /\ TypeOK'
        /\ creds \in [Auths -> 0..MaxGeneration] /\ MaxGeneration \in Nat
        /\ creds' \in [Auths -> 0..MaxGeneration]
        /\ conns \in [Hosts -> Connection \cup {NoConnection}]
        /\ \A c \in Connection : c.host \in Nat /\ c.spec \in Nat
    BY NextTypes, MaxGenerationIsPositive DEF IInv, TypeOK, Connection, Generation
  <2>1. ASSUME NEW a \in Auths, creds'[a] # 0 PROVE creds[a] <= creds'[a]
    <3>1. CASE creds[a] = 0
      BY <2>0, <3>1
    <3>2. CASE creds[a] # 0
      <4>1. PICK n \in Nat : n = creds[a] /\ Reached(n, a)
        BY <2>0, <3>2 DEF ReachedInv
      <4>2. Reached(n, a)'
        BY <2>0, <4>1, ReachedStays DEF Reached
      <4> QED
        BY <2>1, <4>1, <4>2 DEF Reached
    <3> QED
      BY <3>1, <3>2
  <2>2. ASSUME NEW h \in Hosts, Connected(h), Connected(h)' PROVE NotOlder(conns[h], conns'[h])
    <3>1. CASE conns'[h] = conns[h]
      BY <2>0, <2>2, <3>1 DEF NotOlder, Connected
    <3>2. CASE conns'[h] # conns[h]
      <4>1. /\ h = cur[HostWorker] /\ pc[HostWorker] # "idle" /\ HasSpec
            /\ conns'[h].host = host.generation /\ conns'[h].auth = host.ref
            /\ conns'[h].spec = spec
        BY <2>0, <2>2, <3>2, NewConnection DEF Connected
      <4> QED
        BY <2>2, <4>1 DEF KnownInv, NotOlder, Connected
    <3> QED
      BY <3>1, <3>2
  <2> QED
    BY <2>1, <2>2
<1> QED
  BY <1>1, <1>2, <1>3, Invariance, GenerationInvariance, PTL DEF Spec, StoresGoForward

-----------------------------------------------------------------------------
(***************************************************************************)
(* Ownership of what is in the stores: the two workers are seen as one     *)
(* owner of everything, since what one serves the other never does.        *)
(***************************************************************************)

\* What is retired, and what cannot be
LEMMA RetiredHere ==
  ASSUME TypeOK, SeenInv, NEW w \in Workers, pc[w] # "idle"
  PROVE  cur[w] \in Objects /\ (cur[w] \in Retired <=> Deleting(Copy(w)))
<1>1. cur[w] \in Objects /\ cur[w] \in Served[w]
  BY Working DEF TypeOK, CoreTypeOK
<1>2. \A v \in Workers : pc[v] # "idle" /\ cur[v] = cur[w] => v = w
  <2>1. ASSUME NEW v \in Workers, pc[v] # "idle", cur[v] = cur[w] PROVE v = w
    <3>1. cur[w] \in Served[v]
      BY <2>1 DEF TypeOK, CoreTypeOK
    <3> QED
      BY <1>1, <3>1, ServedOnce
  <2> QED
    BY <2>1
<1>3. Deleting(Copy(w)) => Over(cache[cur[w]])
  BY DEF SeenInv, Copy
<1> QED
  BY <1>1, <1>2, <1>3 DEF Retired, Over, Copy

\* The only steps of a worker that change a store
LEMMA StoreMoves ==
  ASSUME TypeOK, RefInv, NEW w \in Workers, Steps(w)
  PROVE  \/ InStore' = InStore
         \/ pc[w] \in {"register", "dial"} /\ InStore' = InStore \cup {cur[w]}
         \/ pc[w] = "deregister" /\ InStore' = InStore \ {cur[w]} /\ obj' = obj
<1>1. /\ creds \in [Auths -> 0..MaxGeneration]
      /\ conns \in [Hosts -> Connection \cup {NoConnection}]
      /\ w = AuthWorker \/ w = HostWorker
      /\ pc[w] # "idle" => /\ Copy(w) \in Object
                           /\ w = AuthWorker => cur[w] \in Auths
                           /\ w = HostWorker => cur[w] \in Hosts
      /\ Auths \cap Hosts = {} /\ MaxGeneration \in Nat \ {0}
  BY Working, Kinds, MaxGenerationIsPositive DEF TypeOK
<1>2. CASE UNCHANGED storeVars
  BY <1>2 DEF storeVars, InStore, Connected
<1>3. CASE Deregister(w)
  <2>1. pc[w] = "deregister" /\ obj' = obj
    BY <1>3 DEF Deregister, At, Local, apiVars
  <2>2. CASE w = AuthWorker
    <3>1. creds' = [creds EXCEPT ![cur[w]] = 0] /\ conns' = conns /\ cur[w] \in Auths
      BY <1>1, <1>3, <2>1, <2>2 DEF Deregister
    <3>2. InStore' = InStore \ {cur[w]}
      BY <1>1, <3>1 DEF InStore, Connected
    <3> QED
      BY <2>1, <3>2
  <2>3. CASE w = HostWorker
    <3>1. conns' = [conns EXCEPT ![cur[w]] = NoConnection] /\ creds' = creds /\ cur[w] \in Hosts
      BY <1>1, <1>3, <2>1, <2>3, Kinds DEF Deregister
    <3>2. InStore' = InStore \ {cur[w]}
      BY <1>1, <3>1 DEF InStore, Connected
    <3> QED
      BY <2>1, <3>2
  <2> QED
    BY <1>1, <2>2, <2>3
<1>4. CASE w = AuthWorker /\ RegisterOk
  <2>1. /\ pc[w] = "register" /\ cur[w] \in Auths /\ conns' = conns
        /\ creds' = [creds EXCEPT ![cur[w]] = Copy(w).generation]
    BY <1>1, <1>4 DEF RegisterOk, At
  <2>2. Copy(w).generation # 0
    BY <1>1, <2>1 DEF Object, Generation
  <2>3. InStore' = InStore \cup {cur[w]}
    BY <1>1, <2>1, <2>2 DEF InStore, Connected
  <2> QED
    BY <2>1, <2>3
<1>5. CASE w = HostWorker /\ DialOk
  <2>1. /\ pc[w] = "dial" /\ cur[w] \in Hosts /\ creds' = creds
        /\ conns' = [conns EXCEPT ![cur[w]] =
                       [at |-> combinedGeneration, host |-> host.generation,
                        auth |-> host.ref, spec |-> spec]]
    BY <1>1, <1>5, Kinds DEF DialOk, At
  <2>2. [at |-> combinedGeneration, host |-> host.generation, auth |-> host.ref, spec |-> spec]
        # NoConnection
    BY DEF NoConnection
  <2>3. InStore' = InStore \cup {cur[w]}
    BY <1>1, <2>1, <2>2 DEF InStore, Connected
  <2> QED
    BY <2>1, <2>3
<1> QED
  BY <1>2, <1>3, <1>4, <1>5
     DEF Steps, CommonOk, CommonFails, AddFinalizerOk, Dispatch, FreeOk, PreventOk,
         UnfinalizeOk, AddFinalizerFails, PreventFails, UnfinalizeFails, SecretOk,
         SecretFails, RegisterFails, GetAuthOk, LookupOk, EntryOk,
         AuthLabelOk, Probe, ProbeFails, GetAuthFails, AuthLabelFails, Same, storeVars

\* A step of a worker is one of Ownership.
LEMMA WorkerOwns ==
  ASSUME TypeOK, SeenInv, PlaceInv, RefInv, StoresAreOwned, StoredInv,
         NEW w \in Workers, Steps(w)
  PROVE  /\ StoredInv'
         /\ \/ \E x \in Objects :
                 Owning!Hold(x) \/ Owning!Make(x) \/ Owning!Drop(x) \/ Owning!Release(x)
            \/ UNCHANGED <<LifeOf, Held, InStore>>
<1>1. /\ pc[w] # "idle" /\ CoreTypeOK(Object, Places) /\ Copy(w) = loc[w]
      /\ cur[w] \in Objects /\ (cur[w] \in Retired <=> Deleting(Copy(w)))
  BY Working, StepShape, RetiredHere DEF Copy
<1>2. /\ StoredInv'
      /\ \/ Unseen \/ Holds(cur[w])
         \/ RemovingSteps(w) /\ pc[w] = "unfinalize" /\ Releases(cur[w])
  BY <1>1, StepShape, KeepingOwns, RemovingOwns, ObjectsAreObjects
<1>3. CASE InStore' = InStore
  <2>1. CASE Unseen
    BY <1>2, <1>3, <2>1 DEF Unseen
  <2>2. CASE Holds(cur[w])
    <3>1. Owning!Hold(cur[w])
      BY <1>1, <1>3, <2>2 DEF Holds, Owning!Hold, LifeOf
    <3> QED
      BY <1>1, <1>2, <3>1
  <2>3. CASE pc[w] = "unfinalize" /\ Releases(cur[w])
    <3>1. cur[w] \in Retired
      BY <1>1, <2>3 DEF PlaceInv, Removing
    <3>2. cur[w] \notin InStore
      BY <1>1, <2>3, Kinds, Working DEF PlaceInv, InStore, Connected
    <3>3. Owning!Release(cur[w])
      BY <1>1, <1>3, <2>3, <3>1, <3>2 DEF Releases, Owning!Release, Owning!Lives, LifeOf
    <3> QED
      BY <1>1, <1>2, <3>3
  <2> QED
    BY <1>2, <2>1, <2>2, <2>3
<1>4. CASE pc[w] \in {"register", "dial"} /\ InStore' = InStore \cup {cur[w]}
  <2>1. /\ loc[w] \in Object /\ ~Deleting(loc[w]) /\ loc[w].finalizer
    BY <1>1, <1>4, Working DEF PlaceInv, OfAuths, OfHosts, Copy
  <2>2. loc[w].life = "live"
    BY <2>1 DEF Object, Deleting
  <2>3. cur[w] \in Held \ Retired
    BY <1>1, <2>1, <2>2 DEF SeenInv, Tells, Owned, Held
  <2>4. UNCHANGED <<LifeOf, Held>>
    BY <1>2, <1>4, <2>3 DEF Unseen, Holds
  <2>5. Owning!Make(cur[w])
    BY <1>4, <2>3, <2>4 DEF Owning!Make
  <2> QED
    BY <1>1, <1>2, <2>5
<1>5. CASE pc[w] = "deregister" /\ InStore' = InStore \ {cur[w]} /\ obj' = obj
  <2>1. cur[w] \in Retired
    BY <1>1, <1>5 DEF PlaceInv, Removing
  <2>2. UNCHANGED <<LifeOf, Held>>
    BY <1>5 DEF LifeOf, Held
  <2>3. Owning!Drop(cur[w])
    BY <1>5, <2>1, <2>2 DEF Owning!Drop
  <2> QED
    BY <1>1, <1>2, <2>3
<1> QED
  BY <1>3, <1>4, <1>5, StoreMoves

\* ... and so is what happens around the workers.
LEMMA AroundOwns ==
  ASSUME TypeOK, RefInv, StoredInv, Around
  PROVE  /\ StoredInv'
         /\ \/ \E x \in Objects : Owning!Create(x) \/ Owning!Delete(x)
            \/ Owning!Lose
            \/ UNCHANGED <<LifeOf, Held, InStore>>
<1>0. CoreTypeOK(Object, Places) /\ HostWorker \in Workers
  BY Working, Kinds
<1>1. CASE \E x \in Objects : UserCreates(x) \/ UserChanges(x) \/ UserDeletes(x)
  <2>1. TouchingStep
    BY <1>1, UserWrites DEF TouchingStep
  <2>2. InStore' = InStore
    BY <1>1 DEF UserCreates, UserChanges, UserDeletes, storeVars, InStore, Connected
  <2>3. StoredInv' /\ (Unseen \/ \E x \in Objects : Creates(x) \/ Deletes(x))
    BY <1>0, <2>1, TouchingOwns, ObjectsAreObjects
  <2>4. ASSUME NEW x \in Objects, Creates(x) \/ Deletes(x)
        PROVE  Owning!Create(x) \/ Owning!Delete(x)
    BY <2>2, <2>4 DEF Creates, Deletes, Owning!Create, Owning!Delete, Owning!Lives, LifeOf
  <2> QED
    BY <2>2, <2>3, <2>4 DEF Unseen
<1>2. CASE (\E w \in Workers, x \in Objects : Begin(w, x)) \/ (\E x \in Objects : CacheSync(x))
           \/ UNCHANGED vars
  <2>1. InStore' = InStore
    BY <1>2 DEF Begin, CacheSync, Same, vars, storeVars, InStore, Connected
  <2>2. StoredInv' /\ Unseen
    BY <1>2, ReadingOwns DEF Begin, CacheSync, vars
  <2> QED
    BY <2>1, <2>2 DEF Unseen
<1>3. CASE Crash
  <2>1. StoredInv' /\ Unseen
    BY <1>3, ReadingOwns DEF Crash
  <2>2. InStore' = {}
    BY <1>3 DEF Crash, InStore, Connected
  <2> QED
    BY <2>1, <2>2 DEF Unseen, Owning!Lose
<1> QED
  BY <1>1, <1>2, <1>3 DEF Around, Environment

\* What is retired stays so.
LEMMA NextRetires ==
  ASSUME TypeOK, SeenInv, PlaceInv, RefInv, [Next]_vars
  PROVE  Owning!Retires
<1>1. CoreTypeOK(Object, Places) /\ SeenInv'
  BY Working, Kinds, NextCore
<1>2. \/ \E w \in Workers : pc[w] # "idle" /\ (KeepingStep(w) \/ RemovingStep(w))
      \/ TouchingStep
      \/ \E w \in Workers : \E x, l : Take(w, x, l)
      \/ \E x \in Objects : \E xs : Learn(x, xs)
      \/ Restart
      \/ UNCHANGED coreVars
  <2>1. CASE \E w \in Workers : Steps(w)
    BY <2>1, StepShape
  <2>2. CASE \E x \in Objects : UserCreates(x) \/ UserChanges(x) \/ UserDeletes(x)
    BY <2>2, UserWrites DEF TouchingStep
  <2>3. CASE Around /\ ~\E x \in Objects : UserCreates(x) \/ UserChanges(x) \/ UserDeletes(x)
    BY <2>3 DEF Around, Environment, Begin, CacheSync, Crash, vars
  <2> QED
    BY <2>1, <2>2, <2>3, NextSteps
<1> QED
  BY <1>1, <1>2, OwnsRetired, ObjectsAreObjects DEF Owning!Retires

\* The controllers implement Ownership: credentials and connections are registered
\* for objects that hold the finalizer and are removed before it is; no copy of an
\* object that is older than its deletion registers them again.
THEOREM OwnershipImplemented == Spec => ImplementsOwnership
<1>1. Init => StoredInv /\ Owning!Init
  <2> SUFFICES ASSUME Init PROVE StoredInv /\ Owning!Init
    OBVIOUS
  <2>1. \A x \in Objects : obj[x] = Absent /\ cache[x] = Absent
    BY DEF Init, CoreInit
  <2>2. Absent.life = "absent" /\ ~Present(Absent) /\ ~Deleting(Absent)
    BY DEF Absent, Present, Deleting
  <2>3. InStore = {}
    BY DEF Init, InStore, Connected
  <2> QED
    BY <2>1, <2>2, <2>3 DEF StoredInv, Owning!Init, LifeOf, Held, Retired
<1>2. IInv /\ StoredInv /\ [Next]_vars => StoredInv' /\ [Owning!Next]_(Owning!vars)
  BY NextSteps, WorkerOwns, AroundOwns, NextRetires DEF IInv, Owning!Next
<1> QED
  BY <1>1, <1>2, Invariance, PTL DEF Spec, ImplementsOwnership, Owning!Spec
=============================================================================
