----------------------- MODULE CloudInitControllerProofs -----------------------
(***************************************************************************)
(* An image has an object until it is dropped, and while a Pool is checked *)
(* it is missing in the list only in the cases that PoolIsKept names: for  *)
(* any objects and Pools, also when several objects stand for one image,   *)
(* whichever calls fail and however users move the Pools.                  *)
(*                                                                         *)
(* The worker reads old versions.  What makes the properties hold is that  *)
(* an old version still tells that the finalizer and PoolLabel are there   *)
(* (SeenInv of ReconcilersProofs, LabelInv), as nobody else takes them     *)
(* away.                                                                   *)
(***************************************************************************)
EXTENDS CloudInitController, ReconcilersProofs

Removing == {"check", "drop", "unfinalize"}
Making   == {"mark", "make", "upload", "label", "created", "unready"}

\* What a reconcile knows at the places it gets to
PlaceInv ==
  /\ pc[Worker] \in Removing => Deleting(copy) /\ copy.finalizer
  /\ pc[Worker] \in Making => ~Deleting(copy) /\ copy.finalizer
  /\ pc[Worker] = "meta" => (found <=> storage[volume] # "none")
  /\ pc[Worker] = "unfinalize" => maker[volume] # me
  /\ pc[Worker] = "mark" => storage[volume] # "none"
  /\ pc[Worker] \in {"upload", "label", "created"} => maker[volume] = me

\* The volume of a reconcile is still the one that the object stands for, and a
\* volume that was made for an object as well, unless the Pool has changed since.
TargetInv ==
  /\ pc[Worker] \notin {"idle", "refs"} =>
       /\ volume \in Volumes
       /\ volume = Target(me) \/ {volume, Target(me)} \subseteq moved
  /\ \A x \in Objects : \A v \in MadeFor(x) :
       obj[x] # Absent /\ (v = Target(x) \/ v \in moved)

\* A version with PoolLabel tells that it is there, and an image whose object
\* has none is one of the two cases.
HasLabel(x) == Present(obj[x]) => obj[x].poolLabel
LabelInv ==
  /\ \A x \in Objects : Present(cache[x]) /\ cache[x].poolLabel => HasLabel(x)
  /\ pc[Worker] # "idle" /\ copy.poolLabel => HasLabel(me)
  /\ \A x \in Objects : MadeFor(x) # {} =>
       HasLabel(x) \/ x \in unlabelled \/ BetweenMakeAndLabel(x)

IInv == TypeOK /\ SeenInv /\ PlaceInv /\ TargetInv /\ ImageIsOwned /\ LabelInv

\* An object that was admitted with the webhook seeing its twins, and whose Pool has
\* not changed, is the only one of them that is there, wherever the controller
\* looks, but that the worker may still be at one that has gone: the object is not
\* Ready then.
Single(x) == Target(x) \notin doubled \cup moved /\ Present(obj[x])
ReadyInv ==
  /\ \A x \in Objects : Single(x) => \A y \in Twins(x) : ~Present(obj[y]) /\ ~Present(cache[y])
  /\ pc[Worker] # "idle" => \A x \in Twins(me) : Single(x) => obj[x].ready # "True"
  /\ ReadyExists

\* A copy that says Ready, by which a reconcile ends, says so of the object.
TriedInv ==
  /\ pc[Worker] # "idle" /\ me \notin Lagging /\ copy.ready = "True" =>
       obj[me].life # "live" \/ obj[me].ready = "True"
  /\ NotForgotten

-----------------------------------------------------------------------------
\* The writes of the controller, field by field
LEMMA Writings ==
  ASSUME NEW o \in Object
  PROVE  /\ \A p \in {WithFinalizer(o), Prevented(o), Unready(o), Marked(o), WithPoolLabel(o)} :
              p \in Object /\ p.life = o.life /\ Follows(p, o)
         /\ \A p \in {WithFinalizer(o), Prevented(o), Unready(o), Marked(o), Unfinalized(o)} :
              p.poolLabel = o.poolLabel
         /\ \A p \in {WithFinalizer(o), Prevented(o), Unfinalized(o), WithPoolLabel(o)} :
              p.ready = o.ready /\ p.life = o.life
         /\ Unready(o).ready = "False"
         /\ Unfinalized(o) \in Object /\ Unfinalized(o).life = o.life
         /\ WithFinalizer(o).finalizer /\ WithPoolLabel(o).poolLabel
         /\ WithPoolLabel(o).finalizer = o.finalizer
BY DEF WithFinalizer, Prevented, Unready, Marked, WithPoolLabel, Unfinalized, Follows, Object

\* Objects are what ReconcilersProofs calls so.
LEMMA ObjectsAreObjects == AreObjects(Object)
BY DEF AreObjects, Object, Present

\* The steps of the Pools are those of somebody else.
LEMMA PoolShape ==
  PoolSteps => UNCHANGED <<coreVars, libvirtVars, poolRef, actionVars, doubled, unlabelled>>
BY DEF PoolSteps, PoolChecked, PoolUpdateFails, PoolGone, PoolIs, UserMovesPool, history

\* The worker and its copy, between two steps of a reconcile
LEMMA Working ==
  ASSUME TypeOK
  PROVE  /\ Worker \in Workers /\ CoreTypeOK(Object, Places)
         /\ pc \in [Workers -> Places \cup {"idle"}]
         /\ pc[Worker] # "idle" => copy \in Object /\ me \in Objects
BY OneWorker DEF TypeOK, CoreTypeOK, copy, me

\* The volumes that objects stand for
LEMMA Targets ==
  ASSUME TypeOK
  PROVE  \A x \in Objects :
           Target(x) \in Volumes /\ \A s \in Storages : <<s, Name[x]>> \in Volumes
BY NamesAreNames DEF TypeOK, Target, Volumes

\* The initial state satisfies the invariant.
LEMMA InitIInv == Init => IInv
<1> SUFFICES ASSUME Init PROVE IInv
  OBVIOUS
<1>1. CoreTypeOK(Object, Places)
  BY ServedAreObjects, OneWorker DEF Init, CoreInit, CoreTypeOK, Missing, Absent
<1>2. TypeOK
  BY <1>1, NamingIsNaming DEF Init, TypeOK
<1>3. /\ pc[Worker] = "idle"
      /\ \A x \in Objects : obj[x] = Absent /\ cache[x] = Absent /\ MadeFor(x) = {}
  BY OneWorker, NoObjectIsNoObject DEF Init, CoreInit, MadeFor
<1>4. SeenInv
  BY <1>3, OneWorker DEF SeenInv, Tells, Over, Absent, Init, CoreInit
<1>5. PlaceInv /\ TargetInv /\ ImageIsOwned /\ LabelInv
  BY <1>3 DEF PlaceInv, TargetInv, Removing, Making, ImageIsOwned, LabelInv, HasLabel, Present,
              Absent
<1> QED
  BY <1>2, <1>4, <1>5 DEF IInv

-----------------------------------------------------------------------------
(***************************************************************************)
(* The steps of the reconcile are steps of a worker, of which only two may *)
(* remove the finalizer.                                                   *)
(***************************************************************************)
RemovingSteps == UnfinalizeOk \/ UnfinalizeFails

LEMMA StepShape ==
  ASSUME TypeOK, PlaceInv, StepOk \/ StepFails
  PROVE  /\ pc[Worker] # "idle" /\ WorkerStep(Worker, Object, Places)
         /\ IF RemovingSteps THEN RemovingStep(Worker) /\ pc[Worker] = "unfinalize"
                             ELSE KeepingStep(Worker)
<1>1. pc[Worker] # "idle"
  BY DEF StepOk, StepFails, At, NeedsFinalizer, RefsOk, AddFinalizerOk, Dispatch, FreeOk,
         PreventOk, DropOk, UnfinalizeOk, MarkOk, MakeOk, UploadOk, LabelOk, CreatedOk,
         Unreadied, RefsFails, AddFinalizerFails, PreventFails, DropFails, UnfinalizeFails,
         MarkFails, MakeFails, UploadFails, LabelFails, CreatedFails
<1>2. copy \in Object
  BY <1>1, Working
<1> USE DEF copy
<1>3. CASE RefsOk \/ Dispatch \/ FreeOk \/ DropOk \/ MakeOk \/ UploadOk \/ DropFails \/ MakeFails
           \/ UploadFails
  <2>1. /\ (\E l \in Places \ {"idle"} : Jump(Worker, l)) \/ Done(Worker) \/ Retry(Worker)
        /\ Local
    BY <1>3 DEF RefsOk, Dispatch, FreeOk, DropOk, MakeOk, UploadOk, DropFails, MakeFails,
                UploadFails, Goes, Ends, Places
  <2>2. ~RemovingSteps
    BY <1>3 DEF RemovingSteps, UnfinalizeOk, UnfinalizeFails, RefsOk, Dispatch, FreeOk, DropOk,
                MakeOk, UploadOk, DropFails, MakeFails, UploadFails, At
  <2> QED
    BY <1>1, <2>1, <2>2 DEF WorkerStep, KeepingStep
<1>4. CASE AddFinalizerOk \/ LabelOk
  <2>1. /\ \/ Jump(Worker, "created") /\ Local
           \/ \E o \in Object, l \in Places \ {"idle"} :
                Follows(o, copy) /\ o.finalizer /\ WriteOk(Worker, o, l)
    BY <1>2, <1>4, Writings
       DEF AddFinalizerOk, LabelOk, NeedsFinalizer, Writes, PlaceInv, Making, Places, At
  <2>2. ~RemovingSteps
    BY <1>4 DEF RemovingSteps, UnfinalizeOk, UnfinalizeFails, AddFinalizerOk, LabelOk,
                NeedsFinalizer, At
  <2>3. \A o \in Object : o.finalizer => Stored(o) = o
    BY DEF Stored
  <2> QED
    BY <1>1, <2>1, <2>2, <2>3 DEF WorkerStep, KeepingStep, Places
<1>5. CASE PreventOk \/ MarkOk \/ CreatedOk
  <2>1. \/ Local /\ (Done(Worker) \/ Retry(Worker))
        \/ \E o \in Object : Follows(o, copy) /\ WriteEnds(Worker, o)
                             /\ (Done(Worker) \/ Retry(Worker))
    BY <1>2, <1>5, Writings DEF PreventOk, MarkOk, CreatedOk, MarkEnds, Ends
  <2>2. ~RemovingSteps
    BY <1>5 DEF RemovingSteps, UnfinalizeOk, UnfinalizeFails, PreventOk, MarkOk, CreatedOk, At
  <2> QED
    BY <1>1, <2>1, <2>2 DEF WorkerStep, KeepingStep
<1>6. CASE RefsFails \/ AddFinalizerFails \/ PreventFails \/ MarkFails \/ LabelFails
           \/ CreatedFails \/ Unreadied
  <2>1. \/ Local /\ Retry(Worker)
        \/ \E o \in Object : Follows(o, copy) /\ WriteFails(Worker, o)
    BY <1>2, <1>6, Writings
       DEF RefsFails, AddFinalizerFails, PreventFails, MarkFails, LabelFails, CreatedFails,
           Unreadied, Fails
  <2>2. ~RemovingSteps
    BY <1>6 DEF RemovingSteps, UnfinalizeOk, UnfinalizeFails, RefsFails, AddFinalizerFails,
                PreventFails, MarkFails, LabelFails, CreatedFails, Unreadied, NeedsFinalizer, At
  <2> QED
    BY <1>1, <2>1, <2>2 DEF WorkerStep, KeepingStep
<1>7. CASE RemovingSteps
  <2>1. pc[Worker] = "unfinalize" /\ Deleting(copy)
    BY <1>7 DEF RemovingSteps, UnfinalizeOk, UnfinalizeFails, At, PlaceInv, Removing
  <2>2. \E o \in Object : /\ Deleting(o)
                          /\ \/ WriteEnds(Worker, o) /\ Done(Worker)
                             \/ WriteFails(Worker, o)
    BY <1>2, <1>7, <2>1, Writings DEF RemovingSteps, UnfinalizeOk, UnfinalizeFails, Ends, Fails,
       Deleting
  <2> QED
    BY <1>1, <1>7, <2>1, <2>2 DEF WorkerStep, RemovingStep
<1> QED
  BY <1>3, <1>4, <1>5, <1>6, <1>7 DEF StepOk, StepFails, RemovingSteps

\* Several objects are created.
LEMMA CreatesKeeps ==
  ASSUME TypeOK, SeenInv, NEW xs \in SUBSET Objects, UserCreates(xs)
  PROVE  /\ CoreTypeOK(Object, Places)' /\ SeenInv'
         /\ \A x \in Objects : Keeps(x)
<1>1. \A x \in Objects : obj'[x] = IF x \in xs THEN Created ELSE obj[x]
  BY DEF UserCreates
<1>2. /\ \A x \in xs : obj[x] = Absent
      /\ behind' = behind \cup xs /\ UNCHANGED <<cache, queued, pc, cur, loc, fresh>>
  BY DEF UserCreates, workerVars
<1>3. Created \in Object /\ Present(Created) /\ ~Over(Created)
  BY DEF Created, Object, Present, Over
<1>4. CoreTypeOK(Object, Places)
  BY DEF TypeOK
<1>5. CoreTypeOK(Object, Places)'
  <2>1. obj' \in [Objects -> Object \cup Missing]
    BY <1>3, <1>4 DEF UserCreates, CoreTypeOK
  <2>2. ASSUME NEW w \in fresh PROVE pc[w] # "idle" /\ cur[w] \in Objects \ xs /\ obj[cur[w]] = loc[w]
    <3>1. pc[w] # "idle" /\ cur[w] \in Objects /\ loc[w] \in Object /\ obj[cur[w]] = loc[w]
      BY <1>4, ServedAreObjects DEF CoreTypeOK
    <3> QED
      BY <1>2, <3>1 DEF Absent, Object
  <2> QED
    BY <1>1, <1>2, <1>4, <2>1, <2>2 DEF CoreTypeOK
<1>6. \A x \in Objects : Evolves(x) /\ Keeps(x)
  BY <1>1, <1>2, <1>3 DEF Evolves, Keeps, Owned, Over, Present, Absent, Created
<1>7. ASSUME NEW x \in Objects PROVE Tells(cache[x], x)'
  BY <1>2, <1>6 DEF SeenInv, Tells, Evolves, Keeps
<1>8. ASSUME NEW w \in Workers, pc'[w] # "idle"
      PROVE  Tells(loc[w], cur[w])' /\ (Deleting(loc[w]) => Over(cache[cur[w]]))'
  <2>1. pc[w] # "idle" /\ cur[w] \in Objects /\ cur'[w] = cur[w] /\ loc'[w] = loc[w]
    BY <1>2, <1>4, <1>8, ServedAreObjects DEF CoreTypeOK
  <2> QED
    BY <1>2, <1>6, <2>1 DEF SeenInv, Tells, Evolves, Keeps, Owned
<1> QED
  BY <1>5, <1>6, <1>7, <1>8 DEF SeenInv

\* The other steps are steps around a worker.
Around == \/ \E x \in Objects : Begin(x) \/ UserDeletes(x) \/ CacheSync(x)
          \/ PoolSteps \/ Crash \/ UNCHANGED vars

LEMMA AroundKeeps ==
  ASSUME TypeOK, SeenInv, Around
  PROVE  /\ CoreTypeOK(Object, Places)' /\ SeenInv'
         /\ \A x \in Objects : Keeps(x)
<1>0. Worker \in Workers /\ CoreTypeOK(Object, Places)
  BY Working
<1>1. CASE \E x \in Objects : Begin(x)
  <2>1. \E x \in Objects, l \in Places \ {"idle"} : Take(Worker, x, l)
    BY <1>1 DEF Begin, Places
  <2> QED
    BY <1>0, <2>1, CoreTypes, ReadingSeen, ObjectsAreObjects
<1>2. CASE \E x \in Objects : UserDeletes(x)
  <2>1. PICK x \in Objects : Delete(x)
    BY <1>2 DEF UserDeletes
  <2> DEFINE o == [obj[x] EXCEPT !.life = "deleting"]
  <2>2. OthersWrite(x, o)
    BY <2>1 DEF Delete
  <2>3. obj[x] \in Object /\ Present(obj[x])
    BY <1>0, <2>1, PresentObject DEF Delete, Present, CoreTypeOK
  <2>4. o \in Object /\ o.finalizer = obj[x].finalizer /\ Deleting(o) /\ Present(o)
    BY <2>3 DEF Object, Deleting, Present
  <2> HIDE DEF o
  <2>5. OtherStep(Object) /\ TouchingStep
    BY <2>2, <2>3, <2>4 DEF OtherStep, TouchingStep
  <2> QED
    BY <1>0, <2>5, CoreTypes, TouchingSeen, ObjectsAreObjects
<1>3. CASE \E x \in Objects : CacheSync(x)
  <2>1. \E x \in Objects, xs \in SUBSET Objects : Learn(x, xs)
    BY <1>3 DEF CacheSync
  <2> QED
    BY <1>0, <2>1, CoreTypes, ReadingSeen, ObjectsAreObjects DEF OtherStep
<1>4. CASE Crash
  BY <1>0, <1>4, CoreTypes, ReadingSeen, ObjectsAreObjects DEF Crash, OtherStep
<1>5. CASE PoolSteps \/ UNCHANGED vars
  BY <1>0, <1>5, CoreTypes, ReadingSeen, ObjectsAreObjects, PoolShape DEF vars
<1> QED
  BY <1>1, <1>2, <1>3, <1>4, <1>5 DEF Around

\* Every step but the removal of a finalizer keeps the finalizers.
LEMMA NextCore ==
  ASSUME TypeOK, SeenInv, PlaceInv, [Next]_vars
  PROVE  /\ CoreTypeOK(Object, Places)' /\ SeenInv'
         /\ \A x \in Objects : Keeps(x) \/ (RemovingSteps /\ x = me /\ pc[Worker] = "unfinalize")
<1>0. Worker \in Workers /\ CoreTypeOK(Object, Places)
  BY Working
<1>1. CASE StepOk \/ StepFails
  BY <1>0, <1>1, StepShape, CoreTypes, KeepingSeen, RemovingSeen, ObjectsAreObjects DEF me
<1>2. CASE \E xs \in SUBSET Objects : UserCreates(xs)
  BY <1>2, CreatesKeeps
<1>3. CASE Around
  BY <1>3, AroundKeeps
<1> QED
  BY <1>1, <1>2, <1>3 DEF Next, Around

-----------------------------------------------------------------------------
(***************************************************************************)
(* Every step keeps the invariant.                                         *)
(***************************************************************************)

\* A failure ends the reconcile, but for those of libvirt before "unready".
LEMMA FailsEnd ==
  ASSUME TypeOK, StepFails \/ Unreadied
  PROVE  pc'[Worker] = "idle" \/ (pc'[Worker] = "unready" /\ (MakeFails \/ UploadFails))
<1>1. pc \in [Workers -> Places \cup {"idle"}] /\ Worker \in Workers
  BY Working
<1> QED
  BY <1>1 DEF StepFails, Unreadied, RefsFails, AddFinalizerFails, PreventFails, DropFails,
     UnfinalizeFails, MarkFails, MakeFails, UploadFails, LabelFails, CreatedFails, Fails,
     WriteFails, Retry, End, Jump, Goto

LEMMA NextTypes ==
  ASSUME TypeOK, PlaceInv, TargetInv, SeenInv, [Next]_vars
  PROVE  TypeOK'
<1>1. CoreTypeOK(Object, Places)'
  BY NextCore
<1>2. /\ storage \in [Volumes -> {"none", "blank", "written"}]
      /\ maker \in [Volumes -> Objects \cup {NoObject}]
      /\ \A v \in Volumes : storage[v] = "none" <=> maker[v] = NoObject
      /\ poolRef \in [Objects -> Pools] /\ naming \in [Pools -> Storages]
      /\ pool \in [Pools -> {"there", "checked", "gone"}]
      /\ volume \in Volumes \cup {NoVolume} /\ found \in BOOLEAN
      /\ doubled \in SUBSET Volumes /\ moved \in SUBSET Volumes /\ unlabelled \in SUBSET Objects
      /\ pc[Worker] # "idle" => me \in Objects
      /\ pc[Worker] \notin {"idle", "refs"} => volume \in Volumes
      /\ pc[Worker] = "upload" => maker[volume] = me
      /\ NoObject \notin Objects
  BY Working, NoObjectIsNoObject DEF TypeOK, PlaceInv, TargetInv
<1>3. /\ storage' \in [Volumes -> {"none", "blank", "written"}]
      /\ maker' \in [Volumes -> Objects \cup {NoObject}]
      /\ \A v \in Volumes : storage'[v] = "none" <=> maker'[v] = NoObject
      /\ poolRef' \in [Objects -> Pools] /\ naming' \in [Pools -> Storages]
      /\ pool' \in [Pools -> {"there", "checked", "gone"}]
      /\ volume' \in Volumes \cup {NoVolume} /\ found' \in BOOLEAN
      /\ doubled' \in SUBSET Volumes /\ moved' \in SUBSET Volumes
      /\ unlabelled' \in SUBSET Objects
  <2> USE <1>2 DEF otherVars, libvirtVars, poolVars, actionVars, history, Same, Ended, At
  <2>0. CASE RefsOk
    BY <2>0, Targets DEF RefsOk
  <2>1. CASE AddFinalizerOk \/ Dispatch \/ FreeOk \/ PreventOk \/ UnfinalizeOk \/ MarkOk
             \/ CreatedOk \/ Unreadied \/ RefsFails \/ AddFinalizerFails \/ PreventFails
             \/ UnfinalizeFails \/ MarkFails \/ CreatedFails
    <3>1. /\ UNCHANGED <<otherVars, history>>
          /\ volume' \in Volumes \cup {NoVolume} /\ found' \in BOOLEAN
      BY <2>1 DEF AddFinalizerOk, Dispatch, FreeOk, PreventOk, UnfinalizeOk, MarkOk,
                  CreatedOk, Unreadied, RefsFails, AddFinalizerFails, PreventFails,
                  UnfinalizeFails, MarkFails, CreatedFails, Writes, Goes, Fails, Ends, MarkEnds
    <3> QED
      BY <3>1
  <2>2. CASE DropOk \/ DropFails
    BY <2>2 DEF DropOk, DropFails, Dropped
  <2>3. CASE MakeOk \/ MakeFails
    BY <2>3 DEF MakeOk, MakeFails, Made
  <2>4. CASE UploadOk \/ UploadFails
    BY <2>4 DEF UploadOk, UploadFails, Uploaded
  <2>5. CASE LabelOk \/ LabelFails
    BY <2>5 DEF LabelOk, LabelFails
  <2>6. CASE \E x \in Objects : Begin(x) \/ UserDeletes(x) \/ CacheSync(x)
    BY <2>6 DEF Begin, UserDeletes, CacheSync
  <2>7. ASSUME NEW xs \in SUBSET Objects, UserCreates(xs)
        PROVE  doubled' \in SUBSET Volumes /\ UNCHANGED <<otherVars, actionVars, moved, unlabelled>>
    <3>1. /\ doubled' = doubled \cup {Target(x) : x \in {x \in xs : Hidden(x, xs)}}
          /\ UNCHANGED <<otherVars, actionVars, moved, unlabelled>>
      BY <2>7 DEF UserCreates
    <3>2. {Target(x) : x \in {x \in xs : Hidden(x, xs)}} \subseteq Volumes
      BY Targets
    <3> QED
      BY <3>1, <3>2
  <2>8. ASSUME NEW p \in Pools, PoolChecked(p) \/ PoolUpdateFails(p) \/ PoolGone(p)
        PROVE  /\ UNCHANGED <<libvirtVars, poolRef, naming, actionVars, history>>
               /\ pool' \in [Pools -> {"there", "checked", "gone"}]
    BY <2>8 DEF PoolChecked, PoolUpdateFails, PoolGone, PoolIs
  <2>9. ASSUME NEW p \in Pools, NEW s \in Storages, UserMovesPool(p, s)
        PROVE  /\ naming' \in [Pools -> Storages] /\ moved' \in SUBSET Volumes
               /\ UNCHANGED <<libvirtVars, poolRef, pool, actionVars, doubled, unlabelled>>
    <3>1. VolumesOf(p, naming[p]) \subseteq Volumes /\ VolumesOf(p, s) \subseteq Volumes
      BY Targets DEF VolumesOf
    <3> QED
      BY <2>9, <3>1 DEF UserMovesPool
  <2>10. CASE Crash
    BY <2>10 DEF Crash
  <2>11. CASE UNCHANGED vars
    BY <2>11 DEF vars
  <2> QED
    BY <2>0, <2>1, <2>2, <2>3, <2>4, <2>5, <2>6, <2>7, <2>8, <2>9, <2>10, <2>11
       DEF Next, PoolSteps, StepOk, StepFails
<1> QED
  BY <1>1, <1>3 DEF TypeOK

LEMMA NextPlace ==
  ASSUME TypeOK, PlaceInv, TargetInv, [Next]_vars
  PROVE  PlaceInv'
<1>1. /\ pc \in [Workers -> Places \cup {"idle"}] /\ Worker \in Workers
      /\ pc[Worker] # "idle" => copy \in Object /\ me \in Objects
      /\ pc[Worker] \notin {"idle", "refs"} => volume \in Volumes
      /\ loc \in [Workers -> Object \cup {Absent}] /\ cur \in [Workers -> Objects \cup {NoObject}]
      /\ storage \in [Volumes -> {"none", "blank", "written"}]
      /\ maker \in [Volumes -> Objects \cup {NoObject}]
      /\ \A v \in Volumes : storage[v] = "none" <=> maker[v] = NoObject
      /\ NoObject \notin Objects
  BY Working, NoObjectIsNoObject DEF TypeOK, CoreTypeOK, TargetInv
<1> USE <1>1 DEF PlaceInv, Removing, Making, copy, me, At, Same, otherVars, libvirtVars,
                 actionVars, Ended
<1>2. CASE RefsOk
  BY <1>2 DEF RefsOk, Jump, Goto
<1>3. CASE AddFinalizerOk
  BY <1>3, Writings DEF AddFinalizerOk, NeedsFinalizer, Writes, WriteOk
<1>4. CASE Dispatch
  BY <1>4 DEF Dispatch, Goes, Ends, Done, End, Jump, Goto
<1>5. CASE FreeOk
  BY <1>5 DEF FreeOk, Goes, Jump, Goto
<1>6. CASE DropOk
  BY <1>6 DEF DropOk, Dropped, Jump, Goto
<1>7. CASE MakeOk \/ MakeFails
  BY <1>7 DEF MakeOk, MakeFails, Made, Jump, Goto
<1>8. CASE UploadOk \/ UploadFails
  BY <1>8 DEF UploadOk, UploadFails, Jump, Goto
<1>9. CASE LabelOk
  <2>1. pc'[Worker] = "created"
    BY <1>9 DEF LabelOk, WriteOk, Jump, Goto
  <2>2. loc'[Worker] = loc[Worker] \/ loc'[Worker] = WithPoolLabel(loc[Worker])
    BY <1>9 DEF LabelOk, WriteOk, Jump, Goto
  <2>3. loc[Worker] \in Object /\ ~Deleting(loc[Worker]) /\ loc[Worker].finalizer
    BY <1>9 DEF LabelOk
  <2>4. /\ WithPoolLabel(loc[Worker]).life = loc[Worker].life
        /\ WithPoolLabel(loc[Worker]).finalizer = loc[Worker].finalizer
    BY <2>3, Writings
  <2>5. ~Deleting(loc'[Worker]) /\ loc'[Worker].finalizer
    BY <2>2, <2>3, <2>4 DEF Deleting
  <2>6. cur' = cur /\ maker' = maker /\ volume' = volume
    BY <1>9 DEF LabelOk, WriteOk, Jump, Goto
  <2> QED
    BY <1>9, <2>1, <2>5, <2>6 DEF LabelOk
<1>10. CASE PreventOk \/ UnfinalizeOk \/ MarkOk \/ CreatedOk \/ StepFails \/ Unreadied
  <2>1. CASE PreventOk \/ UnfinalizeOk \/ MarkOk \/ CreatedOk
    <3>1. Done(Worker) \/ Retry(Worker)
      BY <2>1 DEF PreventOk, UnfinalizeOk, MarkOk, CreatedOk, MarkEnds, Ends
    <3>2. pc'[Worker] = "idle"
      BY <3>1 DEF Done, Retry, End
    <3> QED
      BY <3>2
  <2>2. CASE StepFails \/ Unreadied
    <3>1. CASE pc'[Worker] = "idle"
      BY <3>1
    <3> QED
      BY <1>7, <1>8, <2>2, <3>1, FailsEnd
  <2> QED
    BY <1>10, <2>1, <2>2
<1>11. CASE \E x \in Objects : Begin(x)
  BY <1>11 DEF Begin, Take, workerVars
<1>12. CASE \E x \in Objects : UserDeletes(x) \/ CacheSync(x)
  BY <1>12 DEF UserDeletes, CacheSync, Delete, OthersWrite, Learn, workerVars
<1>13. CASE \E xs \in SUBSET Objects : UserCreates(xs)
  BY <1>13 DEF UserCreates, workerVars
<1>14. CASE PoolSteps \/ UNCHANGED vars
  BY <1>14, PoolShape DEF vars, coreVars, workerVars
<1>15. CASE Crash
  BY <1>15 DEF Crash, Restart
<1> QED
  BY <1>2, <1>3, <1>4, <1>5, <1>6, <1>7, <1>8, <1>9, <1>10, <1>11, <1>12, <1>13, <1>14, <1>15
     DEF Next, StepOk

\* A Pool that changes takes the objects with it that somebody knows of.
LEMMA Moving ==
  ASSUME TypeOK, [Next]_vars
  PROVE  /\ doubled \subseteq doubled' /\ moved \subseteq moved'
         /\ \/ \A x \in Objects : Target(x)' = Target(x)
            \/ /\ UNCHANGED <<coreVars, libvirtVars, actionVars>>
               /\ \A x \in Objects :
                    Target(x)' = Target(x) \/ (Known(x) => {Target(x), Target(x)'} \subseteq moved')
<1>1. ASSUME NEW p \in Pools, NEW s \in Storages, UserMovesPool(p, s)
      PROVE  /\ UNCHANGED <<coreVars, libvirtVars, actionVars, doubled>> /\ moved \subseteq moved'
             /\ \A x \in Objects :
                  Target(x)' = Target(x) \/ (Known(x) => {Target(x), Target(x)'} \subseteq moved')
  <2>1. /\ naming' = [naming EXCEPT ![p] = s]
        /\ moved' = moved \cup VolumesOf(p, naming[p]) \cup VolumesOf(p, s)
        /\ UNCHANGED <<coreVars, libvirtVars, poolRef, actionVars, doubled>>
    BY <1>1 DEF UserMovesPool
  <2>2. ASSUME NEW x \in Objects, Known(x), poolRef[x] = p
        PROVE  Target(x) \in moved' /\ Target(x)' \in moved'
    <3>1. <<naming[p], Name[x]>> \in moved' /\ <<s, Name[x]>> \in moved'
      BY <2>1, <2>2 DEF VolumesOf
    <3>2. naming'[p] = s
      BY <2>1 DEF TypeOK
    <3> QED
      BY <2>1, <2>2, <3>1, <3>2 DEF Target
  <2>3. ASSUME NEW x \in Objects, poolRef[x] # p
        PROVE  Target(x)' = Target(x)
    BY <2>1, <2>3 DEF Target, TypeOK
  <2> QED
    BY <2>1, <2>2, <2>3
<1>2. CASE ~\E p \in Pools, s \in Storages : UserMovesPool(p, s)
  <2>1. UNCHANGED <<poolRef, naming>> /\ doubled \subseteq doubled' /\ moved \subseteq moved'
    <3>1. CASE PoolSteps
      BY <1>2, <3>1 DEF PoolSteps, PoolChecked, PoolUpdateFails, PoolGone, PoolIs, history
    <3>2. CASE ~PoolSteps
      BY <3>2 DEF Next, StepOk, StepFails, RefsOk, AddFinalizerOk, Dispatch, FreeOk, PreventOk,
         DropOk, UnfinalizeOk, MarkOk, MakeOk, UploadOk, LabelOk, CreatedOk, Unreadied, RefsFails,
         AddFinalizerFails, PreventFails, DropFails, UnfinalizeFails, MarkFails, MakeFails,
         UploadFails, LabelFails, CreatedFails, Writes, Goes, Fails, MarkEnds, Begin, UserDeletes,
         CacheSync, UserCreates, Crash, Same, otherVars, poolVars, history, vars
    <3> QED
      BY <3>1, <3>2
  <2> QED
    BY <2>1 DEF Target
<1> QED
  BY <1>1, <1>2

\* Only the worker makes and drops images.
LEMMA Makers ==
  ASSUME TypeOK, TargetInv, [Next]_vars,
         NEW x \in Objects, NEW v \in MadeFor(x)', v \notin MadeFor(x)
  PROVE  /\ x = me /\ v = volume /\ pc[Worker] = "make" /\ cur' = cur
         /\ pc'[Worker] = "upload" \/ (pc'[Worker] = "unready" /\ x \in unlabelled')
<1>1. /\ storage \in [Volumes -> {"none", "blank", "written"}] /\ x # NoObject
      /\ maker \in [Volumes -> Objects \cup {NoObject}]
      /\ pc \in [Workers -> Places \cup {"idle"}] /\ Worker \in Workers
  BY Working, NoObjectIsNoObject DEF TypeOK
<1>2. v \in Volumes /\ maker'[v] = x /\ maker[v] # x
  BY DEF MadeFor
<1>3. CASE DropOk \/ DropFails
  BY <1>1, <1>2, <1>3 DEF DropOk, DropFails, Dropped, libvirtVars
<1>4. CASE MakeOk \/ MakeFails
  BY <1>1, <1>2, <1>4 DEF MakeOk, MakeFails, Made, libvirtVars, Jump, Goto, At
<1> QED
  BY <1>2, <1>3, <1>4, PoolShape DEF Next, StepOk, StepFails, RefsOk, AddFinalizerOk, Dispatch,
     FreeOk, PreventOk, UnfinalizeOk, MarkOk, UploadOk, LabelOk, CreatedOk, Unreadied,
     RefsFails, AddFinalizerFails, PreventFails, UnfinalizeFails, MarkFails, UploadFails,
     LabelFails, CreatedFails, Writes, Goes, Fails, MarkEnds, Begin, UserDeletes, CacheSync,
     UserCreates, Crash, Same, otherVars, libvirtVars, vars

\* Only users create objects, once.
LEMMA StaysThere ==
  ASSUME TypeOK, PlaceInv, [Next]_vars, NEW x \in Objects, obj[x] # Absent
  PROVE  obj'[x] # Absent
<1>1. \A o \in Object : Stored(o) # Absent
  BY DEF Stored, Object, Gone, Absent
<1>2. obj \in [Objects -> Object \cup Missing]
  BY DEF TypeOK, CoreTypeOK
<1>3. CASE StepOk \/ StepFails
  <2>1. WorkerStep(Worker, Object, Places)
    BY <1>3, StepShape
  <2>2. obj' = obj \/ \E o \in Object : Store(cur[Worker], o)
    BY <2>1 DEF WorkerStep, WriteOk, WriteEnds, WriteFails, Local, apiVars
  <2> QED
    BY <1>1, <1>2, <2>2 DEF Store
<1>4. CASE \E y \in Objects : UserDeletes(y)
  <2>1. PICK y \in Objects : obj[y].life = "live"
                             /\ Store(y, [obj[y] EXCEPT !.life = "deleting"])
    BY <1>4 DEF UserDeletes, Delete, OthersWrite
  <2>2. obj[y] \in Object
    BY <1>2, <2>1, PresentObject DEF Present
  <2>3. [obj[y] EXCEPT !.life = "deleting"] \in Object
    BY <2>2 DEF Object
  <2> QED
    BY <1>1, <1>2, <2>1, <2>3 DEF Store
<1>5. CASE \E xs \in SUBSET Objects : UserCreates(xs)
  BY <1>5 DEF UserCreates
<1> QED
  BY <1>3, <1>4, <1>5, PoolShape DEF Next, Begin, Take, CacheSync, Learn, Crash, Restart,
     Local, apiVars, coreVars, vars

\* The volume of a reconcile
LEMMA VolumeSteps ==
  ASSUME TypeOK, [Next]_vars, pc'[Worker] \notin {"idle", "refs"}
  PROVE  /\ cur' = cur /\ RefsOk
         \/ /\ UNCHANGED <<me, volume>> /\ pc[Worker] \notin {"idle", "refs"}
<1>1. /\ pc \in [Workers -> Places \cup {"idle"}] /\ Worker \in Workers
  BY Working
<1> USE <1>1 DEF me
<1>2. CASE RefsOk
  BY <1>2 DEF RefsOk, Jump, Goto
<1>3. CASE StepFails \/ Unreadied
  BY <1>3, FailsEnd DEF MakeFails, UploadFails, At, Jump, Goto, actionVars
<1>4. CASE AddFinalizerOk \/ Dispatch \/ FreeOk \/ PreventOk \/ DropOk \/ UnfinalizeOk \/ MarkOk
           \/ MakeOk \/ UploadOk \/ LabelOk \/ CreatedOk
  BY <1>4 DEF At, AddFinalizerOk, Dispatch, FreeOk, PreventOk, DropOk, UnfinalizeOk, MarkOk,
     MakeOk, UploadOk, LabelOk, CreatedOk, NeedsFinalizer, Writes, Goes, Ends, MarkEnds, WriteOk,
     Jump, Goto, Done, Retry, End, actionVars
<1>5. CASE \E x \in Objects : Begin(x)
  BY <1>5 DEF Begin, Take, workerVars, actionVars
<1>6. CASE \E x \in Objects : UserDeletes(x) \/ CacheSync(x)
  BY <1>6 DEF UserDeletes, Delete, OthersWrite, CacheSync, Learn, workerVars, actionVars
<1>7. CASE \E xs \in SUBSET Objects : UserCreates(xs)
  BY <1>7 DEF UserCreates, workerVars, actionVars
<1>8. CASE PoolSteps \/ UNCHANGED vars
  BY <1>8, PoolShape DEF coreVars, workerVars, actionVars, vars
<1>9. CASE Crash
  BY <1>9 DEF Crash, Restart
<1> QED
  BY <1>2, <1>3, <1>4, <1>5, <1>6, <1>7, <1>8, <1>9 DEF Next, StepOk

LEMMA NextTarget ==
  ASSUME TypeOK, PlaceInv, TargetInv, SeenInv, ImageIsOwned, [Next]_vars
  PROVE  TargetInv'
<1>1. ASSUME pc'[Worker] \notin {"idle", "refs"}
      PROVE  /\ volume' \in Volumes
             /\ volume' = Target(me)' \/ {volume', Target(me)'} \subseteq moved'
  <2>1. CASE cur' = cur /\ RefsOk
    <3>1. PICK x \in Objects : x = me
      BY <2>1, Working DEF RefsOk, At
    <3>2. volume' = Target(x) /\ Target(x)' = Target(x)
      BY <2>1, <3>1 DEF RefsOk, Same, otherVars, poolVars, Target
    <3>3. volume' = Target(x)'
      BY <3>2
    <3>4. Target(me)' = Target(x)'
      BY <2>1, <3>1 DEF Target, me
    <3> QED
      BY <3>2, <3>3, <3>4, Targets
  <2>2. CASE UNCHANGED <<me, volume>> /\ pc[Worker] \notin {"idle", "refs"}
    <3>1. PICK x \in Objects : x = me
      BY <2>2, Working
    <3>2. volume \in Volumes /\ (volume = Target(x) \/ {volume, Target(x)} \subseteq moved)
      BY <2>2, <3>1 DEF TargetInv
    <3>3. Known(x)
      BY <3>1 DEF Known, me
    <3>4. volume = Target(x)' \/ {volume, Target(x)'} \subseteq moved'
      BY <3>2, <3>3, Moving
    <3> QED
      BY <2>2, <3>1, <3>2, <3>4
  <2> QED
    BY <1>1, <2>1, <2>2, VolumeSteps
<1>2. ASSUME NEW x \in Objects, NEW v \in MadeFor(x)'
      PROVE  obj'[x] # Absent /\ (v = Target(x)' \/ v \in moved')
  <2>1. obj[x] # Absent /\ (v = Target(x) \/ v \in moved) /\ (v \in moved \/ Known(x))
    <3>1. CASE v \in MadeFor(x)
      BY <3>1 DEF TargetInv, ImageIsOwned, Known
    <3>2. CASE v \notin MadeFor(x)
      <4>1. x = cur[Worker] /\ v = volume /\ pc[Worker] = "make"
        BY <3>2, Makers DEF me
      <4>2. obj[x] # Absent
        BY <4>1, Working DEF SeenInv, Tells, Object, Absent, copy
      <4> QED
        BY <4>1, <4>2 DEF TargetInv, Known, me
    <3> QED
      BY <3>1, <3>2
  <2> QED
    BY <2>1, StaysThere, Moving
<1> QED
  BY <1>1, <1>2 DEF TargetInv

LEMMA NextOwned ==
  ASSUME TypeOK, PlaceInv, TargetInv, SeenInv, ImageIsOwned, [Next]_vars
  PROVE  ImageIsOwned'
<1> SUFFICES ASSUME NEW x \in Objects, NEW v \in MadeFor(x)', v \notin moved' PROVE Owned(x)'
  BY DEF ImageIsOwned, Owned
<1>0. v \notin moved
  BY Moving
<1>1. Owned(x)
  <2>1. CASE v \in MadeFor(x)
    BY <1>0, <2>1 DEF ImageIsOwned, Owned
  <2>2. CASE v \notin MadeFor(x)
    <3>1. x = cur[Worker] /\ pc[Worker] = "make"
      BY <2>2, Makers DEF me
    <3>2. loc[Worker] \in Object /\ ~Deleting(loc[Worker]) /\ loc[Worker].finalizer
      BY <3>1, Working DEF PlaceInv, Making, copy
    <3>3. loc[Worker].life = "live"
      BY <3>2 DEF Object, Deleting
    <3> QED
      BY <3>1, <3>2, <3>3, Working DEF SeenInv, Tells
  <2> QED
    BY <2>1, <2>2
<1>2. ~(x = me /\ pc[Worker] = "unfinalize")
  <2>1. CASE v \in MadeFor(x)
    <3> SUFFICES ASSUME x = me, pc[Worker] = "unfinalize" PROVE FALSE
      OBVIOUS
    <3>1. v = Target(x) /\ maker[v] = x
      BY <1>0, <2>1 DEF TargetInv, MadeFor
    <3>2. volume = v
      BY <1>0, <3>1 DEF TargetInv
    <3> QED
      BY <3>1, <3>2 DEF PlaceInv
  <2>2. CASE v \notin MadeFor(x)
    BY <2>2, Makers
  <2> QED
    BY <2>1, <2>2
<1> QED
  BY <1>1, <1>2, NextCore DEF Keeps

-----------------------------------------------------------------------------
\* What the worker writes, and when the object of an image is created
LEMMA Written ==
  ASSUME TypeOK, StepOk \/ StepFails, NEW x \in Objects, obj'[x] # obj[x], Present(obj'[x])
  PROVE  /\ x = me /\ obj[x] = copy /\ copy \in Object
         /\ \/ obj'[x] \in {WithFinalizer(copy), Prevented(copy), Unready(copy),
                            Unfinalized(copy), WithPoolLabel(copy)}
            \/ obj'[x] = Marked(copy) /\ pc[Worker] \in {"mark", "created"} /\ Same
<1>1. /\ CoreTypeOK(Object, Places) /\ obj' # obj
  BY Working
<1>2. PICK o : /\ Worker \in fresh /\ Store(cur[Worker], o)
               /\ \/ o \in {WithFinalizer(copy), Prevented(copy), Unready(copy),
                            Unfinalized(copy), WithPoolLabel(copy)}
                  \/ o = Marked(copy) /\ pc[Worker] \in {"mark", "created"} /\ Same
  BY <1>1 DEF At, StepOk, StepFails, RefsOk, AddFinalizerOk, Dispatch, FreeOk, PreventOk, DropOk,
     UnfinalizeOk, MarkOk, MakeOk, UploadOk, LabelOk, CreatedOk, Unreadied, RefsFails,
     AddFinalizerFails, PreventFails, DropFails, UnfinalizeFails, MarkFails, MakeFails,
     UploadFails, LabelFails, CreatedFails, Writes, Goes, Fails, MarkEnds, WriteOk, WriteEnds,
     WriteFails, Local, apiVars
<1>3. /\ x = cur[Worker] /\ obj[x] = loc[Worker] /\ loc[Worker] \in Object
      /\ obj'[x] = Stored(o)
  BY <1>1, <1>2, WrittenObject
<1> QED
  BY <1>2, <1>3, StoredPresent DEF copy, me

\* A label is not taken away.
LEMMA LabelStays ==
  ASSUME TypeOK, [Next]_vars, NEW x \in Objects, HasLabel(x), obj[x] # Absent
  PROVE  HasLabel(x)'
<1> SUFFICES ASSUME Present(obj'[x]), obj'[x] # obj[x] PROVE obj'[x].poolLabel
  BY DEF HasLabel
<1>1. CASE StepOk \/ StepFails
  <2>1. obj'[x] \in {WithFinalizer(copy), Prevented(copy), Unready(copy), Marked(copy),
                     Unfinalized(copy), WithPoolLabel(copy)}
        /\ obj[x] = copy /\ copy \in Object
    BY <1>1, Written
  <2>2. copy.poolLabel
    BY <2>1 DEF HasLabel, Object, Present
  <2> QED
    BY <2>1, <2>2, Writings
<1>2. CASE \E y \in Objects : UserDeletes(y)
  <2>1. PICK y \in Objects : OthersWrite(y, [obj[y] EXCEPT !.life = "deleting"])
                             /\ obj[y].life = "live"
    BY <1>2 DEF UserDeletes, Delete
  <2>2. obj[y] \in Object /\ Present(obj[y])
    BY <2>1, PresentObject DEF TypeOK, CoreTypeOK, Present
  <2> DEFINE o == [obj[y] EXCEPT !.life = "deleting"]
  <2>3. o.poolLabel = obj[y].poolLabel
    BY <2>2 DEF Object
  <2>4. OthersWrite(y, o)
    BY <2>1
  <2> HIDE DEF o
  <2>5. x = y /\ obj'[x] = Stored(o)
    BY <2>4 DEF OthersWrite, Store, TypeOK, CoreTypeOK
  <2>6. obj'[x] = o
    BY <2>5, StoredPresent
  <2> QED
    BY <2>2, <2>3, <2>5, <2>6 DEF HasLabel
<1>3. CASE \E xs \in SUBSET Objects : UserCreates(xs)
  BY <1>3 DEF UserCreates
<1> QED
  BY <1>1, <1>2, <1>3, PoolShape DEF Next, Begin, Take, CacheSync, Learn, Crash, Restart,
     Local, apiVars, coreVars, vars

\* Where the cache and the copy come from
LEMMA CacheSteps ==
  ASSUME TypeOK, [Next]_vars, NEW x \in Objects
  PROVE  cache'[x] = cache[x] \/ (cache'[x] = obj[x] /\ obj' = obj)
<1>1. CASE StepOk \/ StepFails
  BY <1>1 DEF StepOk, StepFails, RefsOk, AddFinalizerOk, Dispatch, FreeOk, PreventOk, DropOk,
     UnfinalizeOk, MarkOk, MakeOk, UploadOk, LabelOk, CreatedOk, Unreadied, RefsFails,
     AddFinalizerFails, PreventFails, DropFails, UnfinalizeFails, MarkFails, MakeFails,
     UploadFails, LabelFails, CreatedFails, Writes, Goes, Fails, MarkEnds, WriteOk, WriteEnds,
     WriteFails, Local
<1>2. CASE \E y \in Objects : CacheSync(y)
  BY <1>2 DEF CacheSync, Learn, TypeOK, CoreTypeOK
<1> QED
  BY <1>1, <1>2, PoolShape DEF Next, Begin, Take, UserDeletes, Delete, OthersWrite,
     UserCreates, Crash, Restart, Local, coreVars, vars

LEMMA CopySteps ==
  ASSUME TypeOK, [Next]_vars, pc'[Worker] # "idle"
  PROVE  \/ pc[Worker] # "idle" /\ UNCHANGED <<copy, me>>
         \/ Worker \in fresh'
         \/ me' \in Objects /\ copy' = cache[me'] /\ Present(copy)' /\ obj' = obj /\ Prompt
<1>1. /\ pc \in [Workers -> Places \cup {"idle"}] /\ Worker \in Workers
      /\ cur \in [Workers -> Objects \cup {NoObject}] /\ loc \in [Workers -> Object \cup {Absent}]
  BY Working DEF TypeOK, CoreTypeOK
<1>2. CASE StepOk \/ StepFails
  BY <1>1, <1>2, FailsEnd
     DEF StepOk, At, RefsOk, AddFinalizerOk, Dispatch, FreeOk, PreventOk, DropOk,
     UnfinalizeOk, MarkOk, MakeOk, UploadOk, LabelOk, CreatedOk, NeedsFinalizer, Unreadied,
     MakeFails, UploadFails, Writes, Goes, Ends, MarkEnds, WriteOk, Jump, Goto, Done, Retry, End,
     copy, me
<1>3. CASE \E x \in Objects : Begin(x)
  BY <1>1, <1>3 DEF Begin, Take, At, workerVars, Local, apiVars, copy, me
<1>4. CASE \E x \in Objects : UserDeletes(x) \/ CacheSync(x)
  BY <1>4 DEF UserDeletes, Delete, OthersWrite, CacheSync, Learn, workerVars, copy, me
<1>5. CASE \E xs \in SUBSET Objects : UserCreates(xs)
  BY <1>5 DEF UserCreates, workerVars, copy, me
<1>6. CASE PoolSteps \/ UNCHANGED vars
  BY <1>6, PoolShape DEF coreVars, workerVars, vars, copy, me
<1>7. CASE Crash
  BY <1>1, <1>7 DEF Crash, Restart
<1> QED
  BY <1>2, <1>3, <1>4, <1>5, <1>6, <1>7 DEF Next

\* From making an image to labelling it, and after a reconcile that ended there
LEMMA LabelSteps ==
  ASSUME TypeOK, LabelInv, [Next]_vars, NEW x \in Objects, Present(obj[x]),
         x \in unlabelled \/ BetweenMakeAndLabel(x)
  PROVE  HasLabel(x)' \/ x \in unlabelled' \/ BetweenMakeAndLabel(x)'
<1>1. /\ pc \in [Workers -> Places \cup {"idle"}] /\ Worker \in Workers
      /\ pc[Worker] # "idle" => copy \in Object /\ me \in Objects
      /\ unlabelled \in SUBSET Objects
  BY Working DEF TypeOK
<1> USE <1>1 DEF BetweenMakeAndLabel, At, me
<1>2. CASE LabelOk /\ x = me
  <2>1. CASE copy.poolLabel
    BY <1>2, <2>1 DEF LabelOk, LabelInv, HasLabel, Local, apiVars
  <2>2. CASE ~copy.poolLabel
    <3>1. copy \in Object /\ WithPoolLabel(copy).poolLabel /\ Store(x, WithPoolLabel(copy))
      BY <1>2, <2>2, Writings DEF LabelOk, WriteOk
    <3>2. obj'[x] = Stored(WithPoolLabel(copy))
      BY <3>1 DEF Store, TypeOK, CoreTypeOK
    <3> QED
      BY <3>1, <3>2, StoredPresent DEF HasLabel
  <2> QED
    BY <2>1, <2>2
<1>3. CASE LabelOk /\ x # me
  BY <1>3 DEF LabelOk
<1>4. CASE MakeFails \/ UploadFails \/ LabelFails \/ UploadOk \/ MakeOk
  BY <1>4 DEF MakeFails, UploadFails, LabelFails, UploadOk, MakeOk, Jump, Goto, history
<1>5. CASE Crash
  BY <1>5 DEF Crash
<1>6. ASSUME UNCHANGED unlabelled, pc[Worker] \notin {"upload", "label"} \/ UNCHANGED <<pc, cur>>
      PROVE  x \in unlabelled' \/ BetweenMakeAndLabel(x)'
  BY <1>6
<1>7. CASE RefsOk \/ AddFinalizerOk \/ Dispatch \/ FreeOk \/ PreventOk \/ DropOk \/ UnfinalizeOk
           \/ MarkOk \/ CreatedOk \/ Unreadied \/ RefsFails \/ AddFinalizerFails \/ PreventFails
           \/ DropFails \/ UnfinalizeFails \/ MarkFails \/ CreatedFails
  <2>1. UNCHANGED unlabelled
    BY <1>7 DEF RefsOk, AddFinalizerOk, Dispatch, FreeOk, PreventOk, DropOk, UnfinalizeOk, MarkOk,
       CreatedOk, Unreadied, RefsFails, AddFinalizerFails, PreventFails, DropFails,
       UnfinalizeFails, MarkFails, CreatedFails, Writes, Goes, Fails, MarkEnds, Same, history
  <2>2. pc[Worker] \notin {"upload", "label"}
    BY <1>7 DEF RefsOk, AddFinalizerOk, Dispatch, FreeOk, PreventOk, DropOk, UnfinalizeOk, MarkOk,
       CreatedOk, Unreadied, RefsFails, AddFinalizerFails, PreventFails, DropFails,
       UnfinalizeFails, MarkFails, CreatedFails, NeedsFinalizer
  <2> QED
    BY <1>6, <2>1, <2>2
<1>8. CASE \E y \in Objects : Begin(y)
  BY <1>6, <1>8 DEF Begin, Take, Same, history
<1>9. CASE \E y \in Objects : UserDeletes(y) \/ CacheSync(y)
  BY <1>6, <1>9 DEF UserDeletes, Delete, OthersWrite, CacheSync, Learn, workerVars, history
<1>10. CASE \E xs \in SUBSET Objects : UserCreates(xs)
  BY <1>6, <1>10 DEF UserCreates, workerVars
<1>11. CASE PoolSteps \/ UNCHANGED vars
  BY <1>6, <1>11, PoolShape DEF coreVars, workerVars, history, vars
<1> QED
  BY <1>2, <1>3, <1>4, <1>5, <1>7, <1>8, <1>9, <1>10, <1>11 DEF Next, StepOk, StepFails

LEMMA NextLabel ==
  ASSUME TypeOK, PlaceInv, TargetInv, SeenInv, LabelInv, [Next]_vars
  PROVE  LabelInv'
<1>1. ASSUME NEW x \in Objects, Present(cache'[x]), cache'[x].poolLabel PROVE HasLabel(x)'
  <2>1. CASE cache'[x] = cache[x]
    <3>1. HasLabel(x) /\ obj[x] # Absent
      BY <1>1, <2>1 DEF LabelInv, SeenInv, Tells, Present, Absent
    <3> QED
      BY <3>1, LabelStays
  <2>2. CASE cache'[x] = obj[x] /\ obj' = obj
    BY <1>1, <2>2 DEF HasLabel
  <2> QED
    BY <2>1, <2>2, CacheSteps
<1>2. ASSUME pc'[Worker] # "idle", copy'.poolLabel PROVE HasLabel(me)'
  <2>1. CASE pc[Worker] # "idle" /\ UNCHANGED <<copy, me>>
    <3>1. PICK x \in Objects : x = me
      BY <2>1, Working
    <3>2. HasLabel(x) /\ obj[x] # Absent
      BY <1>2, <2>1, <3>1, Working DEF LabelInv, SeenInv, Tells, Object, Absent, copy, me, HasLabel
    <3>3. HasLabel(x)'
      BY <3>1, <3>2, LabelStays
    <3> QED
      BY <2>1, <3>1, <3>3 DEF HasLabel
  <2>2. CASE Worker \in fresh'
    <3>1. CoreTypeOK(Object, Places)'
      BY NextCore
    <3> QED
      BY <1>2, <2>2, <3>1 DEF CoreTypeOK, HasLabel, copy, me
  <2>3. CASE me' \in Objects /\ copy' = cache[me'] /\ Present(copy)' /\ obj' = obj
    BY <1>2, <2>3 DEF LabelInv, HasLabel, Present
  <2> QED
    BY <1>2, <2>1, <2>2, <2>3, CopySteps
<1>3. ASSUME NEW x \in Objects, NEW v \in MadeFor(x)'
      PROVE  HasLabel(x)' \/ x \in unlabelled' \/ BetweenMakeAndLabel(x)'
  <2>1. CASE v \notin MadeFor(x)
    BY <2>1, Makers DEF BetweenMakeAndLabel, me
  <2>2. CASE v \in MadeFor(x)
    <3>1. obj[x] # Absent /\ (~Present(obj[x]) => HasLabel(x))
      BY <2>2 DEF TargetInv, HasLabel
    <3> QED
      BY <2>2, <3>1, LabelStays, LabelSteps DEF LabelInv
  <2> QED
    BY <2>1, <2>2
<1> QED
  BY <1>1, <1>2, <1>3 DEF LabelInv

-----------------------------------------------------------------------------
(***************************************************************************)
(* An object that is Ready has its volume unless it has a twin: nobody but *)
(* the reconciles of the object itself makes or drops the volume then.     *)
(***************************************************************************)

\* What becomes Ready
LEMMA ReadySteps ==
  ASSUME TypeOK, [Next]_vars, NEW x \in Objects, Present(obj'[x]), obj'[x].ready = "True"
  PROVE  \/ /\ Present(obj[x]) /\ obj[x].ready = "True"
            /\ obj'[x].life = "live" => obj[x].life = "live"
         \/ x = me /\ Present(obj[x]) /\ pc[Worker] \in {"mark", "created"} /\ Same
<1>1. CASE StepOk \/ StepFails
  <2>1. CASE obj'[x] = obj[x]
    BY <2>1
  <2>2. CASE obj'[x] # obj[x]
    <3>1. /\ x = me /\ obj[x] = copy /\ copy \in Object
          /\ \/ obj'[x] \in {WithFinalizer(copy), Prevented(copy), Unready(copy),
                             Unfinalized(copy), WithPoolLabel(copy)}
             \/ obj'[x] = Marked(copy) /\ pc[Worker] \in {"mark", "created"} /\ Same
      BY <1>1, <2>2, Written
    <3>2. Present(obj[x])
      BY <3>1 DEF Object, Present
    <3> QED
      BY <3>1, <3>2, Writings
  <2> QED
    BY <2>1, <2>2
<1>2. CASE \E y \in Objects : UserDeletes(y)
  <2>1. PICK y \in Objects : OthersWrite(y, [obj[y] EXCEPT !.life = "deleting"])
                             /\ obj[y].life = "live"
    BY <1>2 DEF UserDeletes, Delete
  <2>2. obj[y] \in Object /\ Present(obj[y])
    BY <2>1, PresentObject DEF TypeOK, CoreTypeOK, Present
  <2> DEFINE o == [obj[y] EXCEPT !.life = "deleting"]
  <2>3. o.ready = obj[y].ready /\ o.life = "deleting"
    BY <2>2 DEF Object
  <2>4. OthersWrite(y, o)
    BY <2>1
  <2> HIDE DEF o
  <2>5. obj' = [obj EXCEPT ![y] = Stored(o)] /\ obj \in [Objects -> Object \cup Missing]
    BY <2>4 DEF OthersWrite, Store, TypeOK, CoreTypeOK
  <2>6. CASE x = y
    <3>1. obj'[x] = o
      BY <2>5, <2>6, StoredPresent
    <3> QED
      BY <2>2, <2>3, <2>6, <3>1
  <2> QED
    BY <2>5, <2>6
<1>3. CASE \E xs \in SUBSET Objects : UserCreates(xs)
  <2>1. obj'[x] = obj[x] \/ obj'[x] = Created
    BY <1>3 DEF UserCreates
  <2> QED
    BY <2>1 DEF Created
<1> QED
  BY <1>1, <1>2, <1>3, PoolShape DEF Next, Begin, Take, CacheSync, Learn, Crash, Restart,
     Local, apiVars, coreVars, vars

\* Only users create objects: whatever else is there was there before.
LEMMA StaysPresent ==
  ASSUME TypeOK, [Next]_vars, NEW x \in Objects, Present(obj'[x])
  PROVE  Present(obj[x]) \/ \E xs \in SUBSET Objects : UserCreates(xs) /\ x \in xs
<1>1. CASE StepOk \/ StepFails
  <2>1. obj'[x] = obj[x] \/ obj[x] \in Object
    BY <1>1, Written
  <2> QED
    BY <2>1 DEF Object, Present
<1>2. CASE \E y \in Objects : UserDeletes(y)
  <2>1. PICK y \in Objects : obj[y].life = "live"
                             /\ obj' = [obj EXCEPT ![y] = Stored([obj[y] EXCEPT !.life = "deleting"])]
    BY <1>2 DEF UserDeletes, Delete, OthersWrite, Store
  <2>2. x = y \/ obj'[x] = obj[x]
    BY <2>1
  <2> QED
    BY <2>1, <2>2 DEF Present
<1>3. ASSUME NEW xs \in SUBSET Objects, UserCreates(xs)
      PROVE  x \in xs \/ obj'[x] = obj[x]
  BY <1>3 DEF UserCreates
<1>4. CASE \E xs \in SUBSET Objects : UserCreates(xs)
  BY <1>3, <1>4
<1> QED
  BY <1>1, <1>2, <1>4, PoolShape DEF Next, Begin, Take, CacheSync, Learn, Crash, Restart,
     Local, Same, history, apiVars, coreVars, vars

\* The webhook sees to it that there is one object of them.
LEMMA NextSingle ==
  ASSUME TypeOK, PlaceInv, SeenInv, ReadyInv, [Next]_vars,
         NEW x \in Objects, Single(x)', NEW y \in Twins(x)'
  PROVE  ~Present(obj'[y]) /\ ~Present(cache'[y])
<1>1. y \in Objects /\ x # y /\ Target(y)' = Target(x)'
  BY DEF Twins
<1>2. /\ Present(obj'[x]) /\ Target(x)' \notin doubled' \cup moved'
      /\ Target(x)' \notin doubled \cup moved
  BY Moving DEF Single
<1>3. CASE /\ UNCHANGED <<coreVars, libvirtVars, actionVars>>
           /\ \A z \in {x, y} :
                Target(z)' = Target(z) \/ (Known(z) => {Target(z), Target(z)'} \subseteq moved')
  <2>1. obj' = obj /\ cache' = cache
    BY <1>3 DEF coreVars, apiVars
  <2>2. Target(x)' = Target(x)
    BY <1>2, <1>3, <2>1 DEF Known
  <2>3. CASE Target(y)' = Target(y)
    BY <1>1, <1>2, <2>1, <2>2, <2>3 DEF ReadyInv, Single, Twins
  <2>4. CASE ~Known(y)
    BY <2>1, <2>4 DEF Known
  <2> QED
    BY <1>1, <1>2, <1>3, <2>3, <2>4
<1>4. CASE \A z \in Objects : Target(z)' = Target(z)
  <2>1. Target(y) = Target(x) /\ Target(x) \notin doubled' /\ x \in Twins(y) /\ y \in Twins(x)
    BY <1>1, <1>2, <1>4 DEF Twins
  <2>2. ASSUME NEW xs \in SUBSET Objects, UserCreates(xs), x \in xs \/ y \in xs
        PROVE  ~Present(obj'[y]) /\ ~Present(cache'[y])
    <3>1. /\ \A z \in xs : ~InUse(z) /\ obj[z] = Absent
          /\ doubled' = doubled \cup {Target(z) : z \in {z \in xs : Hidden(z, xs)}}
          /\ cache' = cache /\ \A z \in Objects : obj'[z] = IF z \in xs THEN Created ELSE obj[z]
          /\ \A z \in Objects \ behind : cache[z] = obj[z]
      BY <2>2 DEF UserCreates, TypeOK, CoreTypeOK
    <3>2. \A z \in xs : Target(z) = Target(x) => ~Hidden(z, xs)
      BY <2>1, <3>1
    <3>3. Name[x] = Name[y]
      BY <2>1 DEF Target
    <3>4. CASE x \in xs
      <4>1. ~InUse(x) /\ ~Hidden(x, xs)
        BY <3>1, <3>2, <3>4
      <4>2. /\ y \notin xs /\ (Present(obj[y]) => y \notin behind)
            /\ poolRef[y] # poolRef[x] => ~Known(y)
        BY <2>1, <4>1 DEF Hidden
      <4>3. ~Present(cache[y])
        BY <1>1, <3>3, <4>1, <4>2 DEF InUse, Known
      <4> QED
        BY <1>1, <3>1, <4>2, <4>3
    <3>5. CASE y \in xs /\ x \notin xs
      <4>1. ~InUse(y) /\ ~Hidden(y, xs)
        BY <2>1, <3>1, <3>2, <3>5
      <4>2. /\ Present(obj[x]) => x \notin behind
            /\ poolRef[x] # poolRef[y] => ~Known(x)
        BY <2>1, <4>1 DEF Hidden
      <4>3. Present(obj[x]) /\ poolRef[x] = poolRef[y]
        BY <1>2, <3>1, <3>5, <4>2 DEF Known
      <4>4. ~Present(cache[x])
        BY <1>1, <3>3, <4>1, <4>3 DEF InUse
      <4> QED
        BY <3>1, <4>2, <4>3, <4>4
    <3> QED
      BY <2>2, <3>4, <3>5
  <2>3. CASE ~\E xs \in SUBSET Objects : UserCreates(xs) /\ (x \in xs \/ y \in xs)
    <3>1. Single(x)
      BY <1>2, <1>4, <2>3, StaysPresent DEF Single
    <3>2. ~Present(obj[y]) /\ ~Present(cache[y])
      BY <2>1, <3>1 DEF ReadyInv
    <3>3. ~Present(obj'[y])
      BY <1>1, <2>3, <3>2, StaysPresent
    <3> QED
      BY <1>1, <3>2, <3>3, CacheSteps
  <2> QED
    BY <2>2, <2>3
<1> QED
  BY <1>1, <1>3, <1>4, Moving

\* Where the worker is
LEMMA MeSteps ==
  ASSUME TypeOK, [Next]_vars, pc'[Worker] # "idle"
  PROVE  \/ pc[Worker] # "idle" /\ me' = me
         \/ me' \in Objects /\ Present(cache[me']) /\ cache' = cache
<1>1. /\ pc \in [Workers -> Places \cup {"idle"}] /\ Worker \in Workers
      /\ cur \in [Workers -> Objects \cup {NoObject}]
  BY Working DEF TypeOK, CoreTypeOK
<1>2. CASE StepOk \/ StepFails
  BY <1>1, <1>2, FailsEnd
     DEF StepOk, At, RefsOk, AddFinalizerOk, Dispatch, FreeOk, PreventOk, DropOk,
     UnfinalizeOk, MarkOk, MakeOk, UploadOk, LabelOk, CreatedOk, NeedsFinalizer, Unreadied,
     MakeFails, UploadFails, Writes, Goes, Ends, MarkEnds, WriteOk, Jump, Goto, Done, Retry, End,
     me
<1>3. CASE \E x \in Objects : Begin(x)
  BY <1>1, <1>3 DEF Begin, Take, workerVars, Local, me
<1>4. CASE \E x \in Objects : UserDeletes(x) \/ CacheSync(x)
  BY <1>4 DEF UserDeletes, Delete, OthersWrite, CacheSync, Learn, workerVars, me
<1>5. CASE \E xs \in SUBSET Objects : UserCreates(xs)
  BY <1>5 DEF UserCreates, workerVars, me
<1>6. CASE PoolSteps \/ UNCHANGED vars
  BY <1>6, PoolShape DEF coreVars, workerVars, vars, me
<1>7. CASE Crash
  BY <1>1, <1>7 DEF Crash, Restart
<1> QED
  BY <1>2, <1>3, <1>4, <1>5, <1>6, <1>7 DEF Next

\* What becomes of the volumes
LEMMA MakerSteps ==
  ASSUME [Next]_vars
  PROVE  \/ UNCHANGED maker
         \/ pc[Worker] = "drop" /\ maker' = [maker EXCEPT ![volume] = NoObject]
         \/ /\ pc[Worker] = "make" /\ storage[volume] = "none"
            /\ maker' = [maker EXCEPT ![volume] = me]
<1>1. CASE DropOk \/ DropFails
  BY <1>1 DEF DropOk, DropFails, Dropped, libvirtVars, At
<1>2. CASE MakeOk \/ MakeFails
  BY <1>2 DEF MakeOk, MakeFails, Made, libvirtVars, At
<1> QED
  BY <1>1, <1>2, PoolShape DEF Next, StepOk, StepFails, RefsOk, AddFinalizerOk, Dispatch,
     FreeOk, PreventOk, UnfinalizeOk, MarkOk, UploadOk, LabelOk, CreatedOk, Unreadied,
     RefsFails, AddFinalizerFails, PreventFails, UnfinalizeFails, MarkFails, UploadFails,
     LabelFails, CreatedFails, Writes, Goes, Fails, MarkEnds, Begin, UserDeletes, CacheSync,
     UserCreates, Crash, Same, otherVars, libvirtVars, vars

LEMMA NextReady ==
  ASSUME TypeOK, PlaceInv, TargetInv, SeenInv, ImageIsOwned, ReadyInv, [Next]_vars
  PROVE  ReadyInv'
<1>1. /\ pc[Worker] # "idle" => copy \in Object /\ me \in Objects
      /\ maker \in [Volumes -> Objects \cup {NoObject}]
      /\ \A v \in Volumes : storage[v] = "none" <=> maker[v] = NoObject
      /\ NoObject \notin Objects /\ \A x \in Objects : Target(x) \in Volumes
  BY Working, Targets, NoObjectIsNoObject DEF TypeOK
\* The Pool of an object that is the single one has not changed.
<1>2. ASSUME NEW x \in Objects, Present(obj'[x]), Target(x)' \notin doubled' \cup moved'
      PROVE  /\ Target(x) = Target(x)' /\ Target(x) \notin doubled \cup moved
  <2>1. Target(x)' \notin doubled \cup moved
    BY <1>2, Moving
  <2>2. CASE UNCHANGED <<coreVars, libvirtVars, actionVars>>
    <3>1. obj' = obj
      BY <2>2 DEF coreVars, apiVars
    <3>2. Known(x)
      BY <1>2, <3>1 DEF Known
    <3> QED
      BY <1>2, <2>1, <3>2, Moving
  <2> QED
    BY <2>1, <2>2, Moving
<1>3. ASSUME pc'[Worker] # "idle", NEW x \in Twins(me)', Single(x)', obj'[x].ready = "True"
      PROVE  FALSE
  <2>1. x \in Objects /\ Present(obj'[x]) /\ Target(x)' = Target(me)' /\ x # me'
    BY <1>3 DEF Twins, Single
  <2>2. Target(x) = Target(x)' /\ Target(x) \notin doubled \cup moved
    BY <1>2, <1>3, <2>1 DEF Single
  <2>3. CASE pc[Worker] # "idle" /\ me' = me
    <3>1. PICK y \in Objects : y = me
      BY <1>1, <2>3
    <3>2. Known(y)
      BY <3>1 DEF Known, me
    <3>3. Target(y)' = Target(x)' /\ Target(x)' \notin moved'
      BY <1>3, <2>1, <2>3, <3>1 DEF Single
    <3>4. Target(y) = Target(x)
      BY <2>2, <3>2, <3>3, Moving
    <3>5. x \in Twins(me)
      BY <2>1, <2>3, <3>1, <3>4 DEF Twins
    <3>6. Present(obj[x]) /\ obj[x].ready = "True"
      BY <1>3, <2>1, <2>3, ReadySteps
    <3> QED
      BY <2>2, <2>3, <3>5, <3>6 DEF ReadyInv, Single
  <2>4. CASE me' \in Objects /\ Present(cache[me']) /\ cache' = cache
    <3>1. PICK y \in Objects : y = me'
      BY <2>4
    <3>2. y \in Twins(x)'
      BY <2>1, <3>1 DEF Twins
    <3>3. ~Present(cache'[y])
      BY <1>3, <2>1, <3>2, NextSingle
    <3> QED
      BY <2>4, <3>1, <3>3
  <2> QED
    BY <1>3, <2>3, <2>4, MeSteps
<1>4. ASSUME NEW x \in Objects, obj'[x].life = "live", obj'[x].ready = "True",
             Target(x)' \notin doubled' \cup moved'
      PROVE  Owns(x)'
  <2>1. Present(obj'[x])
    BY <1>4 DEF Present
  <2>2. Target(x) = Target(x)' /\ Target(x) \notin doubled \cup moved
    BY <1>2, <1>4, <2>1
  <2>3. SUFFICES maker'[Target(x)] = x
    BY <2>2 DEF Owns
  <2>4. CASE /\ Present(obj[x]) /\ obj[x].ready = "True" /\ obj[x].life = "live"
    <3>1. maker[Target(x)] = x /\ Single(x)
      BY <2>2, <2>4 DEF ReadyInv, ReadyExists, Owns, Single
    <3>2. ASSUME pc[Worker] = "drop", volume = Target(x) PROVE FALSE
      <4>1. me \in Objects /\ Target(me) = Target(x)
        BY <1>1, <2>2, <3>2 DEF TargetInv
      <4>2. CASE x = me
        <5>1. Over(obj[x])
          BY <3>2, <4>2, Working DEF PlaceInv, Removing, SeenInv, Tells, Over, Deleting, copy, me
        <5> QED
          BY <2>4, <5>1 DEF Over
      <4>3. CASE x # me
        BY <2>4, <3>1, <3>2, <4>1, <4>3 DEF ReadyInv, Twins
      <4> QED
        BY <4>2, <4>3
    <3>3. storage[Target(x)] # "none" /\ Target(x) \in Volumes
      BY <1>1, <3>1
    <3> QED
      BY <1>1, <3>1, <3>2, <3>3, MakerSteps
  <2>5. CASE x = me /\ Present(obj[x]) /\ pc[Worker] \in {"mark", "created"} /\ Same
    <3>1. maker' = maker
      BY <2>5 DEF Same, otherVars, libvirtVars
    <3>2. volume = Target(x) /\ volume \in Volumes
      BY <2>2, <2>5 DEF TargetInv
    <3>3. CASE pc[Worker] = "created"
      BY <2>5, <3>1, <3>2, <3>3 DEF PlaceInv
    <3>4. CASE pc[Worker] = "mark"
      <4>1. PICK z \in Objects : maker[volume] = z
        BY <1>1, <3>2, <3>4 DEF PlaceInv
      <4>2. volume \in MadeFor(z) /\ volume \notin moved
        BY <2>2, <3>2, <4>1 DEF MadeFor
      <4>3. Present(obj[z]) /\ Target(z) = Target(x)
        BY <3>2, <4>2 DEF ImageIsOwned, TargetInv
      <4>4. z \notin Twins(x)
        BY <2>2, <2>5, <4>3 DEF ReadyInv, Single
      <4> QED
        BY <3>1, <3>2, <4>1, <4>3, <4>4 DEF Twins
    <3> QED
      BY <2>5, <3>3, <3>4
  <2> QED
    BY <1>4, <2>1, <2>4, <2>5, ReadySteps
<1>5. ASSUME NEW x \in Objects, Single(x)', NEW y \in Twins(x)'
      PROVE  ~Present(obj'[y]) /\ ~Present(cache'[y])
  BY <1>5, NextSingle
<1> QED
  BY <1>3, <1>4, <1>5 DEF ReadyInv, ReadyExists

-----------------------------------------------------------------------------
\* A deletion leaves the objects alone that are alive after it.
LEMMA DeletesOne ==
  ASSUME TypeOK, NEW y \in Objects, UserDeletes(y), NEW x \in Objects, obj'[x].life = "live"
  PROVE  obj'[x] = obj[x]
<1>1. /\ obj' = [obj EXCEPT ![y] = Stored([obj[y] EXCEPT !.life = "deleting"])]
      /\ obj[y].life = "live"
  BY DEF UserDeletes, Delete, OthersWrite, Store
<1>2. obj[y] \in Object /\ obj \in [Objects -> Object \cup Missing]
  BY <1>1, PresentObject DEF TypeOK, CoreTypeOK, Present
<1>3. Stored([obj[y] EXCEPT !.life = "deleting"]).life # "live"
  BY <1>2 DEF Stored, Object, Gone
<1> QED
  BY <1>1, <1>2, <1>3

\* What others do to an object that is there
LEMMA OthersLeave ==
  ASSUME TypeOK, [Next]_vars, ~(StepOk \/ StepFails), NEW x \in Objects,
         obj[x] # Absent, obj'[x].life = "live"
  PROVE  obj'[x] = obj[x]
<1>1. CASE \E y \in Objects : UserDeletes(y)
  BY <1>1, DeletesOne
<1>2. CASE \E xs \in SUBSET Objects : UserCreates(xs)
  BY <1>2 DEF UserCreates
<1> QED
  BY <1>1, <1>2, PoolShape DEF Next, Begin, Take, CacheSync, Learn, Crash, Restart,
     Local, apiVars, coreVars, vars

\* What a step of the worker leaves of its object: it is still at it, it comes back
\* to it, or it had nothing more to do.
LEMMA LeavesMe ==
  ASSUME TypeOK, PlaceInv, StepOk \/ StepFails
  PROVE  /\ cache' = cache /\ queued \subseteq queued'
         /\ \/ cur'[Worker] = me /\ (obj' = obj \/ Worker \in fresh')
            \/ pc'[Worker] = "idle" /\ me \in queued'
            \/ pc'[Worker] = "idle" /\ Deleting(copy)
            \/ pc'[Worker] = "idle" /\ copy.ready = "True" /\ obj' = obj
            \/ pc'[Worker] = "idle" /\ Store(me, Marked(copy))
<1>1. /\ pc \in [Workers -> Places \cup {"idle"}] /\ Worker \in Workers
      /\ cur \in [Workers -> Objects \cup {NoObject}] /\ loc \in [Workers -> Object \cup {Absent}]
  BY Working DEF TypeOK, CoreTypeOK
<1> USE <1>1 DEF me
<1>2. CASE RefsOk \/ FreeOk \/ DropOk \/ MakeOk \/ UploadOk \/ MakeFails \/ UploadFails
  BY <1>2 DEF RefsOk, FreeOk, DropOk, MakeOk, UploadOk, MakeFails, UploadFails, Goes, Jump, Goto,
              Local, apiVars
<1>3. CASE Dispatch
  BY <1>3 DEF Dispatch, Goes, Ends, Done, End, Jump, Goto, Local, apiVars
<1>4. CASE AddFinalizerOk \/ LabelOk
  BY <1>4 DEF AddFinalizerOk, LabelOk, Writes, WriteOk, Jump, Goto, Local, apiVars
<1>5. CASE PreventOk \/ DropFails
  BY <1>5 DEF PreventOk, DropFails, Retry, End, Local, WriteEnds
<1>6. CASE UnfinalizeOk
  BY <1>6 DEF UnfinalizeOk, At, PlaceInv, Removing, WriteEnds, Ends, Done, End
<1>7. CASE MarkOk \/ CreatedOk
  BY <1>7 DEF MarkOk, CreatedOk, MarkEnds, Ends, Done, End, Local, WriteEnds, apiVars
<1>8. CASE RefsFails \/ AddFinalizerFails \/ PreventFails \/ UnfinalizeFails \/ MarkFails
           \/ LabelFails \/ CreatedFails \/ Unreadied
  BY <1>8 DEF RefsFails, AddFinalizerFails, PreventFails, UnfinalizeFails, MarkFails, LabelFails,
              CreatedFails, Unreadied, Fails, WriteFails, Retry, End, Local
<1> QED
  BY <1>2, <1>3, <1>4, <1>5, <1>6, <1>7, <1>8 DEF StepOk, StepFails

LEMMA NextTried ==
  ASSUME TypeOK, TypeOK', PlaceInv, SeenInv, TriedInv, [Next]_vars
  PROVE  TriedInv'
<1>1. /\ pc \in [Workers -> Places \cup {"idle"}] /\ Worker \in Workers
      /\ pc[Worker] # "idle" => copy \in Object /\ me \in Objects
      /\ cur \in [Workers -> Objects \cup {NoObject}]
      /\ \A x \in Objects \ behind : cache[x] = obj[x]
  BY Working DEF TypeOK, CoreTypeOK
<1>2. pc[Worker] # "idle" => obj[me] # Absent /\ (Deleting(copy) => obj[me].life # "live")
  BY <1>1 DEF SeenInv, Tells, Over, Object, Absent, Deleting, copy, me
<1>3. ASSUME pc'[Worker] # "idle", me' \notin Lagging, copy'.ready = "True"
      PROVE  obj'[me'].life # "live" \/ obj'[me'].ready = "True"
  <2>1. CASE Worker \in fresh'
    <3>1. obj'[cur'[Worker]] = loc'[Worker]
      BY <2>1 DEF TypeOK, CoreTypeOK
    <3> QED
      BY <1>3, <3>1 DEF copy, me
  <2>2. CASE pc[Worker] # "idle" /\ UNCHANGED <<copy, me>> /\ Worker \notin fresh'
    <3>1. obj'[me] = obj[me] \/ obj'[me].life # "live"
      BY <1>1, <1>2, <1>3, <2>2, LeavesMe, OthersLeave DEF Store
    <3> QED
      BY <1>3, <2>2, <3>1 DEF TriedInv
  <2>3. CASE me' \in Objects /\ copy' = cache[me'] /\ obj' = obj /\ Prompt
    BY <1>1, <1>3, <2>3 DEF Prompt
  <2> QED
    BY <1>3, <2>1, <2>2, <2>3, CopySteps
<1>4. ASSUME NEW x \in Objects \ Lagging, obj'[x].life = "live"
      PROVE  obj'[x].ready = "True" \/ Awaited(x)'
  <2>1. CASE StepOk \/ StepFails
    <3>1. pc[Worker] # "idle"
      BY <2>1, StepShape
    <3>2. /\ obj'[x] # obj[x] => x = me /\ obj[x] = copy
          /\ obj'[x] # obj[x] => obj[x].life = "live"
      BY <1>4, <2>1, Written, Writings DEF Present, Object
    <3>3. CASE x # me
      BY <1>4, <2>1, <3>2, <3>3, LeavesMe DEF TriedInv, NotForgotten, Awaited, me
    <3>4. CASE x = me /\ Store(me, Marked(copy))
      <4>1. obj'[x] = Stored(Marked(copy))
        BY <1>1, <3>4 DEF Store, TypeOK, CoreTypeOK
      <4>2. obj'[x] = Marked(copy)
        BY <1>4, <4>1, StoredPresent DEF Present
      <4> QED
        BY <1>1, <3>1, <4>2 DEF Marked, Object
    <3>5. CASE x = me /\ copy.ready = "True" /\ obj' = obj
      BY <1>4, <3>1, <3>5 DEF TriedInv
    <3>6. CASE x = me /\ Deleting(copy)
      BY <1>2, <1>4, <3>1, <3>2, <3>6
    <3> QED
      BY <2>1, <3>3, <3>4, <3>5, <3>6, LeavesMe DEF Awaited
  <2>2. CASE \E y \in Objects : Begin(y)
    <3>1. PICK y \in Objects : Begin(y)
      BY <2>2
    <3>2. /\ pc[Worker] = "idle" /\ queued' = queued \ {y} /\ obj' = obj /\ cache' = cache
          /\ IF Present(cache[y]) THEN cur' = [cur EXCEPT ![Worker] = y] ELSE cur' = cur
      BY <3>1 DEF Begin, Take, At, Local, apiVars, workerVars
    <3>3. cur[Worker] # x
      BY <1>1, <3>2, OneWorker, NoObjectIsNoObject DEF TypeOK, CoreTypeOK
    <3>4. obj[x].ready = "True" \/ x \in queued \/ cache[x].life # "live"
      BY <1>4, <3>2, <3>3 DEF TriedInv, NotForgotten, Awaited
    <3> QED
      BY <1>1, <3>2, <3>4 DEF Awaited, Present
  <2>3. CASE \E y \in Objects : UserDeletes(y)
    <3>1. obj'[x] = obj[x]
      BY <1>4, <2>3, DeletesOne
    <3> QED
      BY <1>4, <2>3, <3>1 DEF UserDeletes, Delete, OthersWrite, TriedInv, NotForgotten, Awaited
  <2>4. CASE \E y \in Objects : CacheSync(y)
    BY <1>4, <2>4 DEF CacheSync, Learn, workerVars, TriedInv, NotForgotten, Awaited, TypeOK,
       CoreTypeOK
  <2>5. CASE \E xs \in SUBSET Objects : UserCreates(xs)
    <3>1. PICK xs \in SUBSET Objects :
            /\ Prompt /\ \A y \in xs : obj[y] = Absent
            /\ \A y \in Objects : obj'[y] = IF y \in xs THEN Created ELSE obj[y]
            /\ UNCHANGED <<cache, queued, cur>>
      BY <2>5 DEF UserCreates, workerVars
    <3>2. CASE x \in xs
      BY <1>1, <1>4, <3>1, <3>2 DEF Prompt, Absent, Awaited
    <3>3. CASE x \notin xs
      BY <1>4, <3>1, <3>3 DEF TriedInv, NotForgotten, Awaited
    <3> QED
      BY <3>2, <3>3
  <2>6. CASE PoolSteps \/ UNCHANGED vars
    BY <1>4, <2>6, PoolShape DEF vars, coreVars, apiVars, workerVars, TriedInv, NotForgotten,
       Awaited
  <2>7. CASE Crash
    BY <1>4, <2>7 DEF Crash, Restart, Present, Awaited
  <2> QED
    BY <2>1, <2>2, <2>3, <2>4, <2>5, <2>6, <2>7 DEF Next
<1> QED
  BY <1>3, <1>4 DEF TriedInv, NotForgotten

-----------------------------------------------------------------------------
\* Every reachable state satisfies the invariant.
LEMMA Invariance == Spec => []IInv
<1>1. IInv /\ [Next]_vars => IInv'
  BY NextCore, NextTypes, NextPlace, NextTarget, NextOwned, NextLabel DEF IInv
<1> QED
  BY InitIInv, <1>1, PTL DEF Spec

\* The variables have their types.
THEOREM TypeCorrect == Spec => []TypeOK
<1>1. IInv => TypeOK
  BY DEF IInv
<1> QED
  BY Invariance, <1>1, PTL

\* The finalizer of an object stays until its images are dropped, also when several
\* objects stand for one image, but for images that are left where a Pool was before.
THEOREM ImageOwned == Spec => []ImageIsOwned
<1>1. IInv => ImageIsOwned
  BY DEF IInv
<1> QED
  BY Invariance, <1>1, PTL

\* An object that is Ready has its volume, unless another one was admitted for it
\* without the webhook seeing it, at the same time or through another Pool, or the
\* Pool has changed.
THEOREM ReadyImagesExist == Spec => []ReadyExists
<1>1. Init => ReadyInv
  BY InitIInv, OneWorker
     DEF Init, CoreInit, ReadyInv, ReadyExists, Single, Present, Absent
<1>2. IInv /\ ReadyInv /\ [Next]_vars => ReadyInv'
  BY NextReady DEF IInv
<1>3. ReadyInv => ReadyExists
  BY DEF ReadyInv
<1> QED
  BY <1>1, <1>2, <1>3, Invariance, PTL DEF Spec

\* An object that is alive and not Ready is in the queue, with the worker, or not yet
\* in the cache: no failure, crash or change of a Pool makes the controller forget it.
THEOREM NoneForgotten == Spec => []NotForgotten
<1>1. Init => TriedInv
  BY OneWorker DEF Init, CoreInit, TriedInv, NotForgotten, Absent
<1>2. IInv /\ IInv' /\ TriedInv /\ [Next]_vars => TriedInv'
  BY NextTried DEF IInv
<1>3. TriedInv => NotForgotten
  BY DEF TriedInv
<1> QED
  BY <1>1, <1>2, <1>3, Invariance, PTL DEF Spec

\* The deletion of a Pool that has an image is let through only in the cases that
\* PoolIsKept names.
THEOREM PoolKept == Spec => PoolIsKept
<1>1. IInv /\ [Next]_vars =>
        [\A p \in Pools : PoolChecked(p) =>
           \A x \in Objects : poolRef[x] = p /\ MadeFor(x) # {} =>
             \/ x \in behind \cup unlabelled \/ BetweenMakeAndLabel(x)
             \/ ~Present(obj[x]) /\ MadeFor(x) \subseteq moved]_vars
  <2> SUFFICES ASSUME IInv, NEW p \in Pools, PoolChecked(p), NEW x \in Objects,
                      poolRef[x] = p, MadeFor(x) # {}, x \notin behind \cup unlabelled,
                      ~BetweenMakeAndLabel(x)
               PROVE  ~Present(obj[x]) /\ MadeFor(x) \subseteq moved
    BY DEF vars
  <2>1. HasLabel(x)
    BY DEF IInv, LabelInv
  <2>2. cache[x] = obj[x]
    BY DEF IInv, TypeOK, CoreTypeOK
  <2>3. ~Present(obj[x])
    BY <2>1, <2>2 DEF PoolChecked, Labelled, HasLabel
  <2> QED
    BY <2>3 DEF IInv, ImageIsOwned
<1> QED
  BY <1>1, Invariance, PTL DEF Spec, PoolIsKept
=============================================================================
