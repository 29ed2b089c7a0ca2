------------------------- MODULE CloudInitController -------------------------
(***************************************************************************)
(* CloudInitReconciler (internal/controller/cloudinit.go), which makes the *)
(* image of a CloudInit object a volume of libvirt, with the admission of  *)
(* CloudInit objects (internal/webhook/cloudinit.go), which is to see to   *)
(* it that no two of them stand for one volume, the Pool objects that they *)
(* refer to, and the deletion of a Pool by PoolReconciler, which PoolLabel *)
(* is to hold up.                                                          *)
(*                                                                         *)
(* The webhook compares the names of Pool objects.  The volume is in the   *)
(* pool of libvirt that Spec.Name and Spec.HostRef of the Pool tell when   *)
(* the reconcile reads it: they may be those of another Pool, and users    *)
(* may change them at any time.                                            *)
(*                                                                         *)
(* The reconcile resembles the one of VolumeController, from which it      *)
(* differs in the order: the label is written after libvirt has the        *)
(* volume, and a reconcile that finds the volume does not write it.        *)
(*                                                                         *)
(* Whether there is a session with the host, whether the source files and  *)
(* the ISO image can be made, and whether a domain uses the image is left  *)
(* open at each step.  The Spec of a CloudInit is immutable.               *)
(***************************************************************************)
EXTENDS Reconcilers

CONSTANTS
  Pools,     \* the Pool objects
  Storages,  \* the pools of libvirt, each on its host
  Names,     \* the names of volumes
  Name,      \* Name[x]: Spec.Name
  NoVolume,
  AtFirst,   \* AtFirst[p]: the pool of libvirt that Pool p names at first
  Worker,    \* the worker of the controller
  Deletable, \* bound: the Pools that users delete
  Moves      \* bound: Moves[p], the pools of libvirt that users may make p name

Volumes == Storages \X Names

ASSUME OneWorker          == Workers = {Worker} /\ Served[Worker] = Objects
ASSUME NamesAreNames      == Name \in [Objects -> Names]
ASSUME NoVolumeIsNoVolume == NoVolume \notin Volumes
ASSUME DeletableArePools  == Deletable \subseteq Pools
ASSUME NamingIsNaming     == AtFirst \in [Pools -> Storages]
ASSUME MovesAreMoves      == Moves \in [Pools -> SUBSET Storages]

VARIABLES
  storage,    \* libvirt: a volume is not there, there without content, or written
  maker,      \* history: the object that a volume was made for
  poolRef,    \* Spec.PoolRef of the objects: what users choose, for good
  naming,     \* the pool of libvirt that the Spec of each Pool tells, in the cache
  pool,       \* what the operator has of each Pool, and PoolReconciler about it
  volume,     \* of the worker: the volume of its VolumeAction
  found,      \* of the worker: libvirt had the volume when it was asked
  doubled,    \* history: the volumes of which two objects were admitted because the
              \* cache did not show the other, or through different Pools
  moved,      \* history: the volumes that objects stood for when their Pool changed,
              \* before it and after
  unlabelled  \* history: the objects of which a reconcile has ended after it made
              \* the volume and before it wrote the label

libvirtVars == <<storage, maker>>
poolVars    == <<poolRef, naming, pool>>
otherVars   == <<libvirtVars, poolVars>>
actionVars  == <<volume, found>>
history     == <<doubled, moved, unlabelled>>
vars        == <<coreVars, otherVars, actionVars, history>>

\* Of an object: PoolLabel and the conditions Ready and DeletionPrevented
Object == [life : {"live", "deleting"}, finalizer : BOOLEAN, poolLabel : BOOLEAN,
           ready : {"unset", "True", "False"}, prevented : BOOLEAN]

Created == [life |-> "live", finalizer |-> FALSE, poolLabel |-> FALSE,
            ready |-> "unset", prevented |-> FALSE]

Places == {"refs", "meta", "check", "drop", "unfinalize", "mark", "make", "upload",
           "label", "created", "unready"}

\* The variables have their types.
TypeOK ==
  /\ CoreTypeOK(Object, Places)
  /\ storage \in [Volumes -> {"none", "blank", "written"}]
  /\ maker \in [Volumes -> Objects \cup {NoObject}]
  /\ \A v \in Volumes : storage[v] = "none" <=> maker[v] = NoObject
  /\ poolRef \in [Objects -> Pools]
  /\ naming \in [Pools -> Storages]
  /\ pool \in [Pools -> {"there", "checked", "gone"}]
  /\ volume \in Volumes \cup {NoVolume} /\ found \in BOOLEAN
  /\ doubled \in SUBSET Volumes /\ moved \in SUBSET Volumes
  /\ unlabelled \in SUBSET Objects

Init ==
  /\ CoreInit
  /\ storage = [v \in Volumes |-> "none"]
  /\ maker = [v \in Volumes |-> NoObject]
  /\ poolRef \in [Objects -> Pools]
  /\ naming = AtFirst
  /\ pool = [p \in Pools |-> "there"]
  /\ volume = NoVolume /\ found = FALSE
  /\ doubled = {} /\ moved = {} /\ unlabelled = {}

-----------------------------------------------------------------------------
(***************************************************************************)
(* Users.  They create one object or several at a time: each request is    *)
(* validated before any of them is stored.  The webhook lists the objects  *)
(* of the cache, those that are being deleted included.                    *)
(***************************************************************************)
InUseNever(x) == FALSE     \* a webhook that is not called
InUse(x) ==
  \E y \in Objects \ {x} :
    Present(cache[y]) /\ Name[y] = Name[x] /\ poolRef[y] = poolRef[x]

\* The volume of an object, as long as its Pool stays as it is, and the objects
\* that stand for the same one
Target(x) == <<naming[poolRef[x]], Name[x]>>
Twins(x)  == {y \in Objects \ {x} : Target(y) = Target(x)}

\* An object is there, or the cache or the worker still acts as if it were.
Known(x) == Present(obj[x]) \/ Present(cache[x]) \/ cur[Worker] = x

\* The webhook is not to see a twin of x: it is created with x, the cache does not
\* show it yet, or it refers to another Pool.
Hidden(x, xs) ==
  \E y \in Twins(x) :
    \/ y \in xs
    \/ Present(obj[y]) /\ y \in behind
    \/ poolRef[y] # poolRef[x] /\ Known(y)

UserCreates(xs) ==
  /\ Prompt
  /\ xs # {} /\ \A x \in xs : obj[x] = Absent /\ ~InUse(x)
  /\ obj' = [x \in Objects |-> IF x \in xs THEN Created ELSE obj[x]]
  /\ behind' = behind \cup xs
  /\ doubled' = doubled \cup {Target(x) : x \in {x \in xs : Hidden(x, xs)}}
  /\ UNCHANGED <<cache, queued, workerVars, otherVars, actionVars, moved, unlabelled>>

UserDeletes(x) == Delete(x) /\ UNCHANGED <<otherVars, actionVars, history>>

\* The volumes that the objects of a Pool stand for while it names s
VolumesOf(p, s) == {<<s, Name[x]>> : x \in {x \in Objects : poolRef[x] = p /\ Known(x)}}

\* Another Spec.Name or Spec.HostRef of a Pool.  No webhook looks at it, and no
\* CloudInit is reconciled for it.
UserMovesPool(p, s) ==
  /\ Prompt
  /\ pool[p] # "gone" /\ s \in Moves[p] \ {naming[p]}
  /\ naming' = [naming EXCEPT ![p] = s]
  /\ moved' = moved \cup VolumesOf(p, naming[p]) \cup VolumesOf(p, s)
  /\ UNCHANGED <<coreVars, libvirtVars, poolRef, pool, actionVars, doubled, unlabelled>>

\* GenerationChangedPredicate: a new object, a deletion
CacheSync(x) ==
  /\ Learn(x, IF obj[x].life # cache[x].life THEN {x} ELSE {})
  /\ UNCHANGED <<otherVars, actionVars, history>>

(***************************************************************************)
(* PoolReconciler lists the objects whose PoolLabel names the Pool.  When  *)
(* there is none it removes the finalizer of the Pool, which then goes     *)
(* from the cache.                                                         *)
(***************************************************************************)
PoolIs(p, before, after) ==
  /\ Prompt
  /\ pool[p] = before /\ pool' = [pool EXCEPT ![p] = after]
  /\ UNCHANGED <<coreVars, libvirtVars, poolRef, naming, actionVars, history>>

Labelled(x, p) == Present(cache[x]) /\ cache[x].poolLabel /\ poolRef[x] = p

PoolChecked(p) ==
  /\ p \in Deletable /\ \A x \in Objects : ~Labelled(x, p)
  /\ PoolIs(p, "there", "checked")

PoolUpdateFails(p) == PoolIs(p, "checked", "there")
PoolGone(p)        == PoolIs(p, "checked", "gone")

-----------------------------------------------------------------------------
(***************************************************************************)
(* Reconcile.  Each step has an outcome where its call succeeds and one    *)
(* where it fails, which ends the reconcile with an error.                 *)
(***************************************************************************)
copy == loc[Worker]
me   == cur[Worker]

Same == UNCHANGED <<otherVars, history>>

\* A failure, or the end
Ended == volume' = NoVolume /\ found' = FALSE

Writes(o, l) == WriteOk(Worker, o, l) /\ UNCHANGED actionVars /\ Same
Fails(o)     == WriteFails(Worker, o) /\ Ended /\ Same
Goes(l)      == Jump(Worker, l) /\ Local /\ UNCHANGED actionVars /\ Same
Ends         == Done(Worker) /\ Ended

Begin(x) == Take(Worker, x, "refs") /\ UNCHANGED actionVars /\ Same

Unready(o) == [o EXCEPT !.ready = "False"]
Marked(o)  == [o EXCEPT !.ready = "True"]

\* The Pool, the Host, its entry in the HostStore, a session and the volume, which
\* stays the same for the rest of the reconcile
RefsOk ==
  /\ At(Worker, "refs")
  /\ pool[poolRef[me]] # "gone"
  /\ Jump(Worker, "meta") /\ Local
  /\ volume' = Target(me)
  /\ found' = (storage[volume'] # "none")
  /\ Same

\* One of them is not there.  The condition Ready gives the reason, unless it is
\* True already.
RefsFails ==
  /\ At(Worker, "refs")
  /\ \/ copy.ready = "True" /\ Retry(Worker) /\ Local /\ Ended /\ Same
     \/ copy.ready # "True" /\ Fails(Unready(copy))

WithFinalizer(o) == [o EXCEPT !.finalizer = TRUE]
NeedsFinalizer == At(Worker, "meta") /\ ~Deleting(copy) /\ ~copy.finalizer

AddFinalizerOk    == NeedsFinalizer /\ Writes(WithFinalizer(copy), "meta")
AddFinalizerFails == NeedsFinalizer /\ Fails(WithFinalizer(copy))

Dispatch ==
  /\ At(Worker, "meta")
  /\ IF copy.finalizer
       THEN Goes(IF Deleting(copy) THEN IF found THEN "check" ELSE "unfinalize"
                 ELSE IF found THEN "mark" ELSE "make")
       ELSE Deleting(copy) /\ Ends /\ Local /\ Same

\* The domains that bear the label of the object are left open.
FreeOk == At(Worker, "check") /\ Goes("drop")

Prevented(o) == [o EXCEPT !.prevented = TRUE]

PreventOk ==
  /\ At(Worker, "check")
  /\ IF copy.prevented THEN Local ELSE WriteEnds(Worker, Prevented(copy))
  /\ Retry(Worker) /\ Ended /\ Same

PreventFails == At(Worker, "check") /\ ~copy.prevented /\ Fails(Prevented(copy))

\* StorageVolDelete
Dropped ==
  /\ storage' = [storage EXCEPT ![volume] = "none"]
  /\ maker' = [maker EXCEPT ![volume] = NoObject]

DropOk ==
  /\ At(Worker, "drop")
  /\ Dropped
  /\ Jump(Worker, "unfinalize") /\ Local
  /\ UNCHANGED <<poolVars, actionVars, history>>

DropFails ==
  /\ At(Worker, "drop")
  /\ Dropped \/ UNCHANGED libvirtVars
  /\ Retry(Worker) /\ Local /\ Ended
  /\ UNCHANGED <<poolVars, history>>

Unfinalized(o) == [o EXCEPT !.finalizer = FALSE]

UnfinalizeOk ==
  /\ At(Worker, "unfinalize")
  /\ WriteEnds(Worker, Unfinalized(copy)) /\ Ends
  /\ Same

UnfinalizeFails == At(Worker, "unfinalize") /\ Fails(Unfinalized(copy))

\* The last write of a reconcile, if there is anything to write
MarkEnds ==
  /\ IF copy.ready = "True" THEN Local ELSE WriteEnds(Worker, Marked(copy))
  /\ Ends /\ Same

MarkOk    == At(Worker, "mark") /\ MarkEnds
MarkFails == At(Worker, "mark") /\ copy.ready # "True" /\ Fails(Marked(copy))

\* cloudInitSourceFiles and cloudInitCreateISO, then Create: StorageVolCreateXML
\* and StorageVolUpload.  When one fails the condition Ready gives the reason.
Made ==
  /\ storage[volume] = "none"
  /\ storage' = [storage EXCEPT ![volume] = "blank"]
  /\ maker' = [maker EXCEPT ![volume] = me]

MakeOk ==
  /\ At(Worker, "make")
  /\ Made
  /\ Jump(Worker, "upload") /\ Local
  /\ UNCHANGED <<poolVars, actionVars, history>>

MakeFails ==
  /\ At(Worker, "make")
  /\ \/ UNCHANGED <<libvirtVars, unlabelled>>
     \/ Made /\ unlabelled' = unlabelled \cup {me}
  /\ Jump(Worker, "unready") /\ Local
  /\ UNCHANGED <<poolVars, actionVars, doubled, moved>>

Uploaded == storage' = [storage EXCEPT ![volume] = "written"]

UploadOk ==
  /\ At(Worker, "upload")
  /\ Uploaded
  /\ Jump(Worker, "label") /\ Local
  /\ UNCHANGED <<maker, poolVars, actionVars, history>>

UploadFails ==
  /\ At(Worker, "upload")
  /\ Uploaded \/ UNCHANGED storage
  /\ Jump(Worker, "unready") /\ Local
  /\ unlabelled' = unlabelled \cup {me}
  /\ UNCHANGED <<maker, poolVars, actionVars, doubled, moved>>

\* The error is not returned.
UnreadyEnds ==
  /\ At(Worker, "unready")
  /\ Local \/ WriteEnds(Worker, Unready(copy))
  /\ Ends /\ Same

Unreadied == At(Worker, "unready") /\ Fails(Unready(copy))

\* SetLabel reports whether there is anything to Update.
LabelNotSet(o)   == o   \* a label that is not written
WithPoolLabel(o) == [o EXCEPT !.poolLabel = TRUE]

LabelOk ==
  /\ At(Worker, "label")
  /\ IF copy.poolLabel THEN Jump(Worker, "created") /\ Local
                       ELSE WriteOk(Worker, WithPoolLabel(copy), "created")
  /\ unlabelled' = unlabelled \ {me}
  /\ UNCHANGED <<otherVars, actionVars, doubled, moved>>

LabelFails ==
  /\ At(Worker, "label") /\ ~copy.poolLabel
  /\ WriteFails(Worker, WithPoolLabel(copy)) /\ Ended
  /\ unlabelled' = unlabelled \cup {me}
  /\ UNCHANGED <<otherVars, doubled, moved>>

CreatedOk    == At(Worker, "created") /\ MarkEnds
CreatedFails == At(Worker, "created") /\ copy.ready # "True" /\ Fails(Marked(copy))

-----------------------------------------------------------------------------
BetweenMakeAndLabel(x) == pc[Worker] \in {"upload", "label"} /\ cur[Worker] = x

Crash ==
  /\ Restart
  /\ unlabelled' = unlabelled \cup {x \in Objects : BetweenMakeAndLabel(x)}
  /\ Ended /\ UNCHANGED <<otherVars, doubled, moved>>

StepOk ==
  \/ RefsOk \/ AddFinalizerOk \/ Dispatch \/ FreeOk \/ PreventOk \/ DropOk
  \/ UnfinalizeOk \/ MarkOk \/ MakeOk \/ UploadOk \/ LabelOk \/ CreatedOk \/ Unreadied

StepFails ==
  \/ RefsFails \/ AddFinalizerFails \/ PreventFails \/ DropFails \/ UnfinalizeFails
  \/ MarkFails \/ MakeFails \/ UploadFails \/ LabelFails \/ CreatedFails

PoolSteps ==
  \E p \in Pools :
    \/ PoolChecked(p) \/ PoolUpdateFails(p) \/ PoolGone(p)
    \/ \E s \in Storages : UserMovesPool(p, s)

Next ==
  \/ StepOk \/ StepFails
  \/ \E x \in Objects : Begin(x) \/ UserDeletes(x) \/ CacheSync(x)
  \/ \E xs \in SUBSET Objects : UserCreates(xs)
  \/ PoolSteps \/ Crash

Spec == Init /\ [][Next]_vars

-----------------------------------------------------------------------------
(***************************************************************************)
(* Properties                                                              *)
(***************************************************************************)
Owns(x) == maker[Target(x)] = x

\* The volumes that were made for an object: there may be another one for each
\* Spec that its Pool has had.
MadeFor(x) == {v \in Volumes : maker[v] = x}

\* A volume that was made for an object has an object: its finalizer stays until
\* the volume is dropped, also when several objects stand for one volume, unless
\* the Pool has changed in between.
ImageIsOwned ==
  \A x \in Objects :
    MadeFor(x) \subseteq moved \/ (Present(obj[x]) /\ obj[x].finalizer)

\* An object that is Ready has its volume, with two exceptions: another object was
\* admitted for the volume without the webhook seeing it, at the same time or
\* through another Pool that names the same pool of libvirt; and the Pool has
\* changed.  Then the deletion of one object drops the volume of another, or the
\* volume is left in the pool of before.
ReadyExists ==
  \A x \in Objects :
    obj[x].life = "live" /\ obj[x].ready = "True" /\ Target(x) \notin doubled \cup moved
      => Owns(x)

\* The list of PoolReconciler misses an object of the Pool with an image only if the
\* cache lags behind it, its reconcile is between making and labelling the image,
\* or one has ended there; and it misses an image whose object has gone, left
\* where the Pool was before.
PoolIsKept ==
  [][\A p \in Pools : PoolChecked(p) =>
       \A x \in Objects : poolRef[x] = p /\ MadeFor(x) # {} =>
         \/ x \in behind \cup unlabelled \/ BetweenMakeAndLabel(x)
         \/ ~Present(obj[x]) /\ MadeFor(x) \subseteq moved]_vars

\* Somebody is going to reconcile an object that is alive: the queue has it, or the
\* worker, or the cache is yet to learn of it.
Awaited(x) == x \in queued \/ cur[Worker] = x \/ cache[x].life # "live"

\* No object that is alive and not Ready is forgotten, whatever has failed: its
\* condition tells the cache no generation, hence the error that a reconcile returns
\* is all that brings the object back.  Excepted are objects of which the cache may
\* still show that they are Ready when it is not so any more.
NotForgotten ==
  \A x \in Objects \ Lagging :
    obj[x].life = "live" => obj[x].ready = "True" \/ Awaited(x)
=============================================================================
