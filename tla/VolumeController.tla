-------------------------- MODULE VolumeController --------------------------
(***************************************************************************)
(* VolumeReconciler (internal/controller/volume.go) with VolumeAction      *)
(* (internal/action/volume.go): it brings the volumes of libvirt in line   *)
(* with the Volume objects of the API server.                              *)
(*                                                                         *)
(* A reconcile reads objects from the informer cache, which lags behind    *)
(* the API server, then calls libvirt and the API server one call at a     *)
(* time.  Any call may fail; it may also take effect although its caller   *)
(* sees an error (the connection was lost before the reply).  The API      *)
(* server refuses an update that is based on an old version of the object. *)
(* The operator may crash between any two calls.                           *)
(*                                                                         *)
(* There is one worker (the default of MaxConcurrentReconciles, and leader *)
(* election).  Versions are not numbered: what matters of a copy is        *)
(* whether it is still the newest one.  Volumes share one pool and one     *)
(* host; whether these are available is left open at every reconcile, and  *)
(* so is what the Domain controller does: a domain may use a volume at any *)
(* time.  A name is used once: a deleted Volume is not created again.      *)
(***************************************************************************)
EXTENDS Naturals

CONSTANTS
  Volumes,      \* the Volume objects a user may create
  NoVolume,
  Base,         \* Spec.BackingStoreRef of a volume, or NoVolume
  Sourced,      \* the volumes with a Spec.Source
  Preexisting,  \* the volumes that libvirt may have before the operator runs
  MaxSize,      \* bound on the sizes users ask for
  UnitBytes,    \* the bytes of their unit
  Width,        \* a uint64 holds fewer bytes than this: 2^64 in the code
  Resized       \* bound: the volumes whose Spec.Size users change; of the others
                \* it is nil if it may be

ASSUME NoVolumeIsNoVolume == NoVolume \notin Volumes
ASSUME BaseIsReference    == Base \in [Volumes -> Volumes \cup {NoVolume}]
ASSUME SourcedHasNoBase   == \A v \in Sourced : v \in Volumes /\ Base[v] = NoVolume
ASSUME PreexistingVolumes == Preexisting \subseteq Volumes
ASSUME MaxSizeIsPositive  == MaxSize \in Nat \ {0}
ASSUME UnitIsPositive     == UnitBytes \in Nat \ {0}
ASSUME WidthIsPositive    == Width \in Nat \ {0}

Sizes  == 1..MaxSize      \* Spec.Size.Value
NoSize == 0               \* Spec.Size is nil
Bytes  == 0..(Width - 1)
NoCapacity == Width       \* of a volume that libvirt does not have

VARIABLES
  obj,       \* the Volume objects of the API server
  cache,     \* the informer cache
  behind,    \* the volumes of which the cache is not the newest version
  queued,    \* the work queue of the controller
  storage,   \* the volumes of libvirt: "none", "blank" (created, content not
             \* yet uploaded) or "written"
  capacity,  \* their capacity in bytes, as libvirt reports it
  pc,        \* where the reconcile is
  cur,       \* the volume it is about
  loc,       \* its copy of the Volume object
  locFresh,  \* the copy is the newest version
  found      \* VolumeAction.State: libvirt had the volume when asked

apiVars     == <<obj, behind>>
libvirtVars == <<storage, capacity>>
localVars   == <<pc, cur, loc, locFresh, found>>
vars        == <<apiVars, cache, queued, libvirtVars, localVars>>

(***************************************************************************)
(* Of a Volume object: its life ("deleting": it has a DeletionTimestamp,   *)
(* "gone": it has been removed), its finalizer, the labels that name its   *)
(* pool and its backing store, its conditions Ready and DeletionPrevented, *)
(* and Spec.Size.                                                          *)
(***************************************************************************)
Object == [life      : {"absent", "live", "deleting", "gone"},
           finalizer : BOOLEAN,
           poolLabel : BOOLEAN,
           volLabel  : BOOLEAN,
           ready     : {"unset", "False", "True"},
           prevented : BOOLEAN,
           size      : Sizes \cup {NoSize}]

Blank(life, size) ==
  [life |-> life, finalizer |-> FALSE, poolLabel |-> FALSE, volLabel |-> FALSE,
   ready |-> "unset", prevented |-> FALSE, size |-> size]

NoObject == Blank("absent", NoSize)
Gone     == Blank("gone", NoSize)
Present(o) == o.life \in {"live", "deleting"}

PcStates == {"idle", "refs", "meta", "mark", "resize", "grow", "source", "backing",
             "volLabel", "poolLabel", "make", "upload", "created", "unready",
             "delete", "drop", "unfinalize"}

ApiTypes ==
  /\ obj \in [Volumes -> Object]
  /\ cache \in [Volumes -> Object]
  /\ behind \in SUBSET Volumes
  /\ queued \in SUBSET Volumes

LibvirtTypes ==
  /\ storage \in [Volumes -> {"none", "blank", "written"}]
  /\ capacity \in [Volumes -> Bytes \cup {NoCapacity}]
  /\ \A v \in Volumes : storage[v] = "none" <=> capacity[v] = NoCapacity

LocalTypes ==
  /\ pc \in PcStates
  /\ cur \in Volumes \cup {NoVolume}
  /\ loc \in Object
  /\ locFresh \in BOOLEAN
  /\ found \in BOOLEAN
  /\ pc = "idle" <=> cur = NoVolume

\* The variables have their types; a reconcile is about a volume, and a
\* volume of libvirt has a capacity.
TypeOK == ApiTypes /\ LibvirtTypes /\ LocalTypes

Init ==
  /\ obj = [v \in Volumes |-> NoObject]
  /\ cache = obj
  /\ behind = {}
  /\ queued = {}
  /\ \E early \in SUBSET Preexisting, c \in Bytes :
       /\ storage = [v \in Volumes |-> IF v \in early THEN "written" ELSE "none"]
       /\ capacity = [v \in Volumes |-> IF v \in early THEN c ELSE NoCapacity]
  /\ pc = "idle"
  /\ cur = NoVolume
  /\ loc = NoObject
  /\ locFresh = FALSE
  /\ found = FALSE

-----------------------------------------------------------------------------
(***************************************************************************)
(* Writes to the API server.                                               *)
(***************************************************************************)

\* An object that is being deleted is removed with its finalizer.
Stored(o) == IF o.life = "deleting" /\ ~o.finalizer THEN Gone ELSE o

Store(v, o) ==
  /\ obj' = [obj EXCEPT ![v] = Stored(o)]
  /\ behind' = behind \cup {v}

\* The cache learns of a write later.  It enqueues the volume when the
\* generation has changed (GenerationChangedPredicate): for a new object, a
\* deletion or another Spec, not for labels or status.
SpecOfSize(o) == <<o.size>>             \* a watch that misses creation and deletion
SpecOf(o) == <<o.life, o.size>>

CacheSync(v) ==
  /\ v \in behind
  /\ behind' = behind \ {v}
  /\ cache' = [cache EXCEPT ![v] = obj[v]]
  /\ queued' = IF SpecOf(obj[v]) # SpecOf(cache[v]) THEN queued \cup {v} ELSE queued
  /\ UNCHANGED <<obj, libvirtVars, localVars>>

-----------------------------------------------------------------------------
(***************************************************************************)
(* The users.  They set, change and unset sizes freely: the CRD has no     *)
(* rule about a smaller one.  Only a volume with a source or a backing     *)
(* store may omit its size.                                                *)
(***************************************************************************)
UserWrites(v, o) ==
  /\ Store(v, o)
  /\ locFresh' = (locFresh /\ v # cur)
  /\ UNCHANGED <<cache, queued, libvirtVars, pc, cur, loc, found>>

SizesOf(v) ==
  IF v \in Sourced \/ Base[v] # NoVolume
    THEN IF v \in Resized THEN Sizes \cup {NoSize} ELSE {NoSize}
    ELSE Sizes

UserCreates(v) ==
  /\ obj[v].life = "absent"
  /\ \E s \in SizesOf(v) : UserWrites(v, Blank("live", s))

UserDeletes(v) ==
  /\ obj[v].life = "live"
  /\ UserWrites(v, [obj[v] EXCEPT !.life = "deleting"])

UserResizes(v) ==
  /\ Present(obj[v]) /\ v \in Resized
  /\ \E s \in SizesOf(v) \ {obj[v].size} : UserWrites(v, [obj[v] EXCEPT !.size = s])

-----------------------------------------------------------------------------
(***************************************************************************)
(* The end of a reconcile, and its calls to the API server.                *)
(***************************************************************************)
Goto(l) == pc' = l /\ UNCHANGED <<cur, loc, locFresh, found>>

End ==
  /\ pc' = "idle" /\ cur' = NoVolume /\ loc' = NoObject
  /\ locFresh' = FALSE /\ found' = FALSE

\* It returns nil: the queue is left alone.
Done == End /\ UNCHANGED queued

\* It returns an error or Requeue: the volume is queued again.
RetryNever == End /\ UNCHANGED queued    \* the error is swallowed
Retry == End /\ queued' = queued \cup {cur}

\* Update and Status().Update write the copy o, if it is the newest version,
\* and return what was stored, which takes the place of the copy.
WriteSucceeds(o, l) ==
  /\ locFresh
  /\ Store(cur, o)
  /\ pc' = l /\ loc' = o
  /\ UNCHANGED <<cache, queued, libvirtVars, cur, locFresh, found>>

\* They are refused or lost, or only the reply is.
WriteFails(o) ==
  /\ UNCHANGED apiVars \/ (locFresh /\ Store(cur, o))
  /\ Retry
  /\ UNCHANGED <<cache, libvirtVars>>

-----------------------------------------------------------------------------
(***************************************************************************)
(* Reconcile.  Each step has an outcome where its call succeeds (Ok) and   *)
(* one where it fails; the latter always ends the reconcile with an error. *)
(***************************************************************************)
At(l) == pc = l

\* Steps that touch neither the API server nor libvirt
Stays == UNCHANGED <<apiVars, cache, libvirtVars>>

Begin(v) ==
  /\ pc = "idle" /\ v \in queued
  /\ queued' = queued \ {v}
  /\ IF Present(cache[v])
       THEN /\ pc' = "refs" /\ cur' = v /\ loc' = cache[v]
            /\ locFresh' = (v \notin behind) /\ found' = FALSE
       ELSE End
  /\ Stays

\* resolveRefs, the condition of the pool, Lookup, Session and NewVolumeAction
\* give an action and tell whether libvirt has the volume.  (ExistsAlways: an
\* error other than ErrNoStorageVol would be needed to notice that it has not.)
ExistsAlways(v) == TRUE
Exists(v) == storage[v] # "none"

RefsOk ==
  /\ At("refs")
  /\ pc' = "meta" /\ found' = Exists(cur)
  /\ UNCHANGED <<cur, loc, locFresh, queued>>
  /\ Stays

\* One of them does not: a volume that is not Ready says so, and a failure of
\* NewVolumeAction is just returned.
RefsUnmet ==
  /\ At("refs")
  /\ \/ Retry
     \/ loc.ready # "True" /\ Goto("unready") /\ UNCHANGED queued
  /\ Stays

\* setStatusCondition(Ready, False); the cause is returned after it.  When the
\* condition is False already only another message is written.
Unready(o) == [o EXCEPT !.ready = "False"]

SetUnready ==
  /\ At("unready")
  /\ \/ loc.ready = "False" /\ Retry /\ Stays
     \/ WriteFails(Unready(loc))

\* A test that does not look at the deletion timestamp, and one that takes a
\* volume whose creation has failed for one to be cleaned up.
DeletingUnseen(o)   == FALSE
DeletingOrFailed(o) == o.life = "deleting" \/ o.ready = "False"

HasFinalizer(o) == o.finalizer
Deleting(o)     == o.life = "deleting"

WithFinalizer(o) == [o EXCEPT !.finalizer = TRUE]

AddFinalizerOk ==
  /\ At("meta") /\ ~Deleting(loc) /\ ~HasFinalizer(loc)
  /\ WriteSucceeds(WithFinalizer(loc), "meta")

AddFinalizerFails ==
  /\ At("meta") /\ ~Deleting(loc) /\ ~HasFinalizer(loc)
  /\ WriteFails(WithFinalizer(loc))

\* Dispatch on State and on the DeletionTimestamp.  Without its finalizer a
\* volume that is being deleted is left alone.
Dispatch ==
  /\ At("meta")
  /\ IF HasFinalizer(loc)
       THEN /\ Goto(IF Deleting(loc) THEN IF found THEN "delete" ELSE "unfinalize"
                    ELSE IF found THEN "mark" ELSE "source")
            /\ UNCHANGED queued
       ELSE Deleting(loc) /\ Done
  /\ Stays

-----------------------------------------------------------------------------
(***************************************************************************)
(* The volume exists: mark it Ready, then resize it if Spec.Size asks so.  *)
(***************************************************************************)
Marked(o) == [o EXCEPT !.ready = "True"]

MarkOk ==
  /\ At("mark")
  /\ \/ loc.ready = "True" /\ Goto("resize") /\ UNCHANGED queued /\ Stays
     \/ loc.ready # "True" /\ WriteSucceeds(Marked(loc), "resize")

MarkFails == At("mark") /\ loc.ready # "True" /\ WriteFails(Marked(loc))

\* List of the volumes with the label VolumeLabel = v, from the cache.
NoOverlays(v) == {}
Overlays(v) == {u \in Volumes : Base[u] = v /\ Present(cache[u]) /\ cache[u].volLabel}

\* The product wraps around: a size that is too large becomes a small one.
ConvertToBytes(value) == (value * UnitBytes) % Width

\* ResizeRequired compares with the capacity that NewVolumeAction read; only
\* this worker changes it.  Neither a smaller size nor a volume that others are
\* based on is resized (both are errors), nor one linked to several domains.
\* (ValuesExpand: a comparison that takes the size for what is written.)
Shrinks(s, c)      == s # NoSize /\ ConvertToBytes(s) < c
ValuesExpand(s, c) == s # NoSize /\ s * UnitBytes > c
Expands(s, c)      == s # NoSize /\ ConvertToBytes(s) > c

ResizeOk ==
  /\ At("resize")
  /\ \/ /\ ~Shrinks(loc.size, capacity[cur]) /\ ~Expands(loc.size, capacity[cur])
        /\ Done
     \/ /\ Expands(loc.size, capacity[cur]) /\ Overlays(cur) = {}
        /\ Goto("grow") /\ UNCHANGED queued
  /\ Stays

ResizeFails ==
  /\ At("resize")
  /\ Shrinks(loc.size, capacity[cur]) \/ Expands(loc.size, capacity[cur])
  /\ Retry
  /\ Stays

\* Resize, or LiveResize if a domain uses the volume: both set the capacity.
Grown == capacity' = [capacity EXCEPT ![cur] = ConvertToBytes(loc.size)]

GrowOk ==
  /\ At("grow")
  /\ Grown /\ Done
  /\ UNCHANGED <<apiVars, cache, storage>>

GrowFails ==
  /\ At("grow")
  /\ Grown \/ UNCHANGED capacity
  /\ Retry
  /\ UNCHANGED <<apiVars, cache, storage>>

-----------------------------------------------------------------------------
(***************************************************************************)
(* The volume does not exist: create.  The labels that protect the pool    *)
(* and the backing store are written before libvirt is asked.              *)
(***************************************************************************)

\* RemoteSource downloads the content; BackingStore needs the Volume object,
\* which the cache holds, to be Ready and libvirt to have the volume.
SourceOk ==
  /\ At("source")
  /\ Goto(IF Base[cur] # NoVolume THEN "backing" ELSE "poolLabel")
  /\ UNCHANGED queued /\ Stays

SourceFails == At("source") /\ cur \in Sourced /\ Goto("unready") /\ UNCHANGED queued /\ Stays

BackingReady(v) ==
  /\ Present(cache[Base[v]])
  /\ cache[Base[v]].ready = "True"
  /\ storage[Base[v]] # "none"

BackingOk ==
  /\ At("backing")
  /\ BackingReady(cur)
  /\ Goto("volLabel")
  /\ UNCHANGED queued /\ Stays

BackingFails == At("backing") /\ Goto("unready") /\ UNCHANGED queued /\ Stays

\* SetLabel reports whether there is anything to Update.
LabelNotSet(o)   == o                    \* the label is set after the Update
WithVolLabel(o)  == [o EXCEPT !.volLabel = TRUE]
WithPoolLabel(o) == [o EXCEPT !.poolLabel = TRUE]

VolLabelOk ==
  /\ At("volLabel")
  /\ \/ loc.volLabel /\ Goto("poolLabel") /\ UNCHANGED queued /\ Stays
     \/ ~loc.volLabel /\ WriteSucceeds(WithVolLabel(loc), "poolLabel")

VolLabelFails == At("volLabel") /\ ~loc.volLabel /\ WriteFails(WithVolLabel(loc))

PoolLabelOk ==
  /\ At("poolLabel")
  /\ \/ loc.poolLabel /\ Goto("make") /\ UNCHANGED queued /\ Stays
     \/ ~loc.poolLabel /\ WriteSucceeds(WithPoolLabel(loc), "make")

PoolLabelFails == At("poolLabel") /\ ~loc.poolLabel /\ WriteFails(WithPoolLabel(loc))

\* StorageVolCreateXML.  libvirt gets the value and the unit of Spec.Size and
\* refuses more bytes than it can count.  Without Spec.Size the capacity is
\* that of the backing store, or the length of the download, which is taken
\* for 0 when the server does not tell it.
\* the capacity left out when Spec.Size is nil
SizeOnly == IF loc.size # NoSize THEN {loc.size * UnitBytes} \cap Bytes ELSE {NoCapacity}

NewCapacity ==
  IF loc.size # NoSize THEN {loc.size * UnitBytes} \cap Bytes
  ELSE IF Base[cur] # NoVolume THEN {capacity[Base[cur]]}
  ELSE Bytes

Made ==
  /\ storage[cur] = "none"
  /\ storage' = [storage EXCEPT ![cur] = IF cur \in Sourced THEN "blank" ELSE "written"]
  /\ \E c \in NewCapacity : capacity' = [capacity EXCEPT ![cur] = c]

MakeOk ==
  /\ At("make")
  /\ Made
  /\ Goto(IF cur \in Sourced THEN "upload" ELSE "created")
  /\ UNCHANGED <<apiVars, cache, queued>>

MakeFails ==
  /\ At("make")
  /\ Made \/ UNCHANGED libvirtVars
  /\ Goto("unready")
  /\ UNCHANGED <<apiVars, cache, queued>>

\* StorageVolUpload
Uploaded == storage' = [storage EXCEPT ![cur] = "written"]

UploadOk ==
  /\ At("upload")
  /\ Uploaded
  /\ Goto("created")
  /\ UNCHANGED <<apiVars, cache, queued, capacity>>

UploadFails ==
  /\ At("upload")
  /\ Uploaded \/ UNCHANGED storage
  /\ Goto("unready")
  /\ UNCHANGED <<apiVars, cache, queued, capacity>>

CreatedOk ==
  /\ At("created")
  /\ locFresh /\ Store(cur, Marked(loc))
  /\ Done
  /\ UNCHANGED <<cache, libvirtVars>>

CreatedFails == At("created") /\ WriteFails(Marked(loc))

-----------------------------------------------------------------------------
(***************************************************************************)
(* The Volume object is being deleted.                                     *)
(***************************************************************************)

\* No volume of the cache is based on it, and no domain uses it.
DeleteOk ==
  /\ At("delete")
  /\ Overlays(cur) = {}
  /\ Goto("drop")
  /\ UNCHANGED queued /\ Stays

Prevented(o) == [o EXCEPT !.prevented = TRUE]

PreventOk ==
  /\ At("delete")
  /\ Retry
  /\ \/ loc.prevented /\ Stays
     \/ ~loc.prevented /\ locFresh /\ Store(cur, Prevented(loc)) /\ UNCHANGED <<cache, libvirtVars>>

PreventFails == At("delete") /\ ~loc.prevented /\ WriteFails(Prevented(loc))

\* StorageVolDelete
Dropped ==
  /\ storage' = [storage EXCEPT ![cur] = "none"]
  /\ capacity' = [capacity EXCEPT ![cur] = NoCapacity]

DropOk ==
  /\ At("drop")
  /\ Dropped
  /\ Goto("unfinalize")
  /\ UNCHANGED <<apiVars, cache, queued>>

DropFails ==
  /\ At("drop")
  /\ Dropped \/ UNCHANGED libvirtVars
  /\ Retry
  /\ UNCHANGED <<apiVars, cache>>

Unfinalized(o) == [o EXCEPT !.finalizer = FALSE]

UnfinalizeOk ==
  /\ At("unfinalize")
  /\ locFresh /\ Store(cur, Unfinalized(loc))
  /\ Done
  /\ UNCHANGED <<cache, libvirtVars>>

UnfinalizeFails == At("unfinalize") /\ WriteFails(Unfinalized(loc))

-----------------------------------------------------------------------------
\* The operator crashes.  The next one lists every object, which fills its
\* cache and its queue, before it reconciles.
Crash ==
  /\ End
  /\ cache' = obj /\ behind' = {}
  /\ queued' = {v \in Volumes : Present(obj[v])}
  /\ UNCHANGED <<obj, libvirtVars>>

StepOk ==
  \/ RefsOk \/ AddFinalizerOk \/ Dispatch \/ MarkOk \/ ResizeOk \/ GrowOk
  \/ SourceOk \/ BackingOk \/ VolLabelOk \/ PoolLabelOk \/ MakeOk \/ UploadOk \/ CreatedOk
  \/ DeleteOk \/ PreventOk \/ DropOk \/ UnfinalizeOk \/ SetUnready

StepFails ==
  \/ RefsUnmet \/ AddFinalizerFails \/ MarkFails \/ ResizeFails \/ GrowFails
  \/ SourceFails \/ BackingFails \/ VolLabelFails \/ PoolLabelFails \/ MakeFails
  \/ UploadFails \/ CreatedFails \/ PreventFails \/ DropFails \/ UnfinalizeFails

Reconcile == StepOk \/ StepFails \/ \E v \in Volumes : Begin(v)

Environment ==
  \/ \E v \in Volumes : UserCreates(v) \/ UserDeletes(v) \/ UserResizes(v) \/ CacheSync(v)
  \/ Crash

Next == Reconcile \/ Environment

Spec == Init /\ [][Next]_vars

(***************************************************************************)
(* The worker and the watch of the cache run, and the queue serves every   *)
(* volume.  From some time on the operator does not crash, users leave the  *)
(* sizes alone, and a step fails only where it cannot succeed (a conflict, *)
(* a backing store that is not Ready, a size that shrinks): libvirt and    *)
(* the API server are back.                                                *)
(***************************************************************************)
Faultless ==
  \/ StepOk
  \/ StepFails /\ ~ENABLED StepOk
  \/ \E v \in Volumes : Begin(v) \/ CacheSync(v) \/ UserCreates(v) \/ UserDeletes(v)

Fairness ==
  /\ WF_vars(Reconcile)
  /\ \A v \in Volumes : WF_vars(CacheSync(v)) /\ SF_vars(Begin(v))
  /\ <>[][Faultless]_vars

FairSpec == Spec /\ Fairness

-----------------------------------------------------------------------------
(***************************************************************************)
(* Properties.                                                             *)
(***************************************************************************)

\* No volume of libvirt is orphaned: as long as one that the operator made is
\* there, so is its object, and its finalizer keeps it there.
StorageIsOwned ==
  \A v \in Volumes \ Preexisting : storage[v] # "none" => obj[v].finalizer

\* A volume that is Ready is there, until its deletion begins; whoever relies
\* on the condition (Domain, another Volume) finds it.
ReadyExists ==
  \A v \in Volumes : obj[v].life = "live" /\ obj[v].ready = "True" => storage[v] # "none"

\* The pool and the backing store of a volume that the operator made are
\* labelled before libvirt has the volume, and stay so: whoever lists the
\* labels of the API server misses no volume.
StorageIsLabelled ==
  \A v \in Volumes \ Preexisting : storage[v] # "none" =>
    obj[v].poolLabel /\ (Base[v] # NoVolume => obj[v].volLabel)

\* Only a volume whose object is being deleted is dropped, whatever old copy
\* of the object the reconcile works on.
DropIsAskedFor ==
  [][\A v \in Volumes : storage[v] # "none" /\ storage'[v] = "none"
       => obj[v].life = "deleting"]_vars

\* The capacity of a volume never shrinks, though Spec.Size may, and though its
\* conversion to bytes may wrap around.
NeverShrinks ==
  [][\A v \in Volumes : storage[v] # "none" /\ storage'[v] # "none"
       => capacity'[v] >= capacity[v]]_vars

\* A volume is only based on one that is there, and the check before a deletion
\* or a resize misses a volume that is based on the one in question only if the
\* cache lags behind it.
Checked == \/ pc = "delete" /\ pc' = "drop"
           \/ pc = "resize" /\ pc' = "grow"

BackingIsKept ==
  [][\A u \in Volumes \ Preexisting : Base[u] # NoVolume =>
       /\ storage[u] = "none" /\ storage'[u] # "none" => storage[Base[u]] # "none"
       /\ storage[u] # "none" /\ cur = Base[u] /\ Checked => u \in behind]_vars

\* A volume that says "Creation succeeded" has its content.
ReadyIsWritten ==
  \A v \in Volumes : obj[v].life = "live" /\ obj[v].ready = "True" => storage[v] = "written"

\* Every deletion is carried out or reported as prevented.
DeletionEnds ==
  \A v \in Volumes : obj[v].life = "deleting" ~> obj[v].life = "gone" \/ obj[v].prevented

TooLarge == {s \in Sizes : s * UnitBytes \notin Bytes}

\* Every volume becomes Ready unless it is deleted, its backing store is not
\* there or libvirt refuses its size.
CreationEnds ==
  \A v \in Volumes :
    obj[v].life = "live" ~>
      \/ obj[v].ready = "True"
      \/ obj[v].life # "live"
      \/ Base[v] # NoVolume /\ obj[Base[v]].life # "live"
      \/ obj[v].size \in TooLarge

-----------------------------------------------------------------------------
(***************************************************************************)
(* What Ownership sees of the volumes that the operator may have made. An   *)
(* object is retired when the cache knows that it is being deleted, and no *)
(* reconcile has an older copy.                                            *)
(***************************************************************************)
Own     == Volumes \ Preexisting
LifeOf  == [v \in Own |-> obj[v].life]
Held    == {v \in Own : obj[v].finalizer}
HasMade == {v \in Own : storage[v] # "none"}
Retired == {v \in Own : cache[v].life \in {"deleting", "gone"}
                       /\ (cur = v => loc.life = "deleting")}

Owning ==
  INSTANCE Ownership WITH
    Objects <- Own, Volatile <- FALSE,
    life <- LifeOf, held <- Held, has <- HasMade, retired <- Retired

\* The controller keeps what Ownership promises, whatever fails and however old
\* the copies of its reconciles are: after StorageVolDelete no reconcile
\* makes the volume again, and its object goes only then.
ImplementsOwnership == Owning!Spec
=============================================================================
