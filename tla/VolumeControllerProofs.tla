----------------------- MODULE VolumeControllerProofs -----------------------
(***************************************************************************)
(* What VolumeController keeps for every set of volumes, backing stores,   *)
(* sources and sizes.                                                      *)
(*                                                                         *)
(* The difficulty is that the reconcile works on copies of the object that *)
(* may be arbitrarily old.  The proofs rest on what even an old copy still *)
(* tells (Tells): deletion is final, labels stay, and the finalizer stays  *)
(* until the storage is gone.  ApiInv is the part of the invariant about   *)
(* the API server, the cache and libvirt; LocalInv is about the reconcile. *)
(***************************************************************************)
EXTENDS VolumeController, TLAPS

\* What an object lacks before it is created and after it is removed; the API
\* server removes an object that is being deleted with its finalizer.
LifeInv ==
  \A v \in Volumes :
    /\ obj[v].life \in {"absent", "gone"} => obj[v] = Blank(obj[v].life, NoSize)
    /\ cache[v].life \in {"absent", "gone"} => cache[v] = Blank(cache[v].life, NoSize)
    /\ obj[v].life = "deleting" => obj[v].finalizer

\* What a copy o of v, however old, still tells of the object.
Tells(o, v) ==
  /\ o.finalizer => \/ obj[v].finalizer
                    \/ o.life = "deleting" /\ storage[v] = "none"
  /\ o.poolLabel => obj[v].poolLabel \/ obj[v].life = "gone"
  /\ o.volLabel => obj[v].volLabel \/ obj[v].life = "gone"
  /\ o.life = "deleting" => obj[v].life \in {"deleting", "gone"}

\* The cache is a copy, the newest one unless it is behind.
CacheInv == \A v \in Volumes : Tells(cache[v], v) /\ (v \notin behind => cache[v] = obj[v])

ApiInv == LifeInv /\ CacheInv /\ StorageIsOwned /\ StorageIsLabelled /\ ReadyExists

\* The copy of the reconcile was taken from the cache.
LocInv ==
  pc # "idle" =>
    /\ Tells(loc, cur)
    /\ locFresh => loc = obj[cur]
    /\ loc.life \in {"live", "deleting"}
    /\ loc.life = "deleting" => cache[cur].life \in {"deleting", "gone"}

\* What has been established where the reconcile is.
Creating == {"source", "backing", "volLabel", "poolLabel", "make"}
Existing == {"mark", "resize", "grow", "upload", "created"}
Dropping == {"delete", "drop", "unfinalize"}

PcInv ==
  /\ pc = "meta" => (found <=> storage[cur] # "none")
  /\ pc \in Creating \cup Existing => loc.life = "live" /\ loc.finalizer
  /\ pc \in Dropping => loc.life = "deleting" /\ loc.finalizer
  /\ pc \in Creating \cup {"unfinalize"} => storage[cur] = "none"
  /\ pc \in Existing \cup {"drop"} => storage[cur] # "none"
  /\ pc = "delete" => storage[cur] # "none"
  /\ pc \in {"backing", "volLabel"} => Base[cur] # NoVolume
  /\ pc \in {"volLabel", "poolLabel", "make"} /\ Base[cur] # NoVolume
       => storage[Base[cur]] # "none"
  /\ pc \in {"poolLabel", "make"} /\ Base[cur] # NoVolume => loc.volLabel
  /\ pc = "make" => loc.poolLabel
  /\ pc = "grow" => loc.size # NoSize

LocalInv == LocInv /\ PcInv

IInv == TypeOK /\ ApiInv /\ LocalInv

-----------------------------------------------------------------------------
(***************************************************************************)
(* Types of the copies a reconcile writes.                                 *)
(***************************************************************************)

\* Each change a reconcile makes to its copy gives an object.
LEMMA WriteTypes ==
  \A o \in Object :
    /\ WithFinalizer(o) \in Object /\ Unfinalized(o) \in Object
    /\ WithVolLabel(o) \in Object /\ WithPoolLabel(o) \in Object
    /\ Marked(o) \in Object /\ Unready(o) \in Object /\ Prevented(o) \in Object
BY DEF Object, WithFinalizer, Unfinalized, WithVolLabel, WithPoolLabel, Marked, Unready, Prevented

\* The objects that stand for nothing are objects.
LEMMA BlankTypes == NoObject \in Object /\ Gone \in Object
BY DEF NoObject, Gone, Blank, Object, Sizes, NoSize

\* However large a size, its conversion is a number of bytes.
LEMMA ConvertType == \A s \in Sizes \cup {NoSize} : ConvertToBytes(s) \in Bytes
<1> SUFFICES ASSUME NEW s \in Sizes \cup {NoSize} PROVE ConvertToBytes(s) \in Bytes
  OBVIOUS
<1> DEFINE product == s * UnitBytes
<1>1. s \in Nat /\ UnitBytes \in Nat
  BY MaxSizeIsPositive, UnitIsPositive DEF Sizes, NoSize
<1>2. product \in Nat
  BY <1>1
<1> HIDE DEF product
<1>3. product % Width \in 0..(Width - 1)
  BY <1>2, WidthIsPositive
<1> QED
  BY <1>3 DEF ConvertToBytes, Bytes, product

\* What the API server stores is an object.
LEMMA StoredType == \A o \in Object : Stored(o) \in Object
BY BlankTypes DEF Stored

\* A write keeps the types of the API server.
LEMMA StoreTypes ==
  ApiTypes => \A v \in Volumes, o \in Object :
    Store(v, o) /\ cache' = cache /\ queued' \in SUBSET Volumes => ApiTypes'
BY StoredType DEF ApiTypes, Store

\* The end of a reconcile keeps the types of its variables.
LEMMA EndTypes == End => LocalTypes'
BY BlankTypes DEF End, LocalTypes, PcStates

-----------------------------------------------------------------------------
(***************************************************************************)
(* Writes to the API server.                                               *)
(***************************************************************************)

\* o is what a user or a reconcile may make of the object of v: deletion is
\* final, labels and finalizer stay, and what is marked Ready exists.
Grows(o, v) ==
  /\ o.life \in {"live", "deleting"}
  /\ obj[v].life # "gone"
  /\ obj[v].life = "deleting" => o.life = "deleting"
  /\ obj[v].finalizer => o.finalizer
  /\ obj[v].poolLabel => o.poolLabel
  /\ obj[v].volLabel => o.volLabel
  /\ o.life = "live" /\ o.ready = "True" => storage[v] # "none"

\* Such a write keeps the invariant of the API server.
LEMMA GrowsApiInv ==
  ApiTypes /\ LibvirtTypes /\ ApiInv =>
    \A v \in Volumes, o \in Object :
      Grows(o, v) /\ Store(v, o) /\ UNCHANGED <<cache, libvirtVars>> => ApiInv'
<1> SUFFICES ASSUME ApiTypes, LibvirtTypes, ApiInv, NEW v \in Volumes, NEW o \in Object,
                    Grows(o, v), Store(v, o), UNCHANGED <<cache, libvirtVars>>
             PROVE  ApiInv'
  OBVIOUS
<1> USE DEF libvirtVars
<1>1. obj'[v] = Stored(o) /\ \A u \in Volumes \ {v} : obj'[u] = obj[u]
  BY DEF Store, ApiTypes
<1>2. \/ obj'[v] = o /\ (o.life = "deleting" => o.finalizer)
      \/ obj'[v] = Gone /\ ~obj[v].finalizer /\ ~o.finalizer
  BY <1>1 DEF Stored, Grows
<1>3. Gone.life = "gone" /\ ~Gone.finalizer /\ Gone = Blank("gone", NoSize)
  BY DEF Gone, Blank
<1>4. LifeInv'
  BY <1>1, <1>2, <1>3 DEF ApiInv, LifeInv, Grows
<1>5. CacheInv'
  <2>1. \A u \in Volumes \ {v} : Tells(cache[u], u)' /\ (u \notin behind' => cache'[u] = obj'[u])
    BY <1>1 DEF ApiInv, CacheInv, Tells, Store, ApiTypes
  <2>2. Tells(cache[v], v)'
    BY <1>1, <1>2, <1>3 DEF ApiInv, CacheInv, Tells, Grows
  <2> QED
    BY <2>1, <2>2 DEF CacheInv, Store, ApiTypes
<1>6. StorageIsOwned'
  BY <1>1, <1>2 DEF ApiInv, StorageIsOwned, Grows
<1>7. StorageIsLabelled'
  BY <1>1, <1>2, <1>3 DEF ApiInv, StorageIsLabelled, StorageIsOwned, Grows
<1>8. ReadyExists'
  BY <1>1, <1>2, <1>3 DEF ApiInv, ReadyExists, Grows
<1> QED
  BY <1>4, <1>5, <1>6, <1>7, <1>8 DEF ApiInv

\* An update that a reconcile makes on its copy, outside a deletion or with the
\* finalizer: o keeps the life and the labels of the copy.
Keeps(o) ==
  /\ o.life = loc.life
  /\ loc.finalizer => o.finalizer
  /\ loc.poolLabel => o.poolLabel
  /\ loc.volLabel => o.volLabel
  /\ o.life = "live" /\ o.ready = "True" => storage[cur] # "none"

\* It grows the object, since the API server accepts it for the newest copy only.
LEMMA KeepsGrows ==
  IInv /\ pc # "idle" /\ locFresh => \A o \in Object : Keeps(o) => Grows(o, cur)
<1> SUFFICES ASSUME IInv, pc # "idle", locFresh, NEW o \in Object, Keeps(o)
             PROVE  Grows(o, cur)
  OBVIOUS
<1>1. loc = obj[cur] /\ loc.life \in {"live", "deleting"}
  BY DEF IInv, LocalInv, LocInv
<1> QED
  BY <1>1 DEF Keeps, Grows

\* What a reconcile writes before the deletion keeps its copy in this sense.
LEMMA WritesKeep ==
  IInv /\ pc # "idle" /\ locFresh =>
    /\ Keeps(WithFinalizer(loc)) /\ Keeps(WithVolLabel(loc)) /\ Keeps(WithPoolLabel(loc))
    /\ Keeps(Unready(loc)) /\ Keeps(Prevented(loc))
    /\ storage[cur] # "none" => Keeps(Marked(loc))
<1> SUFFICES ASSUME IInv, pc # "idle", locFresh
             PROVE  /\ Keeps(WithFinalizer(loc)) /\ Keeps(WithVolLabel(loc))
                    /\ Keeps(WithPoolLabel(loc))
                    /\ Keeps(Unready(loc)) /\ Keeps(Prevented(loc))
                    /\ storage[cur] # "none" => Keeps(Marked(loc))
  OBVIOUS
<1>1. loc \in Object /\ cur \in Volumes /\ loc = obj[cur]
  BY DEF IInv, TypeOK, LocalTypes, LocalInv, LocInv
<1>2. loc.life = "live" /\ loc.ready = "True" => storage[cur] # "none"
  BY <1>1 DEF IInv, ApiInv, ReadyExists
<1> QED
  BY <1>1, <1>2
     DEF Object, Keeps, WithFinalizer, WithVolLabel, WithPoolLabel, Unready, Prevented, Marked

\* A reconcile that ends leaves no obligation about its variables.
LEMMA EndLocalInv == End => LocalInv'
BY DEF End, LocalInv, LocInv, PcInv, Creating, Existing, Dropping

\* A write that fails, or succeeds as the last call of the reconcile, and whose
\* object keeps the copy, keeps the invariant.
LEMMA LastWrite ==
  IInv /\ pc # "idle" =>
    \A o \in Object :
      /\ locFresh => Keeps(o)
      /\ UNCHANGED apiVars \/ (locFresh /\ Store(cur, o))
      /\ End /\ queued' \in SUBSET Volumes /\ UNCHANGED <<cache, libvirtVars>>
      => IInv'
<1> SUFFICES ASSUME IInv, pc # "idle", NEW o \in Object, locFresh => Keeps(o),
                    UNCHANGED apiVars \/ (locFresh /\ Store(cur, o)),
                    End, queued' \in SUBSET Volumes, UNCHANGED <<cache, libvirtVars>>
             PROVE  IInv'
  OBVIOUS
<1>1. cur \in Volumes
  BY DEF IInv, TypeOK, LocalTypes
<1>2. LocalTypes' /\ LocalInv'
  BY EndTypes, EndLocalInv
<1>3. LibvirtTypes'
  BY DEF IInv, TypeOK, LibvirtTypes, libvirtVars
<1>4. CASE UNCHANGED apiVars
  <2>1. ApiTypes'
    BY <1>4 DEF IInv, TypeOK, ApiTypes, apiVars
  <2>2. ApiInv'
    BY <1>4 DEF IInv, ApiInv, LifeInv, CacheInv, Tells, StorageIsOwned, StorageIsLabelled,
                ReadyExists, apiVars, libvirtVars
  <2> QED
    BY <2>1, <2>2, <1>2, <1>3 DEF IInv, TypeOK
<1>5. CASE locFresh /\ Store(cur, o)
  <2>1. ApiTypes'
    BY <1>1, <1>5, StoreTypes DEF IInv, TypeOK
  <2>2. ApiInv'
    BY <1>1, <1>5, KeepsGrows, GrowsApiInv DEF IInv, TypeOK
  <2> QED
    BY <2>1, <2>2, <1>2, <1>3 DEF IInv, TypeOK
<1> QED
  BY <1>4, <1>5

\* A step of the reconcile that changes neither the API server, the cache nor
\* libvirt, and that ends it.
LEMMA QuietEnd ==
  IInv /\ Stays /\ End /\ queued' \in SUBSET Volumes => IInv'
<1> SUFFICES ASSUME IInv, Stays, End, queued' \in SUBSET Volumes PROVE IInv'
  OBVIOUS
<1>1. LocalTypes' /\ LocalInv'
  BY EndTypes, EndLocalInv
<1>2. ApiTypes' /\ LibvirtTypes'
  BY DEF IInv, TypeOK, ApiTypes, LibvirtTypes, Stays, apiVars, libvirtVars
<1>3. ApiInv'
  BY DEF IInv, ApiInv, LifeInv, CacheInv, Tells, StorageIsOwned, StorageIsLabelled,
         ReadyExists, Stays, apiVars, libvirtVars
<1> QED
  BY <1>1, <1>2, <1>3 DEF IInv, TypeOK

\* A step that only moves the reconcile on.
LEMMA QuietStep ==
  /\ IInv /\ pc # "idle" /\ Stays /\ UNCHANGED <<queued, cur, loc, locFresh>>
  /\ pc' \in PcStates \ {"idle"} /\ found' \in BOOLEAN /\ PcInv'
  => IInv'
<1> SUFFICES ASSUME IInv, pc # "idle", Stays, UNCHANGED <<queued, cur, loc, locFresh>>,
                    pc' \in PcStates \ {"idle"}, found' \in BOOLEAN, PcInv'
             PROVE  IInv'
  OBVIOUS
<1>1. ApiTypes' /\ LibvirtTypes'
  BY DEF IInv, TypeOK, ApiTypes, LibvirtTypes, Stays, apiVars, libvirtVars
<1>2. LocalTypes'
  BY DEF IInv, TypeOK, LocalTypes
<1>3. ApiInv'
  BY DEF IInv, ApiInv, LifeInv, CacheInv, Tells, StorageIsOwned, StorageIsLabelled,
         ReadyExists, Stays, apiVars, libvirtVars
<1>4. LocInv'
  BY DEF IInv, LocalInv, LocInv, Tells, Stays, apiVars, libvirtVars
<1> QED
  BY <1>1, <1>2, <1>3, <1>4 DEF IInv, TypeOK, LocalInv

\* A successful write in the middle of a reconcile.
LEMMA MiddleWrite ==
  IInv /\ pc # "idle" =>
    \A o \in Object, l \in PcStates \ {"idle"} :
      /\ locFresh => Keeps(o)
      /\ o.finalizer \/ o.life = "live"
      /\ WriteSucceeds(o, l)
      /\ PcInv'
      => IInv'
<1> SUFFICES ASSUME IInv, pc # "idle", NEW o \in Object, NEW l \in PcStates \ {"idle"},
                    locFresh => Keeps(o), o.finalizer \/ o.life = "live",
                    WriteSucceeds(o, l), PcInv'
             PROVE  IInv'
  OBVIOUS
<1>1. cur \in Volumes /\ locFresh /\ Store(cur, o) /\ Stored(o) = o
  BY DEF IInv, TypeOK, LocalTypes, WriteSucceeds, Stored, Object
<1>2. ApiTypes'
  BY <1>1, StoreTypes DEF IInv, TypeOK, ApiTypes, WriteSucceeds
<1>3. LibvirtTypes'
  BY DEF IInv, TypeOK, LibvirtTypes, libvirtVars, WriteSucceeds
<1>4. LocalTypes'
  BY DEF IInv, TypeOK, LocalTypes, WriteSucceeds
<1>5. ApiInv'
  BY <1>1, KeepsGrows, GrowsApiInv DEF IInv, TypeOK, WriteSucceeds
<1>6. LocInv'
  <2>1. obj'[cur] = o /\ loc' = o /\ cur' = cur /\ cache' = cache /\ o.life = loc.life
    BY <1>1 DEF Store, WriteSucceeds, IInv, TypeOK, ApiTypes, Keeps
  <2> QED
    BY <2>1 DEF IInv, LocalInv, LocInv, Tells
<1> QED
  BY <1>2, <1>3, <1>4, <1>5, <1>6 DEF IInv, TypeOK, LocalInv

-----------------------------------------------------------------------------
(***************************************************************************)
(* The steps of the environment.                                           *)
(***************************************************************************)

\* An object that is not there has neither finalizer nor labels, in the API
\* server and in the cache.
LEMMA GoneLacks ==
  LifeInv => \A v \in Volumes :
    /\ obj[v].life \in {"absent", "gone"} =>
         ~obj[v].finalizer /\ ~obj[v].poolLabel /\ ~obj[v].volLabel
    /\ cache[v].life \in {"absent", "gone"} => ~cache[v].finalizer
<1>1. \A l : LET b == Blank(l, NoSize) IN ~b.finalizer /\ ~b.poolLabel /\ ~b.volLabel
  BY DEF Blank
<1> QED
  BY <1>1 DEF LifeInv

\* A write of a user keeps the invariant, whatever the reconcile is doing.
LEMMA UserWriteIInv ==
  IInv => \A v \in Volumes, o \in Object : Grows(o, v) /\ UserWrites(v, o) => IInv'
<1> SUFFICES ASSUME IInv, NEW v \in Volumes, NEW o \in Object, Grows(o, v), UserWrites(v, o)
             PROVE  IInv'
  OBVIOUS
<1>1. ApiTypes'
  BY StoreTypes DEF IInv, TypeOK, ApiTypes, UserWrites
<1>2. LibvirtTypes' /\ LocalTypes'
  BY DEF IInv, TypeOK, LibvirtTypes, LocalTypes, UserWrites, libvirtVars
<1>3. ApiInv'
  BY GrowsApiInv DEF IInv, TypeOK, UserWrites
<1>4. PcInv'
  BY DEF IInv, LocalInv, PcInv, UserWrites, libvirtVars
<1>5. LocInv'
  <2>1. /\ \A u \in Volumes \ {v} : obj'[u] = obj[u]
        /\ obj'[v] = o \/ (obj'[v] = Gone /\ ~obj[v].finalizer)
    BY DEF UserWrites, Store, Stored, Grows, IInv, TypeOK, ApiTypes
  <2>2. Gone.life = "gone" /\ UNCHANGED <<cache, storage, pc, cur, loc>>
        /\ locFresh' = (locFresh /\ v # cur)
    BY DEF Gone, Blank, UserWrites, libvirtVars
  <2>3. ASSUME pc # "idle" PROVE Tells(loc, cur)' /\ cur \in Volumes
    BY <2>1, <2>2, <2>3
       DEF IInv, TypeOK, LocalTypes, LocalInv, LocInv, Tells, Grows
  <2> QED
    BY <2>1, <2>2, <2>3 DEF IInv, LocalInv, LocInv
<1> QED
  BY <1>1, <1>2, <1>3, <1>4, <1>5 DEF IInv, TypeOK, LocalInv

\* Users create, delete and resize volumes.
LEMMA UserIInv ==
  ASSUME IInv, NEW v \in Volumes, UserCreates(v) \/ UserDeletes(v) \/ UserResizes(v)
  PROVE  IInv'
<1>0. obj[v] \in Object /\ LifeInv /\ ReadyExists
  BY DEF IInv, TypeOK, ApiTypes, ApiInv
<1>1. CASE UserCreates(v)
  <2>1. PICK s \in Sizes \cup {NoSize} : UserWrites(v, Blank("live", s))
    BY <1>1 DEF UserCreates, SizesOf
  <2>2. Blank("live", s) \in Object
    BY DEF Blank, Object
  <2>3. obj[v].life = "absent" /\ ~obj[v].finalizer /\ ~obj[v].poolLabel /\ ~obj[v].volLabel
    BY <1>0, <1>1, GoneLacks DEF UserCreates
  <2>4. Blank("live", s).life = "live" /\ Blank("live", s).ready = "unset"
    BY DEF Blank
  <2>5. Grows(Blank("live", s), v)
    BY <2>3, <2>4 DEF Grows
  <2> QED
    BY <2>1, <2>2, <2>5, UserWriteIInv
<1>2. CASE UserDeletes(v)
  <2> DEFINE o == [obj[v] EXCEPT !.life = "deleting"]
  <2>1. o \in Object /\ Grows(o, v)
    BY <1>0, <1>2 DEF UserDeletes, Object, Grows
  <2> QED
    BY <1>2, <2>1, UserWriteIInv DEF UserDeletes
<1>3. CASE UserResizes(v)
  <2>1. PICK s \in Sizes \cup {NoSize} : UserWrites(v, [obj[v] EXCEPT !.size = s])
    BY <1>3 DEF UserResizes, SizesOf
  <2>2. [obj[v] EXCEPT !.size = s] \in Object /\ Grows([obj[v] EXCEPT !.size = s], v)
    BY <1>0, <1>3 DEF UserResizes, Present, Object, Grows, ReadyExists
  <2> QED
    BY <2>1, <2>2, UserWriteIInv
<1> QED
  BY <1>1, <1>2, <1>3

\* The newest version tells of itself what a copy does.
LEMMA NewestTells == LifeInv => \A v \in Volumes : Tells(obj[v], v)
BY DEF LifeInv, Tells, Blank

\* The cache catches up with a write.
LEMMA CacheSyncIInv == ASSUME IInv, NEW v \in Volumes, CacheSync(v) PROVE IInv'
<1>1. ApiTypes'
  BY DEF IInv, TypeOK, ApiTypes, CacheSync
<1>2. LibvirtTypes' /\ LocalTypes'
  BY DEF IInv, TypeOK, LibvirtTypes, LocalTypes, CacheSync, libvirtVars, localVars
<1>3. /\ \A u \in Volumes \ {v} : cache'[u] = cache[u]
      /\ cache'[v] = obj[v] /\ behind' = behind \ {v}
      /\ UNCHANGED <<obj, storage, pc, cur, loc, locFresh, found>>
  BY DEF CacheSync, IInv, TypeOK, ApiTypes, libvirtVars, localVars
<1>4. ApiInv'
  BY <1>3, NewestTells
     DEF IInv, ApiInv, LifeInv, CacheInv, Tells, StorageIsOwned, StorageIsLabelled, ReadyExists
<1>5. LocInv'
  BY <1>3 DEF IInv, LocalInv, LocInv, Tells, TypeOK, LocalTypes
<1>6. PcInv'
  BY <1>3 DEF IInv, LocalInv, PcInv
<1> QED
  BY <1>1, <1>2, <1>4, <1>5, <1>6 DEF IInv, TypeOK, LocalInv

\* The operator restarts with an empty memory and a new cache.
LEMMA CrashIInv == ASSUME IInv, Crash PROVE IInv'
<1>1. ApiTypes' /\ LibvirtTypes'
  BY DEF IInv, TypeOK, ApiTypes, LibvirtTypes, Crash, libvirtVars
<1>2. LocalTypes' /\ LocalInv'
  BY EndTypes, EndLocalInv DEF Crash
<1>3. ApiInv'
  BY NewestTells DEF IInv, ApiInv, LifeInv, CacheInv, Tells, StorageIsOwned,
     StorageIsLabelled, ReadyExists, Crash, libvirtVars
<1> QED
  BY <1>1, <1>2, <1>3 DEF IInv, TypeOK

\* A reconcile begins with a copy from the cache.
LEMMA BeginIInv == ASSUME IInv, NEW v \in Volumes, Begin(v) PROVE IInv'
<1>0. queued' \in SUBSET Volumes
  BY DEF IInv, TypeOK, ApiTypes, Begin
<1>1. CASE ~Present(cache[v])
  BY <1>0, <1>1, QuietEnd DEF Begin
<1>2. CASE Present(cache[v])
  <2>1. /\ pc' = "refs" /\ cur' = v /\ loc' = cache[v] /\ locFresh' = (v \notin behind)
        /\ found' = FALSE /\ Stays
    BY <1>2 DEF Begin
  <2>2. ApiTypes' /\ LibvirtTypes'
    BY <1>0, <2>1 DEF IInv, TypeOK, ApiTypes, LibvirtTypes, Stays, apiVars, libvirtVars
  <2>3. LocalTypes'
    BY <2>1, NoVolumeIsNoVolume DEF IInv, TypeOK, ApiTypes, LocalTypes, PcStates
  <2>4. ApiInv'
    BY <2>1 DEF IInv, ApiInv, LifeInv, CacheInv, Tells, StorageIsOwned, StorageIsLabelled,
       ReadyExists, Stays, apiVars, libvirtVars
  <2>5. LocInv'
    BY <1>2, <2>1 DEF IInv, ApiInv, CacheInv, LocInv, Tells, Present, Stays, apiVars, libvirtVars
  <2>6. PcInv'
    BY <2>1 DEF PcInv, Creating, Existing, Dropping
  <2> QED
    BY <2>2, <2>3, <2>4, <2>5, <2>6 DEF IInv, TypeOK, LocalInv
<1> QED
  BY <1>1, <1>2

-----------------------------------------------------------------------------
(***************************************************************************)
(* The steps of the reconcile.                                             *)
(***************************************************************************)

\* What a step of the reconcile finds.
LEMMA AtStep ==
  IInv /\ pc # "idle" =>
    /\ cur \in Volumes /\ loc \in Object /\ pc \in PcStates
    /\ queued \in SUBSET Volumes /\ (queued \cup {cur}) \in SUBSET Volumes
    /\ PcInv /\ LocInv
BY DEF IInv, TypeOK, ApiTypes, LocalTypes, LocalInv

\* The references are resolved or not, and the volume is found or not.
LEMMA RefsIInv ==
  ASSUME IInv, RefsOk \/ RefsUnmet \/ SetUnready PROVE IInv'
<1>1. CASE RefsOk
  <2>1. pc # "idle" /\ Stays /\ UNCHANGED <<queued, cur, loc, locFresh>> /\ pc' = "meta"
    BY <1>1 DEF RefsOk, At
  <2>2. found' \in BOOLEAN /\ (found' <=> storage'[cur'] # "none")
    BY <1>1 DEF RefsOk, Exists, Stays, libvirtVars
  <2>3. PcInv'
    BY <2>1, <2>2 DEF PcInv, Creating, Existing, Dropping
  <2> QED
    BY <2>1, <2>2, <2>3, QuietStep DEF PcStates
<1>2. CASE RefsUnmet
  <2>1. CASE Retry
    BY <1>2, <2>1, AtStep, QuietEnd DEF RefsUnmet, Retry, At
  <2>2. CASE Goto("unready") /\ UNCHANGED queued
    <3>1. PcInv'
      BY <2>2 DEF Goto, PcInv, Creating, Existing, Dropping
    <3> QED
      BY <1>2, <2>2, <3>1, AtStep, QuietStep DEF RefsUnmet, At, Goto, PcStates, IInv, TypeOK, LocalTypes
  <2> QED
    BY <1>2, <2>1, <2>2 DEF RefsUnmet
<1>3. CASE SetUnready
  <2>1. CASE Retry /\ Stays
    BY <1>3, <2>1, AtStep, QuietEnd DEF SetUnready, Retry, At
  <2>2. CASE WriteFails(Unready(loc))
    BY <1>3, <2>2, AtStep, WriteTypes, WritesKeep, LastWrite DEF SetUnready, WriteFails, Retry, At
  <2> QED
    BY <1>3, <2>1, <2>2 DEF SetUnready
<1> QED
  BY <1>1, <1>2, <1>3

\* The finalizer is added, and the reconcile takes its way.
LEMMA MetaIInv ==
  ASSUME IInv, AddFinalizerOk \/ AddFinalizerFails \/ Dispatch PROVE IInv'
<1>1. CASE AddFinalizerOk
  <2>1. pc = "meta" /\ WriteSucceeds(WithFinalizer(loc), "meta")
    BY <1>1 DEF AddFinalizerOk, At
  <2>2. PcInv'
    BY <2>1, AtStep DEF WriteSucceeds, libvirtVars, PcInv, Creating, Existing, Dropping
  <2>3. WithFinalizer(loc).finalizer
    BY <2>1, AtStep DEF WithFinalizer, Object
  <2> QED
    BY <2>1, <2>2, <2>3, AtStep, WriteTypes, WritesKeep, MiddleWrite DEF PcStates
<1>2. CASE AddFinalizerFails
  BY <1>2, AtStep, WriteTypes, WritesKeep, LastWrite DEF AddFinalizerFails, WriteFails, Retry, At
<1>3. CASE Dispatch
  <2>1. pc = "meta" /\ Stays
    BY <1>3 DEF Dispatch, At
  <2>2. CASE Done
    BY <2>1, <2>2, AtStep, QuietEnd DEF Done
  <2>3. CASE HasFinalizer(loc)
    <3>1. /\ UNCHANGED <<queued, cur, loc, locFresh, found>>
          /\ pc' = IF Deleting(loc) THEN IF found THEN "delete" ELSE "unfinalize"
                   ELSE IF found THEN "mark" ELSE "source"
      BY <1>3, <2>3 DEF Dispatch, Goto
    <3>2. PcInv'
      BY <2>1, <2>3, <3>1, AtStep
         DEF PcInv, LocInv, Creating, Existing, Dropping, HasFinalizer, Deleting, Stays, libvirtVars
    <3> QED
      BY <2>1, <3>1, <3>2, QuietStep DEF PcStates, IInv, TypeOK, LocalTypes
  <2> QED
    BY <1>3, <2>2, <2>3 DEF Dispatch
<1> QED
  BY <1>1, <1>2, <1>3

\* A step that only changes capacities of volumes that exist, and ends.
LEMMA CapacityEnd ==
  /\ IInv /\ UNCHANGED <<apiVars, cache, storage>> /\ LibvirtTypes'
  /\ End /\ queued' \in SUBSET Volumes
  => IInv'
<1> SUFFICES ASSUME IInv, UNCHANGED <<apiVars, cache, storage>>, LibvirtTypes',
                    End, queued' \in SUBSET Volumes
             PROVE  IInv'
  OBVIOUS
<1>1. ApiTypes' /\ ApiInv'
  BY DEF IInv, TypeOK, ApiTypes, ApiInv, LifeInv, CacheInv, Tells, StorageIsOwned,
         StorageIsLabelled, ReadyExists, apiVars
<1> QED
  BY <1>1, EndTypes, EndLocalInv DEF IInv, TypeOK

\* An existing volume is marked Ready and resized.
LEMMA ResizeIInv ==
  ASSUME IInv, MarkOk \/ MarkFails \/ ResizeOk \/ ResizeFails \/ GrowOk \/ GrowFails
  PROVE  IInv'
<1>1. CASE MarkOk
  <2>1. pc = "mark"
    BY <1>1 DEF MarkOk, At
  <2>2. CASE Goto("resize") /\ UNCHANGED queued /\ Stays
    <3>1. PcInv'
      BY <2>1, <2>2, AtStep
         DEF Goto, PcInv, Creating, Existing, Dropping, Stays, libvirtVars
    <3> QED
      BY <2>1, <2>2, <3>1, QuietStep DEF Goto, PcStates, IInv, TypeOK, LocalTypes
  <2>3. CASE WriteSucceeds(Marked(loc), "resize")
    <3>1. Marked(loc).life = "live" /\ Marked(loc).finalizer = loc.finalizer
      BY <2>1, AtStep DEF Marked, Object, PcInv, Existing
    <3>2. PcInv'
      BY <2>1, <2>3, <3>1, AtStep
         DEF WriteSucceeds, libvirtVars, PcInv, Creating, Existing, Dropping
    <3> QED
      BY <2>1, <2>3, <3>1, <3>2, AtStep, WriteTypes, WritesKeep, MiddleWrite
         DEF PcStates, PcInv, Existing
  <2> QED
    BY <1>1, <2>2, <2>3 DEF MarkOk
<1>2. CASE MarkFails
  BY <1>2, AtStep, WriteTypes, WritesKeep, LastWrite
     DEF MarkFails, WriteFails, Retry, At, PcInv, Existing
<1>3. CASE ResizeOk
  <2>1. pc = "resize" /\ Stays
    BY <1>3 DEF ResizeOk, At
  <2>2. CASE Done
    BY <2>1, <2>2, AtStep, QuietEnd DEF Done
  <2>3. CASE Goto("grow") /\ UNCHANGED queued /\ Expands(loc.size, capacity[cur])
    <3>1. PcInv'
      BY <2>1, <2>3, AtStep
         DEF Goto, PcInv, Creating, Existing, Dropping, Stays, libvirtVars, Expands
    <3> QED
      BY <2>1, <2>3, <3>1, QuietStep DEF Goto, PcStates, IInv, TypeOK, LocalTypes
  <2> QED
    BY <1>3, <2>2, <2>3 DEF ResizeOk
<1>4. CASE ResizeFails
  BY <1>4, AtStep, QuietEnd DEF ResizeFails, Retry, At
<1>5. CASE GrowOk \/ GrowFails
  <2>1. pc = "grow" /\ End /\ queued' \in SUBSET Volumes /\ UNCHANGED <<apiVars, cache, storage>>
    BY <1>5, AtStep DEF GrowOk, GrowFails, At, Done, Retry
  <2>2. LibvirtTypes'
    <3>1. LibvirtTypes /\ cur \in Volumes /\ storage[cur] # "none"
          /\ loc.size \in Sizes \cup {NoSize} /\ loc.size # NoSize
      BY <2>1, AtStep DEF IInv, TypeOK, PcInv, Existing, Object
    <3>2. Grown \/ UNCHANGED capacity
      BY <1>5 DEF GrowOk, GrowFails
    <3>3. CASE Grown
      <4>1. ConvertToBytes(loc.size) \in Bytes /\ ConvertToBytes(loc.size) # NoCapacity
        BY <3>1, ConvertType, WidthIsPositive DEF Bytes, NoCapacity
      <4> QED
        BY <2>1, <3>1, <3>3, <4>1 DEF Grown, LibvirtTypes
    <3>4. CASE UNCHANGED capacity
      BY <2>1, <3>1, <3>4 DEF LibvirtTypes
    <3> QED
      BY <3>2, <3>3, <3>4
  <2> QED
    BY <2>1, <2>2, CapacityEnd
<1> QED
  BY <1>1, <1>2, <1>3, <1>4, <1>5

\* A step that moves the reconcile to the end it has after a failure.
LEMMA ToUnready ==
  IInv /\ pc # "idle" /\ Stays /\ Goto("unready") /\ UNCHANGED queued => IInv'
<1> SUFFICES ASSUME IInv, pc # "idle", Stays, Goto("unready"), UNCHANGED queued PROVE IInv'
  OBVIOUS
<1>1. PcInv'
  BY DEF Goto, PcInv, Creating, Existing, Dropping
<1> QED
  BY <1>1, QuietStep DEF Goto, PcStates, IInv, TypeOK, LocalTypes

\* The source and the backing store are there.
LEMMA SourceIInv ==
  ASSUME IInv, SourceOk \/ SourceFails \/ BackingOk \/ BackingFails PROVE IInv'
<1>1. CASE SourceOk
  <2>1. /\ pc = "source" /\ Stays /\ UNCHANGED <<queued, cur, loc, locFresh, found>>
        /\ pc' = IF Base[cur] # NoVolume THEN "backing" ELSE "poolLabel"
    BY <1>1 DEF SourceOk, At, Goto
  <2>2. PcInv'
    BY <2>1, AtStep DEF PcInv, Creating, Existing, Dropping, Stays, libvirtVars
  <2> QED
    BY <2>1, <2>2, QuietStep DEF PcStates, IInv, TypeOK, LocalTypes
<1>2. CASE BackingOk
  <2>1. /\ pc = "backing" /\ Stays /\ UNCHANGED <<queued, cur, loc, locFresh, found>>
        /\ pc' = "volLabel" /\ storage[Base[cur]] # "none"
    BY <1>2 DEF BackingOk, BackingReady, At, Goto
  <2>2. PcInv'
    BY <2>1, AtStep DEF PcInv, Creating, Existing, Dropping, Stays, libvirtVars
  <2> QED
    BY <2>1, <2>2, QuietStep DEF PcStates, IInv, TypeOK, LocalTypes
<1>3. CASE SourceFails \/ BackingFails
  BY <1>3, ToUnready DEF SourceFails, BackingFails, At
<1> QED
  BY <1>1, <1>2, <1>3

\* The labels are written.
LEMMA LabelIInv ==
  ASSUME IInv, VolLabelOk \/ VolLabelFails \/ PoolLabelOk \/ PoolLabelFails PROVE IInv'
<1>1. CASE VolLabelOk
  <2>1. pc = "volLabel"
    BY <1>1 DEF VolLabelOk, At
  <2>2. CASE loc.volLabel /\ Goto("poolLabel") /\ UNCHANGED queued /\ Stays
    <3>1. PcInv'
      BY <2>1, <2>2, AtStep
         DEF Goto, PcInv, Creating, Existing, Dropping, Stays, libvirtVars
    <3> QED
      BY <2>1, <2>2, <3>1, QuietStep DEF Goto, PcStates, IInv, TypeOK, LocalTypes
  <2>3. CASE WriteSucceeds(WithVolLabel(loc), "poolLabel")
    <3>1. /\ WithVolLabel(loc).life = "live" /\ WithVolLabel(loc).finalizer
          /\ WithVolLabel(loc).volLabel
      BY <2>1, AtStep DEF WithVolLabel, Object, PcInv, Creating
    <3>2. PcInv'
      BY <2>1, <2>3, <3>1, AtStep
         DEF WriteSucceeds, libvirtVars, PcInv, Creating, Existing, Dropping
    <3> QED
      BY <2>1, <2>3, <3>1, <3>2, AtStep, WriteTypes, WritesKeep, MiddleWrite DEF PcStates
  <2> QED
    BY <1>1, <2>2, <2>3 DEF VolLabelOk
<1>2. CASE PoolLabelOk
  <2>1. pc = "poolLabel"
    BY <1>2 DEF PoolLabelOk, At
  <2>2. CASE loc.poolLabel /\ Goto("make") /\ UNCHANGED queued /\ Stays
    <3>1. PcInv'
      BY <2>1, <2>2, AtStep
         DEF Goto, PcInv, Creating, Existing, Dropping, Stays, libvirtVars
    <3> QED
      BY <2>1, <2>2, <3>1, QuietStep DEF Goto, PcStates, IInv, TypeOK, LocalTypes
  <2>3. CASE WriteSucceeds(WithPoolLabel(loc), "make")
    <3>1. /\ WithPoolLabel(loc).life = "live" /\ WithPoolLabel(loc).finalizer
          /\ WithPoolLabel(loc).poolLabel /\ WithPoolLabel(loc).volLabel = loc.volLabel
      BY <2>1, AtStep DEF WithPoolLabel, Object, PcInv, Creating
    <3>2. PcInv'
      BY <2>1, <2>3, <3>1, AtStep
         DEF WriteSucceeds, libvirtVars, PcInv, Creating, Existing, Dropping
    <3> QED
      BY <2>1, <2>3, <3>1, <3>2, AtStep, WriteTypes, WritesKeep, MiddleWrite DEF PcStates
  <2> QED
    BY <1>2, <2>2, <2>3 DEF PoolLabelOk
<1>3. CASE VolLabelFails
  BY <1>3, AtStep, WriteTypes, WritesKeep, LastWrite DEF VolLabelFails, WriteFails, Retry, At
<1>4. CASE PoolLabelFails
  BY <1>4, AtStep, WriteTypes, WritesKeep, LastWrite DEF PoolLabelFails, WriteFails, Retry, At
<1> QED
  BY <1>1, <1>2, <1>3, <1>4

\* The capacity of a new volume is one.
LEMMA NewCapacityType ==
  IInv /\ pc = "make" => NewCapacity \subseteq Bytes
<1> SUFFICES ASSUME IInv, pc = "make" PROVE NewCapacity \subseteq Bytes
  OBVIOUS
<1>1. cur \in Volumes
  BY AtStep
<1>2. Base[cur] # NoVolume => Base[cur] \in Volumes /\ storage[Base[cur]] # "none"
  BY <1>1, AtStep, BaseIsReference DEF PcInv
<1>3. Base[cur] # NoVolume => capacity[Base[cur]] \in Bytes
  BY <1>2 DEF IInv, TypeOK, LibvirtTypes
<1> QED
  BY <1>1, <1>3 DEF NewCapacity

\* A step that changes neither the API server nor the cache, and libvirt only
\* for the volume cur, which has a place there before or after it.
LibvirtStep ==
  /\ UNCHANGED <<apiVars, cache, queued, cur, loc, locFresh, found>>
  /\ \A u \in Volumes \ {cur} : storage'[u] = storage[u]
  /\ storage'[cur] # "none"
  /\ LibvirtTypes'
  /\ pc' \in PcStates \ {"idle"}

\* Libvirt creates or fills a volume whose object has its finalizer and labels.
LEMMA LibvirtStepIInv ==
  /\ IInv /\ pc # "idle" /\ loc.life = "live" /\ loc.finalizer /\ LibvirtStep /\ PcInv'
  /\ \/ storage[cur] # "none"
     \/ loc.poolLabel /\ (Base[cur] # NoVolume => loc.volLabel)
  => IInv'
<1> SUFFICES ASSUME IInv, pc # "idle", loc.life = "live", loc.finalizer, LibvirtStep, PcInv',
                    storage[cur] # "none" \/ (loc.poolLabel /\ (Base[cur] # NoVolume => loc.volLabel))
             PROVE  IInv'
  OBVIOUS
<1>1. cur \in Volumes /\ LocInv
  BY AtStep
<1>2. obj[cur].finalizer
  BY <1>1 DEF LocInv, Tells
<1>3. obj[cur].life # "gone"
  BY <1>1, <1>2, GoneLacks DEF IInv, ApiInv
<1>4. ApiTypes' /\ LocalTypes'
  BY DEF LibvirtStep, IInv, TypeOK, ApiTypes, LocalTypes, apiVars
<1>5. LifeInv' /\ ReadyExists'
  BY <1>1 DEF LibvirtStep, IInv, ApiInv, LifeInv, ReadyExists, apiVars
<1>6. CacheInv' /\ LocInv'
  BY <1>1, <1>2 DEF LibvirtStep, IInv, ApiInv, CacheInv, LocInv, Tells, apiVars
<1>7. StorageIsOwned'
  BY <1>1, <1>2 DEF LibvirtStep, IInv, ApiInv, StorageIsOwned, apiVars
<1>8. StorageIsLabelled'
  BY <1>1, <1>3 DEF LibvirtStep, IInv, ApiInv, StorageIsLabelled, LocInv, Tells, apiVars
<1> QED
  BY <1>4, <1>5, <1>6, <1>7, <1>8 DEF IInv, TypeOK, ApiInv, LocalInv, LibvirtStep

\* The volume is created in libvirt.
LEMMA MakeIInv ==
  ASSUME IInv, MakeOk \/ MakeFails PROVE IInv'
<1>1. /\ pc = "make" /\ UNCHANGED <<apiVars, cache, queued, cur, loc, locFresh, found>>
      /\ pc' \in {"upload", "created", "unready"} /\ (pc' # "unready" => Made)
      /\ Made \/ (UNCHANGED libvirtVars /\ pc' = "unready")
  BY DEF MakeOk, MakeFails, At, Goto
<1>2. cur \in Volumes /\ loc.life = "live" /\ loc.finalizer /\ loc.poolLabel
      /\ (Base[cur] # NoVolume => loc.volLabel)
  BY <1>1, AtStep DEF PcInv, Creating
<1>3. CASE Made
  <2>1. /\ \A u \in Volumes \ {cur} : storage'[u] = storage[u] /\ capacity'[u] = capacity[u]
        /\ storage'[cur] \in {"blank", "written"} /\ capacity'[cur] \in NewCapacity
    BY <1>2, <1>3 DEF Made, IInv, TypeOK, LibvirtTypes
  <2>2. capacity'[cur] \in Bytes /\ capacity'[cur] # NoCapacity
    BY <1>1, <2>1, NewCapacityType, WidthIsPositive DEF Bytes, NoCapacity
  <2>3. LibvirtTypes'
    <3>1. storage' \in [Volumes -> {"none", "blank", "written"}]
      BY <1>2, <1>3 DEF Made, IInv, TypeOK, LibvirtTypes
    <3>2. capacity' \in [Volumes -> Bytes \cup {NoCapacity}]
      BY <1>1, <1>2, <1>3, NewCapacityType DEF Made, IInv, TypeOK, LibvirtTypes
    <3> QED
      BY <2>1, <2>2, <3>1, <3>2 DEF IInv, TypeOK, LibvirtTypes
  <2>4. LibvirtStep
    BY <1>1, <2>1, <2>3 DEF LibvirtStep, PcStates
  <2>5. PcInv'
    BY <1>1, <1>2, <2>1 DEF PcInv, Creating, Existing, Dropping
  <2> QED
    BY <1>1, <1>2, <2>4, <2>5, LibvirtStepIInv
<1>4. CASE UNCHANGED libvirtVars /\ pc' = "unready"
  BY <1>1, <1>4, ToUnready DEF Stays, Goto
<1> QED
  BY <1>1, <1>3, <1>4

\* Its content is uploaded, and the volume is marked Ready.
LEMMA UploadIInv ==
  ASSUME IInv, UploadOk \/ UploadFails \/ CreatedOk \/ CreatedFails PROVE IInv'
<1>1. CASE UploadOk \/ UploadFails
  <2>1. /\ pc = "upload" /\ UNCHANGED <<apiVars, cache, queued, capacity, cur, loc, locFresh, found>>
        /\ pc' \in {"created", "unready"} /\ (Uploaded \/ UNCHANGED storage)
    BY <1>1 DEF UploadOk, UploadFails, At, Goto
  <2>2. cur \in Volumes /\ loc.life = "live" /\ loc.finalizer /\ storage[cur] # "none"
    BY <2>1, AtStep DEF PcInv, Existing
  <2>3. /\ \A u \in Volumes \ {cur} : storage'[u] = storage[u]
        /\ storage'[cur] # "none" /\ storage' \in [Volumes -> {"none", "blank", "written"}]
    BY <2>1, <2>2 DEF Uploaded, IInv, TypeOK, LibvirtTypes
  <2>4. LibvirtTypes'
    BY <2>1, <2>2, <2>3 DEF IInv, TypeOK, LibvirtTypes
  <2>5. LibvirtStep
    BY <2>1, <2>3, <2>4 DEF LibvirtStep, PcStates
  <2>6. PcInv'
    BY <2>1, <2>2, <2>3 DEF PcInv, Creating, Existing, Dropping
  <2> QED
    BY <2>1, <2>2, <2>5, <2>6, LibvirtStepIInv
<1>2. CASE CreatedOk \/ CreatedFails
  <2>1. /\ pc = "created" /\ End /\ queued' \in SUBSET Volumes
        /\ UNCHANGED <<cache, libvirtVars>>
        /\ UNCHANGED apiVars \/ (locFresh /\ Store(cur, Marked(loc)))
    BY <1>2, AtStep DEF CreatedOk, CreatedFails, At, Done, WriteFails, Retry
  <2>2. storage[cur] # "none" /\ Marked(loc) \in Object
    BY <2>1, AtStep, WriteTypes DEF PcInv, Existing
  <2> QED
    BY <2>1, <2>2, WritesKeep, LastWrite
<1> QED
  BY <1>1, <1>2

\* A deletion is prevented or goes on.
LEMMA DeleteIInv ==
  ASSUME IInv, DeleteOk \/ PreventOk \/ PreventFails PROVE IInv'
<1>1. CASE DeleteOk
  <2>1. pc = "delete" /\ Stays /\ Goto("drop") /\ UNCHANGED queued
    BY <1>1 DEF DeleteOk, At
  <2>2. PcInv'
    BY <2>1, AtStep DEF Goto, PcInv, Creating, Existing, Dropping, Stays, libvirtVars
  <2> QED
    BY <2>1, <2>2, QuietStep DEF Goto, PcStates, IInv, TypeOK, LocalTypes
<1>2. CASE PreventOk
  <2>1. pc = "delete" /\ End /\ queued' \in SUBSET Volumes
    BY <1>2, AtStep DEF PreventOk, At, Retry
  <2>2. CASE Stays
    BY <2>1, <2>2, QuietEnd
  <2>3. CASE locFresh /\ Store(cur, Prevented(loc)) /\ UNCHANGED <<cache, libvirtVars>>
    BY <2>1, <2>3, AtStep, WriteTypes, WritesKeep, LastWrite
  <2> QED
    BY <1>2, <2>2, <2>3 DEF PreventOk
<1>3. CASE PreventFails
  BY <1>3, AtStep, WriteTypes, WritesKeep, LastWrite DEF PreventFails, WriteFails, Retry, At
<1> QED
  BY <1>1, <1>2, <1>3

\* What a reconcile knows that deletes a volume.
LEMMA AtDropping ==
  IInv /\ pc \in Dropping =>
    /\ cur \in Volumes /\ loc.life = "deleting" /\ loc.finalizer
    /\ obj[cur].life \in {"deleting", "gone"}
    /\ storage[cur] # "none" => obj[cur].life = "deleting"
<1> SUFFICES ASSUME IInv, pc \in Dropping
             PROVE  /\ cur \in Volumes /\ loc.life = "deleting" /\ loc.finalizer
                    /\ obj[cur].life \in {"deleting", "gone"}
                    /\ storage[cur] # "none" => obj[cur].life = "deleting"
  OBVIOUS
<1>1. pc # "idle" /\ PcInv /\ LocInv /\ cur \in Volumes
  BY AtStep DEF Dropping
<1>2. loc.life = "deleting" /\ loc.finalizer
  BY <1>1 DEF PcInv
<1>3. obj[cur].life \in {"deleting", "gone"}
  BY <1>1, <1>2 DEF LocInv, Tells
<1>4. storage[cur] # "none" => obj[cur].finalizer
  BY <1>1, <1>2 DEF LocInv, Tells
<1>5. obj[cur].life = "gone" => ~obj[cur].finalizer
  BY <1>1, GoneLacks DEF IInv, ApiInv
<1> QED
  BY <1>1, <1>2, <1>3, <1>4, <1>5

\* The volume is deleted from libvirt.
LEMMA DropIInv ==
  ASSUME IInv, DropOk \/ DropFails PROVE IInv'
<1>1. /\ pc = "drop" /\ UNCHANGED <<apiVars, cache>>
      /\ Dropped \/ UNCHANGED libvirtVars
      /\ \/ Dropped /\ Goto("unfinalize") /\ UNCHANGED queued
         \/ End /\ queued' \in SUBSET Volumes
  BY AtStep DEF DropOk, DropFails, At, Retry
<1>2. cur \in Volumes /\ obj[cur].life \in {"deleting", "gone"}
  BY <1>1, AtDropping DEF Dropping
<1>3. CASE UNCHANGED libvirtVars
  <2>1. CASE Dropped /\ Goto("unfinalize") /\ UNCHANGED queued
    <3>1. storage[cur] # "none"
      BY <1>1, AtStep DEF PcInv
    <3>2. storage'[cur] = "none"
      BY <1>2, <2>1 DEF Dropped, IInv, TypeOK, LibvirtTypes
    <3> QED
      BY <1>3, <3>1, <3>2 DEF libvirtVars
  <2>2. CASE End /\ queued' \in SUBSET Volumes
    BY <1>1, <1>3, <2>2, QuietEnd DEF Stays
  <2> QED
    BY <1>1, <2>1, <2>2
<1>4. CASE Dropped
  <2>1. /\ storage'[cur] = "none" /\ capacity'[cur] = NoCapacity
        /\ \A u \in Volumes \ {cur} : storage'[u] = storage[u] /\ capacity'[u] = capacity[u]
    BY <1>2, <1>4 DEF Dropped, IInv, TypeOK, LibvirtTypes
  <2>2. LibvirtTypes'
    <3>1. storage' \in [Volumes -> {"none", "blank", "written"}]
          /\ capacity' \in [Volumes -> Bytes \cup {NoCapacity}]
      BY <1>2, <1>4 DEF Dropped, IInv, TypeOK, LibvirtTypes
    <3> QED
      BY <2>1, <3>1 DEF IInv, TypeOK, LibvirtTypes
  <2>3. ApiTypes'
    BY <1>1, AtStep DEF IInv, TypeOK, ApiTypes, apiVars, Goto
  <2>4. LifeInv' /\ StorageIsOwned' /\ StorageIsLabelled' /\ ReadyExists'
    BY <1>1, <1>2, <2>1
       DEF IInv, ApiInv, LifeInv, StorageIsOwned, StorageIsLabelled, ReadyExists, apiVars
  <2>5. CacheInv'
    BY <1>1, <1>2, <2>1 DEF IInv, ApiInv, CacheInv, Tells, apiVars
  <2>6. CASE End
    BY <2>2, <2>3, <2>4, <2>5, <2>6, EndTypes, EndLocalInv DEF IInv, TypeOK, ApiInv
  <2>7. CASE Goto("unfinalize")
    <3>1. LocalTypes'
      BY <1>1, <2>7 DEF Goto, IInv, TypeOK, LocalTypes, PcStates
    <3>2. PcInv'
      BY <1>1, <2>1, <2>7, AtDropping DEF Goto, PcInv, Creating, Existing, Dropping
    <3>3. LocInv'
      BY <1>1, <1>2, <2>1, <2>7, AtStep DEF Goto, LocInv, Tells, apiVars
    <3> QED
      BY <2>2, <2>3, <2>4, <2>5, <3>1, <3>2, <3>3 DEF IInv, TypeOK, ApiInv, LocalInv
  <2> QED
    BY <1>1, <2>6, <2>7
<1> QED
  BY <1>1, <1>3, <1>4

\* The finalizer is removed, and the object with it.
LEMMA UnfinalizeIInv ==
  ASSUME IInv, UnfinalizeOk \/ UnfinalizeFails PROVE IInv'
<1>1. /\ pc = "unfinalize" /\ End /\ queued' \in SUBSET Volumes
      /\ UNCHANGED <<cache, libvirtVars>>
      /\ UNCHANGED apiVars \/ (locFresh /\ Store(cur, Unfinalized(loc)))
  BY AtStep DEF UnfinalizeOk, UnfinalizeFails, At, Done, WriteFails, Retry
<1>2. /\ cur \in Volumes /\ loc \in Object /\ loc.life = "deleting" /\ storage[cur] = "none"
      /\ cache[cur].life \in {"deleting", "gone"}
  BY <1>1, AtStep, AtDropping DEF Dropping, PcInv, LocInv
<1>3. CASE UNCHANGED apiVars
  BY <1>1, <1>3, QuietEnd DEF Stays
<1>4. CASE locFresh /\ Store(cur, Unfinalized(loc))
  <2>1. obj'[cur] = Gone /\ behind' = behind \cup {cur}
        /\ \A u \in Volumes \ {cur} : obj'[u] = obj[u]
    BY <1>2, <1>4 DEF Store, Stored, Unfinalized, Object, IInv, TypeOK, ApiTypes
  <2>2. Gone.life = "gone" /\ ~Gone.finalizer /\ Gone = Blank("gone", NoSize)
    BY DEF Gone, Blank
  <2>3. ApiTypes'
    BY <1>1, <1>2, <1>4, WriteTypes, StoreTypes DEF IInv, TypeOK
  <2>4. LifeInv' /\ StorageIsOwned' /\ StorageIsLabelled' /\ ReadyExists'
    BY <1>1, <1>2, <2>1, <2>2
       DEF IInv, ApiInv, LifeInv, StorageIsOwned, StorageIsLabelled, ReadyExists, libvirtVars
  <2>5. cache[cur].finalizer => cache[cur].life = "deleting"
    BY <1>2, GoneLacks DEF IInv, ApiInv
  <2>6. CacheInv'
    <3>1. \A u \in Volumes \ {cur} : Tells(cache[u], u)' /\ (u \notin behind' => cache'[u] = obj'[u])
      BY <1>1, <2>1 DEF IInv, ApiInv, CacheInv, Tells, libvirtVars
    <3>2. ASSUME NEW u \in Volumes, u = cur
          PROVE  Tells(cache[u], u)' /\ u \in behind'
      <4>1. /\ cache'[u].finalizer => cache'[u].life = "deleting" /\ storage'[u] = "none"
            /\ obj'[u].life = "gone"
        BY <1>1, <1>2, <2>1, <2>2, <2>5, <3>2 DEF libvirtVars
      <4> QED
        BY <4>1, <2>1, <3>2 DEF Tells
    <3> QED
      BY <3>1, <3>2 DEF CacheInv
  <2>7. LibvirtTypes'
    BY <1>1 DEF IInv, TypeOK, LibvirtTypes, libvirtVars
  <2> QED
    BY <1>1, <2>3, <2>4, <2>6, <2>7, EndTypes, EndLocalInv DEF IInv, TypeOK, ApiInv
<1> QED
  BY <1>1, <1>3, <1>4

-----------------------------------------------------------------------------
(***************************************************************************)
(* The theorems.                                                           *)
(***************************************************************************)

\* The operator starts with no object, and libvirt with the volumes that it
\* had before.
LEMMA InitIInv == Init => IInv
<1> SUFFICES ASSUME Init PROVE IInv
  OBVIOUS
<1> USE DEF Init
<1>0. PICK early \in SUBSET Preexisting, c \in Bytes :
        /\ storage = [v \in Volumes |-> IF v \in early THEN "written" ELSE "none"]
        /\ capacity = [v \in Volumes |-> IF v \in early THEN c ELSE NoCapacity]
  OBVIOUS
<1>1. /\ NoObject = Blank("absent", NoSize) /\ NoObject.life = "absent"
      /\ ~NoObject.finalizer /\ ~NoObject.poolLabel /\ ~NoObject.volLabel
  BY DEF NoObject, Blank
<1>2. ApiTypes
  BY BlankTypes DEF ApiTypes
<1>3. LibvirtTypes
  BY <1>0, WidthIsPositive DEF LibvirtTypes, Bytes, NoCapacity
<1>4. LocalTypes
  BY BlankTypes DEF LocalTypes, PcStates
<1>5. ApiInv
  BY <1>0, <1>1 DEF ApiInv, LifeInv, CacheInv, Tells, StorageIsOwned, StorageIsLabelled, ReadyExists
<1>6. LocalInv
  BY DEF LocalInv, LocInv, PcInv, Creating, Existing, Dropping
<1> QED
  BY <1>2, <1>3, <1>4, <1>5, <1>6 DEF IInv, TypeOK

\* Every step keeps the invariant.
LEMMA NextIInv == IInv /\ [Next]_vars => IInv'
<1> SUFFICES ASSUME IInv, [Next]_vars PROVE IInv'
  OBVIOUS
<1>1. CASE Reconcile
  <2>1. CASE \E v \in Volumes : Begin(v)
    BY <2>1, BeginIInv
  <2>2. CASE StepOk
    BY <2>2, RefsIInv, MetaIInv, ResizeIInv, SourceIInv, LabelIInv, MakeIInv, UploadIInv,
       DeleteIInv, DropIInv, UnfinalizeIInv DEF StepOk
  <2>3. CASE StepFails
    BY <2>3, RefsIInv, MetaIInv, ResizeIInv, SourceIInv, LabelIInv, MakeIInv, UploadIInv,
       DeleteIInv, DropIInv, UnfinalizeIInv DEF StepFails
  <2> QED
    BY <1>1, <2>1, <2>2, <2>3 DEF Reconcile
<1>2. CASE Environment
  BY <1>2, UserIInv, CacheSyncIInv, CrashIInv DEF Environment
<1>3. CASE UNCHANGED vars
  <2>1. Stays /\ UNCHANGED <<queued, pc, cur, loc, locFresh, found>>
    BY <1>3 DEF vars, Stays, localVars
  <2>2. TypeOK'
    BY <2>1 DEF IInv, TypeOK, ApiTypes, LibvirtTypes, LocalTypes, Stays, apiVars, libvirtVars
  <2>3. ApiInv'
    BY <2>1 DEF IInv, ApiInv, LifeInv, CacheInv, Tells, StorageIsOwned, StorageIsLabelled,
       ReadyExists, Stays, apiVars, libvirtVars
  <2>4. LocalInv'
    BY <2>1 DEF IInv, LocalInv, LocInv, PcInv, Tells, Stays, apiVars, libvirtVars
  <2> QED
    BY <2>2, <2>3, <2>4 DEF IInv
<1> QED
  BY <1>1, <1>2, <1>3 DEF Next

\* The inductive invariant holds throughout.
THEOREM Invariance == Spec => []IInv
<1>1. Init => IInv
  BY InitIInv
<1>2. IInv /\ [Next]_vars => IInv'
  BY NextIInv
<1> QED
  BY <1>1, <1>2, PTL DEF Spec

\* The variables keep their types: in particular a new volume always gets a
\* capacity, also without Spec.Size (VolumeAction.BackingStore and RemoteSource
\* supply it).
THEOREM TypeCorrect == Spec => []TypeOK
<1>1. IInv => TypeOK
  BY DEF IInv
<1> QED
  BY <1>1, Invariance, PTL

\* A volume that the operator made keeps its object and its finalizer, however
\* stale the copies that reconciles work on, and whatever fails.
THEOREM StorageOwned == Spec => []StorageIsOwned
<1>1. IInv => StorageIsOwned
  BY DEF IInv, ApiInv
<1> QED
  BY <1>1, Invariance, PTL

\* It is labelled for its pool and its backing store as long as it exists.
THEOREM StorageLabelled == Spec => []StorageIsLabelled
<1>1. IInv => StorageIsLabelled
  BY DEF IInv, ApiInv
<1> QED
  BY <1>1, Invariance, PTL

\* A live volume with the condition Ready is there.
THEOREM ReadyVolumesExist == Spec => []ReadyExists
<1>1. IInv => ReadyExists
  BY DEF IInv, ApiInv
<1> QED
  BY <1>1, Invariance, PTL

\* Only a step of the deletion removes a volume from libvirt.
LEMMA OnlyDrops ==
  ASSUME IInv, [Next]_vars, NEW v \in Volumes, storage[v] # "none", storage'[v] = "none"
  PROVE  pc = "drop" /\ v = cur
<1>0. storage \in [Volumes -> {"none", "blank", "written"}]
  BY DEF IInv, TypeOK, LibvirtTypes
<1>1. CASE StepOk
  <2>1. storage' = storage \/ MakeOk \/ UploadOk \/ DropOk
    BY <1>1 DEF StepOk, RefsOk, AddFinalizerOk, Dispatch, MarkOk, ResizeOk, GrowOk, SourceOk,
       BackingOk, VolLabelOk, PoolLabelOk, CreatedOk, DeleteOk, PreventOk, UnfinalizeOk,
       SetUnready, WriteSucceeds, WriteFails, Stays, libvirtVars
  <2> QED
    BY <1>0, <2>1 DEF MakeOk, Made, UploadOk, Uploaded, DropOk, Dropped, At
<1>2. CASE StepFails
  <2>1. storage' = storage \/ MakeFails \/ UploadFails \/ DropFails
    BY <1>2 DEF StepFails, RefsUnmet, AddFinalizerFails, MarkFails, ResizeFails, GrowFails,
       SourceFails, BackingFails, VolLabelFails, PoolLabelFails, CreatedFails, PreventFails,
       UnfinalizeFails, WriteFails, Stays, libvirtVars
  <2> QED
    BY <1>0, <2>1 DEF MakeFails, Made, UploadFails, Uploaded, DropFails, Dropped, At, libvirtVars
<1>3. CASE Environment \/ \E u \in Volumes : Begin(u)
  BY <1>3 DEF Environment, UserCreates, UserDeletes, UserResizes, UserWrites, CacheSync, Crash,
     Begin, Stays, libvirtVars
<1>4. CASE UNCHANGED vars
  BY <1>4 DEF vars, libvirtVars
<1> QED
  BY <1>1, <1>2, <1>3, <1>4 DEF Next, Reconcile

\* A reconcile deletes a volume from libvirt only if its object, as the API
\* server holds it at that moment, is being deleted.
THEOREM DropAskedFor == Spec => DropIsAskedFor
<1>1. IInv /\ [Next]_vars =>
        [\A v \in Volumes : storage[v] # "none" /\ storage'[v] = "none"
           => obj[v].life = "deleting"]_vars
  <2> SUFFICES ASSUME IInv, [Next]_vars, NEW v \in Volumes,
                      storage[v] # "none", storage'[v] = "none"
               PROVE  obj[v].life = "deleting"
    OBVIOUS
  <2>1. pc = "drop" /\ v = cur
    BY OnlyDrops
  <2> QED
    BY <2>1, AtDropping DEF Dropping
<1> QED
  BY <1>1, Invariance, PTL DEF Spec, DropIsAskedFor

-----------------------------------------------------------------------------
(***************************************************************************)
(* Backing stores and capacities.                                          *)
(***************************************************************************)

\* Only a creation makes a volume appear in libvirt.
LEMMA OnlyMakes ==
  ASSUME IInv, [Next]_vars, NEW v \in Volumes, storage[v] = "none", storage'[v] # "none"
  PROVE  v = cur /\ (pc = "make" \/ pc = "upload")
<1>0. storage \in [Volumes -> {"none", "blank", "written"}]
  BY DEF IInv, TypeOK, LibvirtTypes
<1>1. CASE StepOk
  <2>1. storage' = storage \/ MakeOk \/ UploadOk \/ DropOk
    BY <1>1 DEF StepOk, RefsOk, AddFinalizerOk, Dispatch, MarkOk, ResizeOk, GrowOk, SourceOk,
       BackingOk, VolLabelOk, PoolLabelOk, CreatedOk, DeleteOk, PreventOk, UnfinalizeOk,
       SetUnready, WriteSucceeds, WriteFails, Stays, libvirtVars
  <2> QED
    BY <1>0, <2>1 DEF MakeOk, Made, UploadOk, Uploaded, DropOk, Dropped, At
<1>2. CASE StepFails
  <2>1. storage' = storage \/ MakeFails \/ UploadFails \/ DropFails
    BY <1>2 DEF StepFails, RefsUnmet, AddFinalizerFails, MarkFails, ResizeFails, GrowFails,
       SourceFails, BackingFails, VolLabelFails, PoolLabelFails, CreatedFails, PreventFails,
       UnfinalizeFails, WriteFails, Stays, libvirtVars
  <2> QED
    BY <1>0, <2>1 DEF MakeFails, Made, UploadFails, Uploaded, DropFails, Dropped, At, libvirtVars
<1>3. CASE Environment \/ \E u \in Volumes : Begin(u)
  BY <1>3 DEF Environment, UserCreates, UserDeletes, UserResizes, UserWrites, CacheSync, Crash,
     Begin, Stays, libvirtVars
<1>4. CASE UNCHANGED vars
  BY <1>4 DEF vars, libvirtVars
<1> QED
  BY <1>1, <1>2, <1>3, <1>4 DEF Next, Reconcile

\* A reconcile gets past the check of a deletion or of a resize only when the
\* cache shows no volume that is based on this one.
LEMMA OnlyUnused ==
  ASSUME [Next]_vars, Checked
  PROVE  Overlays(cur) = {}
<1>1. CASE StepOk
  BY <1>1 DEF Checked, StepOk, RefsOk, AddFinalizerOk, Dispatch, MarkOk, ResizeOk, GrowOk,
     SourceOk, BackingOk, VolLabelOk, PoolLabelOk, CreatedOk, DeleteOk, PreventOk, UnfinalizeOk,
     SetUnready, WriteSucceeds, MakeOk, UploadOk, DropOk, Goto, End, Done, Retry, At
<1>2. CASE StepFails
  BY <1>2 DEF Checked, StepFails, RefsUnmet, AddFinalizerFails, MarkFails, ResizeFails,
     GrowFails, SourceFails, BackingFails, VolLabelFails, PoolLabelFails, CreatedFails,
     PreventFails, UnfinalizeFails, WriteFails, MakeFails, UploadFails, DropFails, Goto, End,
     Retry, At
<1>3. CASE Environment \/ \E u \in Volumes : Begin(u)
  BY <1>3 DEF Checked, Environment, UserCreates, UserDeletes, UserResizes, UserWrites,
     CacheSync, Crash, Begin, End, localVars
<1>4. CASE UNCHANGED vars
  BY <1>4 DEF Checked, vars, localVars
<1> QED
  BY <1>1, <1>2, <1>3, <1>4 DEF Next, Reconcile

\* The cache, where it is not behind, shows a volume that is based on another.
LEMMA CacheShowsOverlays ==
  ASSUME IInv, NEW u \in Volumes \ Preexisting, Base[u] # NoVolume, storage[u] # "none",
         u \notin behind
  PROVE  u \in Overlays(Base[u])
<1>1. obj[u].finalizer /\ obj[u].volLabel /\ cache[u] = obj[u]
  BY DEF IInv, ApiInv, StorageIsOwned, StorageIsLabelled, CacheInv
<1>2. obj[u].life \in {"live", "deleting"}
  <2>1. obj[u] \in Object
    BY DEF IInv, TypeOK, ApiTypes
  <2>2. obj[u].life \in {"absent", "gone"} => ~obj[u].finalizer
    <3>1. \A l : ~Blank(l, NoSize).finalizer
      BY DEF Blank
    <3> QED
      BY <3>1 DEF IInv, ApiInv, LifeInv
  <2> QED
    BY <1>1, <2>1, <2>2 DEF Object
<1> QED
  BY <1>1, <1>2 DEF Overlays, Present

\* A volume is based on one that is there; neither a deletion nor a resize
\* passes its check while a volume is based on the one in question, unless the
\* cache lags behind that volume.
THEOREM BackingKept == Spec => BackingIsKept
<1>1. IInv /\ [Next]_vars =>
        [\A u \in Volumes \ Preexisting : Base[u] # NoVolume =>
           /\ storage[u] = "none" /\ storage'[u] # "none" => storage[Base[u]] # "none"
           /\ storage[u] # "none" /\ cur = Base[u] /\ Checked => u \in behind]_vars
  <2> SUFFICES ASSUME IInv, [Next]_vars, NEW u \in Volumes \ Preexisting, Base[u] # NoVolume
               PROVE  /\ storage[u] = "none" /\ storage'[u] # "none" => storage[Base[u]] # "none"
                      /\ storage[u] # "none" /\ cur = Base[u] /\ Checked => u \in behind
    OBVIOUS
  <2>1. ASSUME storage[u] = "none", storage'[u] # "none" PROVE storage[Base[u]] # "none"
    <3>1. u = cur /\ (pc = "make" \/ pc = "upload")
      BY <2>1, OnlyMakes
    <3> QED
      BY <2>1, <3>1 DEF IInv, LocalInv, PcInv, Creating, Existing
  <2>2. ASSUME storage[u] # "none", cur = Base[u], Checked, u \notin behind PROVE FALSE
    BY <2>2, OnlyUnused, CacheShowsOverlays
  <2> QED
    BY <2>1, <2>2
<1> QED
  BY <1>1, Invariance, PTL DEF Spec, BackingIsKept

\* What ResizeRequired has found still holds when the volume is resized.
GrowInv == pc = "grow" => Expands(loc.size, capacity[cur])

\* Every step keeps it: while a reconcile is about to resize, the capacity is
\* its own to change.
LEMMA NextGrowInv == IInv /\ GrowInv /\ [Next]_vars => GrowInv'
<1> SUFFICES ASSUME GrowInv, [Next]_vars, pc' = "grow"
             PROVE  Expands(loc.size, capacity[cur])'
  BY DEF GrowInv
<1>1. CASE StepOk
  BY <1>1 DEF StepOk, RefsOk, AddFinalizerOk, Dispatch, MarkOk, ResizeOk, GrowOk,
     SourceOk, BackingOk, VolLabelOk, PoolLabelOk, CreatedOk, DeleteOk, PreventOk, UnfinalizeOk,
     SetUnready, WriteSucceeds, WriteFails, MakeOk, UploadOk, DropOk, Goto, End, Done, Retry, At,
     Stays, libvirtVars, Expands
<1>2. CASE StepFails
  BY <1>2 DEF StepFails, RefsUnmet, AddFinalizerFails, MarkFails, ResizeFails,
     GrowFails, SourceFails, BackingFails, VolLabelFails, PoolLabelFails, CreatedFails,
     PreventFails, UnfinalizeFails, WriteFails, MakeFails, UploadFails, DropFails, Goto, End,
     Retry, At
<1>3. CASE Environment \/ \E u \in Volumes : Begin(u)
  BY <1>3 DEF GrowInv, Environment, UserCreates, UserDeletes, UserResizes, UserWrites,
     CacheSync, Crash, Begin, End, localVars, libvirtVars, Expands
<1>4. CASE UNCHANGED vars
  BY <1>4 DEF GrowInv, vars, localVars, libvirtVars, Expands
<1> QED
  BY <1>1, <1>2, <1>3, <1>4 DEF Next, Reconcile

\* Only a resize changes the capacity of a volume that stays.
LEMMA OnlyGrows ==
  ASSUME IInv, [Next]_vars, NEW v \in Volumes, storage[v] # "none", storage'[v] # "none",
         capacity'[v] # capacity[v]
  PROVE  pc = "grow" /\ v = cur /\ capacity'[v] = ConvertToBytes(loc.size)
<1>0. /\ storage \in [Volumes -> {"none", "blank", "written"}]
      /\ capacity \in [Volumes -> Bytes \cup {NoCapacity}]
  BY DEF IInv, TypeOK, LibvirtTypes
<1>1. CASE StepOk
  <2>1. capacity' = capacity \/ GrowOk \/ MakeOk \/ DropOk
    BY <1>1 DEF StepOk, RefsOk, AddFinalizerOk, Dispatch, MarkOk, ResizeOk, SourceOk,
       BackingOk, VolLabelOk, PoolLabelOk, CreatedOk, DeleteOk, PreventOk, UnfinalizeOk,
       SetUnready, WriteSucceeds, WriteFails, UploadOk, Stays, libvirtVars
  <2>2. CASE GrowOk
    BY <1>0, <2>2 DEF GrowOk, Grown, At
  <2>3. CASE MakeOk
    BY <1>0, <2>3 DEF MakeOk, Made
  <2>4. CASE DropOk
    BY <1>0, <2>4 DEF DropOk, Dropped
  <2> QED
    BY <2>1, <2>2, <2>3, <2>4
<1>2. CASE StepFails
  <2>1. capacity' = capacity \/ GrowFails \/ MakeFails \/ DropFails
    BY <1>2 DEF StepFails, RefsUnmet, AddFinalizerFails, MarkFails, ResizeFails,
       SourceFails, BackingFails, VolLabelFails, PoolLabelFails, CreatedFails, PreventFails,
       UploadFails, UnfinalizeFails, WriteFails, Stays, libvirtVars
  <2>2. CASE GrowFails
    BY <1>0, <2>2 DEF GrowFails, Grown, At
  <2>3. CASE MakeFails
    BY <1>0, <2>3 DEF MakeFails, Made, libvirtVars
  <2>4. CASE DropFails
    BY <1>0, <2>4 DEF DropFails, Dropped, libvirtVars
  <2> QED
    BY <2>1, <2>2, <2>3, <2>4
<1>3. CASE Environment \/ \E u \in Volumes : Begin(u)
  BY <1>3 DEF Environment, UserCreates, UserDeletes, UserResizes, UserWrites, CacheSync, Crash,
     Begin, Stays, libvirtVars
<1>4. CASE UNCHANGED vars
  BY <1>4 DEF vars, libvirtVars
<1> QED
  BY <1>1, <1>2, <1>3, <1>4 DEF Next, Reconcile

\* The capacity of a volume never shrinks, however users change Spec.Size and
\* however old the copy is that a reconcile resizes by, and whether or not the
\* conversion of Spec.Size to bytes wraps around.
THEOREM CapacityNeverShrinks == Spec => NeverShrinks
<1>1. Init => GrowInv
  BY DEF Init, GrowInv
<1>2. IInv /\ GrowInv /\ [Next]_vars =>
        [\A v \in Volumes : storage[v] # "none" /\ storage'[v] # "none"
           => capacity'[v] >= capacity[v]]_vars
  <2> SUFFICES ASSUME IInv, GrowInv, [Next]_vars, NEW v \in Volumes,
                      storage[v] # "none", storage'[v] # "none"
               PROVE  capacity'[v] >= capacity[v]
    OBVIOUS
  <2>1. capacity[v] \in Nat /\ ConvertToBytes(loc.size) \in Nat
    BY ConvertType, WidthIsPositive
       DEF IInv, TypeOK, LibvirtTypes, LocalTypes, Object, Bytes, NoCapacity
  <2>2. CASE capacity'[v] = capacity[v]
    BY <2>1, <2>2
  <2>3. CASE capacity'[v] # capacity[v]
    <3>1. pc = "grow" /\ v = cur /\ capacity'[v] = ConvertToBytes(loc.size)
      BY <2>3, OnlyGrows
    <3> QED
      BY <2>1, <3>1 DEF GrowInv, Expands
  <2> QED
    BY <2>2, <2>3
<1> QED
  BY <1>1, <1>2, NextGrowInv, Invariance, PTL DEF Spec, NeverShrinks

-----------------------------------------------------------------------------
(***************************************************************************)
(* The controller implements Ownership: a write to the API server creates, *)
(* holds, deletes or releases an object or none, StorageVolCreateXML makes *)
(* and StorageVolDelete drops, and any step may retire an object.          *)
(***************************************************************************)
Over(o) == o.life \in {"deleting", "gone"}

\* What the cache tells of a deletion is true.
OverInv == \A v \in Volumes : Over(cache[v]) => Over(obj[v])

\* What the steps do to the objects and to libvirt
Makes  == /\ pc \in {"make", "upload"} /\ obj' = obj
          /\ \E s \in {"blank", "written"} : storage' = [storage EXCEPT ![cur] = s]
Drops  == pc = "drop" /\ obj' = obj /\ storage' = [storage EXCEPT ![cur] = "none"]
Writes == /\ pc # "idle" /\ locFresh /\ storage' = storage
          /\ \E o \in Object :
               /\ Store(cur, o)
               /\ o.life = loc.life
               /\ \/ o.finalizer = loc.finalizer
                  \/ o.finalizer /\ loc.life = "live"
                  \/ ~o.finalizer /\ pc = "unfinalize"
Uses   == /\ storage' = storage
          /\ \E v \in Volumes, o \in Object :
               /\ UserWrites(v, o)
               /\ \/ obj[v].life = "absent" /\ o.life = "live" /\ ~o.finalizer
                  \/ obj[v].life = "live" /\ o.life = "deleting" /\ o.finalizer = obj[v].finalizer
                  \/ /\ Present(obj[v])
                     /\ o.life = obj[v].life /\ o.finalizer = obj[v].finalizer

LEMMA Effects ==
  ASSUME IInv, [Next]_vars
  PROVE  (obj' = obj /\ storage' = storage) \/ Makes \/ Drops \/ Writes \/ Uses
<1>0. /\ loc \in Object /\ storage \in [Volumes -> {"none", "blank", "written"}]
      /\ pc \in {"meta", "mark", "created"} /\ ~Deleting(loc) => loc.life = "live"
  BY DEF IInv, TypeOK, LocalTypes, LibvirtTypes, LocalInv, LocInv, Deleting
<1>1. \A o \in {Unready(loc), Marked(loc), WithVolLabel(loc), WithPoolLabel(loc), Prevented(loc)} :
        o \in Object /\ o.life = loc.life /\ o.finalizer = loc.finalizer
  <2>1. /\ Unready(loc).life = loc.life /\ Unready(loc).finalizer = loc.finalizer
        /\ Marked(loc).life = loc.life /\ Marked(loc).finalizer = loc.finalizer
        /\ Prevented(loc).life = loc.life /\ Prevented(loc).finalizer = loc.finalizer
    BY <1>0 DEF Object, Unready, Marked, Prevented
  <2>2. /\ WithVolLabel(loc).life = loc.life /\ WithVolLabel(loc).finalizer = loc.finalizer
        /\ WithPoolLabel(loc).life = loc.life /\ WithPoolLabel(loc).finalizer = loc.finalizer
    BY <1>0 DEF Object, WithVolLabel, WithPoolLabel
  <2> QED
    BY <1>0, <2>1, <2>2, WriteTypes
<1>2. /\ WithFinalizer(loc) \in Object /\ WithFinalizer(loc).life = loc.life
      /\ WithFinalizer(loc).finalizer
      /\ Unfinalized(loc) \in Object /\ Unfinalized(loc).life = loc.life
      /\ ~Unfinalized(loc).finalizer
  BY <1>0, WriteTypes DEF Object, WithFinalizer, Unfinalized
<1>3. CASE RefsOk \/ Dispatch \/ ResizeOk \/ GrowOk \/ SourceOk \/ BackingOk \/ DeleteOk
           \/ RefsUnmet \/ ResizeFails \/ GrowFails \/ SourceFails \/ BackingFails
           \/ (\E v \in Volumes : Begin(v) \/ CacheSync(v)) \/ Crash \/ UNCHANGED vars
  BY <1>3 DEF RefsOk, Dispatch, ResizeOk, GrowOk, SourceOk, BackingOk, DeleteOk, RefsUnmet,
     ResizeFails, GrowFails, SourceFails, BackingFails, Begin, CacheSync, Crash, vars, Stays,
     apiVars, libvirtVars
<1>4. CASE AddFinalizerOk \/ MarkOk \/ VolLabelOk \/ PoolLabelOk
  BY <1>0, <1>1, <1>2, <1>4
     DEF AddFinalizerOk, MarkOk, VolLabelOk, PoolLabelOk, At, WriteSucceeds, Writes, Stays,
         apiVars, libvirtVars
<1>5. CASE AddFinalizerFails \/ SetUnready \/ MarkFails \/ VolLabelFails \/ PoolLabelFails
           \/ CreatedFails \/ PreventFails \/ UnfinalizeFails
  BY <1>0, <1>1, <1>2, <1>5
     DEF AddFinalizerFails, SetUnready, MarkFails, VolLabelFails, PoolLabelFails, CreatedFails,
         PreventFails, UnfinalizeFails, At, WriteFails, Writes, Stays, apiVars, libvirtVars
<1>6. CASE CreatedOk \/ PreventOk \/ UnfinalizeOk
  BY <1>0, <1>1, <1>2, <1>6
     DEF CreatedOk, PreventOk, UnfinalizeOk, At, Writes, Stays, apiVars, libvirtVars
<1>7. CASE MakeOk \/ MakeFails \/ UploadOk \/ UploadFails
  BY <1>7 DEF MakeOk, MakeFails, UploadOk, UploadFails, At, Made, Uploaded, Makes, apiVars,
     libvirtVars
<1>8. CASE DropOk \/ DropFails
  BY <1>8 DEF DropOk, DropFails, At, Dropped, Drops, apiVars, libvirtVars
<1>9. CASE \E v \in Volumes : UserCreates(v) \/ UserDeletes(v) \/ UserResizes(v)
  <2>1. PICK v \in Volumes : UserCreates(v) \/ UserDeletes(v) \/ UserResizes(v)
    BY <1>9
  <2>2. obj[v] \in Object
    BY DEF IInv, TypeOK, ApiTypes
  <2>3. CASE UserCreates(v)
    <3>1. PICK s \in Sizes \cup {NoSize} : UserWrites(v, Blank("live", s))
      BY <2>3 DEF UserCreates, SizesOf
    <3>2. Blank("live", s) \in Object /\ Blank("live", s).life = "live"
          /\ ~Blank("live", s).finalizer
      BY DEF Blank, Object
    <3> QED
      BY <2>3, <3>1, <3>2 DEF UserCreates, UserWrites, Uses, libvirtVars
  <2>4. CASE UserDeletes(v)
    BY <2>2, <2>4 DEF UserDeletes, UserWrites, Uses, libvirtVars, Object
  <2>5. CASE UserResizes(v)
    <3>1. PICK s \in Sizes \cup {NoSize} : UserWrites(v, [obj[v] EXCEPT !.size = s])
      BY <2>5 DEF UserResizes, SizesOf
    <3> QED
      BY <2>2, <2>5, <3>1 DEF UserResizes, UserWrites, Uses, libvirtVars, Object
  <2> QED
    BY <2>1, <2>3, <2>4, <2>5
<1> QED
  BY <1>3, <1>4, <1>5, <1>6, <1>7, <1>8, <1>9 DEF Next, Reconcile, Environment, StepOk, StepFails

\* An object whose deletion has begun is never live again.
LEMMA OverStays ==
  ASSUME IInv, [Next]_vars, NEW v \in Volumes, Over(obj[v])
  PROVE  Over(obj[v])'
<1>0. obj \in [Volumes -> Object] /\ cur \in Volumes \cup {NoVolume}
  BY DEF IInv, TypeOK, ApiTypes, LocalTypes
<1>1. \A o \in Object : o.life = "deleting" => Over(Stored(o))
  BY DEF Over, Stored, Gone, Blank
<1>2. CASE Writes
  BY <1>0, <1>1, <1>2
     DEF Writes, Store, IInv, LocalInv, LocInv, Over
<1>3. CASE Uses
  BY <1>0, <1>1, <1>3 DEF Uses, UserWrites, Store, Over, Present
<1> QED
  BY <1>2, <1>3, Effects DEF Makes, Drops, Over

\* How the cache and the copy of the reconcile change
LEMMA Views ==
  ASSUME IInv, [Next]_vars
  PROVE  /\ \A v \in Volumes : cache'[v] = cache[v] \/ cache'[v] = obj[v]
         /\ cur' \in Volumes => \/ cur' = cur /\ loc'.life = loc.life
                                \/ cur' # cur /\ loc' = cache[cur'] /\ Present(loc')
<1>0. NoVolume \notin Volumes /\ cache \in [Volumes -> Object] /\ loc \in Object
      /\ cur \in Volumes \cup {NoVolume}
  BY NoVolumeIsNoVolume DEF IInv, TypeOK, ApiTypes, LocalTypes
<1>1. \A o \in {Marked(loc), WithVolLabel(loc), WithPoolLabel(loc), WithFinalizer(loc)} :
        o.life = loc.life
  BY <1>0 DEF Object, Marked, WithVolLabel, WithPoolLabel, WithFinalizer
<1>2. CASE StepOk
  <2>1. cache' = cache
    BY <1>2 DEF StepOk, RefsOk, AddFinalizerOk, Dispatch, MarkOk, ResizeOk, GrowOk, SourceOk,
       BackingOk, VolLabelOk, PoolLabelOk, CreatedOk, DeleteOk, PreventOk, UnfinalizeOk,
       SetUnready, WriteSucceeds, WriteFails, MakeOk, UploadOk, DropOk, Stays
  <2>2. End \/ (cur' = cur /\ loc'.life = loc.life)
    BY <1>1, <1>2 DEF StepOk, RefsOk, AddFinalizerOk, Dispatch, MarkOk, ResizeOk, GrowOk, SourceOk,
       BackingOk, VolLabelOk, PoolLabelOk, CreatedOk, DeleteOk, PreventOk, UnfinalizeOk,
       SetUnready, WriteSucceeds, WriteFails, MakeOk, UploadOk, DropOk, Done, Retry, Goto
  <2> QED
    BY <1>0, <2>1, <2>2 DEF End
<1>3. CASE StepFails
  <2>1. cache' = cache
    BY <1>3 DEF StepFails, RefsUnmet, AddFinalizerFails, MarkFails, ResizeFails, GrowFails,
       SourceFails, BackingFails, VolLabelFails, PoolLabelFails, CreatedFails, PreventFails,
       UnfinalizeFails, WriteFails, MakeFails, UploadFails, DropFails, Stays
  <2>2. End \/ (cur' = cur /\ loc' = loc)
    BY <1>3 DEF StepFails, RefsUnmet, AddFinalizerFails, MarkFails, ResizeFails, GrowFails,
       SourceFails, BackingFails, VolLabelFails, PoolLabelFails, CreatedFails, PreventFails,
       UnfinalizeFails, WriteFails, MakeFails, UploadFails, DropFails, Done, Retry, Goto
  <2> QED
    BY <1>0, <2>1, <2>2 DEF End
<1>4. CASE \E v \in Volumes : Begin(v)
  <2>1. cur = NoVolume
    BY <1>4 DEF IInv, TypeOK, LocalTypes, Begin
  <2> QED
    BY <1>0, <1>4, <2>1 DEF Begin, End, Stays
<1>5. CASE \E v \in Volumes : UserCreates(v) \/ UserDeletes(v) \/ UserResizes(v) \/ CacheSync(v)
  BY <1>0, <1>5 DEF UserCreates, UserDeletes, UserResizes, UserWrites, CacheSync, localVars
<1>6. CASE Crash
  BY <1>0, <1>6 DEF Crash, End
<1>7. CASE UNCHANGED vars
  BY <1>7 DEF vars, localVars
<1> QED
  BY <1>2, <1>3, <1>4, <1>5, <1>6, <1>7 DEF Next, Reconcile, Environment

LEMMA NextOverInv == ASSUME IInv, OverInv, [Next]_vars PROVE OverInv'
<1> SUFFICES ASSUME NEW v \in Volumes, Over(cache[v])' PROVE Over(obj[v])'
  BY DEF OverInv
<1>1. Over(cache[v]) \/ Over(obj[v])
  BY Views DEF Over
<1> QED
  BY <1>1, OverStays DEF OverInv

\* What is retired stays so, and its deletion has begun.
LEMMA NextRetires ==
  ASSUME IInv, OverInv, [Next]_vars
  PROVE  Retired \subseteq Retired' /\ \A v \in Retired' : LifeOf'[v] \in {"deleting", "gone"}
<1>1. ASSUME NEW v \in Retired PROVE v \in Retired'
  <2>1. v \in Own /\ v \in Volumes /\ Over(cache[v]) /\ (cur = v => loc.life = "deleting")
    BY DEF Retired, Own, Over
  <2>2. Over(cache'[v])
    BY <2>1, Views DEF OverInv, Over
  <2>3. cur' = v => loc'.life = "deleting"
    BY <2>1, Views DEF Over, Present
  <2> QED
    BY <2>1, <2>2, <2>3 DEF Retired, Over, Own
<1>2. ASSUME NEW v \in Retired' PROVE LifeOf'[v] \in {"deleting", "gone"}
  <2>1. v \in Own /\ v \in Volumes /\ Over(cache[v])'
    BY DEF Retired, Own, Over
  <2> QED
    BY <2>1, NextOverInv DEF OverInv, Over, LifeOf
<1> QED
  BY <1>1, <1>2

\* A step that changes one volume, as Ownership sees it
LEMMA Seen ==
  ASSUME NEW v \in Volumes,
         \A u \in Volumes \ {v} : /\ obj'[u] = obj[u]
                                  /\ (storage'[u] # "none" <=> storage[u] # "none")
  PROVE  /\ v \notin Own => UNCHANGED <<LifeOf, Held, HasMade>>
         /\ LifeOf' = IF v \in Own THEN [LifeOf EXCEPT ![v] = obj'[v].life] ELSE LifeOf
         /\ Held' \ {v} = Held \ {v} /\ HasMade' \ {v} = HasMade \ {v}
         /\ v \in Own => /\ v \in Held <=> obj[v].finalizer
                         /\ v \in Held' <=> obj'[v].finalizer
                         /\ v \in HasMade <=> storage[v] # "none"
                         /\ v \in HasMade' <=> storage'[v] # "none"
                         /\ LifeOf[v] = obj[v].life
<1>1. LifeOf' = IF v \in Own THEN [LifeOf EXCEPT ![v] = obj'[v].life] ELSE LifeOf
  <2>1. CASE v \in Own
    <3>1. [LifeOf EXCEPT ![v] = obj'[v].life]
          = [u \in Own |-> IF u = v THEN obj'[v].life ELSE obj[u].life]
      BY DEF LifeOf
    <3>2. \A u \in Own : obj'[u].life = IF u = v THEN obj'[v].life ELSE obj[u].life
      BY DEF Own
    <3> QED
      BY <2>1, <3>1, <3>2 DEF LifeOf
  <2>2. CASE v \notin Own
    <3>1. \A u \in Own : obj'[u].life = obj[u].life
      BY <2>2 DEF Own
    <3> QED
      BY <2>2, <3>1 DEF LifeOf
  <2> QED
    BY <2>1, <2>2
<1> QED
  BY <1>1 DEF LifeOf, Held, HasMade, Own

\* Every step is one of Ownership.
LEMMA NextOwning ==
  ASSUME IInv, OverInv, [Next]_vars
  PROVE  Owning!Next
<1>0. /\ obj \in [Volumes -> Object] /\ storage \in [Volumes -> {"none", "blank", "written"}]
      /\ \A o \in Object : o.finalizer \in BOOLEAN
  BY DEF IInv, TypeOK, ApiTypes, LibvirtTypes, Object
<1>1. /\ pc # "idle" => cur \in Volumes
      /\ pc # "idle" /\ locFresh => loc = obj[cur] /\ Present(loc)
      /\ pc \in {"make", "upload"} => loc.life = "live" /\ loc.finalizer
      /\ pc \in Dropping => loc.life = "deleting" /\ Over(cache[cur]) /\ loc.finalizer
      /\ pc = "unfinalize" => storage[cur] = "none"
  BY DEF IInv, TypeOK, LocalTypes, LocalInv, LocInv, PcInv, Creating, Existing, Dropping, Over,
     Present
<1> SUFFICES \/ \E v \in Own : \/ Owning!Create(v) \/ Owning!Hold(v) \/ Owning!Delete(v)
                               \/ Owning!Make(v) \/ Owning!Drop(v) \/ Owning!Release(v)
             \/ UNCHANGED <<LifeOf, Held, HasMade>>
  BY NextRetires DEF Owning!Next, Owning!Retires
<1>2. CASE obj' = obj /\ storage' = storage
  BY <1>2 DEF LifeOf, Held, HasMade
<1>3. CASE Makes
  <2>1. cur \in Volumes /\ obj' = obj /\ storage'[cur] # "none"
        /\ \A u \in Volumes \ {cur} : storage'[u] = storage[u]
    BY <1>0, <1>1, <1>3 DEF Makes
  <2>2. obj[cur].finalizer
    BY <1>1, <1>3, <2>1 DEF Makes, IInv, LocalInv, LocInv, Tells
  <2>3. cur \notin Retired
    BY <1>1, <1>3 DEF Makes, Retired
  <2>4. CASE cur \in Own
    <3>1. Owning!Make(cur)
      <4>1. UNCHANGED <<LifeOf, Held>>
        BY <2>1 DEF LifeOf, Held
      <4>2. cur \in Held /\ HasMade' = HasMade \cup {cur}
        BY <2>1, <2>2, <2>4, Seen
      <4> QED
        BY <2>3, <4>1, <4>2 DEF Owning!Make
    <3> QED
      BY <2>4, <3>1
  <2> QED
    BY <2>1, <2>4, Seen
<1>4. CASE Drops
  <2>1. cur \in Volumes /\ obj' = obj /\ storage'[cur] = "none"
        /\ \A u \in Volumes \ {cur} : storage'[u] = storage[u]
    BY <1>0, <1>1, <1>4 DEF Drops
  <2>2. CASE cur \in Own
    <3>1. cur \in Retired
      BY <1>1, <1>4, <2>2 DEF Drops, Retired, Dropping, Over
    <3>2. Owning!Drop(cur)
      <4>1. UNCHANGED <<LifeOf, Held>>
        BY <2>1 DEF LifeOf, Held
      <4>2. HasMade' = HasMade \ {cur}
        BY <2>1, <2>2, Seen
      <4> QED
        BY <3>1, <4>1, <4>2 DEF Owning!Drop
    <3> QED
      BY <2>2, <3>2
  <2> QED
    BY <2>1, <2>2, Seen
<1>5. CASE Writes
  <2>1. PICK o \in Object :
          /\ Store(cur, o)
          /\ o.life = loc.life
          /\ \/ o.finalizer = loc.finalizer
             \/ o.finalizer /\ loc.life = "live"
             \/ ~o.finalizer /\ pc = "unfinalize"
    BY <1>5 DEF Writes
  <2>2. /\ cur \in Volumes /\ loc = obj[cur] /\ Present(loc) /\ storage' = storage
        /\ obj'[cur] = Stored(o)
        /\ \A u \in Volumes \ {cur} : obj'[u] = obj[u]
    BY <1>0, <1>1, <1>5, <2>1 DEF Writes, Store
  <2>3. CASE cur \notin Own
    BY <2>2, <2>3, Seen
  <2>4. CASE cur \in Own /\ o.finalizer = loc.finalizer
    <3>1. Stored(o) = o
      BY <2>1, <2>2, <2>4 DEF Stored, IInv, ApiInv, LifeInv
    <3>2. obj'[cur].life = obj[cur].life /\ obj'[cur].finalizer = obj[cur].finalizer
      BY <2>1, <2>2, <2>4, <3>1
    <3>3. UNCHANGED <<LifeOf, Held, HasMade>>
      BY <2>2, <3>2 DEF LifeOf, Held, HasMade, Own
    <3> QED
      BY <3>3
  <2>5. CASE cur \in Own /\ o.finalizer /\ loc.life = "live"
    <3>1. Stored(o) = o
      BY <2>5 DEF Stored
    <3>2. LifeOf' = LifeOf
      BY <2>1, <2>2, <2>5, <3>1 DEF LifeOf, Own
    <3>3. Owning!Hold(cur)
      BY <2>2, <2>5, <3>1, <3>2, Seen DEF Owning!Hold, HasMade
    <3> QED
      BY <2>5, <3>3
  <2>6. CASE cur \in Own /\ ~o.finalizer /\ pc = "unfinalize"
    <3>1. Stored(o) = Gone /\ Gone.life = "gone" /\ ~Gone.finalizer
      BY <1>1, <2>1, <2>6 DEF Stored, Dropping, Gone, Blank
    <3>2. cur \in Retired /\ obj[cur].life = "deleting" /\ storage[cur] = "none"
      BY <1>1, <2>2, <2>6 DEF Retired, Dropping, Over
    <3>3. Owning!Release(cur)
      BY <2>2, <2>6, <3>1, <3>2, Seen DEF Owning!Release, Owning!Lives, HasMade
    <3> QED
      BY <2>6, <3>3
  <2> QED
    BY <2>1, <2>3, <2>4, <2>5, <2>6
<1>6. CASE Uses
  <2>1. PICK v \in Volumes, o \in Object :
          /\ UserWrites(v, o)
          /\ \/ obj[v].life = "absent" /\ o.life = "live" /\ ~o.finalizer
             \/ obj[v].life = "live" /\ o.life = "deleting" /\ o.finalizer = obj[v].finalizer
             \/ Present(obj[v]) /\ o.life = obj[v].life /\ o.finalizer = obj[v].finalizer
    BY <1>6 DEF Uses
  <2>2. /\ storage' = storage /\ obj'[v] = Stored(o)
        /\ \A u \in Volumes \ {v} : obj'[u] = obj[u]
    BY <1>0, <1>6, <2>1 DEF Uses, UserWrites, Store
  <2>3. CASE v \notin Own
    BY <2>2, <2>3, Seen
  <2>4. CASE v \in Own /\ obj[v].life = "absent" /\ o.life = "live" /\ ~o.finalizer
    <3>1. Stored(o) = o /\ ~obj[v].finalizer
      <4>1. obj[v] = Blank("absent", NoSize)
        BY <2>4 DEF IInv, ApiInv, LifeInv
      <4> QED
        BY <2>4, <4>1 DEF Stored, Blank
    <3>2. Owning!Create(v)
      BY <2>2, <2>4, <3>1, Seen DEF Owning!Create, Owning!Lives, Held, HasMade
    <3> QED
      BY <2>4, <3>2
  <2>5. CASE /\ v \in Own /\ obj[v].life = "live" /\ o.life = "deleting"
             /\ o.finalizer = obj[v].finalizer
    <3>1. /\ Stored(o).life = IF o.finalizer THEN "deleting" ELSE "gone"
          /\ Stored(o).finalizer = o.finalizer
      BY <1>0, <2>5 DEF Stored, Gone, Blank
    <3>2. Owning!Delete(v)
      BY <2>2, <2>5, <3>1, Seen DEF Owning!Delete, Owning!Lives, Held, HasMade
    <3> QED
      BY <2>5, <3>2
  <2>6. CASE v \in Own /\ Present(obj[v]) /\ o.life = obj[v].life /\ o.finalizer = obj[v].finalizer
    <3>1. Stored(o) = o
      BY <2>6 DEF Stored, IInv, ApiInv, LifeInv
    <3>2. UNCHANGED <<LifeOf, Held, HasMade>>
      BY <2>2, <2>6, <3>1 DEF LifeOf, Held, HasMade, Own
    <3> QED
      BY <3>2
  <2> QED
    BY <2>1, <2>3, <2>4, <2>5, <2>6
<1> QED
  BY <1>2, <1>3, <1>4, <1>5, <1>6, Effects

\* The controller implements Ownership: nothing is made without the finalizer or
\* after its deletion is known, and an object goes only when nothing is left.
THEOREM OwnershipImplemented == Spec => ImplementsOwnership
<1>1. Init => OverInv /\ Owning!Init
  <2> SUFFICES ASSUME Init PROVE OverInv /\ Owning!Init
    OBVIOUS
  <2>1. \A v \in Volumes : /\ obj[v].life = "absent" /\ ~obj[v].finalizer
                           /\ cache[v].life = "absent"
    BY DEF Init, NoObject, Blank
  <2>2. \A v \in Own : v \in Volumes /\ storage[v] = "none"
    BY DEF Init, Own
  <2> QED
    BY <2>1, <2>2 DEF OverInv, Over, Owning!Init, LifeOf, Held, HasMade, Retired
<1>2. IInv /\ OverInv /\ [Next]_vars => OverInv' /\ [Owning!Next]_(Owning!vars)
  BY NextOverInv, NextOwning
<1> QED
  BY <1>1, <1>2, Invariance, PTL DEF Spec, ImplementsOwnership, Owning!Spec
=============================================================================
