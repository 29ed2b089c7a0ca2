----------------------- MODULE DomainControllerProofs -----------------------
(***************************************************************************)
(* What DomainController keeps for every set of domains, resources and     *)
(* needs.                                                                  *)
(*                                                                         *)
(* As for volumes, the proofs rest on what an old copy of an object still  *)
(* tells (Tells).  ApiInv is the part of the invariant about the API       *)
(* server, the cache and libvirt; LocInv is about the copy of the          *)
(* reconcile and PcInv about what each of its steps has established.  Most *)
(* steps are Calm: they write no object, and libvirt keeps its domains.    *)
(***************************************************************************)
EXTENDS DomainController, TLAPS

\* What an object lacks before it is created and after it is removed; the API
\* server removes an object that is being deleted with its finalizer.
LifeInv ==
  \A d \in Domains :
    /\ obj[d].life \in {"absent", "gone"} => ~obj[d].finalizer /\ obj[d].labels = {}
    /\ cache[d].life \in {"absent", "gone"} => ~cache[d].finalizer
    /\ obj[d].life = "deleting" => obj[d].finalizer

\* What a copy o of d, however old, still tells of the object.
Tells(o, d) ==
  /\ o.finalizer => \/ obj[d].finalizer
                    \/ o.life = "deleting" /\ power[d] = "none"
  /\ o.labels \subseteq obj[d].labels \/ obj[d].life = "gone"
  /\ o.life = "deleting" => obj[d].life \in {"deleting", "gone"}

\* The cache is a copy, the newest one unless it is behind.
CacheInv == \A d \in Domains : Tells(cache[d], d) /\ (d \notin behind => cache[d] = obj[d])

ApiInv == LifeInv /\ CacheInv /\ DomainIsOwned /\ NeedsAreLabelled /\ ReadyExists

\* The copy of the reconcile was taken from the cache.
LocInv ==
  pc # "idle" =>
    /\ Tells(loc, cur)
    /\ locFresh => loc = obj[cur]
    /\ loc.life \in {"live", "deleting"}
    /\ loc.life = "deleting" => cache[cur].life \in {"deleting", "gone"}

\* What has been established where the reconcile is.
Creating == {"need", "label", "make"}
Existing == {"mark", "power", "hostLabel", "start", "created"}
Halting  == {"shut", "wait"}
Dropping == {"undefine", "unfinalize"}

PcInv ==
  /\ pc = "meta" => (found <=> power[cur] # "none")
  /\ pc = "meta" /\ off => power[cur] = "off"
  /\ pc \in Creating \cup Existing => loc.life = "live" /\ loc.finalizer
  /\ pc \in Halting => loc.finalizer
  /\ pc \in Dropping => loc.life = "deleting" /\ loc.finalizer
  /\ pc \in Creating \cup {"unfinalize"} => power[cur] = "none"
  /\ pc \in Existing \cup Halting => power[cur] # "none"
  /\ pc = "undefine" => power[cur] = "off"
  /\ pc \in Creating => pos \in Nat \ {0}
  /\ pc \in Creating => \A i \in 1..Len(Needs[cur]) : i < pos => Needs[cur][i] \in loc.labels
  /\ pc = "make" => pos > Len(Needs[cur])

LocalInv == LocInv /\ PcInv

IInv == TypeOK /\ ApiInv /\ LocalInv

-----------------------------------------------------------------------------
(***************************************************************************)
(* Types.                                                                  *)
(***************************************************************************)

\* What a domain needs is a sequence of resources.
LEMMA NeedsTypes ==
  \A d \in Domains :
    /\ Len(Needs[d]) \in Nat
    /\ \A i \in 1..Len(Needs[d]) : Needs[d][i] \in Resources
<1> TAKE d \in Domains
<1>1. Needs[d] \in Seq(Resources)
  BY NeedsAreResources
<1> QED
  BY <1>1

\* Each change a reconcile makes to its copy gives an object.
LEMMA WriteTypes ==
  \A o \in Object :
    /\ WithFinalizer(o) \in Object /\ Unfinalized(o) \in Object
    /\ WithHostLabel(o) \in Object /\ Marked(o) \in Object /\ Unready(o) \in Object
    /\ \A x \in Resources : WithLabel(o, x) \in Object
BY DEF Object, WithFinalizer, Unfinalized, WithHostLabel, Marked, Unready, WithLabel

\* The objects that stand for nothing are objects.
LEMMA BlankTypes == NoObject \in Object /\ Gone \in Object
BY DEF NoObject, Gone, Blank, Object

\* What the API server stores is an object.
LEMMA StoredType == \A o \in Object : Stored(o) \in Object
BY BlankTypes DEF Stored

\* A write keeps the types of the API server.
LEMMA StoreTypes ==
  ApiTypes => \A d \in Domains, o \in Object :
    Store(d, o) /\ cache' = cache /\ queued' \in SUBSET Domains => ApiTypes'
BY StoredType DEF ApiTypes, Store

\* The end of a reconcile keeps the types of its variables, and leaves no
\* obligation about them.
LEMMA EndLocal == End => LocalTypes' /\ LocalInv'
<1>1. ASSUME End PROVE LocalTypes'
  <2>1. /\ pc' = "idle" /\ cur' = NoDomain /\ loc' \in Object
        /\ locFresh' = FALSE /\ found' = FALSE /\ off' = FALSE /\ pos' = 0
    BY <1>1, BlankTypes DEF End
  <2>2. pc' \notin {"need", "label"} /\ pc' \in PcStates
    BY <2>1 DEF PcStates
  <2> QED
    BY <2>1, <2>2 DEF LocalTypes
<1>2. End => LocalInv'
  BY DEF End, LocalInv, LocInv, PcInv, Creating, Existing, Halting, Dropping
<1> QED
  BY <1>1, <1>2

-----------------------------------------------------------------------------
(***************************************************************************)
(* Calm steps.                                                             *)
(***************************************************************************)
Calm ==
  /\ UNCHANGED <<apiVars, cache>>
  /\ OtherTypes'
  /\ \A d \in Domains : power'[d] = "none" <=> power[d] = "none"

\* A calm step keeps the invariant of the API server.
LEMMA CalmApi ==
  IInv /\ Calm /\ queued' \in SUBSET Domains => ApiTypes' /\ ApiInv'
BY DEF IInv, TypeOK, Calm, ApiTypes, ApiInv, LifeInv, CacheInv, Tells, DomainIsOwned,
       NeedsAreLabelled, ReadyExists, apiVars

\* A step that touches neither the API server nor libvirt is calm.
LEMMA StaysCalm == IInv /\ Stays => Calm
BY DEF IInv, TypeOK, Calm, OtherTypes, Stays, otherVars

\* A calm step that ends the reconcile
LEMMA CalmEnd ==
  IInv /\ Calm /\ End /\ queued' \in SUBSET Domains => IInv'
BY CalmApi, EndLocal DEF IInv, TypeOK, Calm

\* A calm step that moves the reconcile on
LEMMA CalmStep ==
  /\ IInv /\ pc # "idle" /\ Calm /\ UNCHANGED <<queued, cur, loc, locFresh>>
  /\ pc' \in PcStates \ {"idle"} /\ found' \in BOOLEAN /\ off' \in BOOLEAN /\ pos' \in Nat
  /\ pc' \in {"need", "label"} => pos' \in 1..Len(Needs[cur])
  /\ PcInv'
  => IInv'
<1> SUFFICES ASSUME IInv, pc # "idle", Calm, UNCHANGED <<queued, cur, loc, locFresh>>,
                    pc' \in PcStates \ {"idle"}, found' \in BOOLEAN, off' \in BOOLEAN, pos' \in Nat,
                    pc' \in {"need", "label"} => pos' \in 1..Len(Needs[cur]),
                    PcInv'
             PROVE  IInv'
  OBVIOUS
<1>1. ApiTypes' /\ ApiInv' /\ OtherTypes'
  BY CalmApi DEF IInv, TypeOK, ApiTypes, Calm
<1>2. LocalTypes'
  BY DEF IInv, TypeOK, LocalTypes
<1>3. cur \in Domains
  BY DEF IInv, TypeOK, LocalTypes
<1>4. LocInv'
  BY <1>3 DEF IInv, LocalInv, LocInv, Tells, Calm, apiVars
<1> QED
  BY <1>1, <1>2, <1>4 DEF IInv, TypeOK, LocalInv

\* A calm step of the environment
LEMMA CalmAround ==
  IInv /\ Calm /\ UNCHANGED <<queued, localVars>> /\ PcInv' => IInv'
<1> SUFFICES ASSUME IInv, Calm, UNCHANGED <<queued, localVars>>, PcInv' PROVE IInv'
  OBVIOUS
<1>1. ApiTypes' /\ ApiInv' /\ OtherTypes'
  BY CalmApi DEF IInv, TypeOK, ApiTypes, Calm
<1>2. LocalTypes'
  BY DEF IInv, TypeOK, LocalTypes, localVars
<1>3. LocInv'
  BY DEF IInv, TypeOK, LocalTypes, LocalInv, LocInv, Tells, Calm, apiVars, localVars
<1> QED
  BY <1>1, <1>2, <1>3 DEF IInv, TypeOK, LocalInv

\* What a step of the reconcile finds.
LEMMA AtStep ==
  IInv /\ pc # "idle" =>
    /\ cur \in Domains /\ loc \in Object /\ pc \in PcStates
    /\ queued \in SUBSET Domains /\ (queued \cup {cur}) \in SUBSET Domains
    /\ found \in BOOLEAN /\ off \in BOOLEAN /\ pos \in Nat
    /\ PcInv /\ LocInv
BY DEF IInv, TypeOK, ApiTypes, LocalTypes, LocalInv

\* A step that goes on to a place that asks for nothing about pos
LEMMA CalmGoto ==
  ASSUME IInv, pc # "idle", Calm, UNCHANGED queued,
         NEW l \in PcStates \ {"idle", "need", "label"}, Goto(l), PcInv'
  PROVE  IInv'
BY AtStep, CalmStep DEF Goto

\* A step that goes on to the end it has after a failure
LEMMA ToUnready ==
  IInv /\ pc # "idle" /\ Calm /\ Goto("unready") /\ UNCHANGED queued => IInv'
<1> SUFFICES ASSUME IInv, pc # "idle", Calm, Goto("unready"), UNCHANGED queued PROVE IInv'
  OBVIOUS
<1>1. PcInv'
  BY DEF Goto, PcInv, Creating, Existing, Halting, Dropping
<1> QED
  BY <1>1, CalmGoto DEF PcStates
-----------------------------------------------------------------------------
(***************************************************************************)
(* Writes to the API server.                                               *)
(***************************************************************************)

\* o is what a user or a reconcile may make of the object of d: deletion is
\* final, labels and finalizer stay, and what is marked Ready exists.
Grows(o, d) ==
  /\ o.life \in {"live", "deleting"}
  /\ obj[d].life # "gone"
  /\ obj[d].life = "deleting" => o.life = "deleting"
  /\ obj[d].finalizer => o.finalizer
  /\ obj[d].labels \subseteq o.labels
  /\ o.life = "live" /\ o.ready = "True" => power[d] # "none"

\* Such a write keeps the invariant of the API server.
LEMMA GrowsApiInv ==
  ApiTypes /\ ApiInv =>
    \A d \in Domains, o \in Object :
      Grows(o, d) /\ Store(d, o) /\ UNCHANGED <<cache, power>> => ApiInv'
<1> SUFFICES ASSUME ApiTypes, ApiInv, NEW d \in Domains, NEW o \in Object,
                    Grows(o, d), Store(d, o), UNCHANGED <<cache, power>>
             PROVE  ApiInv'
  OBVIOUS
<1>1. obj'[d] = Stored(o) /\ \A u \in Domains \ {d} : obj'[u] = obj[u]
  BY DEF Store, ApiTypes
<1>2. Gone.life = "gone" /\ ~Gone.finalizer /\ Gone.labels = {}
  BY DEF Gone, Blank
<1>3. \/ obj'[d] = o /\ (o.life = "deleting" => o.finalizer)
      \/ obj'[d].life = "gone" /\ ~obj'[d].finalizer /\ obj'[d].labels = {} /\ ~obj[d].finalizer
  BY <1>1, <1>2 DEF Stored, Grows
<1>4. LifeInv'
  BY <1>1, <1>3 DEF ApiInv, LifeInv, Grows
<1>5. CacheInv'
  <2>1. \A u \in Domains \ {d} : Tells(cache[u], u)' /\ (u \notin behind' => cache'[u] = obj'[u])
    BY <1>1 DEF ApiInv, CacheInv, Tells, Store, ApiTypes
  <2>2. Tells(cache[d], d)'
    BY <1>1, <1>3 DEF ApiInv, CacheInv, Tells, Grows
  <2> QED
    BY <2>1, <2>2 DEF CacheInv, Store, ApiTypes
<1>6. DomainIsOwned'
  BY <1>1, <1>3 DEF ApiInv, DomainIsOwned, Grows
<1>7. NeedsAreLabelled'
  BY <1>1, <1>3 DEF ApiInv, NeedsAreLabelled, DomainIsOwned, Grows
<1>8. ReadyExists'
  BY <1>1, <1>3 DEF ApiInv, ReadyExists, Grows
<1> QED
  BY <1>4, <1>5, <1>6, <1>7, <1>8 DEF ApiInv

\* An update that a reconcile makes on its copy, except the last of a deletion.
Keeps(o) ==
  /\ o.life = loc.life
  /\ loc.finalizer => o.finalizer
  /\ loc.labels \subseteq o.labels
  /\ o.life = "live" /\ o.ready = "True" => power[cur] # "none"

\* It grows the object, since the API server accepts it for the newest copy only.
LEMMA KeepsGrows ==
  IInv /\ pc # "idle" /\ locFresh => \A o \in Object : Keeps(o) => Grows(o, cur)
<1> SUFFICES ASSUME IInv, pc # "idle", locFresh, NEW o \in Object, Keeps(o)
             PROVE  Grows(o, cur)
  OBVIOUS
<1>1. loc = obj[cur] /\ loc.life \in {"live", "deleting"}
  BY DEF IInv, LocalInv, LocInv
<1> QED
  BY <1>1 DEF Keeps, Grows

\* What a reconcile writes before the end of a deletion keeps its copy.
LEMMA WritesKeep ==
  IInv /\ pc # "idle" /\ locFresh =>
    /\ Keeps(WithFinalizer(loc)) /\ Keeps(WithHostLabel(loc)) /\ Keeps(Unready(loc))
    /\ \A x \in Resources : Keeps(WithLabel(loc, x))
    /\ power[cur] # "none" => Keeps(Marked(loc))
<1> SUFFICES ASSUME IInv, pc # "idle", locFresh
             PROVE  /\ Keeps(WithFinalizer(loc)) /\ Keeps(WithHostLabel(loc))
                    /\ Keeps(Unready(loc))
                    /\ \A x \in Resources : Keeps(WithLabel(loc, x))
                    /\ power[cur] # "none" => Keeps(Marked(loc))
  OBVIOUS
<1>1. loc \in Object /\ cur \in Domains /\ loc = obj[cur]
  BY DEF IInv, TypeOK, LocalTypes, LocalInv, LocInv
<1>2. loc.life = "live" /\ loc.ready = "True" => power[cur] # "none"
  BY <1>1 DEF IInv, ApiInv, ReadyExists
<1> QED
  BY <1>1, <1>2
     DEF Object, Keeps, WithFinalizer, WithHostLabel, Unready, WithLabel, Marked

\* A write that fails, or succeeds as the last call of the reconcile, and whose
\* object keeps the copy, keeps the invariant.
LEMMA LastWrite ==
  IInv /\ pc # "idle" =>
    \A o \in Object :
      /\ locFresh => Keeps(o)
      /\ UNCHANGED apiVars \/ (locFresh /\ Store(cur, o))
      /\ End /\ queued' \in SUBSET Domains /\ UNCHANGED <<cache, power, otherVars>>
      => IInv'
<1> SUFFICES ASSUME IInv, pc # "idle", NEW o \in Object, locFresh => Keeps(o),
                    UNCHANGED apiVars \/ (locFresh /\ Store(cur, o)),
                    End, queued' \in SUBSET Domains, UNCHANGED <<cache, power, otherVars>>
             PROVE  IInv'
  OBVIOUS
<1>1. CASE UNCHANGED apiVars
  BY <1>1, StaysCalm, CalmEnd DEF Stays
<1>2. CASE locFresh /\ Store(cur, o)
  <2>1. cur \in Domains /\ OtherTypes'
    BY AtStep DEF IInv, TypeOK, OtherTypes, otherVars
  <2>2. ApiTypes'
    BY <1>2, <2>1, StoreTypes DEF IInv, TypeOK
  <2>3. ApiInv'
    BY <1>2, <2>1, KeepsGrows, GrowsApiInv DEF IInv, TypeOK
  <2> QED
    BY <2>1, <2>2, <2>3, EndLocal DEF IInv, TypeOK
<1> QED
  BY <1>1, <1>2

\* A successful write in the middle of a reconcile
LEMMA MiddleWrite ==
  IInv /\ pc # "idle" =>
    \A o \in Object :
      /\ locFresh => Keeps(o)
      /\ o.finalizer \/ o.life = "live"
      /\ locFresh /\ Store(cur, o) /\ loc' = o
      /\ UNCHANGED <<cache, queued, power, otherVars, cur, locFresh, found, off>>
      /\ pc' \in PcStates \ {"idle"} /\ pos' \in Nat
      /\ pc' \in {"need", "label"} => pos' \in 1..Len(Needs[cur])
      /\ PcInv'
      => IInv'
<1> SUFFICES ASSUME IInv, pc # "idle", NEW o \in Object, Keeps(o),
                    o.finalizer \/ o.life = "live",
                    locFresh, Store(cur, o), loc' = o,
                    UNCHANGED <<cache, queued, power, otherVars, cur, locFresh, found, off>>,
                    pc' \in PcStates \ {"idle"}, pos' \in Nat,
                    pc' \in {"need", "label"} => pos' \in 1..Len(Needs[cur]),
                    PcInv'
             PROVE  IInv'
  OBVIOUS
<1>1. cur \in Domains /\ Stored(o) = o
  BY AtStep DEF Stored, Object
<1>2. ApiTypes' /\ OtherTypes'
  BY <1>1, StoreTypes DEF IInv, TypeOK, ApiTypes, OtherTypes, otherVars
<1>3. LocalTypes'
  BY DEF IInv, TypeOK, LocalTypes
<1>4. ApiInv'
  BY <1>1, KeepsGrows, GrowsApiInv DEF IInv, TypeOK
<1>5. LocInv'
  <2>1. obj'[cur] = o /\ o.life = loc.life
    BY <1>1 DEF Store, IInv, TypeOK, ApiTypes, Keeps
  <2> QED
    BY <2>1 DEF IInv, LocalInv, LocInv, Tells
<1> QED
  BY <1>2, <1>3, <1>4, <1>5 DEF IInv, TypeOK, LocalInv

-----------------------------------------------------------------------------
(***************************************************************************)
(* The steps of the environment.                                           *)
(***************************************************************************)

\* A write of a user keeps the invariant, whatever the reconcile is doing.
LEMMA UserWriteIInv ==
  IInv => \A d \in Domains, o \in Object : Grows(o, d) /\ UserWrites(d, o) => IInv'
<1> SUFFICES ASSUME IInv, NEW d \in Domains, NEW o \in Object, Grows(o, d), UserWrites(d, o)
             PROVE  IInv'
  OBVIOUS
<1>1. ApiTypes'
  BY StoreTypes DEF IInv, TypeOK, ApiTypes, UserWrites
<1>2. OtherTypes' /\ LocalTypes'
  BY DEF IInv, TypeOK, OtherTypes, LocalTypes, UserWrites, otherVars
<1>3. ApiInv'
  BY GrowsApiInv DEF IInv, TypeOK, UserWrites
<1>4. PcInv'
  BY DEF IInv, LocalInv, PcInv, UserWrites
<1>5. LocInv'
  <2>1. Gone.life = "gone"
    BY DEF Gone, Blank
  <2>2. /\ \A u \in Domains \ {d} : obj'[u] = obj[u]
        /\ obj'[d] = o \/ (obj'[d].life = "gone" /\ ~obj[d].finalizer)
    BY <2>1 DEF UserWrites, Store, Stored, Grows, IInv, TypeOK, ApiTypes
  <2>3. UNCHANGED <<cache, power, pc, cur, loc>> /\ locFresh' = (locFresh /\ d # cur)
    BY DEF UserWrites
  <2>4. ASSUME pc # "idle" PROVE Tells(loc, cur)' /\ cur \in Domains
    BY <2>2, <2>3, <2>4 DEF IInv, TypeOK, LocalTypes, LocalInv, LocInv, Tells, Grows
  <2> QED
    BY <2>2, <2>3, <2>4 DEF IInv, LocalInv, LocInv
<1> QED
  BY <1>1, <1>2, <1>3, <1>4, <1>5 DEF IInv, TypeOK, LocalInv

\* Users create, delete and toggle domains.
LEMMA UserIInv ==
  ASSUME IInv, NEW d \in Domains, UserCreates(d) \/ UserDeletes(d) \/ UserToggles(d)
  PROVE  IInv'
<1>0. obj[d] \in Object /\ LifeInv /\ ReadyExists
  BY DEF IInv, TypeOK, ApiTypes, ApiInv
<1>1. CASE UserCreates(d)
  <2>1. PICK s \in BOOLEAN : UserWrites(d, Blank("live", s))
    BY <1>1 DEF UserCreates
  <2>2. /\ Blank("live", s) \in Object
        /\ Blank("live", s).life = "live" /\ Blank("live", s).ready = "unset"
    BY DEF Blank, Object
  <2>3. obj[d].life = "absent" /\ ~obj[d].finalizer /\ obj[d].labels = {}
    BY <1>0, <1>1 DEF UserCreates, LifeInv
  <2>4. Grows(Blank("live", s), d)
    BY <2>2, <2>3 DEF Grows
  <2> QED
    BY <2>1, <2>2, <2>4, UserWriteIInv
<1>2. CASE UserDeletes(d)
  <2> DEFINE o == [obj[d] EXCEPT !.life = "deleting"]
  <2>1. o \in Object /\ Grows(o, d)
    BY <1>0, <1>2 DEF UserDeletes, Object, Grows
  <2> QED
    BY <1>2, <2>1, UserWriteIInv DEF UserDeletes
<1>3. CASE UserToggles(d)
  <2> DEFINE o == [obj[d] EXCEPT !.shutoff = ~@]
  <2>1. o \in Object /\ Grows(o, d)
    BY <1>0, <1>3 DEF UserToggles, Present, Object, Grows, ReadyExists
  <2> QED
    BY <1>3, <2>1, UserWriteIInv DEF UserToggles
<1> QED
  BY <1>1, <1>2, <1>3

\* The newest version tells of itself what a copy does.
LEMMA NewestTells == LifeInv => \A d \in Domains : Tells(obj[d], d)
BY DEF LifeInv, Tells

\* The cache catches up with a write.
LEMMA CacheSyncIInv == ASSUME IInv, NEW d \in Domains, CacheSync(d) PROVE IInv'
<1>1. ApiTypes'
  BY DEF IInv, TypeOK, ApiTypes, CacheSync
<1>2. OtherTypes' /\ LocalTypes'
  BY DEF IInv, TypeOK, OtherTypes, LocalTypes, CacheSync, otherVars, localVars
<1>3. /\ \A u \in Domains \ {d} : cache'[u] = cache[u]
      /\ cache'[d] = obj[d] /\ behind' = behind \ {d}
      /\ UNCHANGED <<obj, power, pc, cur, loc, locFresh, found, off, pos>>
  BY DEF CacheSync, IInv, TypeOK, ApiTypes, localVars
<1>4. ApiInv'
  BY <1>3, NewestTells
     DEF IInv, ApiInv, LifeInv, CacheInv, Tells, DomainIsOwned, NeedsAreLabelled, ReadyExists
<1>5. LocInv'
  BY <1>3 DEF IInv, LocalInv, LocInv, Tells, TypeOK, LocalTypes
<1>6. PcInv'
  BY <1>3 DEF IInv, LocalInv, PcInv
<1> QED
  BY <1>1, <1>2, <1>4, <1>5, <1>6 DEF IInv, TypeOK, LocalInv

\* The operator restarts with an empty memory and a new cache.
LEMMA CrashIInv == ASSUME IInv, Crash PROVE IInv'
<1>1. ApiTypes' /\ OtherTypes'
  BY DEF IInv, TypeOK, ApiTypes, OtherTypes, Crash, otherVars
<1>2. LocalTypes' /\ LocalInv'
  BY EndLocal DEF Crash
<1>3. ApiInv'
  BY NewestTells DEF IInv, ApiInv, LifeInv, CacheInv, Tells, DomainIsOwned,
     NeedsAreLabelled, ReadyExists, Crash
<1> QED
  BY <1>1, <1>2, <1>3 DEF IInv, TypeOK

\* Guests power off, and the resources and the host come and go.
LEMMA AroundIInv == ASSUME IInv, Guests \/ Others PROVE IInv'
<1>1. CASE Guests
  <2>1. PICK d \in Domains : /\ power[d] \in {"on", "asked"}
                             /\ power' = [power EXCEPT ![d] = "off"]
                             /\ UNCHANGED <<apiVars, cache, queued, otherVars, localVars>>
    BY <1>1 DEF Guests, GuestObeys, GuestStops
  <2>2. Calm
    BY <2>1 DEF Calm, IInv, TypeOK, OtherTypes, otherVars
  <2>3. \A u \in Domains : power[u] \in {"none", "off"} => power'[u] = power[u]
    BY <2>1 DEF IInv, TypeOK, OtherTypes
  <2>4. PcInv'
    BY <2>1, <2>2, <2>3
       DEF Calm, IInv, TypeOK, LocalTypes, LocalInv, PcInv, localVars,
           Creating, Existing, Halting, Dropping
  <2> QED
    BY <2>1, <2>2, <2>4, CalmAround
<1>2. CASE Others
  <2>1. UNCHANGED <<apiVars, cache, queued, power, localVars>>
    BY <1>2 DEF Others, HostDeleted, ResReady, ResUnready, ResChecked, ResDropFails,
       ResDropped, ResForgotten, ResTo
  <2>2. OtherTypes'
    BY <1>2 DEF Others, HostDeleted, ResReady, ResUnready, ResChecked, ResDropFails,
       ResDropped, ResForgotten, ResTo, IInv, TypeOK, OtherTypes
  <2>3. PcInv'
    BY <2>1 DEF IInv, LocalInv, PcInv, localVars
  <2> QED
    BY <2>1, <2>2, <2>3, CalmAround DEF Calm
<1> QED
  BY <1>1, <1>2

\* A reconcile begins with a copy from the cache.
LEMMA BeginIInv == ASSUME IInv, NEW d \in Domains, Begin(d) PROVE IInv'
<1>0. queued' \in SUBSET Domains /\ Calm
  BY StaysCalm DEF IInv, TypeOK, ApiTypes, Begin
<1>1. CASE ~Present(cache[d])
  BY <1>0, <1>1, CalmEnd DEF Begin
<1>2. CASE Present(cache[d])
  <2>1. /\ pc' = "refs" /\ cur' = d /\ loc' = cache[d] /\ locFresh' = (d \notin behind)
        /\ found' = FALSE /\ off' = FALSE /\ pos' = 0 /\ Stays
    BY <1>2 DEF Begin
  <2>2. ApiTypes' /\ ApiInv' /\ OtherTypes'
    BY <1>0, CalmApi DEF Calm
  <2>3. LocalTypes'
    BY <2>1, NoDomainIsNoDomain DEF IInv, TypeOK, ApiTypes, LocalTypes, PcStates
  <2>4. LocInv'
    BY <1>2, <2>1 DEF IInv, ApiInv, CacheInv, LocInv, Tells, Present, Stays, apiVars
  <2>5. PcInv'
    BY <2>1 DEF PcInv, Creating, Existing, Halting, Dropping
  <2> QED
    BY <2>2, <2>3, <2>4, <2>5 DEF IInv, TypeOK, LocalInv
<1> QED
  BY <1>1, <1>2

-----------------------------------------------------------------------------
(***************************************************************************)
(* The steps of the reconcile.                                             *)
(***************************************************************************)

\* A write that fails keeps the invariant.
LEMMA WriteFailsIInv ==
  IInv /\ pc # "idle" =>
    \A o \in Object : (locFresh => Keeps(o)) /\ WriteFails(o) => IInv'
BY AtStep, LastWrite DEF WriteFails, Retry

\* The references are resolved or not, and the domain is found or not.
LEMMA RefsIInv ==
  ASSUME IInv, RefsOk \/ RefsUnmet \/ SetUnready PROVE IInv'
<1>1. CASE RefsOk
  <2>1. /\ pc = "refs" /\ Stays /\ UNCHANGED <<queued, cur, loc, locFresh, pos>> /\ pc' = "meta"
        /\ found' = (power[cur] # "none") /\ off' = (power[cur] = "off") /\ power' = power
    BY <1>1 DEF RefsOk, At, Exists, Stays
  <2>2. PcInv'
    BY <2>1 DEF PcInv, Creating, Existing, Halting, Dropping
  <2> QED
    BY <2>1, <2>2, AtStep, StaysCalm, CalmStep DEF PcStates
<1>2. CASE RefsUnmet
  <2>1. CASE Retry
    BY <1>2, <2>1, AtStep, StaysCalm, CalmEnd DEF RefsUnmet, Retry, At
  <2>2. CASE Goto("unready") /\ UNCHANGED queued
    BY <1>2, <2>2, StaysCalm, ToUnready DEF RefsUnmet, At
  <2> QED
    BY <1>2, <2>1, <2>2 DEF RefsUnmet
<1>3. CASE SetUnready
  <2>1. CASE Retry /\ Stays
    BY <1>3, <2>1, AtStep, StaysCalm, CalmEnd DEF SetUnready, Retry, At
  <2>2. CASE WriteFails(Unready(loc))
    BY <1>3, <2>2, AtStep, WriteTypes, WritesKeep, WriteFailsIInv DEF SetUnready, At
  <2> QED
    BY <1>3, <2>1, <2>2 DEF SetUnready
<1> QED
  BY <1>1, <1>2, <1>3

\* Creation visits the resources one by one.
LEMMA NeedAtType ==
  \A d \in Domains, i \in Nat \ {0} :
    cur = d => /\ NeedAt(i) \in {"need", "make"}
               /\ NeedAt(i) = "need" => i \in 1..Len(Needs[cur])
               /\ NeedAt(i) = "make" => i > Len(Needs[cur])
BY NeedsTypes DEF NeedAt, AllNeeds

\* The finalizer is added, and the reconcile takes its way.
LEMMA MetaIInv ==
  ASSUME IInv, AddFinalizerOk \/ AddFinalizerFails \/ Dispatch PROVE IInv'
<1>1. CASE AddFinalizerOk
  <2>1. pc = "meta" /\ WriteSucceeds(WithFinalizer(loc), "meta")
    BY <1>1 DEF AddFinalizerOk, At
  <2>2. PcInv'
    BY <2>1, AtStep DEF WriteSucceeds, PcInv, Creating, Existing, Halting, Dropping
  <2>3. WithFinalizer(loc).finalizer
    BY <2>1, AtStep DEF WithFinalizer, Object
  <2> QED
    BY <2>1, <2>2, <2>3, AtStep, WriteTypes, WritesKeep, MiddleWrite DEF PcStates, WriteSucceeds
<1>2. CASE AddFinalizerFails
  BY <1>2, AtStep, WriteTypes, WritesKeep, WriteFailsIInv DEF AddFinalizerFails, At
<1>3. CASE Dispatch
  <2>1. pc = "meta" /\ Stays /\ Calm
    BY <1>3, StaysCalm DEF Dispatch, At
  <2>2. CASE Done
    BY <2>1, <2>2, AtStep, CalmEnd DEF Done
  <2>3. CASE HasFinalizer(loc) /\ ~Done
    <3>1. UNCHANGED <<queued, cur, loc, locFresh, found, off, power>> /\ pos' = 1
      BY <1>3, <2>1, <2>3 DEF Dispatch, Stays
    <3>2. \/ Deleting(loc) /\ ~found /\ pc' = "unfinalize"
          \/ Deleting(loc) /\ found /\ off /\ pc' = "undefine"
          \/ Deleting(loc) /\ found /\ ~off /\ pc' = "shut"
          \/ ~Deleting(loc) /\ found /\ pc' = "mark"
          \/ ~Deleting(loc) /\ ~found /\ pc' = NeedAt(1)
      BY <1>3, <2>3, <2>1, AtStep DEF Dispatch
    <3>3. /\ cur \in Domains /\ loc.finalizer /\ (found <=> power[cur] # "none")
          /\ (off => power[cur] = "off") /\ loc.life \in {"live", "deleting"}
          /\ Deleting(loc) <=> loc.life = "deleting"
      BY <2>1, <2>3, AtStep DEF PcInv, LocInv, HasFinalizer, Deleting
    <3>4. pc' \in {"need", "make"} =>
            /\ ~Deleting(loc) /\ ~found
            /\ pc' = "need" => 1 \in 1..Len(Needs[cur])
            /\ pc' = "make" => 1 > Len(Needs[cur])
      BY <3>2, <3>3, NeedAtType
    <3>5. pc' \in {"unfinalize", "undefine", "shut", "mark", "need", "make"}
      BY <3>2, <3>3, NeedAtType
    <3>6. PcInv'
      <4>0. /\ pc' \in {"unfinalize", "undefine"} => Deleting(loc)
            /\ pc' \in {"mark", "need", "make"} => ~Deleting(loc)
            /\ pc' \in {"unfinalize", "need", "make"} => ~found
            /\ pc' \in {"undefine", "shut", "mark"} => found
            /\ pc' = "undefine" => off
        BY <3>2, <3>3, NeedAtType
      <4>1. /\ pc' \in Creating \cup Existing => loc.life = "live"
            /\ pc' \in Dropping => loc.life = "deleting"
            /\ pc' \in Creating \cup {"unfinalize"} => power[cur] = "none"
            /\ pc' \in Existing \cup Halting => power[cur] # "none"
            /\ pc' = "undefine" => power[cur] = "off"
            /\ pc' # "meta"
        BY <3>3, <3>5, <4>0 DEF Creating, Existing, Halting, Dropping
      <4>2. \A i \in 1..Len(Needs[cur]) : ~(i < 1)
        BY <3>3, NeedsTypes
      <4> QED
        BY <3>1, <3>3, <3>4, <4>1, <4>2 DEF PcInv
    <3> QED
      BY <2>1, <3>1, <3>4, <3>5, <3>6, AtStep, CalmStep DEF PcStates
  <2> QED
    BY <1>3, <2>2, <2>3 DEF Dispatch
<1> QED
  BY <1>1, <1>2, <1>3

\* An existing domain is marked Ready, and its power state is compared.
LEMMA MarkIInv ==
  ASSUME IInv, MarkOk \/ MarkFails \/ PowerOk PROVE IInv'
<1>1. CASE MarkOk
  <2>1. pc = "mark"
    BY <1>1 DEF MarkOk, At
  <2>2. CASE Goto("power") /\ UNCHANGED queued /\ Stays
    <3>1. PcInv'
      BY <2>1, <2>2, AtStep DEF Goto, PcInv, Creating, Existing, Halting, Dropping, Stays
    <3> QED
      BY <2>1, <2>2, <3>1, StaysCalm, CalmGoto DEF PcStates
  <2>3. CASE WriteSucceeds(Marked(loc), "power")
    <3>1. Marked(loc).life = "live" /\ Marked(loc).finalizer
      BY <2>1, AtStep DEF Marked, Object, PcInv, Existing
    <3>2. PcInv'
      BY <2>1, <2>3, <3>1, AtStep DEF WriteSucceeds, PcInv, Creating, Existing, Halting, Dropping
    <3>3. power[cur] # "none"
      BY <2>1, AtStep DEF PcInv, Existing
    <3> QED
      BY <2>1, <2>3, <3>1, <3>2, <3>3, AtStep, WriteTypes, WritesKeep, MiddleWrite
         DEF PcStates, WriteSucceeds
  <2> QED
    BY <1>1, <2>2, <2>3 DEF MarkOk
<1>2. CASE MarkFails
  BY <1>2, AtStep, WriteTypes, WritesKeep, WriteFailsIInv DEF MarkFails, At, PcInv, Existing
<1>3. CASE PowerOk
  <2>1. pc = "power" /\ Stays /\ Calm
    BY <1>3, StaysCalm DEF PowerOk, At
  <2>2. CASE Done
    BY <2>1, <2>2, AtStep, CalmEnd DEF Done
  <2>3. CASE Goto(IF off THEN "start" ELSE "shut") /\ UNCHANGED queued
    <3>1. PcInv'
      BY <2>1, <2>3, AtStep DEF Goto, PcInv, Creating, Existing, Halting, Dropping, Stays
    <3> QED
      BY <2>1, <2>3, <3>1, CalmGoto DEF PcStates
  <2> QED
    BY <1>3, <2>2, <2>3 DEF PowerOk
<1> QED
  BY <1>1, <1>2, <1>3

\* The guest is asked to shut down, and waited for.
LEMMA ShutIInv ==
  ASSUME IInv, ShutOk \/ ShutFails \/ WaitOk \/ WaitFails PROVE IInv'
<1>1. CASE ShutOk \/ ShutFails
  <2>1. /\ pc = "shut" /\ Libvirt /\ (Asked \/ UNCHANGED power)
        /\ \/ Goto("wait") /\ UNCHANGED queued
           \/ Retry
    BY <1>1 DEF ShutOk, ShutFails, At
  <2>2. cur \in Domains /\ loc.finalizer /\ power[cur] # "none"
    BY <2>1, AtStep DEF PcInv, Halting
  <2>3. Calm /\ power'[cur] # "none"
    BY <2>1, <2>2 DEF Calm, Asked, Libvirt, IInv, TypeOK, OtherTypes, otherVars
  <2>4. CASE Retry
    BY <2>1, <2>3, <2>4, AtStep, CalmEnd DEF Retry
  <2>5. CASE Goto("wait") /\ UNCHANGED queued
    <3>1. PcInv'
      BY <2>2, <2>3, <2>5 DEF Goto, PcInv, Creating, Existing, Halting, Dropping
    <3> QED
      BY <2>1, <2>3, <2>5, <3>1, CalmGoto DEF PcStates
  <2> QED
    BY <2>1, <2>4, <2>5
<1>2. CASE WaitOk
  <2>1. pc = "wait" /\ Stays /\ Calm /\ power[cur] = "off"
    BY <1>2, StaysCalm DEF WaitOk, At, IsOff
  <2>2. CASE Done
    BY <2>1, <2>2, AtStep, CalmEnd DEF Done
  <2>3. CASE Deleting(loc) /\ Goto("undefine") /\ UNCHANGED queued
    <3>1. PcInv'
      BY <2>1, <2>3, AtStep
         DEF Goto, PcInv, Creating, Existing, Halting, Dropping, Stays, Deleting
    <3> QED
      BY <2>1, <2>3, <3>1, CalmGoto DEF PcStates
  <2> QED
    BY <1>2, <2>2, <2>3 DEF WaitOk
<1>3. CASE WaitFails
  BY <1>3, AtStep, StaysCalm, CalmEnd DEF WaitFails, Retry, At
<1> QED
  BY <1>1, <1>2, <1>3

\* Where creation is: all resources before pos are labelled in the copy.
LEMMA AtCreating ==
  IInv /\ pc \in Creating =>
    /\ cur \in Domains /\ loc \in Object /\ power[cur] = "none"
    /\ loc.life = "live" /\ loc.finalizer
    /\ pos \in Nat \ {0}
    /\ \A i \in 1..Len(Needs[cur]) : i < pos => Needs[cur][i] \in loc.labels
    /\ pc \in {"need", "label"} => pos \in 1..Len(Needs[cur]) /\ Needed \in Resources
<1> SUFFICES ASSUME IInv, pc \in Creating
             PROVE  /\ cur \in Domains /\ loc \in Object /\ power[cur] = "none"
                    /\ loc.life = "live" /\ loc.finalizer
                    /\ pos \in Nat \ {0}
                    /\ \A i \in 1..Len(Needs[cur]) : i < pos => Needs[cur][i] \in loc.labels
                    /\ pc \in {"need", "label"} =>
                         pos \in 1..Len(Needs[cur]) /\ Needed \in Resources
  OBVIOUS
<1>1. pc # "idle" /\ cur \in Domains /\ loc \in Object /\ PcInv
  BY AtStep DEF Creating
<1>2. pc \in {"need", "label"} => pos \in 1..Len(Needs[cur])
  BY DEF IInv, TypeOK, LocalTypes
<1>3. pc \in {"need", "label"} => Needed \in Resources
  BY <1>1, <1>2, NeedsTypes DEF Needed
<1> QED
  BY <1>1, <1>2, <1>3 DEF PcInv

\* A resource is looked up.
LEMMA NeedIInv ==
  ASSUME IInv, NeedOk \/ NeedFails PROVE IInv'
<1>1. CASE NeedOk
  <2>1. pc = "need" /\ Stays /\ Calm /\ Goto("label") /\ UNCHANGED queued
    BY <1>1, StaysCalm DEF NeedOk, At
  <2>2. PcInv'
    BY <2>1, AtStep DEF Goto, PcInv, Creating, Existing, Halting, Dropping, Stays
  <2> QED
    BY <2>1, <2>2, AtStep, AtCreating, CalmStep DEF Goto, PcStates, Creating
<1>2. CASE NeedFails
  <2>1. pc = "need" /\ Calm
    BY <1>2, StaysCalm DEF NeedFails, At
  <2>2. CASE Retry
    BY <2>1, <2>2, AtStep, CalmEnd DEF Retry
  <2>3. CASE Goto("unready") /\ UNCHANGED queued
    BY <2>1, <2>3, ToUnready
  <2> QED
    BY <1>2, <2>2, <2>3 DEF NeedFails
<1> QED
  BY <1>1, <1>2

\* Its label is written.
LEMMA LabelIInv ==
  ASSUME IInv, LabelOk \/ LabelFails PROVE IInv'
<1>1. CASE LabelOk
  <2>1. /\ pc = "label" /\ pc' = NeedAt(pos + 1) /\ pos' = pos + 1
        /\ UNCHANGED <<cache, queued, power, otherVars, cur, locFresh, found, off>>
    BY <1>1 DEF LabelOk, At
  <2>2. /\ cur \in Domains /\ loc \in Object /\ power[cur] = "none"
        /\ loc.life = "live" /\ loc.finalizer
        /\ pos \in 1..Len(Needs[cur]) /\ Needed \in Resources
        /\ \A i \in 1..Len(Needs[cur]) : i < pos => Needs[cur][i] \in loc.labels
    BY <2>1, AtCreating DEF Creating
  <2>3. /\ Len(Needs[cur]) \in Nat /\ pos + 1 \in Nat \ {0}
        /\ pc' \in {"need", "make"}
        /\ pc' = "need" => pos' \in 1..Len(Needs[cur])
        /\ pc' = "make" => pos' > Len(Needs[cur])
    BY <2>1, <2>2, NeedsTypes, NeedAtType
  <2>4. ASSUME loc'.life = "live", loc'.finalizer,
               loc.labels \subseteq loc'.labels, Needed \in loc'.labels
        PROVE  PcInv'
    <3>1. \A i \in 1..Len(Needs[cur]) : i < pos + 1 => Needs[cur][i] \in loc'.labels
      BY <2>2, <2>4 DEF Needed
    <3> QED
      BY <2>1, <2>2, <2>3, <2>4, <3>1 DEF PcInv, Creating, Existing, Halting, Dropping
  <2>5. CASE Needed \in loc.labels /\ UNCHANGED <<apiVars, loc>>
    <3>1. Calm
      BY <2>1, <2>5, StaysCalm DEF Stays
    <3> QED
      BY <2>1, <2>2, <2>3, <2>4, <2>5, <3>1, AtStep, CalmStep DEF PcStates
  <2>6. CASE locFresh /\ Store(cur, WithLabel(loc, Needed)) /\ loc' = WithLabel(loc, Needed)
    <3>1. /\ loc'.life = "live" /\ loc'.finalizer
          /\ loc.labels \subseteq loc'.labels /\ Needed \in loc'.labels
      BY <2>2, <2>6 DEF WithLabel, Object
    <3>2. WithLabel(loc, Needed) \in Object /\ Keeps(WithLabel(loc, Needed))
      BY <2>1, <2>2, <2>6, WriteTypes, WritesKeep
    <3> QED
      BY <2>1, <2>3, <2>4, <2>6, <3>1, <3>2, MiddleWrite DEF PcStates
  <2> QED
    BY <1>1, <2>5, <2>6 DEF LabelOk
<1>2. CASE LabelFails
  <2>1. pc = "label" /\ Needed \in Resources /\ loc \in Object /\ WriteFails(WithLabel(loc, Needed))
    BY <1>2, AtCreating DEF LabelFails, At, Creating
  <2> QED
    BY <2>1, WriteTypes, WritesKeep, WriteFailsIInv
<1> QED
  BY <1>1, <1>2

\* DomainDefineXML: the object has its finalizer and the labels of all needs.
LEMMA MakeIInv ==
  ASSUME IInv, MakeOk \/ MakeFails PROVE IInv'
<1>1. /\ pc = "make" /\ Libvirt /\ UNCHANGED queued
      /\ Defined \/ UNCHANGED power
      /\ \/ Goto("hostLabel") /\ Defined
         \/ Goto("unready")
  BY DEF MakeOk, MakeFails, At
<1>2. /\ cur \in Domains /\ loc.life = "live" /\ loc.finalizer /\ LocInv
      /\ \A i \in 1..Len(Needs[cur]) : Needs[cur][i] \in loc.labels
  <2>1. pos \in Nat /\ pos > Len(Needs[cur])
    BY <1>1, AtStep DEF PcInv
  <2> QED
    BY <1>1, <2>1, AtStep, AtCreating, NeedsTypes DEF Creating
<1>3. CASE UNCHANGED power /\ Goto("unready")
  BY <1>1, <1>3, StaysCalm, ToUnready DEF Stays, Libvirt
<1>4. CASE Defined
  <2>1. power'[cur] = "off" /\ \A d \in Domains \ {cur} : power'[d] = power[d]
    BY <1>2, <1>4 DEF Defined, IInv, TypeOK, OtherTypes
  <2>2. obj[cur].finalizer /\ obj[cur].life # "gone"
    BY <1>1, <1>2 DEF LocInv, Tells, IInv, ApiInv, LifeInv
  <2>3. ApiTypes'
    BY <1>1 DEF Libvirt, IInv, TypeOK, ApiTypes, apiVars
  <2>4. OtherTypes'
    BY <1>1, <1>2, <1>4 DEF Libvirt, Defined, IInv, TypeOK, OtherTypes, otherVars
  <2>5. LocalTypes'
    BY <1>1 DEF Goto, IInv, TypeOK, LocalTypes, PcStates
  <2>6. LifeInv' /\ ReadyExists' /\ DomainIsOwned'
    BY <1>1, <2>1, <2>2
       DEF Libvirt, IInv, ApiInv, LifeInv, ReadyExists, DomainIsOwned, apiVars
  <2>7. CacheInv'
    BY <1>1, <2>1, <2>2 DEF Libvirt, IInv, ApiInv, CacheInv, Tells, apiVars
  <2>8. NeedsAreLabelled'
    <3>1. loc.labels \subseteq obj[cur].labels
      BY <1>1, <1>2, <2>2 DEF LocInv, Tells
    <3> QED
      BY <1>1, <1>2, <2>1, <3>1 DEF Libvirt, IInv, ApiInv, NeedsAreLabelled, apiVars
  <2>9. LocInv'
    BY <1>1, <1>2, <2>1, <2>2 DEF Libvirt, Goto, LocInv, Tells, apiVars
  <2>10. PcInv'
    BY <1>1, <1>2, <2>1 DEF Goto, PcInv, Creating, Existing, Halting, Dropping
  <2> QED
    BY <2>3, <2>4, <2>5, <2>6, <2>7, <2>8, <2>9, <2>10 DEF IInv, TypeOK, ApiInv, LocalInv
<1> QED
  BY <1>1, <1>3, <1>4

\* The label of the host is written, the domain started and marked Ready.
LEMMA StartIInv ==
  ASSUME IInv, HostLabelOk \/ HostLabelFails \/ StartOk \/ StartFails \/ CreatedOk \/ CreatedFails
  PROVE  IInv'
<1>1. CASE HostLabelOk
  <2>1. pc = "hostLabel" /\ WriteSucceeds(WithHostLabel(loc), Defining(loc))
    BY <1>1 DEF HostLabelOk, At
  <2>2. Defining(loc) \in {"created", "start"}
    BY DEF Defining
  <2>3. WithHostLabel(loc).life = "live" /\ WithHostLabel(loc).finalizer
    BY <2>1, AtStep DEF WithHostLabel, Object, PcInv, Existing
  <2>4. PcInv'
    BY <2>1, <2>2, <2>3, AtStep DEF WriteSucceeds, PcInv, Creating, Existing, Halting, Dropping
  <2> QED
    BY <2>1, <2>2, <2>3, <2>4, AtStep, WriteTypes, WritesKeep, MiddleWrite
       DEF PcStates, WriteSucceeds
<1>2. CASE HostLabelFails
  BY <1>2, AtStep, WriteTypes, WritesKeep, WriteFailsIInv DEF HostLabelFails, At
<1>3. CASE StartOk \/ StartFails
  <2>1. /\ pc = "start" /\ Libvirt /\ (Started \/ UNCHANGED power)
        /\ \/ Goto("created") /\ UNCHANGED queued
           \/ End /\ queued' \in SUBSET Domains
    BY <1>3, AtStep DEF StartOk, StartFails, At, Done, Retry
  <2>2. cur \in Domains /\ loc.life = "live" /\ loc.finalizer /\ power[cur] # "none"
    BY <2>1, AtStep DEF PcInv, Existing
  <2>3. Calm /\ power'[cur] # "none"
    BY <2>1, <2>2 DEF Calm, Started, Libvirt, IInv, TypeOK, OtherTypes, otherVars
  <2>4. CASE End /\ queued' \in SUBSET Domains
    BY <2>3, <2>4, CalmEnd
  <2>5. CASE Goto("created") /\ UNCHANGED queued
    <3>1. PcInv'
      BY <2>2, <2>3, <2>5 DEF Goto, PcInv, Creating, Existing, Halting, Dropping
    <3> QED
      BY <2>1, <2>3, <2>5, <3>1, CalmGoto DEF PcStates
  <2> QED
    BY <2>1, <2>4, <2>5
<1>4. CASE CreatedOk \/ CreatedFails
  <2>1. /\ pc = "created" /\ End /\ queued' \in SUBSET Domains
        /\ UNCHANGED <<cache, power, otherVars>>
        /\ UNCHANGED apiVars \/ (locFresh /\ Store(cur, Marked(loc)))
    BY <1>4, AtStep DEF CreatedOk, CreatedFails, At, Done, WriteFails, Retry
  <2>2. power[cur] # "none" /\ Marked(loc) \in Object
    BY <2>1, AtStep, WriteTypes DEF PcInv, Existing
  <2> QED
    BY <2>1, <2>2, WritesKeep, LastWrite
<1> QED
  BY <1>1, <1>2, <1>3, <1>4

\* What a reconcile knows at the end of a deletion.
LEMMA AtDropping ==
  IInv /\ pc \in Dropping =>
    /\ cur \in Domains /\ loc \in Object /\ loc.life = "deleting" /\ loc.finalizer
    /\ obj[cur].life \in {"deleting", "gone"}
    /\ power[cur] # "none" => obj[cur].life = "deleting"
    /\ cache[cur].life \in {"deleting", "gone"}
<1> SUFFICES ASSUME IInv, pc \in Dropping
             PROVE  /\ cur \in Domains /\ loc \in Object
                    /\ loc.life = "deleting" /\ loc.finalizer
                    /\ obj[cur].life \in {"deleting", "gone"}
                    /\ power[cur] # "none" => obj[cur].life = "deleting"
                    /\ cache[cur].life \in {"deleting", "gone"}
  OBVIOUS
<1>1. pc # "idle" /\ PcInv /\ LocInv /\ cur \in Domains /\ loc \in Object
  BY AtStep DEF Dropping
<1>2. loc.life = "deleting" /\ loc.finalizer
  BY <1>1 DEF PcInv
<1>3. obj[cur].life \in {"deleting", "gone"} /\ cache[cur].life \in {"deleting", "gone"}
  BY <1>1, <1>2 DEF LocInv, Tells
<1>4. power[cur] # "none" => obj[cur].finalizer
  BY <1>1, <1>2 DEF LocInv, Tells
<1>5. obj[cur].life = "gone" => ~obj[cur].finalizer
  BY <1>1 DEF IInv, ApiInv, LifeInv
<1> QED
  BY <1>1, <1>2, <1>3, <1>4, <1>5

\* The domain is undefined.
LEMMA UndefineIInv ==
  ASSUME IInv, UndefineOk \/ UndefineFails PROVE IInv'
<1>1. /\ pc = "undefine" /\ Libvirt /\ (Undefined \/ UNCHANGED power)
      /\ \/ Undefined /\ Goto("unfinalize") /\ UNCHANGED queued
         \/ End /\ queued' \in SUBSET Domains
  BY AtStep DEF UndefineOk, UndefineFails, At, Retry
<1>2. /\ cur \in Domains /\ obj[cur].life \in {"deleting", "gone"}
      /\ loc.life = "deleting" /\ loc.finalizer
  BY <1>1, AtDropping DEF Dropping
<1>3. CASE UNCHANGED power /\ End /\ queued' \in SUBSET Domains
  BY <1>1, <1>3, StaysCalm, CalmEnd DEF Stays, Libvirt
<1>4. CASE Undefined
  <2>1. power'[cur] = "none" /\ \A d \in Domains \ {cur} : power'[d] = power[d]
    BY <1>2, <1>4 DEF Undefined, IInv, TypeOK, OtherTypes
  <2>2. OtherTypes'
    BY <1>1, <1>2, <1>4 DEF Libvirt, Undefined, IInv, TypeOK, OtherTypes, otherVars
  <2>3. ApiTypes'
    BY <1>1, AtStep DEF Libvirt, Goto, IInv, TypeOK, ApiTypes, apiVars
  <2>4. LifeInv' /\ DomainIsOwned' /\ NeedsAreLabelled' /\ ReadyExists'
    BY <1>1, <1>2, <2>1
       DEF Libvirt, IInv, ApiInv, LifeInv, DomainIsOwned, NeedsAreLabelled, ReadyExists, apiVars
  <2>5. CacheInv'
    BY <1>1, <1>2, <2>1 DEF Libvirt, IInv, ApiInv, CacheInv, Tells, apiVars
  <2>6. CASE End
    BY <2>2, <2>3, <2>4, <2>5, <2>6, EndLocal DEF IInv, TypeOK, ApiInv
  <2>7. CASE Goto("unfinalize")
    <3>1. LocalTypes'
      BY <1>1, <2>7 DEF Goto, IInv, TypeOK, LocalTypes, PcStates
    <3>2. PcInv'
      BY <1>2, <2>1, <2>7 DEF Goto, PcInv, Creating, Existing, Halting, Dropping
    <3>3. LocInv'
      BY <1>1, <1>2, <2>1, <2>7, AtStep DEF Libvirt, Goto, LocInv, Tells, apiVars
    <3> QED
      BY <2>2, <2>3, <2>4, <2>5, <3>1, <3>2, <3>3 DEF IInv, TypeOK, ApiInv, LocalInv
  <2> QED
    BY <1>1, <2>6, <2>7
<1> QED
  BY <1>1, <1>3, <1>4

\* The finalizer is removed, and the object with it.
LEMMA UnfinalizeIInv ==
  ASSUME IInv, UnfinalizeOk \/ UnfinalizeFails PROVE IInv'
<1>1. /\ pc = "unfinalize" /\ End /\ queued' \in SUBSET Domains
      /\ UNCHANGED <<cache, power, otherVars>>
      /\ UNCHANGED apiVars \/ (locFresh /\ Store(cur, Unfinalized(loc)))
  BY AtStep DEF UnfinalizeOk, UnfinalizeFails, At, Done, WriteFails, Retry
<1>2. /\ cur \in Domains /\ loc \in Object /\ loc.life = "deleting" /\ power[cur] = "none"
      /\ cache[cur].life \in {"deleting", "gone"}
  BY <1>1, AtStep, AtDropping DEF Dropping, PcInv
<1>3. CASE UNCHANGED apiVars
  BY <1>1, <1>3, StaysCalm, CalmEnd DEF Stays
<1>4. CASE locFresh /\ Store(cur, Unfinalized(loc))
  <2>1. obj'[cur] = Gone /\ behind' = behind \cup {cur}
        /\ \A u \in Domains \ {cur} : obj'[u] = obj[u]
    BY <1>2, <1>4 DEF Store, Stored, Unfinalized, Object, IInv, TypeOK, ApiTypes
  <2>2. Gone.life = "gone" /\ ~Gone.finalizer /\ Gone.labels = {}
    BY DEF Gone, Blank
  <2>3. ApiTypes'
    BY <1>1, <1>2, <1>4, WriteTypes, StoreTypes DEF IInv, TypeOK
  <2>4. LifeInv' /\ DomainIsOwned' /\ NeedsAreLabelled' /\ ReadyExists'
    BY <1>1, <1>2, <2>1, <2>2
       DEF IInv, ApiInv, LifeInv, DomainIsOwned, NeedsAreLabelled, ReadyExists
  <2>5. cache[cur].finalizer => cache[cur].life = "deleting"
    BY <1>2 DEF IInv, ApiInv, LifeInv
  <2>6. CacheInv'
    <3>1. \A u \in Domains \ {cur} : Tells(cache[u], u)' /\ (u \notin behind' => cache'[u] = obj'[u])
      BY <1>1, <2>1 DEF IInv, ApiInv, CacheInv, Tells
    <3>2. ASSUME NEW u \in Domains, u = cur
          PROVE  Tells(cache[u], u)' /\ u \in behind'
      <4>1. /\ cache'[u].finalizer => cache'[u].life = "deleting" /\ power'[u] = "none"
            /\ obj'[u].life = "gone"
        BY <1>1, <1>2, <2>1, <2>2, <2>5, <3>2
      <4> QED
        BY <4>1, <2>1, <3>2 DEF Tells
    <3> QED
      BY <3>1, <3>2 DEF CacheInv
  <2>7. OtherTypes'
    BY <1>1 DEF IInv, TypeOK, OtherTypes, otherVars
  <2> QED
    BY <1>1, <2>3, <2>4, <2>6, <2>7, EndLocal DEF IInv, TypeOK, ApiInv
<1> QED
  BY <1>1, <1>3, <1>4

-----------------------------------------------------------------------------
(***************************************************************************)
(* The theorems.                                                           *)
(***************************************************************************)

\* The operator starts with no object, and libvirt with domains of its own.
LEMMA InitIInv == Init => IInv
<1> SUFFICES ASSUME Init PROVE IInv
  OBVIOUS
<1> USE DEF Init
<1>1. NoObject.life = "absent" /\ ~NoObject.finalizer /\ NoObject.labels = {}
  BY DEF NoObject, Blank
<1>2. ApiTypes
  BY BlankTypes DEF ApiTypes
<1>3. OtherTypes /\ \A d \in Domains \ Preexisting : power[d] = "none"
  BY DEF OtherTypes
<1>4. LocalTypes
  BY BlankTypes DEF LocalTypes, PcStates
<1>5. ApiInv
  BY <1>1, <1>3 DEF ApiInv, LifeInv, CacheInv, Tells, DomainIsOwned, NeedsAreLabelled, ReadyExists
<1>6. LocalInv
  BY DEF LocalInv, LocInv, PcInv, Creating, Existing, Halting, Dropping
<1> QED
  BY <1>2, <1>3, <1>4, <1>5, <1>6 DEF IInv, TypeOK

\* Every step keeps the invariant.
LEMMA NextIInv == IInv /\ [Next]_vars => IInv'
<1> SUFFICES ASSUME IInv, [Next]_vars PROVE IInv'
  OBVIOUS
<1>1. CASE Reconcile
  <2>1. CASE \E d \in Domains : Begin(d)
    BY <2>1, BeginIInv
  <2>2. CASE StepOk
    BY <2>2, RefsIInv, MetaIInv, MarkIInv, ShutIInv, NeedIInv, LabelIInv, MakeIInv,
       StartIInv, UndefineIInv, UnfinalizeIInv DEF StepOk
  <2>3. CASE StepFails
    BY <2>3, RefsIInv, MetaIInv, MarkIInv, ShutIInv, NeedIInv, LabelIInv, MakeIInv,
       StartIInv, UndefineIInv, UnfinalizeIInv DEF StepFails
  <2> QED
    BY <1>1, <2>1, <2>2, <2>3 DEF Reconcile
<1>2. CASE Environment
  BY <1>2, UserIInv, CacheSyncIInv, AroundIInv, CrashIInv DEF Environment
<1>3. CASE UNCHANGED vars
  <2>1. Stays /\ UNCHANGED <<queued, localVars>>
    BY <1>3 DEF vars, Stays
  <2>2. PcInv'
    BY <2>1 DEF IInv, LocalInv, PcInv, Stays, localVars
  <2> QED
    BY <2>1, <2>2, StaysCalm, CalmAround
<1> QED
  BY <1>1, <1>2, <1>3 DEF Next

\* The inductive invariant holds throughout.
THEOREM Invariance == Spec => []IInv
<1>1. Init => IInv
  BY InitIInv
<1>2. IInv /\ [Next]_vars => IInv'
  BY NextIInv
<1> QED
  BY <1>1, <1>2, PTL DEF Spec

\* The variables keep their types; in particular the loops of create stay
\* within the lists of Spec.
THEOREM TypeCorrect == Spec => []TypeOK
<1>1. IInv => TypeOK
  BY DEF IInv
<1> QED
  BY <1>1, Invariance, PTL

\* A domain that the operator defined keeps its object and its finalizer.
THEOREM DomainOwned == Spec => []DomainIsOwned
<1>1. IInv => DomainIsOwned
  BY DEF IInv, ApiInv
<1> QED
  BY <1>1, Invariance, PTL

\* Everything it was built from is labelled before DomainDefineXML and stays so.
THEOREM NeedsLabelled == Spec => []NeedsAreLabelled
<1>1. IInv => NeedsAreLabelled
  BY DEF IInv, ApiInv
<1> QED
  BY <1>1, Invariance, PTL

\* A live domain with the condition Ready is there.
THEOREM ReadyDomainsExist == Spec => []ReadyExists
<1>1. IInv => ReadyExists
  BY DEF IInv, ApiInv
<1> QED
  BY <1>1, Invariance, PTL

\* Only the last steps of a deletion undefine a domain.
LEMMA OnlyUndefines ==
  ASSUME IInv, [Next]_vars, NEW d \in Domains, power[d] # "none", power'[d] = "none"
  PROVE  pc = "undefine" /\ d = cur
<1>0. power \in [Domains -> {"none", "off", "on", "asked"}]
  BY DEF IInv, TypeOK, OtherTypes
<1>1. CASE StepOk
  <2>1. power' = power \/ ShutOk \/ MakeOk \/ StartOk \/ UndefineOk
    BY <1>1 DEF StepOk, RefsOk, AddFinalizerOk, Dispatch, MarkOk, PowerOk, WaitOk, NeedOk,
       LabelOk, HostLabelOk, CreatedOk, UnfinalizeOk, SetUnready, WriteSucceeds, WriteFails, Stays
  <2> QED
    BY <1>0, <2>1 DEF ShutOk, Asked, MakeOk, Defined, StartOk, Started, UndefineOk, Undefined, At
<1>2. CASE StepFails
  <2>1. power' = power \/ ShutFails \/ MakeFails \/ StartFails \/ UndefineFails
    BY <1>2 DEF StepFails, RefsUnmet, AddFinalizerFails, MarkFails, WaitFails, NeedFails,
       LabelFails, HostLabelFails, CreatedFails, UnfinalizeFails, WriteFails, Stays
  <2> QED
    BY <1>0, <2>1
       DEF ShutFails, Asked, MakeFails, Defined, StartFails, Started, UndefineFails, Undefined, At
<1>3. CASE Environment \/ \E u \in Domains : Begin(u)
  <2>1. power' = power \/ Guests
    BY <1>3 DEF Environment, UserCreates, UserDeletes, UserToggles, UserWrites, CacheSync,
       Others, HostDeleted, ResReady, ResUnready, ResChecked, ResDropFails, ResDropped,
       ResForgotten, ResTo, Crash, Begin, Stays
  <2> QED
    BY <1>0, <2>1 DEF Guests, GuestObeys, GuestStops
<1>4. CASE UNCHANGED vars
  BY <1>4 DEF vars
<1> QED
  BY <1>1, <1>2, <1>3, <1>4 DEF Next, Reconcile

\* A reconcile undefines a domain only if its object, as the API server holds
\* it at that moment, is being deleted, and only if it is shut off.
THEOREM UndefineAskedFor == Spec => UndefineIsAskedFor
<1>1. IInv /\ [Next]_vars =>
        [\A d \in Domains : power[d] # "none" /\ power'[d] = "none"
           => obj[d].life = "deleting" /\ power[d] = "off"]_vars
  <2> SUFFICES ASSUME IInv, [Next]_vars, NEW d \in Domains,
                      power[d] # "none", power'[d] = "none"
               PROVE  obj[d].life = "deleting" /\ power[d] = "off"
    OBVIOUS
  <2>1. pc = "undefine" /\ d = cur
    BY OnlyUndefines
  <2> QED
    BY <2>1, AtDropping, AtStep DEF Dropping, PcInv
<1> QED
  BY <1>1, Invariance, PTL DEF Spec, UndefineIsAskedFor

\* Where the cache has caught up with a domain, the controllers of the resources
\* see the labels of what it was built from.
LEMMA CurrentUsers ==
  IInv =>
    \A d \in Domains \ (Preexisting \cup behind), i \in Nat :
      power[d] # "none" /\ i \in 1..Len(Needs[d]) => d \in Users(Needs[d][i])
<1> SUFFICES ASSUME IInv, NEW d \in Domains \ (Preexisting \cup behind), NEW i \in Nat,
                    power[d] # "none", i \in 1..Len(Needs[d])
             PROVE  d \in Users(Needs[d][i])
  OBVIOUS
<1>1. cache[d] = obj[d] /\ obj[d] \in Object
  BY DEF IInv, TypeOK, ApiTypes, ApiInv, CacheInv
<1>2. obj[d].finalizer /\ Needs[d][i] \in obj[d].labels
  BY DEF IInv, ApiInv, DomainIsOwned, NeedsAreLabelled
<1>3. obj[d].life \in {"live", "deleting"}
  BY <1>1, <1>2 DEF IInv, ApiInv, LifeInv, Object
<1> QED
  BY <1>1, <1>2, <1>3 DEF Users, Present

\* Its decision is a step of the environment of its own.
LEMMA OnlyChecks ==
  ASSUME [Next]_vars, res \in [Resources -> {"unready", "ready", "checked", "gone", "forgotten"}],
         NEW x \in Resources, res'[x] = "checked", res[x] # "checked"
  PROVE  Users(x) = {}
<1>1. CASE UNCHANGED vars
  BY <1>1 DEF vars, otherVars
<1>2. CASE Next
  <2>1. CASE StepOk
    BY <2>1 DEF StepOk, RefsOk, AddFinalizerOk, Dispatch, MarkOk, PowerOk, ShutOk, WaitOk, NeedOk,
       LabelOk, MakeOk, HostLabelOk, StartOk, CreatedOk, UndefineOk, UnfinalizeOk, SetUnready,
       WriteSucceeds, WriteFails, Stays, Libvirt, otherVars
  <2>2. CASE StepFails
    BY <2>2 DEF StepFails, RefsUnmet, AddFinalizerFails, MarkFails, ShutFails, WaitFails, NeedFails,
       LabelFails, MakeFails, HostLabelFails, StartFails, CreatedFails, UndefineFails,
       UnfinalizeFails, WriteFails, Stays, Libvirt, otherVars
  <2>3. CASE \E d \in Domains : Begin(d) \/ UserCreates(d) \/ UserDeletes(d) \/ UserToggles(d)
                                \/ CacheSync(d) \/ GuestObeys(d) \/ GuestStops(d)
    BY <2>3 DEF Begin, UserCreates, UserDeletes, UserToggles, UserWrites, CacheSync, GuestObeys,
       GuestStops, Stays, otherVars
  <2>4. CASE Crash \/ HostDeleted
    BY <2>4 DEF Crash, HostDeleted, otherVars
  <2>5. CASE \E y \in Resources : ResReady(y) \/ ResUnready(y) \/ ResDropFails(y) \/ ResDropped(y)
                                  \/ ResForgotten(y)
    BY <2>5 DEF ResReady, ResUnready, ResDropFails, ResDropped, ResForgotten, ResTo
  <2>6. CASE \E y \in Resources : ResChecked(y)
    BY <2>6 DEF ResChecked, ResTo
  <2> QED
    BY <1>2, <2>1, <2>2, <2>3, <2>4, <2>5, <2>6
       DEF Next, Reconcile, Environment, Guests, Others
<1> QED
  BY <1>1, <1>2

\* Nothing that a domain of libvirt was built from is given up, unless by a
\* controller that does not see the newest version of the domain.
THEOREM NeedsKept == Spec => NeedsAreKept
<1>1. IInv /\ [Next]_vars =>
        [\A x \in Resources, d \in Domains \ Preexisting :
           /\ power[d] # "none" /\ \E i \in 1..Len(Needs[d]) : Needs[d][i] = x
           /\ res'[x] = "checked"
           => res[x] = "checked" \/ d \in behind]_vars
  <2> SUFFICES ASSUME IInv, [Next]_vars, NEW x \in Resources,
                      NEW d \in Domains \ Preexisting, power[d] # "none",
                      NEW i \in 1..Len(Needs[d]), Needs[d][i] = x,
                      res'[x] = "checked", res[x] # "checked"
               PROVE  d \in behind
    OBVIOUS
  <2>1. Users(x) = {}
    BY OnlyChecks DEF IInv, TypeOK, OtherTypes
  <2>2. i \in Nat
    BY NeedsTypes
  <2>3. d \notin behind => d \in Users(x)
    BY <2>2, CurrentUsers
  <2> QED
    BY <2>1, <2>3
<1> QED
  BY <1>1, Invariance, PTL DEF Spec, NeedsAreKept

-----------------------------------------------------------------------------
(***************************************************************************)
(* The controller implements Ownership: a write to the API server creates, *)
(* holds, deletes or releases an object or none, DomainDefineXML makes and *)
(* DomainUndefine drops, and any step may retire an object.                *)
(***************************************************************************)
Over(o) == o.life \in {"deleting", "gone"}

\* What the cache tells of a deletion is true.
OverInv == \A d \in Domains : Over(cache[d]) => Over(obj[d])

\* What the steps do to the objects and to libvirt
Idles  == obj' = obj /\ \A d \in Domains : power'[d] = "none" <=> power[d] = "none"
Makes  == pc = "make" /\ obj' = obj /\ power' = [power EXCEPT ![cur] = "off"]
Drops  == pc = "undefine" /\ obj' = obj /\ power' = [power EXCEPT ![cur] = "none"]
Writes == /\ pc # "idle" /\ locFresh /\ power' = power
          /\ \E o \in Object :
               /\ Store(cur, o)
               /\ o.life = loc.life
               /\ \/ o.finalizer = loc.finalizer
                  \/ o.finalizer /\ loc.life = "live"
                  \/ ~o.finalizer /\ pc = "unfinalize"
Uses   == /\ power' = power
          /\ \E d \in Domains, o \in Object :
               /\ UserWrites(d, o)
               /\ \/ obj[d].life = "absent" /\ o.life = "live" /\ ~o.finalizer
                  \/ obj[d].life = "live" /\ o.life = "deleting" /\ o.finalizer = obj[d].finalizer
                  \/ /\ Present(obj[d])
                     /\ o.life = obj[d].life /\ o.finalizer = obj[d].finalizer

LEMMA Effects ==
  ASSUME IInv, [Next]_vars
  PROVE  Idles \/ Makes \/ Drops \/ Writes \/ Uses
<1>0. /\ loc \in Object /\ power \in [Domains -> {"none", "off", "on", "asked"}]
      /\ pc = "meta" /\ ~Deleting(loc) => loc.life = "live"
      /\ pc \in Existing \cup Halting => power[cur] # "none"
      /\ pc = "label" => Needed \in Resources
  BY NeedsTypes
     DEF IInv, TypeOK, LocalTypes, OtherTypes, LocalInv, LocInv, PcInv, Deleting, Needed
<1>1. /\ \A o \in {Unready(loc), Marked(loc), WithHostLabel(loc)} :
           o \in Object /\ o.life = loc.life /\ o.finalizer = loc.finalizer
      /\ pc = "label" => LET o == WithLabel(loc, Needed) IN
           o \in Object /\ o.life = loc.life /\ o.finalizer = loc.finalizer
  <2>1. /\ Unready(loc).life = loc.life /\ Unready(loc).finalizer = loc.finalizer
        /\ Marked(loc).life = loc.life /\ Marked(loc).finalizer = loc.finalizer
        /\ WithHostLabel(loc).life = loc.life /\ WithHostLabel(loc).finalizer = loc.finalizer
    BY <1>0 DEF Object, Unready, Marked, WithHostLabel
  <2>2. /\ WithLabel(loc, Needed).life = loc.life
        /\ WithLabel(loc, Needed).finalizer = loc.finalizer
    BY <1>0 DEF Object, WithLabel
  <2> QED
    BY <1>0, <2>1, <2>2, WriteTypes
<1>2. /\ WithFinalizer(loc) \in Object /\ WithFinalizer(loc).life = loc.life
      /\ WithFinalizer(loc).finalizer
      /\ Unfinalized(loc) \in Object /\ Unfinalized(loc).life = loc.life
      /\ ~Unfinalized(loc).finalizer
  BY <1>0, WriteTypes DEF Object, WithFinalizer, Unfinalized
<1>3. CASE RefsOk \/ Dispatch \/ PowerOk \/ WaitOk \/ NeedOk \/ RefsUnmet \/ WaitFails \/ NeedFails
           \/ (\E d \in Domains : Begin(d) \/ CacheSync(d)) \/ Others \/ Crash \/ UNCHANGED vars
  <2>1. obj' = obj /\ power' = power
    BY <1>3 DEF RefsOk, Dispatch, PowerOk, WaitOk, NeedOk, RefsUnmet, WaitFails, NeedFails, Begin,
       CacheSync, Others, HostDeleted, ResReady, ResUnready, ResChecked, ResDropFails, ResDropped,
       ResForgotten, ResTo, Crash, vars, Stays, apiVars
  <2> QED
    BY <2>1 DEF Idles
<1>4. CASE AddFinalizerOk \/ MarkOk \/ HostLabelOk \/ LabelOk
  BY <1>0, <1>1, <1>2, <1>4
     DEF AddFinalizerOk, MarkOk, HostLabelOk, LabelOk, At, WriteSucceeds, Writes, Stays, Idles,
         apiVars
<1>5. CASE AddFinalizerFails \/ SetUnready \/ MarkFails \/ HostLabelFails \/ LabelFails
           \/ CreatedFails \/ UnfinalizeFails
  BY <1>0, <1>1, <1>2, <1>5
     DEF AddFinalizerFails, SetUnready, MarkFails, HostLabelFails, LabelFails, CreatedFails,
         UnfinalizeFails, At, WriteFails, Writes, Stays, Idles, apiVars
<1>6. CASE CreatedOk \/ UnfinalizeOk
  BY <1>0, <1>1, <1>2, <1>6 DEF CreatedOk, UnfinalizeOk, At, Writes
<1>7. CASE MakeOk \/ MakeFails
  BY <1>7 DEF MakeOk, MakeFails, At, Defined, Makes, Idles, Libvirt, apiVars
<1>8. CASE UndefineOk \/ UndefineFails
  BY <1>8 DEF UndefineOk, UndefineFails, At, Undefined, Drops, Idles, Libvirt, apiVars
<1>10. CASE ShutOk \/ ShutFails \/ StartOk \/ StartFails \/ Guests
  BY <1>0, <1>10 DEF ShutOk, ShutFails, StartOk, StartFails, At, Asked, Started, Guests, GuestObeys,
     GuestStops, Existing, Halting, Idles, Libvirt, apiVars
<1>9. CASE \E d \in Domains : UserCreates(d) \/ UserDeletes(d) \/ UserToggles(d)
  <2>1. PICK d \in Domains : UserCreates(d) \/ UserDeletes(d) \/ UserToggles(d)
    BY <1>9
  <2>2. obj[d] \in Object
    BY DEF IInv, TypeOK, ApiTypes
  <2>3. CASE UserCreates(d)
    <3>1. PICK s \in BOOLEAN : UserWrites(d, Blank("live", s))
      BY <2>3 DEF UserCreates
    <3>2. Blank("live", s) \in Object /\ Blank("live", s).life = "live"
          /\ ~Blank("live", s).finalizer
      BY DEF Blank, Object
    <3> QED
      BY <2>3, <3>1, <3>2 DEF UserCreates, UserWrites, Uses
  <2>4. CASE UserDeletes(d)
    BY <2>2, <2>4 DEF UserDeletes, UserWrites, Uses, Object
  <2>5. CASE UserToggles(d)
    <3>1. PICK s \in BOOLEAN : UserWrites(d, [obj[d] EXCEPT !.shutoff = s])
      BY <2>5 DEF UserToggles
    <3>2. obj[d].shutoff \in BOOLEAN /\ Present(obj[d])
      BY <2>2, <2>5 DEF UserToggles, Object
    <3> QED
      BY <2>2, <3>1, <3>2 DEF UserWrites, Uses, Object
  <2> QED
    BY <2>1, <2>3, <2>4, <2>5
<1> QED
  BY <1>3, <1>4, <1>5, <1>6, <1>7, <1>8, <1>9, <1>10
     DEF Next, Reconcile, Environment, StepOk, StepFails

\* An object whose deletion has begun is never live again.
LEMMA OverStays ==
  ASSUME IInv, [Next]_vars, NEW d \in Domains, Over(obj[d])
  PROVE  Over(obj[d])'
<1>0. obj \in [Domains -> Object] /\ cur \in Domains \cup {NoDomain}
  BY DEF IInv, TypeOK, ApiTypes, LocalTypes
<1>1. \A o \in Object : o.life = "deleting" => Over(Stored(o))
  BY DEF Over, Stored, Gone, Blank
<1>2. CASE Writes
  BY <1>0, <1>1, <1>2
     DEF Writes, Store, IInv, LocalInv, LocInv, Over
<1>3. CASE Uses
  BY <1>0, <1>1, <1>3 DEF Uses, UserWrites, Store, Over, Present
<1> QED
  BY <1>2, <1>3, Effects DEF Idles, Makes, Drops, Over

\* How the cache and the copy of the reconcile change
LEMMA Views ==
  ASSUME IInv, [Next]_vars
  PROVE  /\ \A d \in Domains : cache'[d] = cache[d] \/ cache'[d] = obj[d]
         /\ cur' \in Domains => \/ cur' = cur /\ loc'.life = loc.life
                                \/ cur' # cur /\ loc' = cache[cur'] /\ Present(loc')
<1>0. NoDomain \notin Domains /\ cache \in [Domains -> Object] /\ loc \in Object
      /\ cur \in Domains \cup {NoDomain}
  BY NoDomainIsNoDomain DEF IInv, TypeOK, ApiTypes, LocalTypes
<1>1. /\ \A o \in {Marked(loc), WithHostLabel(loc), WithFinalizer(loc)} : o.life = loc.life
      /\ \A x : WithLabel(loc, x).life = loc.life
  BY <1>0 DEF Object, Marked, WithHostLabel, WithFinalizer, WithLabel
<1>2. CASE StepOk
  <2>1. cache' = cache
    BY <1>2 DEF StepOk, RefsOk, AddFinalizerOk, Dispatch, MarkOk, PowerOk, ShutOk, WaitOk, NeedOk,
       LabelOk, MakeOk, HostLabelOk, StartOk, CreatedOk, UndefineOk, UnfinalizeOk, SetUnready,
       WriteSucceeds, WriteFails, Stays, Libvirt
  <2>2. End \/ (cur' = cur /\ loc'.life = loc.life)
    BY <1>1, <1>2 DEF StepOk, RefsOk, AddFinalizerOk, Dispatch, MarkOk, PowerOk, ShutOk, WaitOk,
       NeedOk, LabelOk, MakeOk, HostLabelOk, StartOk, CreatedOk, UndefineOk, UnfinalizeOk,
       SetUnready, WriteSucceeds, WriteFails, Done, Retry, Goto
  <2> QED
    BY <1>0, <2>1, <2>2 DEF End
<1>3. CASE StepFails
  <2>1. cache' = cache
    BY <1>3 DEF StepFails, RefsUnmet, AddFinalizerFails, MarkFails, ShutFails, WaitFails, NeedFails,
       LabelFails, MakeFails, HostLabelFails, StartFails, CreatedFails, UndefineFails,
       UnfinalizeFails, WriteFails, Stays, Libvirt
  <2>2. End \/ (cur' = cur /\ loc' = loc)
    BY <1>3 DEF StepFails, RefsUnmet, AddFinalizerFails, MarkFails, ShutFails, WaitFails, NeedFails,
       LabelFails, MakeFails, HostLabelFails, StartFails, CreatedFails, UndefineFails,
       UnfinalizeFails, WriteFails, Done, Retry, Goto
  <2> QED
    BY <1>0, <2>1, <2>2 DEF End
<1>4. CASE \E d \in Domains : Begin(d)
  <2>1. cur = NoDomain
    BY <1>4 DEF IInv, TypeOK, LocalTypes, Begin
  <2> QED
    BY <1>0, <1>4, <2>1 DEF Begin, End, Stays
<1>5. CASE \E d \in Domains : UserCreates(d) \/ UserDeletes(d) \/ UserToggles(d) \/ CacheSync(d)
  BY <1>0, <1>5 DEF UserCreates, UserDeletes, UserToggles, UserWrites, CacheSync, localVars
<1>8. CASE Guests \/ Others
  BY <1>0, <1>8 DEF Guests, GuestObeys, GuestStops, Others, HostDeleted, ResReady, ResUnready,
     ResChecked, ResDropFails, ResDropped, ResForgotten, ResTo, localVars
<1>6. CASE Crash
  BY <1>0, <1>6 DEF Crash, End
<1>7. CASE UNCHANGED vars
  BY <1>7 DEF vars, localVars
<1> QED
  BY <1>2, <1>3, <1>4, <1>5, <1>6, <1>7, <1>8 DEF Next, Reconcile, Environment

LEMMA NextOverInv == ASSUME IInv, OverInv, [Next]_vars PROVE OverInv'
<1> SUFFICES ASSUME NEW d \in Domains, Over(cache[d])' PROVE Over(obj[d])'
  BY DEF OverInv
<1>1. Over(cache[d]) \/ Over(obj[d])
  BY Views DEF Over
<1> QED
  BY <1>1, OverStays DEF OverInv

\* What is retired stays so, and its deletion has begun.
LEMMA NextRetires ==
  ASSUME IInv, OverInv, [Next]_vars
  PROVE  Retired \subseteq Retired' /\ \A d \in Retired' : LifeOf'[d] \in {"deleting", "gone"}
<1>1. ASSUME NEW d \in Retired PROVE d \in Retired'
  <2>1. d \in Own /\ d \in Domains /\ Over(cache[d]) /\ (cur = d => loc.life = "deleting")
    BY DEF Retired, Own, Over
  <2>2. Over(cache'[d])
    BY <2>1, Views DEF OverInv, Over
  <2>3. cur' = d => loc'.life = "deleting"
    BY <2>1, Views DEF Over, Present
  <2> QED
    BY <2>1, <2>2, <2>3 DEF Retired, Over, Own
<1>2. ASSUME NEW d \in Retired' PROVE LifeOf'[d] \in {"deleting", "gone"}
  <2>1. d \in Own /\ d \in Domains /\ Over(cache[d])'
    BY DEF Retired, Own, Over
  <2> QED
    BY <2>1, NextOverInv DEF OverInv, Over, LifeOf
<1> QED
  BY <1>1, <1>2

\* A step that changes one domain, as Ownership sees it
LEMMA Seen ==
  ASSUME NEW d \in Domains,
         \A u \in Domains \ {d} : /\ obj'[u] = obj[u]
                                  /\ (power'[u] # "none" <=> power[u] # "none")
  PROVE  /\ d \notin Own => UNCHANGED <<LifeOf, Held, HasMade>>
         /\ LifeOf' = IF d \in Own THEN [LifeOf EXCEPT ![d] = obj'[d].life] ELSE LifeOf
         /\ Held' \ {d} = Held \ {d} /\ HasMade' \ {d} = HasMade \ {d}
         /\ d \in Own => /\ d \in Held <=> obj[d].finalizer
                         /\ d \in Held' <=> obj'[d].finalizer
                         /\ d \in HasMade <=> power[d] # "none"
                         /\ d \in HasMade' <=> power'[d] # "none"
                         /\ LifeOf[d] = obj[d].life
<1>1. LifeOf' = IF d \in Own THEN [LifeOf EXCEPT ![d] = obj'[d].life] ELSE LifeOf
  <2>1. CASE d \in Own
    <3>1. [LifeOf EXCEPT ![d] = obj'[d].life]
          = [u \in Own |-> IF u = d THEN obj'[d].life ELSE obj[u].life]
      BY DEF LifeOf
    <3>2. \A u \in Own : obj'[u].life = IF u = d THEN obj'[d].life ELSE obj[u].life
      BY DEF Own
    <3> QED
      BY <2>1, <3>1, <3>2 DEF LifeOf
  <2>2. CASE d \notin Own
    <3>1. \A u \in Own : obj'[u].life = obj[u].life
      BY <2>2 DEF Own
    <3> QED
      BY <2>2, <3>1 DEF LifeOf
  <2> QED
    BY <2>1, <2>2
<1> QED
  BY <1>1 DEF LifeOf, Held, HasMade, Own

\* Every step is one of Ownership.
LEMMA NextOwning ==
  ASSUME IInv, OverInv, [Next]_vars
  PROVE  Owning!Next
<1>0. /\ obj \in [Domains -> Object] /\ power \in [Domains -> {"none", "off", "on", "asked"}]
      /\ \A o \in Object : o.finalizer \in BOOLEAN
  BY DEF IInv, TypeOK, ApiTypes, OtherTypes, Object
<1>1. /\ pc # "idle" => cur \in Domains
      /\ pc # "idle" /\ locFresh => loc = obj[cur] /\ Present(loc)
      /\ pc = "make" => loc.life = "live" /\ loc.finalizer
      /\ pc \in Dropping => loc.life = "deleting" /\ Over(cache[cur]) /\ loc.finalizer
      /\ pc = "unfinalize" => power[cur] = "none"
  BY DEF IInv, TypeOK, LocalTypes, LocalInv, LocInv, PcInv, Creating, Existing, Dropping, Over,
     Present
<1> SUFFICES \/ \E d \in Own : \/ Owning!Create(d) \/ Owning!Hold(d) \/ Owning!Delete(d)
                               \/ Owning!Make(d) \/ Owning!Drop(d) \/ Owning!Release(d)
             \/ UNCHANGED <<LifeOf, Held, HasMade>>
  BY NextRetires DEF Owning!Next, Owning!Retires
<1>2. CASE Idles
  BY <1>2 DEF Idles, LifeOf, Held, HasMade, Own
<1>3. CASE Makes
  <2>1. cur \in Domains /\ obj' = obj /\ power'[cur] # "none"
        /\ \A u \in Domains \ {cur} : power'[u] = power[u]
    BY <1>0, <1>1, <1>3 DEF Makes
  <2>2. obj[cur].finalizer
    BY <1>1, <1>3, <2>1 DEF Makes, IInv, LocalInv, LocInv, Tells
  <2>3. cur \notin Retired
    BY <1>1, <1>3 DEF Makes, Retired
  <2>4. CASE cur \in Own
    <3>1. Owning!Make(cur)
      <4>1. UNCHANGED <<LifeOf, Held>>
        BY <2>1 DEF LifeOf, Held
      <4>2. cur \in Held /\ HasMade' = HasMade \cup {cur}
        BY <2>1, <2>2, <2>4, Seen
      <4> QED
        BY <2>3, <4>1, <4>2 DEF Owning!Make
    <3> QED
      BY <2>4, <3>1
  <2> QED
    BY <2>1, <2>4, Seen
<1>4. CASE Drops
  <2>1. cur \in Domains /\ obj' = obj /\ power'[cur] = "none"
        /\ \A u \in Domains \ {cur} : power'[u] = power[u]
    BY <1>0, <1>1, <1>4 DEF Drops
  <2>2. CASE cur \in Own
    <3>1. cur \in Retired
      BY <1>1, <1>4, <2>2 DEF Drops, Retired, Dropping, Over
    <3>2. Owning!Drop(cur)
      <4>1. UNCHANGED <<LifeOf, Held>>
        BY <2>1 DEF LifeOf, Held
      <4>2. HasMade' = HasMade \ {cur}
        BY <2>1, <2>2, Seen
      <4> QED
        BY <3>1, <4>1, <4>2 DEF Owning!Drop
    <3> QED
      BY <2>2, <3>2
  <2> QED
    BY <2>1, <2>2, Seen
<1>5. CASE Writes
  <2>1. PICK o \in Object :
          /\ Store(cur, o)
          /\ o.life = loc.life
          /\ \/ o.finalizer = loc.finalizer
             \/ o.finalizer /\ loc.life = "live"
             \/ ~o.finalizer /\ pc = "unfinalize"
    BY <1>5 DEF Writes
  <2>2. /\ cur \in Domains /\ loc = obj[cur] /\ Present(loc) /\ power' = power
        /\ obj'[cur] = Stored(o)
        /\ \A u \in Domains \ {cur} : obj'[u] = obj[u]
    BY <1>0, <1>1, <1>5, <2>1 DEF Writes, Store
  <2>3. CASE cur \notin Own
    BY <2>2, <2>3, Seen
  <2>4. CASE cur \in Own /\ o.finalizer = loc.finalizer
    <3>1. Stored(o) = o
      BY <2>1, <2>2, <2>4 DEF Stored, IInv, ApiInv, LifeInv
    <3>2. obj'[cur].life = obj[cur].life /\ obj'[cur].finalizer = obj[cur].finalizer
      BY <2>1, <2>2, <2>4, <3>1
    <3>3. UNCHANGED <<LifeOf, Held, HasMade>>
      BY <2>2, <3>2 DEF LifeOf, Held, HasMade, Own
    <3> QED
      BY <3>3
  <2>5. CASE cur \in Own /\ o.finalizer /\ loc.life = "live"
    <3>1. Stored(o) = o
      BY <2>5 DEF Stored
    <3>2. LifeOf' = LifeOf
      BY <2>1, <2>2, <2>5, <3>1 DEF LifeOf, Own
    <3>3. Owning!Hold(cur)
      BY <2>2, <2>5, <3>1, <3>2, Seen DEF Owning!Hold, HasMade
    <3> QED
      BY <2>5, <3>3
  <2>6. CASE cur \in Own /\ ~o.finalizer /\ pc = "unfinalize"
    <3>1. Stored(o) = Gone /\ Gone.life = "gone" /\ ~Gone.finalizer
      BY <1>1, <2>1, <2>6 DEF Stored, Dropping, Gone, Blank
    <3>2. cur \in Retired /\ obj[cur].life = "deleting" /\ power[cur] = "none"
      BY <1>1, <2>2, <2>6 DEF Retired, Dropping, Over
    <3>3. Owning!Release(cur)
      BY <2>2, <2>6, <3>1, <3>2, Seen DEF Owning!Release, Owning!Lives, HasMade
    <3> QED
      BY <2>6, <3>3
  <2> QED
    BY <2>1, <2>3, <2>4, <2>5, <2>6
<1>6. CASE Uses
  <2>1. PICK d \in Domains, o \in Object :
          /\ UserWrites(d, o)
          /\ \/ obj[d].life = "absent" /\ o.life = "live" /\ ~o.finalizer
             \/ obj[d].life = "live" /\ o.life = "deleting" /\ o.finalizer = obj[d].finalizer
             \/ Present(obj[d]) /\ o.life = obj[d].life /\ o.finalizer = obj[d].finalizer
    BY <1>6 DEF Uses
  <2>2. /\ power' = power /\ obj'[d] = Stored(o)
        /\ \A u \in Domains \ {d} : obj'[u] = obj[u]
    BY <1>0, <1>6, <2>1 DEF Uses, UserWrites, Store
  <2>3. CASE d \notin Own
    BY <2>2, <2>3, Seen
  <2>4. CASE d \in Own /\ obj[d].life = "absent" /\ o.life = "live" /\ ~o.finalizer
    <3>1. Stored(o) = o /\ ~obj[d].finalizer
      BY <2>4 DEF Stored, IInv, ApiInv, LifeInv
    <3>2. Owning!Create(d)
      BY <2>2, <2>4, <3>1, Seen DEF Owning!Create, Owning!Lives, Held, HasMade
    <3> QED
      BY <2>4, <3>2
  <2>5. CASE /\ d \in Own /\ obj[d].life = "live" /\ o.life = "deleting"
             /\ o.finalizer = obj[d].finalizer
    <3>1. /\ Stored(o).life = IF o.finalizer THEN "deleting" ELSE "gone"
          /\ Stored(o).finalizer = o.finalizer
      BY <1>0, <2>5 DEF Stored, Gone, Blank
    <3>2. Owning!Delete(d)
      BY <2>2, <2>5, <3>1, Seen DEF Owning!Delete, Owning!Lives, Held, HasMade
    <3> QED
      BY <2>5, <3>2
  <2>6. CASE d \in Own /\ Present(obj[d]) /\ o.life = obj[d].life /\ o.finalizer = obj[d].finalizer
    <3>1. Stored(o) = o
      BY <2>6 DEF Stored, IInv, ApiInv, LifeInv
    <3>2. UNCHANGED <<LifeOf, Held, HasMade>>
      BY <2>2, <2>6, <3>1 DEF LifeOf, Held, HasMade, Own
    <3> QED
      BY <3>2
  <2> QED
    BY <2>1, <2>3, <2>4, <2>5, <2>6
<1> QED
  BY <1>2, <1>3, <1>4, <1>5, <1>6, Effects

\* The controller implements Ownership: nothing is made without the finalizer or
\* after its deletion is known, and an object goes only when nothing is left.
THEOREM OwnershipImplemented == Spec => ImplementsOwnership
<1>1. Init => OverInv /\ Owning!Init
  <2> SUFFICES ASSUME Init PROVE OverInv /\ Owning!Init
    OBVIOUS
  <2>1. \A d \in Domains : /\ obj[d].life = "absent" /\ ~obj[d].finalizer
                           /\ cache[d].life = "absent"
    BY DEF Init, NoObject, Blank
  <2>2. \A d \in Own : d \in Domains /\ power[d] = "none"
    BY DEF Init, Own
  <2> QED
    BY <2>1, <2>2 DEF OverInv, Over, Owning!Init, LifeOf, Held, HasMade, Retired
<1>2. IInv /\ OverInv /\ [Next]_vars => OverInv' /\ [Owning!Next]_(Owning!vars)
  BY NextOverInv, NextOwning
<1> QED
  BY <1>1, <1>2, Invariance, PTL DEF Spec, ImplementsOwnership, Owning!Spec
=============================================================================
