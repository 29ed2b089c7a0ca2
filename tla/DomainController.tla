-------------------------- MODULE DomainController --------------------------
(***************************************************************************)
(* DomainReconciler (internal/controller/domain.go) with DomainAction      *)
(* (internal/action/domain.go): it defines a virtual machine from volumes, *)
(* networks, devices and a cloud-init image, starts it, shuts it down and  *)
(* undefines it.                                                           *)
(*                                                                         *)
(* As in VolumeController, the reconcile reads objects from a cache that   *)
(* lags, any of its calls may fail with or without its effect, the API     *)
(* server refuses an update of an old version, there is one worker, and    *)
(* the operator may crash between two calls.  The resources a domain needs *)
(* have controllers of their own: what they do before they let a resource  *)
(* go is part of the environment, and so is the deletion of the host.  The *)
(* guest obeys a request to shut down when it likes.                       *)
(***************************************************************************)
EXTENDS Naturals, Sequences

CONSTANTS
  Domains,      \* the Domain objects a user may create
  NoDomain,
  Resources,    \* the Volumes, Networks, PCIDevices and CloudInits
  Images,       \* the Volumes and CloudInits: libvirt is asked for these
  Needs,        \* the disks, interfaces, devices and cloud-init of Spec, in order
  Preexisting,  \* the domains that libvirt may have before the operator runs
  Toggled,      \* bound: the domains whose Spec.Shutoff users change
  Stopping      \* bound: the domains whose guest powers off unasked

ASSUME NoDomainIsNoDomain == NoDomain \notin Domains
ASSUME ImagesAreResources == Images \subseteq Resources
ASSUME NeedsAreResources  == Needs \in [Domains -> Seq(Resources)]

VARIABLES
  obj,       \* the Domain objects of the API server
  cache,     \* the informer cache
  behind,    \* the domains of which the cache is not the newest version
  queued,    \* the work queue of the controller
  power,     \* the domains of libvirt: "none", "off", "on" or "asked" (on, and
             \* asked to shut down)
  host,      \* the Host object, and a connection with it, is there
  res,       \* the resources: "unready", "ready", "checked" (its controller
             \* found no domain that uses it), "gone" or "forgotten" (gone from
             \* the cache, too)
  pc,        \* where the reconcile is
  cur,       \* the domain it is about
  loc,       \* its copy of the Domain object
  locFresh,  \* the copy is the newest version
  found,     \* DomainAction.State: libvirt had the domain when asked,
  off,       \* ... and it was shut off
  pos        \* the position in Needs[cur]

apiVars   == <<obj, behind>>
otherVars == <<host, res>>
localVars == <<pc, cur, loc, locFresh, found, off, pos>>
vars      == <<apiVars, cache, queued, power, otherVars, localVars>>

\* Of a Domain object: its life ("gone": removed), its finalizer, the labels
\* that name its resources and its host, its condition Ready, and whether
\* Spec.Shutoff is true.
Object == [life      : {"absent", "live", "deleting", "gone"},
           finalizer : BOOLEAN,
           labels    : SUBSET Resources,
           hostLabel : BOOLEAN,
           ready     : {"unset", "False", "True"},
           shutoff   : BOOLEAN]

Blank(life, shutoff) ==
  [life |-> life, finalizer |-> FALSE, labels |-> {}, hostLabel |-> FALSE,
   ready |-> "unset", shutoff |-> shutoff]

NoObject == Blank("absent", FALSE)
Gone     == Blank("gone", FALSE)
Present(o) == o.life \in {"live", "deleting"}

PcStates == {"idle", "refs", "meta", "mark", "power", "shut", "wait", "need", "label",
             "make", "hostLabel", "start", "created", "unready", "undefine", "unfinalize"}

ApiTypes ==
  /\ obj \in [Domains -> Object]
  /\ cache \in [Domains -> Object]
  /\ behind \in SUBSET Domains
  /\ queued \in SUBSET Domains

OtherTypes ==
  /\ power \in [Domains -> {"none", "off", "on", "asked"}]
  /\ host \in BOOLEAN
  /\ res \in [Resources -> {"unready", "ready", "checked", "gone", "forgotten"}]

LocalTypes ==
  /\ pc \in PcStates
  /\ cur \in Domains \cup {NoDomain}
  /\ loc \in Object
  /\ locFresh \in BOOLEAN /\ found \in BOOLEAN /\ off \in BOOLEAN
  /\ pos \in Nat
  /\ pc = "idle" <=> cur = NoDomain
  /\ pc \in {"need", "label"} => pos \in 1..Len(Needs[cur])

\* The variables have their types; a reconcile is about a domain, and the
\* loops of create stay within Spec.
TypeOK == ApiTypes /\ OtherTypes /\ LocalTypes

Init ==
  /\ obj = [d \in Domains |-> NoObject]
  /\ cache = obj
  /\ behind = {} /\ queued = {}
  /\ \E early \in SUBSET Preexisting :
       power \in [Domains -> {"none", "off", "on"}]
       /\ \A d \in Domains : power[d] # "none" <=> d \in early
  /\ host = TRUE
  /\ res = [x \in Resources |-> "unready"]
  /\ pc = "idle" /\ cur = NoDomain /\ loc = NoObject
  /\ locFresh = FALSE /\ found = FALSE /\ off = FALSE /\ pos = 0

-----------------------------------------------------------------------------
(***************************************************************************)
(* The API server, its cache and the users.                                *)
(***************************************************************************)

\* An object that is being deleted is removed with its finalizer.
Stored(o) == IF o.life = "deleting" /\ ~o.finalizer THEN Gone ELSE o

Store(d, o) ==
  /\ obj' = [obj EXCEPT ![d] = Stored(o)]
  /\ behind' = behind \cup {d}

\* GenerationChangedPredicate: a new object, a deletion or another Spec.
SpecOfLife(o) == <<o.life>>             \* a watch that misses changes of the Spec
SpecOf(o) == <<o.life, o.shutoff>>

CacheSync(d) ==
  /\ d \in behind
  /\ behind' = behind \ {d}
  /\ cache' = [cache EXCEPT ![d] = obj[d]]
  /\ queued' = IF SpecOf(obj[d]) # SpecOf(cache[d]) THEN queued \cup {d} ELSE queued
  /\ UNCHANGED <<obj, power, otherVars, localVars>>

UserWrites(d, o) ==
  /\ Store(d, o)
  /\ locFresh' = (locFresh /\ d # cur)
  /\ UNCHANGED <<cache, queued, power, otherVars, pc, cur, loc, found, off, pos>>

UserCreates(d) ==
  /\ obj[d].life = "absent"
  /\ \E s \in BOOLEAN : UserWrites(d, Blank("live", s))

UserDeletes(d) ==
  /\ obj[d].life = "live"
  /\ UserWrites(d, [obj[d] EXCEPT !.life = "deleting"])

\* Spec.Shutoff is the only field whose value the CRD lets users change.  They may
\* also add and remove optional fields, which is not modelled.
UserToggles(d) ==
  /\ Present(obj[d]) /\ d \in Toggled
  /\ UserWrites(d, [obj[d] EXCEPT !.shutoff = ~@])

-----------------------------------------------------------------------------
(***************************************************************************)
(* The guests, the controllers of the resources, and that of the host.     *)
(***************************************************************************)
GuestObeys(d) ==
  /\ power[d] = "asked"
  /\ power' = [power EXCEPT ![d] = "off"]
  /\ UNCHANGED <<apiVars, cache, queued, otherVars, localVars>>

GuestStops(d) ==
  /\ power[d] = "on" /\ d \in Stopping
  /\ power' = [power EXCEPT ![d] = "off"]
  /\ UNCHANGED <<apiVars, cache, queued, otherVars, localVars>>

ResTo(x, s) ==
  /\ res' = [res EXCEPT ![x] = s]
  /\ UNCHANGED <<apiVars, cache, queued, power, host, localVars>>

ResReady(x) == res[x] = "unready" /\ ResTo(x, "ready")

\* A probe finds a network or a device inactive.
ResUnready(x) == res[x] = "ready" /\ x \notin Images /\ ResTo(x, "unready")

\* Its object is being deleted: the domains with its label are listed from the
\* cache; then it is dropped (or the call fails, and they are listed again).
\* For a domain, a resource deleted while unready is one that stays unready.
Users(x) == {d \in Domains : Present(cache[d]) /\ x \in cache[d].labels}

ResChecked(x) == res[x] = "ready" /\ Users(x) = {} /\ ResTo(x, "checked")
ResDropFails(x) == res[x] = "checked" /\ ResTo(x, "ready")
ResDropped(x) == res[x] = "checked" /\ ResTo(x, "gone")
ResForgotten(x) == res[x] = "gone" /\ ResTo(x, "forgotten")

\* The host is deleted when no domain of the cache has its label, and no
\* resource needs it.
HostDeleted ==
  /\ host
  /\ \A d \in Domains : ~(Present(cache[d]) /\ cache[d].hostLabel)
  /\ \A x \in Resources : res[x] = "forgotten"
  /\ host' = FALSE
  /\ UNCHANGED <<apiVars, cache, queued, power, res, localVars>>

-----------------------------------------------------------------------------
(***************************************************************************)
(* The end of a reconcile, and its calls to the API server.                *)
(***************************************************************************)
Goto(l) == pc' = l /\ UNCHANGED <<cur, loc, locFresh, found, off, pos>>

End ==
  /\ pc' = "idle" /\ cur' = NoDomain /\ loc' = NoObject
  /\ locFresh' = FALSE /\ found' = FALSE /\ off' = FALSE /\ pos' = 0

\* It returns nil: the queue is left alone.
Done == End /\ UNCHANGED queued

\* It returns an error or Requeue: the domain is queued again.
RetryNever == End /\ UNCHANGED queued    \* the error is swallowed
Retry == End /\ queued' = queued \cup {cur}

\* Update and Status().Update write the copy o, if it is the newest version,
\* and return what was stored, which takes the place of the copy.
WriteSucceeds(o, l) ==
  /\ locFresh
  /\ Store(cur, o)
  /\ pc' = l /\ loc' = o
  /\ UNCHANGED <<cache, queued, power, otherVars, cur, locFresh, found, off, pos>>

\* They are refused or lost, or only the reply is.
WriteFails(o) ==
  /\ UNCHANGED apiVars \/ (locFresh /\ Store(cur, o))
  /\ Retry
  /\ UNCHANGED <<cache, power, otherVars>>

At(l) == pc = l

\* Steps that touch neither the API server nor libvirt
Stays == UNCHANGED <<apiVars, cache, power, otherVars>>

\* Steps that touch libvirt only
Libvirt == UNCHANGED <<apiVars, cache, otherVars>>

-----------------------------------------------------------------------------
(***************************************************************************)
(* Reconcile: a step for each call, with its success (Ok) and its failure, *)
(* which ends the reconcile with an error.                                 *)
(***************************************************************************)
Begin(d) ==
  /\ pc = "idle" /\ d \in queued
  /\ queued' = queued \ {d}
  /\ IF Present(cache[d])
       THEN /\ pc' = "refs" /\ cur' = d /\ loc' = cache[d]
            /\ locFresh' = (d \notin behind)
            /\ found' = FALSE /\ off' = FALSE /\ pos' = 0
       ELSE End
  /\ Stays

\* The host, its entry, a session and NewDomainAction, which asks for the state.
ExistsAlways(d) == TRUE                  \* any error is taken for ErrNoDomain's absence
Exists(d) == power[d] # "none"

RefsOk ==
  /\ At("refs") /\ host
  /\ pc' = "meta" /\ found' = Exists(cur) /\ off' = (power[cur] = "off")
  /\ UNCHANGED <<cur, loc, locFresh, pos, queued>>
  /\ Stays

RefsUnmet ==
  /\ At("refs")
  /\ \/ Retry
     \/ loc.ready # "True" /\ Goto("unready") /\ UNCHANGED queued
  /\ Stays

\* setStatusCondition(Ready, False); an error or Requeue follows.
Unready(o) == [o EXCEPT !.ready = "False"]

SetUnready ==
  /\ At("unready")
  /\ \/ loc.ready = "False" /\ Retry /\ Stays
     \/ WriteFails(Unready(loc))

DeletingUnseen(o) == FALSE               \* the deletion timestamp is not looked at
HasFinalizer(o) == o.finalizer
Deleting(o)     == o.life = "deleting"

WithFinalizer(o) == [o EXCEPT !.finalizer = TRUE]

AddFinalizerOk ==
  /\ At("meta") /\ ~Deleting(loc) /\ ~HasFinalizer(loc)
  /\ WriteSucceeds(WithFinalizer(loc), "meta")

AddFinalizerFails ==
  /\ At("meta") /\ ~Deleting(loc) /\ ~HasFinalizer(loc)
  /\ WriteFails(WithFinalizer(loc))

\* Where create is when it has dealt with i resources.
PastNeeds(i) == i > Len(Needs[cur]) + 1  \* a loop that goes one too far
AllNeeds(i)  == i > Len(Needs[cur])

NeedAt(i) == IF AllNeeds(i) THEN "make" ELSE "need"

Dispatch ==
  /\ At("meta")
  /\ \/ /\ HasFinalizer(loc)
        /\ pc' = CASE Deleting(loc) /\ ~found        -> "unfinalize"
                   [] Deleting(loc) /\ found /\ off  -> "undefine"
                   [] Deleting(loc) /\ found /\ ~off -> "shut"
                   [] ~Deleting(loc) /\ found        -> "mark"
                   [] ~Deleting(loc) /\ ~found       -> NeedAt(1)
        /\ pos' = 1
        /\ UNCHANGED <<queued, cur, loc, locFresh, found, off>>
     \/ ~HasFinalizer(loc) /\ Deleting(loc) /\ Done
  /\ Stays

-----------------------------------------------------------------------------
(***************************************************************************)
(* The domain exists: mark it Ready, and start it or shut it down.         *)
(***************************************************************************)
Marked(o) == [o EXCEPT !.ready = "True"]

MarkOk ==
  /\ At("mark")
  /\ \/ loc.ready = "True" /\ Goto("power") /\ UNCHANGED queued /\ Stays
     \/ loc.ready # "True" /\ WriteSucceeds(Marked(loc), "power")

MarkFails == At("mark") /\ loc.ready # "True" /\ WriteFails(Marked(loc))

\* The state is the one that was read at first.
PowerOk ==
  /\ At("power")
  /\ \/ loc.shutoff = off /\ Done
     \/ loc.shutoff # off /\ Goto(IF off THEN "start" ELSE "shut") /\ UNCHANGED queued
  /\ Stays

\* Shutdown asks once (a guest that is off already makes this an error) ...
Asked ==
  /\ power[cur] \in {"on", "asked"}
  /\ power' = [power EXCEPT ![cur] = "asked"]

ShutOk == At("shut") /\ Asked /\ Goto("wait") /\ UNCHANGED queued /\ Libvirt

ShutFails == At("shut") /\ (Asked \/ UNCHANGED power) /\ Retry /\ Libvirt

\* ... and polls the state 30 times.  Delete follows if there is a deletion.
IsOffAlways(d) == TRUE                   \* the polling gives up without an error
IsOff(d) == power[d] = "off"

WaitOk ==
  /\ At("wait") /\ IsOff(cur)
  /\ IF Deleting(loc) THEN Goto("undefine") /\ UNCHANGED queued ELSE Done
  /\ Stays

WaitFails == At("wait") /\ Retry /\ Stays

-----------------------------------------------------------------------------
(***************************************************************************)
(* The domain does not exist: create it.  Each resource must be Ready, and *)
(* an image must be in libvirt; then the label that keeps it is written.   *)
(***************************************************************************)
Usable(x) ==
  /\ res[x] \in {"ready", "checked", "gone"}
  /\ x \in Images => res[x] # "gone"

Needed == Needs[cur][pos]

NeedOk ==
  /\ At("need") /\ Usable(Needed)
  /\ Goto("label")
  /\ UNCHANGED queued /\ Stays

NeedFails ==
  /\ At("need")
  /\ \/ Retry
     \/ Goto("unready") /\ UNCHANGED queued
  /\ Stays

\* SetLabel reports whether there is anything to Update.
LabelNotSet(o, x) == o                   \* the label is set after the Update
WithLabel(o, x) == [o EXCEPT !.labels = @ \cup {x}]

LabelOk ==
  /\ At("label")
  /\ pc' = NeedAt(pos + 1) /\ pos' = pos + 1
  /\ \/ Needed \in loc.labels /\ UNCHANGED <<apiVars, loc>>
     \/ /\ Needed \notin loc.labels /\ locFresh
        /\ Store(cur, WithLabel(loc, Needed)) /\ loc' = WithLabel(loc, Needed)
  /\ UNCHANGED <<cache, queued, power, otherVars, cur, locFresh, found, off>>

LabelFails == At("label") /\ Needed \notin loc.labels /\ WriteFails(WithLabel(loc, Needed))

\* DomainDefineXML
Defined == power' = [power EXCEPT ![cur] = "off"]

MakeOk == At("make") /\ Defined /\ Goto("hostLabel") /\ UNCHANGED queued /\ Libvirt

MakeFails ==
  /\ At("make")
  /\ Defined \/ UNCHANGED power
  /\ Goto("unready")
  /\ UNCHANGED queued /\ Libvirt

WithHostLabel(o) == [o EXCEPT !.hostLabel = TRUE]
Defining(o) == IF o.shutoff THEN "created" ELSE "start"

HostLabelOk ==
  /\ At("hostLabel")
  /\ WriteSucceeds(WithHostLabel(loc), Defining(loc))

HostLabelFails == At("hostLabel") /\ WriteFails(WithHostLabel(loc))

\* DomainCreate, for a new domain and for one that exists
Started == power' = [power EXCEPT ![cur] = "on"]

StartOk ==
  /\ At("start") /\ Started
  /\ IF found THEN Done ELSE Goto("created") /\ UNCHANGED queued
  /\ Libvirt

StartFails == At("start") /\ (Started \/ UNCHANGED power) /\ Retry /\ Libvirt

CreatedOk ==
  /\ At("created")
  /\ locFresh /\ Store(cur, Marked(loc))
  /\ Done
  /\ UNCHANGED <<cache, power, otherVars>>

CreatedFails == At("created") /\ WriteFails(Marked(loc))

-----------------------------------------------------------------------------
(***************************************************************************)
(* The Domain object is being deleted, and libvirt's domain is shut off.   *)
(***************************************************************************)
Undefined == power' = [power EXCEPT ![cur] = "none"]

UndefineOk == At("undefine") /\ Undefined /\ Goto("unfinalize") /\ UNCHANGED queued /\ Libvirt

UndefineFails == At("undefine") /\ (Undefined \/ UNCHANGED power) /\ Retry /\ Libvirt

Unfinalized(o) == [o EXCEPT !.finalizer = FALSE]

UnfinalizeOk ==
  /\ At("unfinalize")
  /\ locFresh /\ Store(cur, Unfinalized(loc))
  /\ Done
  /\ UNCHANGED <<cache, power, otherVars>>

UnfinalizeFails == At("unfinalize") /\ WriteFails(Unfinalized(loc))

-----------------------------------------------------------------------------
\* The operator crashes.  The next one lists every object, which fills its
\* cache and its queue, before it reconciles.
Crash ==
  /\ End
  /\ cache' = obj /\ behind' = {}
  /\ queued' = {d \in Domains : Present(obj[d])}
  /\ UNCHANGED <<obj, power, otherVars>>

StepOk ==
  \/ RefsOk \/ AddFinalizerOk \/ Dispatch \/ MarkOk \/ PowerOk \/ ShutOk \/ WaitOk
  \/ NeedOk \/ LabelOk \/ MakeOk \/ HostLabelOk \/ StartOk \/ CreatedOk
  \/ UndefineOk \/ UnfinalizeOk \/ SetUnready

StepFails ==
  \/ RefsUnmet \/ AddFinalizerFails \/ MarkFails \/ ShutFails \/ WaitFails
  \/ NeedFails \/ LabelFails \/ MakeFails \/ HostLabelFails \/ StartFails \/ CreatedFails
  \/ UndefineFails \/ UnfinalizeFails

Reconcile == StepOk \/ StepFails \/ \E d \in Domains : Begin(d)

Guests == \E d \in Domains : GuestObeys(d) \/ GuestStops(d)

Others ==
  \/ HostDeleted
  \/ \E x \in Resources :
       ResReady(x) \/ ResUnready(x) \/ ResChecked(x) \/ ResDropFails(x) \/ ResDropped(x)
         \/ ResForgotten(x)

Environment ==
  \/ \E d \in Domains : UserCreates(d) \/ UserDeletes(d) \/ UserToggles(d) \/ CacheSync(d)
  \/ Guests \/ Others \/ Crash

Next == Reconcile \/ Environment

Spec == Init /\ [][Next]_vars

\* The same with a cache that has caught up before anything else happens.
PromptNext == (behind = {} /\ Next) \/ \E d \in Domains : CacheSync(d)
PromptSpec == Init /\ [][PromptNext]_vars

(***************************************************************************)
(* The worker and the watch of the cache run, the queue serves every       *)
(* domain, a guest obeys in the end, and a resource that is there becomes  *)
(* Ready.  From some time on the operator does not crash, users leave      *)
(* Spec.Shutoff alone, no resource becomes unready, and a step fails only  *)
(* where it cannot succeed.                                                *)
(***************************************************************************)
Faultless ==
  \/ StepOk
  \/ StepFails /\ ~ENABLED StepOk
  \/ \E d \in Domains : Begin(d) \/ CacheSync(d) \/ UserCreates(d) \/ UserDeletes(d)
  \/ Guests \/ HostDeleted
  \/ \E x \in Resources : ResReady(x) \/ ResChecked(x) \/ ResDropped(x) \/ ResForgotten(x)

Fairness ==
  /\ WF_vars(Reconcile)
  /\ \A d \in Domains : WF_vars(CacheSync(d)) /\ SF_vars(Begin(d)) /\ WF_vars(GuestObeys(d))
  /\ \A x \in Resources : WF_vars(ResReady(x)) /\ WF_vars(ResDropped(x))
  /\ <>[][Faultless]_vars

FairSpec == Spec /\ Fairness

-----------------------------------------------------------------------------
(***************************************************************************)
(* Properties.                                                             *)
(***************************************************************************)

\* No domain of libvirt is orphaned: one that the operator defined has an
\* object with a finalizer.
DomainIsOwned ==
  \A d \in Domains \ Preexisting : power[d] # "none" => obj[d].finalizer

\* Everything such a domain was built from is labelled in the API server, in
\* every state between DomainDefineXML and DomainUndefine.
NeedsAreLabelled ==
  \A d \in Domains \ Preexisting : power[d] # "none" =>
    \A i \in 1..Len(Needs[d]) : Needs[d][i] \in obj[d].labels

\* A domain that is Ready is there, until its deletion begins.
ReadyExists ==
  \A d \in Domains : obj[d].life = "live" /\ obj[d].ready = "True" => power[d] # "none"

\* Only a domain whose object is being deleted is undefined, whatever old copy
\* the reconcile works on, and only when it is shut off.
UndefineIsAskedFor ==
  [][\A d \in Domains : power[d] # "none" /\ power'[d] = "none"
       => obj[d].life = "deleting" /\ power[d] = "off"]_vars

\* The controller of a resource decides to drop it, while libvirt has a domain
\* that was built from it, only if the cache lags behind that domain.
NeedsAreKept ==
  [][\A x \in Resources, d \in Domains \ Preexisting :
       /\ power[d] # "none" /\ \E i \in 1..Len(Needs[d]) : Needs[d][i] = x
       /\ res'[x] = "checked"
       => res[x] = "checked" \/ d \in behind]_vars

\* The host is not deleted while a Ready domain, made by the operator, uses it.
HostIsKept ==
  [][host /\ ~host' =>
       \A d \in Domains \ Preexisting : ~(obj[d].life = "live" /\ obj[d].ready = "True")]_vars

\* Every domain that is never asked to shut down is created and has the power
\* state its Spec asks for, unless it is deleted or what it needs has gone.  (One
\* that was asked may power off when Spec asks for the contrary again.)
Lacks(d) ==
  \/ ~host
  \/ \E i \in 1..Len(Needs[d]) : res[Needs[d][i]] \in {"gone", "forgotten"}

CreationEnds ==
  \A d \in Domains :
    [](power[d] # "asked") =>
      (obj[d].life = "live" ~>
         \/ obj[d].ready = "True" /\ power[d] = (IF obj[d].shutoff THEN "off" ELSE "on")
         \/ obj[d].life # "live"
         \/ Lacks(d))

\* A change of Spec.Shutoff to true shuts a domain down.
ShutoffEnds ==
  \A d \in Domains :
    obj[d].life = "live" /\ obj[d].shutoff ~>
      obj[d].life # "live" \/ ~obj[d].shutoff \/ power[d] \in {"none", "off"} \/ ~host

\* Every deletion is carried out, while the host is there.
DeletionEnds == \A d \in Domains : obj[d].life = "deleting" ~> obj[d].life = "gone" \/ ~host

-----------------------------------------------------------------------------
(***************************************************************************)
(* What Ownership sees of the domains that the operator may have made. An   *)
(* object is retired when the cache knows that it is being deleted, and no *)
(* reconcile has an older copy.                                            *)
(***************************************************************************)
Own     == Domains \ Preexisting
LifeOf  == [d \in Own |-> obj[d].life]
Held    == {d \in Own : obj[d].finalizer}
HasMade == {d \in Own : power[d] # "none"}
Retired == {d \in Own : cache[d].life \in {"deleting", "gone"}
                       /\ (cur = d => loc.life = "deleting")}

Owning ==
  INSTANCE Ownership WITH
    Objects <- Own, Volatile <- FALSE,
    life <- LifeOf, held <- Held, has <- HasMade, retired <- Retired

\* The controller keeps what Ownership promises, whatever fails and however old
\* the copies of its reconciles are: after DomainUndefine no reconcile
\* makes the domain again, and its object goes only then.
ImplementsOwnership == Owning!Spec
=============================================================================
