---------------------------- MODULE ProbedResource ----------------------------
(***************************************************************************)
(* PoolReconciler, NetworkReconciler and PCIDeviceReconciler               *)
(* (internal/controller/pool.go, network.go, pcidevice.go) with their      *)
(* probes (internal/probe): the same reconcile three times.  The operator  *)
(* does not make these resources, it only reports what libvirt says of     *)
(* them: whether they are active, and the capacity of a pool or the        *)
(* address of a device.  Volumes and domains rely on the report.           *)
(*                                                                         *)
(* A probe is repeated when a minute has passed.  It writes its report     *)
(* with several calls to the API server, any of which may fail, while      *)
(* users move the object to another host and the administrators of the     *)
(* hosts start, stop and remove what it stands for.                        *)
(***************************************************************************)
EXTENDS Reconcilers, Naturals

CONSTANTS
  Hosts,    \* the Host objects that Spec.HostRef may name
  Worker,   \* the worker of the controller
  NoHost,
  Others    \* the ways for a resource not to be active: not to be there, to be
            \* stopped

ASSUME OneWorker    == Workers = {Worker} /\ Served[Worker] = Objects
ASSUME NoHostIsNoHost == NoHost \notin Hosts

ASSUME OthersAreNotActive == "active" \notin Others

\* What libvirt has
Reality == Others \cup {"active"}

VARIABLES
  real,     \* what libvirt has on a host
  up,       \* the hosts of which there is a Host object and a connection
  recent,   \* the objects whose condition Probed was set less than a minute ago
  answer,   \* what the probe has found, and
  asked     \* ... history: the host it has asked

otherVars == <<real, up, recent>>
localVars == <<answer, asked>>
vars      == <<coreVars, otherVars, localVars>>

(***************************************************************************)
(* Of an object: Spec.HostRef, the label HostLabel, the conditions Ready,  *)
(* Probed and DeletionPrevented, and the data of Status (Capacity,         *)
(* Address), which is as good as what libvirt had when it was read.        *)
(***************************************************************************)
Object == [life : {"live", "deleting"}, finalizer : BOOLEAN, ref : Hosts,
           label : Hosts \cup {NoHost}, ready : {"unset", "True", "False"},
           probed : BOOLEAN, data : Reality \cup {"unset"}, prevented : BOOLEAN]

Created(h) == [life |-> "live", finalizer |-> FALSE, ref |-> h, label |-> NoHost,
               ready |-> "unset", probed |-> FALSE, data |-> "unset", prevented |-> FALSE]

Places == {"meta", "check", "unfinalize", "require", "connect", "ask", "ready",
           "record", "label"}

\* The variables have their types.
TypeOK ==
  /\ CoreTypeOK(Object, Places)
  /\ real \in [Hosts -> Reality]
  /\ up \in SUBSET Hosts
  /\ recent \in SUBSET Objects
  /\ answer \in Reality \cup {"unset"}
  /\ asked \in Hosts \cup {NoHost}
  /\ pc[Worker] \in {"ready", "record"} => answer \in Reality /\ asked \in Hosts

Init ==
  /\ CoreInit
  /\ real \in [Hosts -> Reality]
  /\ up = {} /\ recent = {}
  /\ answer = "unset" /\ asked = NoHost

-----------------------------------------------------------------------------
(***************************************************************************)
(* Users, the administrators of the hosts, their connections, and time.    *)
(***************************************************************************)
Users == UNCHANGED <<otherVars, localVars>>

UserCreates(x) ==
  /\ obj[x] = Absent
  /\ \E h \in Hosts : OthersWrite(x, Created(h))
  /\ Users

UserMoves(x) ==
  /\ Present(obj[x])
  /\ \E h \in Hosts \ {obj[x].ref} : OthersWrite(x, [obj[x] EXCEPT !.ref = h])
  /\ Users

UserDeletes(x) == Delete(x) /\ Users

\* GenerationChangedPredicate: a new object, a deletion or another Spec
Changed(x) ==
  IF Present(obj[x]) /\ Present(cache[x])
    THEN obj[x].life # cache[x].life \/ obj[x].ref # cache[x].ref
    ELSE obj[x] # cache[x]

CacheSync(x) == Learn(x, IF Changed(x) THEN {x} ELSE {}) /\ Users

RealityChanges(h) ==
  /\ Prompt
  /\ \E r \in Reality \ {real[h]} : real' = [real EXCEPT ![h] = r]
  /\ UNCHANGED <<coreVars, up, recent, localVars>>

ConnectionChanges(h) ==
  /\ Prompt
  /\ up' = IF h \in up THEN up \ {h} ELSE up \cup {h}
  /\ UNCHANGED <<coreVars, real, recent, localVars>>

MinutePasses(x) ==
  /\ Prompt
  /\ x \in recent
  /\ recent' = recent \ {x}
  /\ UNCHANGED <<coreVars, real, up, localVars>>

-----------------------------------------------------------------------------
(***************************************************************************)
(* Reconcile.  Each step has an outcome where its call succeeds and one    *)
(* where it fails, which ends the reconcile with an error.                 *)
(***************************************************************************)
copy == loc[Worker]

Same   == UNCHANGED <<otherVars, localVars>>
Forget == answer' = "unset" /\ asked' = NoHost

\* A write that the reconcile goes on after.
Writes(o, l) == WriteOk(Worker, o, l) /\ Same

\* Any failure of the reconcile
Fails(o) == WriteFails(Worker, o) /\ Forget /\ UNCHANGED otherVars

Goes(l) == Jump(Worker, l) /\ Local /\ Same

Begin(x) == Take(Worker, x, "meta") /\ Same

WithFinalizer(o) == [o EXCEPT !.finalizer = TRUE]

NeedsFinalizer == At(Worker, "meta") /\ ~Deleting(copy) /\ ~copy.finalizer

AddFinalizerOk == NeedsFinalizer /\ Writes(WithFinalizer(copy), "meta")

AddFinalizerFails == NeedsFinalizer /\ Fails(WithFinalizer(copy))

\* Only a deletion goes without the host.
Dispatch ==
  /\ At(Worker, "meta")
  /\ IF copy.finalizer THEN Goes(IF Deleting(copy) THEN "check" ELSE "require")
                       ELSE Deleting(copy) /\ Done(Worker) /\ Local /\ Same

\* The volumes and cloud-inits of a pool, or the domains of a network or a
\* device, that bear its label are left open.
FreeOk == At(Worker, "check") /\ Goes("unfinalize")

Prevented(o) == [o EXCEPT !.prevented = TRUE]

PreventOk ==
  /\ At(Worker, "check")
  /\ Retry(Worker)
  /\ IF copy.prevented THEN Local ELSE WriteEnds(Worker, Prevented(copy))
  /\ Same

PreventFails == At(Worker, "check") /\ ~copy.prevented /\ Fails(Prevented(copy))

Unfinalized(o) == [o EXCEPT !.finalizer = FALSE]

UnfinalizeOk ==
  /\ At(Worker, "unfinalize")
  /\ WriteEnds(Worker, Unfinalized(copy)) /\ Done(Worker)
  /\ Same

UnfinalizeFails == At(Worker, "unfinalize") /\ Fails(Unfinalized(copy))

\* A probe of less than a minute ago is good enough, whatever has changed since.
\* Of an old copy, the time it holds may be past.
RecentEnough(x) == x \in recent \/ Worker \notin fresh

Wait ==
  /\ At(Worker, "require")
  /\ copy.probed /\ RecentEnough(cur[Worker])
  /\ Retry(Worker) /\ Local /\ Same

Unprobed(o) == [o EXCEPT !.probed = FALSE]

RequireSkips ==
  /\ At(Worker, "require")
  /\ copy.probed => cur[Worker] \notin recent
  /\ Goes("connect")

\* A condition is written when its status or its message changes; the latter is
\* not part of an object here.
RequireOk ==
  /\ At(Worker, "require")
  /\ copy.probed => cur[Worker] \notin recent
  /\ \/ Writes(Unprobed(copy), "connect")
     \/ ~copy.probed /\ Goes("connect")

RequireFails == At(Worker, "require") /\ Fails(Unprobed(copy))

\* The Host, its entry in the HostStore and a session; the reason is written
\* when there is none.
ConnectOk ==
  /\ At(Worker, "connect")
  /\ copy.ref \in up
  /\ Goes("ask")

ConnectFails == At(Worker, "connect") /\ Fails(copy)

\* NewPoolProbe, NewNetworkProbe, NewPCIDeviceProbe.  (A device that is not of
\* PCI or has no address is an error.)
Ask ==
  /\ At(Worker, "ask")
  /\ Jump(Worker, "ready")
  /\ answer' = real[copy.ref] /\ asked' = copy.ref
  /\ Local /\ UNCHANGED otherVars

AskFails == At(Worker, "ask") /\ Fails(copy)

ReadyOf(r)     == IF r = "active" THEN "True" ELSE "False"
Reported(o, r) == [o EXCEPT !.ready = ReadyOf(r)]

ReadyOk ==
  /\ At(Worker, "ready")
  /\ \/ Writes(Reported(copy, answer), "record")
     \/ copy.ready = ReadyOf(answer) /\ Goes("record")

ReadyFails == At(Worker, "ready") /\ Fails(Reported(copy, answer))

\* The data, with the condition Probed
Recorded(o, r) == [o EXCEPT !.data = r, !.probed = TRUE]

\* A patch does not look at the version.
RecordPatches ==
  /\ At(Worker, "record")
  /\ Present(obj[cur[Worker]])
  /\ Store(cur[Worker], Recorded(obj[cur[Worker]], answer))
  /\ Retry(Worker) /\ UNCHANGED cache
  /\ recent' = recent \cup {cur[Worker]}
  /\ Forget /\ UNCHANGED <<real, up>>

RecordOk ==
  /\ At(Worker, "record")
  /\ WriteOk(Worker, Recorded(copy, answer), "label")
  /\ recent' = recent \cup {cur[Worker]}
  /\ Forget /\ UNCHANGED <<real, up>>

RecordFails ==
  /\ At(Worker, "record")
  /\ WriteFails(Worker, Recorded(copy, answer))
  /\ recent' = IF obj' = obj THEN recent ELSE recent \cup {cur[Worker]}
  /\ Forget /\ UNCHANGED <<real, up>>

\* SetLabel reports whether there is anything to Update; then the object waits
\* in the queue for the next probe.
Labelled(o) == [o EXCEPT !.label = o.ref]

\* No further probe
LabelOnce ==
  /\ At(Worker, "label")
  /\ IF copy.label = copy.ref THEN Local ELSE WriteEnds(Worker, Labelled(copy))
  /\ Done(Worker)
  /\ Same

LabelOk ==
  /\ At(Worker, "label")
  /\ IF copy.label = copy.ref THEN Local ELSE WriteEnds(Worker, Labelled(copy))
  /\ Retry(Worker)
  /\ Same

LabelFails == At(Worker, "label") /\ copy.label # copy.ref /\ Fails(Labelled(copy))

-----------------------------------------------------------------------------
\* The next operator reads the same conditions: a recent probe stays recent.
Crash == Restart /\ Forget /\ UNCHANGED otherVars

StepOk ==
  \/ AddFinalizerOk \/ Dispatch \/ FreeOk \/ PreventOk \/ UnfinalizeOk \/ Wait
  \/ RequireOk \/ ConnectOk \/ Ask \/ ReadyOk \/ RecordOk \/ LabelOk

StepFails ==
  \/ AddFinalizerFails \/ PreventFails \/ UnfinalizeFails \/ RequireFails \/ ConnectFails
  \/ AskFails \/ ReadyFails \/ RecordFails \/ LabelFails

UserSteps == \E x \in Objects : UserCreates(x) \/ UserMoves(x) \/ UserDeletes(x)
HostSteps == \E h \in Hosts : RealityChanges(h) \/ ConnectionChanges(h)

Next ==
  \/ StepOk \/ StepFails
  \/ \E x \in Objects : Begin(x) \/ CacheSync(x) \/ MinutePasses(x)
  \/ UserSteps \/ HostSteps \/ Crash

Spec == Init /\ [][Next]_vars

(***************************************************************************)
(* The worker, the watch of the cache and the clock run, and the queue     *)
(* serves every object.  From some time on the operator does not crash,    *)
(* users do not move objects, the hosts and what they have stay as they    *)
(* are, and a step fails only when the copy is an old one or there is no   *)
(* connection to the host.                                                 *)
(***************************************************************************)
Faultless ==
  \/ StepOk
  \/ StepFails /\ Worker \notin fresh
  \/ ConnectFails /\ copy.ref \notin up
  \/ \E x \in Objects :
       Begin(x) \/ CacheSync(x) \/ MinutePasses(x) \/ UserCreates(x) \/ UserDeletes(x)

Fairness ==
  /\ WF_vars(StepOk \/ StepFails)
  /\ \A x \in Objects :
       WF_vars(CacheSync(x)) /\ WF_vars(MinutePasses(x)) /\ SF_vars(Begin(x))
  /\ <>[][Faultless]_vars

FairSpec == Spec /\ Fairness

-----------------------------------------------------------------------------
(***************************************************************************)
(* Properties                                                              *)
(***************************************************************************)

\* The report is written with two calls, the condition Ready before the data.
\* Whoever reads Probed True reads both from one probe.
ReportIsOfOneProbe ==
  \A x \in Objects :
    Present(obj[x]) /\ obj[x].probed => obj[x].ready = ReadyOf(obj[x].data)

\* What is written of an object is what the host of its Spec has said, although
\* users may have moved it since the host was asked.
Says(o)     == Present(o) /\ o.probed
IsReport(x) == Says(obj'[x]) /\ ~Says(obj[x])

ReportIsOfItsHost ==
  [][\A x \in Objects : IsReport(x) => x = cur[Worker] /\ asked = obj[x].ref]_vars

\* In the end an object whose host can be asked is Ready if and only if it is
\* active there, and its label keeps that host.
CanBeAsked(x) == obj[x].life = "live" /\ obj[x].ref \in up
IsUpToDate(x) ==
  /\ Present(obj[x])
  /\ obj[x].ready = ReadyOf(real[obj[x].ref])
  /\ obj[x].label = obj[x].ref

ReportCatchesUp == \A x \in Objects : <>[]CanBeAsked(x) => <>[]IsUpToDate(x)
=============================================================================
