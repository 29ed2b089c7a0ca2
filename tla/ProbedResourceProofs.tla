------------------------- MODULE ProbedResourceProofs -------------------------
(***************************************************************************)
(* The report of a probe is of one answer, of the host that the object     *)
(* names, for any objects and hosts, however the probe interleaves with    *)
(* users who move objects and whichever of its calls fails.                *)
(*                                                                         *)
(* What makes it so is that the condition Probed is taken back before the  *)
(* host is asked, and that every write after that is refused unless the    *)
(* object is still the one that was read: CopyInv.                         *)
(***************************************************************************)
EXTENDS ProbedResource, ReconcilersProofs

Removing  == {"check", "unfinalize"}
Unproven  == {"connect", "ask", "ready", "record"}
Probing   == {"require", "label"} \cup Unproven

\* What the copy of a reconcile says at the places it gets to
CopyInv ==
  /\ pc[Worker] \in Removing => Deleting(copy)
  /\ pc[Worker] \in Probing => copy.finalizer /\ ~Deleting(copy)
  /\ pc[Worker] \in Unproven => ~copy.probed
  /\ pc[Worker] \in {"ready", "record"} => asked = copy.ref
  /\ pc[Worker] = "record" => copy.ready = ReadyOf(answer)

IInv == TypeOK /\ CopyInv /\ ReportIsOfOneProbe

-----------------------------------------------------------------------------
\* The writes of the controller make objects.
LEMMA Writings ==
  ASSUME NEW o \in Object
  PROVE  /\ WithFinalizer(o) \in Object /\ Prevented(o) \in Object /\ Unfinalized(o) \in Object
         /\ Unprobed(o) \in Object /\ Labelled(o) \in Object
         /\ \A r \in Reality : Reported(o, r) \in Object /\ Recorded(o, r) \in Object
<1>1. /\ WithFinalizer(o) \in Object /\ Prevented(o) \in Object /\ Unfinalized(o) \in Object
      /\ Unprobed(o) \in Object
  BY DEF WithFinalizer, Prevented, Unfinalized, Unprobed, Object
<1>2. Labelled(o) \in Object
  BY DEF Labelled, Object
<1>3. ASSUME NEW r \in Reality PROVE Reported(o, r) \in Object
  BY DEF Reported, ReadyOf, Object
<1>4. ASSUME NEW r \in Reality PROVE Recorded(o, r) \in Object
  <2> DEFINE x == [o EXCEPT !.data = r]
  <2>1. x \in Object
    BY DEF Object
  <2> HIDE DEF x
  <2>2. [x EXCEPT !.probed = TRUE] \in Object
    BY <2>1 DEF Object
  <2> QED
    BY <2>2 DEF Recorded, x
<1> QED
  BY <1>1, <1>2, <1>3, <1>4

\* Those of a probe are not stored as removed.
LEMMA Kept ==
  ASSUME NEW o \in Object
  PROVE  /\ Stored(WithFinalizer(o)) = WithFinalizer(o)
         /\ ~Deleting(o) => /\ Stored(Unprobed(o)) = Unprobed(o)
                            /\ \A r \in Reality : Stored(Reported(o, r)) = Reported(o, r)
                            /\ \A r \in Reality : Stored(Recorded(o, r)) = Recorded(o, r)
<1>1. WithFinalizer(o).finalizer
  BY DEF WithFinalizer, Object
<1>2. Unprobed(o).life = o.life
  BY DEF Unprobed, Object
<1>3. ASSUME NEW r \in Reality PROVE Reported(o, r).life = o.life /\ Recorded(o, r).life = o.life
  BY DEF Reported, Recorded, Object
<1> QED
  BY <1>1, <1>2, <1>3 DEF Stored, Deleting

\* The initial state satisfies the invariant.
LEMMA InitIInv == Init => IInv
<1> SUFFICES ASSUME Init PROVE IInv
  OBVIOUS
<1>1. CoreTypeOK(Object, Places)
  BY ServedAreObjects, OneWorker DEF Init, CoreInit, CoreTypeOK, Missing, Absent
<1>2. TypeOK
  BY <1>1, OneWorker DEF Init, CoreInit, TypeOK
<1>3. CopyInv /\ ReportIsOfOneProbe
  BY OneWorker DEF Init, CoreInit, CopyInv, Removing, Unproven, Probing, ReportIsOfOneProbe,
     Present, Absent
<1> QED
  BY <1>2, <1>3 DEF IInv

-----------------------------------------------------------------------------
(***************************************************************************)
(* Every step keeps the types.                                             *)
(***************************************************************************)

\* The worker and its copy, between two steps of a reconcile
LEMMA Working ==
  ASSUME TypeOK, pc[Worker] # "idle"
  PROVE  copy \in Object /\ cur[Worker] \in Objects
BY OneWorker DEF TypeOK, CoreTypeOK, copy

\* The steps of the reconcile are steps of a worker.
LEMMA StepShape ==
  ASSUME TypeOK, CopyInv, StepOk \/ StepFails
  PROVE  pc[Worker] # "idle" /\ WorkerStep(Worker, Object, Places)
<1>1. pc[Worker] # "idle"
  BY DEF StepOk, StepFails, At, NeedsFinalizer, AddFinalizerOk, Dispatch, FreeOk, PreventOk,
         UnfinalizeOk, Wait, RequireOk, ConnectOk, Ask, ReadyOk, RecordOk, LabelOk,
         AddFinalizerFails, PreventFails, UnfinalizeFails, RequireFails, ConnectFails, AskFails,
         ReadyFails, RecordFails, LabelFails
<1>2. copy \in Object
  BY <1>1, Working
<1>3. pc[Worker] \in {"ready", "record"} => answer \in Reality
  BY DEF TypeOK
<1>5. CASE Dispatch \/ FreeOk \/ ConnectOk \/ Ask \/ Wait
  BY <1>5 DEF Dispatch, FreeOk, ConnectOk, Ask, Wait, Goes, WorkerStep, Places, At
<1>6. CASE AddFinalizerOk
  BY <1>2, <1>6, Writings, Kept
     DEF AddFinalizerOk, NeedsFinalizer, Writes, WorkerStep, Places, At
<1>7. CASE RequireOk
  BY <1>2, <1>7, Writings, Kept
     DEF RequireOk, Writes, Goes, CopyInv, Probing, WorkerStep, Places, At
<1>8. CASE ReadyOk
  BY <1>2, <1>3, <1>8, Writings, Kept
     DEF ReadyOk, Writes, Goes, CopyInv, Probing, Unproven, WorkerStep, Places, At
<1>9. CASE RecordOk
  BY <1>2, <1>3, <1>9, Writings, Kept
     DEF RecordOk, CopyInv, Probing, Unproven, WorkerStep, Places, At
<1>10. CASE PreventOk \/ UnfinalizeOk \/ LabelOk
  BY <1>10, <1>2, Writings DEF PreventOk, UnfinalizeOk, LabelOk, WorkerStep, Places, At
<1>11. CASE StepFails
  BY <1>11, <1>2, <1>3, Writings DEF StepFails, AddFinalizerFails, NeedsFinalizer, PreventFails,
       UnfinalizeFails, RequireFails, ConnectFails, AskFails, ReadyFails, RecordFails,
       LabelFails, Fails, WorkerStep, Places, At
<1> QED
  BY <1>1, <1>5, <1>6, <1>7, <1>8, <1>9, <1>10, <1>11 DEF StepOk

\* The other steps are steps around a worker.
LEMMA OtherShape ==
  ASSUME TypeOK, Next, ~StepOk, ~StepFails
  PROVE  \/ \E x \in Objects, l \in Places \ {"idle"} : Take(Worker, x, l)
         \/ OtherStep(Object)
         \/ UNCHANGED coreVars
<1>1. CASE \E x \in Objects : Begin(x)
  BY <1>1 DEF Begin, Places
<1>2. CASE \E x \in Objects : CacheSync(x)
  BY <1>2 DEF CacheSync, OtherStep
<1>3. CASE UserSteps
  <2>1. \A h \in Hosts : Created(h) \in Object
    BY DEF Created, Object
  <2>2. ASSUME NEW x \in Objects, Present(obj[x])
        PROVE  /\ obj[x] \in Object
               /\ \A h \in Hosts : [obj[x] EXCEPT !.ref = h] \in Object
    <3>1. obj[x] \in Object
      BY <2>2, PresentObject DEF TypeOK, CoreTypeOK
    <3> QED
      BY <3>1 DEF Object
  <2>3. ASSUME NEW x \in Objects, obj[x].life = "live"
        PROVE  [obj[x] EXCEPT !.life = "deleting"] \in Object
    <3>1. obj[x] \in Object
      BY <2>3, PresentObject DEF TypeOK, CoreTypeOK, Present
    <3> QED
      BY <3>1 DEF Object
  <2> QED
    BY <1>3, <2>1, <2>2, <2>3
       DEF UserSteps, UserCreates, UserMoves, UserDeletes, Delete, OtherStep
<1>4. CASE Crash
  BY <1>4 DEF Crash, OtherStep
<1>5. CASE HostSteps \/ \E x \in Objects : MinutePasses(x)
  BY <1>5 DEF HostSteps, RealityChanges, ConnectionChanges, MinutePasses
<1> QED
  BY <1>1, <1>2, <1>3, <1>4, <1>5 DEF Next

\* The types of the rest: what users, hosts and time change, and the answer of
\* a probe, which is there when it is about to be written.
LEMMA NextTypes == TypeOK /\ CopyInv /\ [Next]_vars => TypeOK'
<1> SUFFICES ASSUME TypeOK, CopyInv, [Next]_vars PROVE TypeOK'
  OBVIOUS
<1>1. CoreTypeOK(Object, Places)'
  <2>1. CoreTypeOK(Object, Places) /\ Worker \in Workers
    BY OneWorker DEF TypeOK
  <2>2. CASE StepOk \/ StepFails
    BY <2>1, <2>2, StepShape, CoreTypes
  <2>3. CASE Next /\ ~StepOk /\ ~StepFails
    BY <2>1, <2>3, OtherShape, CoreTypes
  <2>4. CASE UNCHANGED vars
    BY <2>1, <2>4, CoreTypes DEF vars
  <2> QED
    BY <2>2, <2>3, <2>4
<1>2. /\ real \in [Hosts -> Reality] /\ up \in SUBSET Hosts /\ recent \in SUBSET Objects
      /\ answer \in Reality \cup {"unset"} /\ asked \in Hosts \cup {NoHost}
      /\ pc[Worker] \in {"ready", "record"} => answer \in Reality /\ asked \in Hosts
      /\ pc \in [Workers -> Places \cup {"idle"}] /\ Worker \in Workers
      /\ pc[Worker] # "idle" => copy \in Object /\ cur[Worker] \in Objects
  BY Working, OneWorker DEF TypeOK, CoreTypeOK
<1> USE <1>2 DEF otherVars, localVars, Same, Forget, At
<1>3. CASE StepOk
  <2>1. CASE AddFinalizerOk \/ Dispatch \/ FreeOk \/ PreventOk \/ UnfinalizeOk \/ Wait
    BY <1>1, <1>3, <2>1
       DEF TypeOK, AddFinalizerOk, Dispatch, FreeOk, PreventOk, UnfinalizeOk, Wait, Writes, Goes,
           NeedsFinalizer, Jump, Goto, Done, Retry, End, WriteOk
  <2>2. CASE RequireOk \/ ConnectOk \/ ReadyOk \/ LabelOk
    BY <1>1, <2>2
       DEF TypeOK, RequireOk, ConnectOk, ReadyOk, LabelOk, Writes, Goes, Jump, Goto, Retry, End,
           WriteOk
  <2>3. CASE Ask
    BY <1>1, <2>3 DEF TypeOK, Ask, Jump, Goto, Object
  <2>4. CASE RecordOk
    BY <1>1, <2>4 DEF TypeOK, RecordOk, WriteOk
  <2> QED
    BY <1>3, <2>1, <2>2, <2>3, <2>4 DEF StepOk
<1>4. CASE StepFails
  <2>1. pc'[Worker] = "idle"
    BY <1>4
       DEF StepFails, AddFinalizerFails, NeedsFinalizer, PreventFails, UnfinalizeFails,
           RequireFails, ConnectFails, AskFails, ReadyFails, RecordFails, LabelFails, Fails,
           WriteFails, Retry, End
  <2> QED
    BY <1>1, <1>4, <2>1
       DEF TypeOK, StepFails, AddFinalizerFails, PreventFails, UnfinalizeFails, RequireFails,
           ConnectFails, AskFails, ReadyFails, RecordFails, LabelFails, Fails
<1>5. CASE \E x \in Objects : Begin(x) \/ CacheSync(x) \/ MinutePasses(x)
  BY <1>1, <1>5
     DEF TypeOK, Begin, CacheSync, MinutePasses, Users, Take, Learn, coreVars, workerVars
<1>6. CASE UserSteps
  BY <1>1, <1>6 DEF TypeOK, UserSteps, UserCreates, UserMoves, UserDeletes, Users, Delete,
     OthersWrite
<1>7. CASE HostSteps
  BY <1>1, <1>7 DEF TypeOK, HostSteps, RealityChanges, ConnectionChanges, coreVars, workerVars
<1>8. CASE Crash
  BY <1>1, <1>8 DEF TypeOK, Crash, Restart
<1>9. CASE UNCHANGED vars
  BY <1>1, <1>9 DEF TypeOK, vars, coreVars, workerVars
<1> QED
  BY <1>3, <1>4, <1>5, <1>6, <1>7, <1>8, <1>9 DEF Next

-----------------------------------------------------------------------------
(***************************************************************************)
(* Every step keeps what the copy says and what the report says.           *)
(***************************************************************************)

\* The writes of a probe, field by field
LEMMA Fields ==
  ASSUME NEW o \in Object
  PROVE  /\ Unprobed(o).life = o.life /\ Unprobed(o).finalizer = o.finalizer
         /\ ~Unprobed(o).probed
         /\ \A r \in Reality :
              /\ Reported(o, r).life = o.life /\ Reported(o, r).finalizer = o.finalizer
              /\ Reported(o, r).probed = o.probed /\ Reported(o, r).ref = o.ref
              /\ Reported(o, r).ready = ReadyOf(r)
              /\ Recorded(o, r).life = o.life /\ Recorded(o, r).finalizer = o.finalizer
              /\ Recorded(o, r).ready = o.ready /\ Recorded(o, r).data = r
              /\ Recorded(o, r).probed
<1>1. Unprobed(o).life = o.life /\ Unprobed(o).finalizer = o.finalizer /\ ~Unprobed(o).probed
  BY DEF Unprobed, Object
<1>2. ASSUME NEW r \in Reality
      PROVE  /\ Reported(o, r).life = o.life /\ Reported(o, r).finalizer = o.finalizer
             /\ Reported(o, r).probed = o.probed /\ Reported(o, r).ref = o.ref
             /\ Reported(o, r).ready = ReadyOf(r)
  BY DEF Reported, Object
<1>3. ASSUME NEW r \in Reality
      PROVE  /\ Recorded(o, r).life = o.life /\ Recorded(o, r).finalizer = o.finalizer
             /\ Recorded(o, r).ready = o.ready /\ Recorded(o, r).data = r
             /\ Recorded(o, r).probed
  <2> DEFINE x == [o EXCEPT !.data = r]
  <2>1. x.life = o.life /\ x.finalizer = o.finalizer /\ x.ready = o.ready /\ x.data = r /\ x \in Object
    BY DEF Object
  <2> HIDE DEF x
  <2>2. Recorded(o, r) = [x EXCEPT !.probed = TRUE]
    BY DEF Recorded, x
  <2> QED
    BY <2>1, <2>2 DEF Object
<1> QED
  BY <1>1, <1>2, <1>3

LEMMA NextCopyInv == TypeOK /\ CopyInv /\ [Next]_vars => CopyInv'
<1> SUFFICES ASSUME TypeOK, CopyInv, [Next]_vars PROVE CopyInv'
  OBVIOUS
<1>1. /\ pc \in [Workers -> Places \cup {"idle"}] /\ Worker \in Workers
      /\ loc \in [Workers -> Object \cup {Absent}]
      /\ pc[Worker] # "idle" => copy \in Object
      /\ pc[Worker] \in {"ready", "record"} => answer \in Reality
  BY Working, OneWorker DEF TypeOK, CoreTypeOK
<1> USE <1>1 DEF CopyInv, Removing, Probing, Unproven, copy, At, Same, localVars
<1>2. CASE AddFinalizerOk \/ Dispatch \/ FreeOk
  BY <1>2 DEF AddFinalizerOk, NeedsFinalizer, Dispatch, FreeOk, Writes, WriteOk, Goes, Jump,
     Goto, Done, End
<1>3. CASE RequireOk \/ ConnectOk
  <2>1. CASE (RequireOk /\ ~copy.probed /\ Goes("connect")) \/ ConnectOk
    BY <2>1 DEF RequireOk, ConnectOk, Goes, Jump, Goto
  <2>2. CASE RequireOk /\ Writes(Unprobed(copy), "connect")
    <3>1. pc'[Worker] = "connect" /\ loc'[Worker] = Unprobed(copy)
      BY <2>2 DEF RequireOk, Writes, WriteOk
    <3> QED
      BY <2>2, <3>1, Fields DEF RequireOk, Deleting
  <2> QED
    BY <1>3, <2>1, <2>2 DEF RequireOk
<1>4. CASE Ask
  BY <1>4 DEF Ask, Jump, Goto
<1>5. CASE ReadyOk
  <2>1. CASE copy.ready = ReadyOf(answer) /\ Goes("record")
    BY <1>5, <2>1 DEF ReadyOk, Goes, Jump, Goto
  <2>2. CASE Writes(Reported(copy, answer), "record")
    <3>1. pc'[Worker] = "record" /\ loc'[Worker] = Reported(copy, answer)
      BY <1>5, <2>2 DEF ReadyOk, Writes, WriteOk
    <3>2. UNCHANGED <<answer, asked>>
      BY <1>5, <2>2 DEF ReadyOk, Writes
    <3> QED
      BY <1>5, <3>1, <3>2, Fields DEF ReadyOk, Deleting
  <2> QED
    BY <1>5, <2>1, <2>2 DEF ReadyOk
<1>6. CASE RecordOk
  <2>1. pc'[Worker] = "label" /\ loc'[Worker] = Recorded(copy, answer)
    BY <1>6 DEF RecordOk, WriteOk
  <2> QED
    BY <1>6, <2>1, Fields DEF RecordOk, Deleting
<1>7. CASE PreventOk \/ UnfinalizeOk \/ Wait \/ LabelOk \/ StepFails
  <2>1. pc'[Worker] = "idle"
    BY <1>7
       DEF PreventOk, UnfinalizeOk, Wait, LabelOk, StepFails, AddFinalizerFails, NeedsFinalizer,
           PreventFails, UnfinalizeFails, RequireFails, ConnectFails, AskFails, ReadyFails,
           RecordFails, LabelFails, Fails, WriteFails, Retry, Done, End
  <2> QED
    BY <2>1
<1>8. CASE \E x \in Objects : Begin(x)
  BY <1>8 DEF Begin, Take, workerVars
<1>9. CASE Crash
  BY <1>9 DEF Crash, Restart
<1>10. CASE UNCHANGED <<pc, loc, localVars>>
  BY <1>10
<1> QED
  BY <1>2, <1>3, <1>4, <1>5, <1>6, <1>7, <1>8, <1>9, <1>10
     DEF Next, StepOk, CacheSync, Learn, MinutePasses, Users, UserSteps, UserCreates, UserMoves,
         UserDeletes, Delete, OthersWrite, HostSteps, RealityChanges, ConnectionChanges,
         coreVars, workerVars, vars

\* The writes of others and of the worker, object by object
LEMMA ObjSteps ==
  ASSUME TypeOK, CopyInv, [Next]_vars, NEW x \in Objects, obj'[x] # obj[x], Present(obj'[x])
  PROVE  \/ /\ obj[x] = Absent /\ ~obj'[x].probed
         \/ /\ Present(obj[x]) /\ obj'[x].probed = obj[x].probed
            /\ obj'[x].ready = obj[x].ready /\ obj'[x].data = obj[x].data
         \/ /\ x = cur[Worker] /\ Worker \in fresh /\ pc[Worker] = "require"
            /\ obj'[x] = Unprobed(copy)
         \/ /\ x = cur[Worker] /\ Worker \in fresh /\ pc[Worker] = "ready"
            /\ obj'[x] = Reported(copy, answer)
         \/ /\ x = cur[Worker] /\ Worker \in fresh /\ pc[Worker] = "record"
            /\ obj'[x] = Recorded(copy, answer)
<1>1. CASE UserSteps
  <2>1. PICK o \in Object :
              /\ OthersWrite(x, o)
              /\ \/ obj[x] = Absent /\ ~o.probed
                 \/ /\ Present(obj[x]) /\ o.probed = obj[x].probed
                    /\ o.ready = obj[x].ready /\ o.data = obj[x].data
    <3>1. CASE \E h \in Hosts : OthersWrite(x, Created(h)) /\ obj[x] = Absent
      <4>1. \A h \in Hosts : Created(h) \in Object /\ ~Created(h).probed
        BY DEF Created, Object
      <4> QED
        BY <3>1, <4>1
    <3>2. CASE \E h \in Hosts : OthersWrite(x, [obj[x] EXCEPT !.ref = h]) /\ Present(obj[x])
      <4>1. obj[x] \in Object
        BY <3>2, PresentObject DEF TypeOK, CoreTypeOK
      <4>2. PICK h \in Hosts : OthersWrite(x, [obj[x] EXCEPT !.ref = h])
        BY <3>2
      <4> DEFINE o == [obj[x] EXCEPT !.ref = h]
      <4>3. o \in Object /\ o.probed = obj[x].probed /\ o.ready = obj[x].ready
            /\ o.data = obj[x].data
        BY <4>1 DEF Object
      <4> QED
        BY <3>2, <4>2, <4>3
    <3>3. CASE Delete(x)
      <4>1. obj[x] \in Object /\ Present(obj[x])
        BY <3>3, PresentObject DEF TypeOK, CoreTypeOK, Delete, Present
      <4> DEFINE o == [obj[x] EXCEPT !.life = "deleting"]
      <4>2. o \in Object /\ o.probed = obj[x].probed /\ o.ready = obj[x].ready
            /\ o.data = obj[x].data
        BY <4>1 DEF Object
      <4> QED
        BY <3>3, <4>1, <4>2 DEF Delete
    <3>4. ASSUME NEW y \in Objects, NEW o, OthersWrite(y, o)
          PROVE  y = x
      BY <3>4 DEF OthersWrite, Store, TypeOK, CoreTypeOK
    <3>5. PICK y \in Objects : UserCreates(y) \/ UserMoves(y) \/ UserDeletes(y)
      BY <1>1 DEF UserSteps
    <3>6. CASE UserCreates(y)
      <4>1. PICK h \in Hosts : OthersWrite(y, Created(h)) /\ obj[y] = Absent
        BY <3>6 DEF UserCreates
      <4> QED
        BY <3>1, <3>4, <4>1
    <3>7. CASE UserMoves(y)
      <4>1. PICK h \in Hosts : OthersWrite(y, [obj[y] EXCEPT !.ref = h]) /\ Present(obj[y])
        BY <3>7 DEF UserMoves
      <4> DEFINE p == [obj[y] EXCEPT !.ref = h]
      <4>2. OthersWrite(y, p) /\ Present(obj[y])
        BY <4>1
      <4> HIDE DEF p
      <4>3. y = x
        BY <3>4, <4>2
      <4> QED
        BY <3>2, <4>1, <4>3
    <3>8. CASE UserDeletes(y)
      <4>1. OthersWrite(y, [obj[y] EXCEPT !.life = "deleting"])
        BY <3>8 DEF UserDeletes, Delete
      <4> DEFINE p == [obj[y] EXCEPT !.life = "deleting"]
      <4>2. OthersWrite(y, p)
        BY <4>1
      <4> HIDE DEF p
      <4>3. y = x
        BY <3>4, <4>2
      <4> QED
        BY <3>3, <3>8, <4>3 DEF UserDeletes
    <3> QED
      BY <3>5, <3>6, <3>7, <3>8
  <2>2. obj'[x] = Stored(o)
    BY <2>1 DEF OthersWrite, Store, TypeOK, CoreTypeOK
  <2> QED
    BY <2>1, <2>2, StoredPresent
<1>2. ASSUME NEW o, Worker \in fresh, Store(cur[Worker], o)
      PROVE  x = cur[Worker] /\ obj[x] = copy /\ copy \in Object /\ obj'[x] = o
  BY <1>2, WrittenObject, StoredPresent DEF TypeOK, copy
<1>3. ASSUME NEW o \in Object
      PROVE  \A p \in {WithFinalizer(o), Prevented(o), Unfinalized(o), Labelled(o)} :
               p.probed = o.probed /\ p.ready = o.ready /\ p.data = o.data
  BY DEF WithFinalizer, Prevented, Unfinalized, Labelled, Object
<1>4. ASSUME Worker \in fresh,
             \E p \in {WithFinalizer(copy), Prevented(copy), Unfinalized(copy), Labelled(copy)} :
               Store(cur[Worker], p)
      PROVE  /\ Present(obj[x]) /\ obj'[x].probed = obj[x].probed
             /\ obj'[x].ready = obj[x].ready /\ obj'[x].data = obj[x].data
  <2>1. x = cur[Worker] /\ obj[x] = copy /\ copy \in Object /\ Present(copy)
    BY <1>2, <1>4 DEF Object, Present
  <2> QED
    BY <1>2, <1>3, <1>4, <2>1
<1>5. CASE AddFinalizerOk \/ AddFinalizerFails \/ PreventOk \/ PreventFails \/ UnfinalizeOk
           \/ UnfinalizeFails \/ LabelOk \/ LabelFails
  BY <1>4, <1>5
     DEF AddFinalizerOk, AddFinalizerFails, PreventOk, PreventFails, UnfinalizeOk,
         UnfinalizeFails, LabelOk, LabelFails, Writes, Fails, WriteOk, WriteEnds, WriteFails,
         Local, apiVars
<1>6. CASE RequireOk \/ RequireFails
  BY <1>2, <1>6 DEF RequireOk, RequireFails, Writes, Fails, Goes, WriteOk, WriteFails, Local,
     apiVars, At
<1>7. CASE ReadyOk \/ ReadyFails
  BY <1>2, <1>7 DEF ReadyOk, ReadyFails, Writes, Fails, Goes, WriteOk, WriteFails, Local,
     apiVars, At
<1>8. CASE RecordOk \/ RecordFails
  BY <1>2, <1>8 DEF RecordOk, RecordFails, WriteOk, WriteFails, apiVars, At
<1>9. CASE ConnectFails \/ AskFails
  <2>1. pc[Worker] # "idle" /\ copy \in Object
    BY <1>9, Working DEF ConnectFails, AskFails, At
  <2> QED
    BY <1>2, <1>9, <2>1 DEF ConnectFails, AskFails, Fails, WriteFails, apiVars
<1> QED
  BY <1>1, <1>5, <1>6, <1>7, <1>8, <1>9
     DEF Next, StepOk, StepFails, Dispatch, FreeOk, Wait, ConnectOk, Ask, Goes, Begin, CacheSync,
         MinutePasses, HostSteps, RealityChanges, ConnectionChanges, Crash, Restart, Take, Learn,
         Local, apiVars, coreVars, vars

\* The report stays of one probe.
LEMMA NextReport ==
  TypeOK /\ CopyInv /\ ReportIsOfOneProbe /\ [Next]_vars => ReportIsOfOneProbe'
<1> SUFFICES ASSUME TypeOK, CopyInv, ReportIsOfOneProbe, [Next]_vars, NEW x \in Objects,
                    Present(obj'[x]), obj'[x].probed
             PROVE  obj'[x].ready = ReadyOf(obj'[x].data)
  BY DEF ReportIsOfOneProbe
<1>1. CASE obj'[x] = obj[x]
  BY <1>1 DEF ReportIsOfOneProbe
<1>2. CASE obj'[x] # obj[x]
  <2>1. pc[Worker] # "idle" => copy \in Object
    BY Working
  <2>2. pc[Worker] \in {"ready", "record"} => answer \in Reality
    BY DEF TypeOK
  <2> QED
    BY <1>2, <2>1, <2>2, ObjSteps, Fields DEF ReportIsOfOneProbe, CopyInv, Unproven
<1> QED
  BY <1>1, <1>2

\* Every reachable state satisfies the invariant.
LEMMA Invariance == Spec => []IInv
<1>1. IInv /\ [Next]_vars => IInv'
  BY NextTypes, NextCopyInv, NextReport DEF IInv
<1> QED
  BY InitIInv, <1>1, PTL DEF Spec

\* The variables have their types.
THEOREM TypeCorrect == Spec => []TypeOK
<1>1. IInv => TypeOK
  BY DEF IInv
<1> QED
  BY Invariance, <1>1, PTL

\* Whoever reads Probed True reads Ready and the data from one probe.
THEOREM ReportOfOneProbe == Spec => []ReportIsOfOneProbe
<1>1. IInv => ReportIsOfOneProbe
  BY DEF IInv
<1> QED
  BY Invariance, <1>1, PTL

\* A report is of the host that the object names when it is written.
THEOREM ReportOfItsHost == Spec => ReportIsOfItsHost
<1>1. IInv /\ [Next]_vars =>
        [\A x \in Objects : IsReport(x) => x = cur[Worker] /\ asked = obj[x].ref]_vars
  <2> SUFFICES ASSUME TypeOK, CopyInv, [Next]_vars, NEW x \in Objects, IsReport(x)
               PROVE  x = cur[Worker] /\ asked = obj[x].ref
    BY DEF IInv
  <2>1. pc[Worker] # "idle" => copy \in Object
    BY Working
  <2>2. pc[Worker] \in {"ready", "record"} => answer \in Reality
    BY DEF TypeOK
  <2>3. Worker \in fresh => obj[cur[Worker]] = copy
    BY DEF TypeOK, CoreTypeOK, copy
  <2>4. x = cur[Worker] /\ Worker \in fresh /\ pc[Worker] = "record"
    BY <2>1, <2>2, ObjSteps, Fields DEF IsReport, Says, CopyInv, Unproven
  <2> QED
    BY <2>3, <2>4 DEF CopyInv
<1> QED
  BY <1>1, Invariance, PTL DEF Spec, ReportIsOfItsHost
=============================================================================
