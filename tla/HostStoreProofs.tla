--------------------------- MODULE HostStoreProofs ---------------------------
(***************************************************************************)
(* The invariants of HostStore hold for every set of hosts and of workers  *)
(* and every number of Register calls.                                     *)
(*                                                                         *)
(* None of the properties is inductive on its own: that the message on mon *)
(* is received depends on the map (no entry is stopped twice), which       *)
(* depends on the mutex and on HostReconciler being the only writer.       *)
(* IInv conjoins them; one step per action shows that it is kept.          *)
(***************************************************************************)
EXTENDS HostStore, TLAPS

-----------------------------------------------------------------------------
(***************************************************************************)
(* Types.                                                                  *)
(***************************************************************************)

\* A worker that moves to a known place, with a host unless it is idle and an
\* entry if it uses one, keeps the types of the workers.
LEMMA MoveTypes ==
  WorkerTypes /\ UseTypes =>
    \A w \in Workers, l \in PcStates, h \in Hosts \cup {NoHost}, e \in Entry \cup {NoEntry} :
      Move(w, l, h, e) /\ (l # "idle" => h \in Hosts) /\ (l \in Using => e \in Entry)
        => WorkerTypes' /\ UseTypes'
<1> SUFFICES ASSUME WorkerTypes, UseTypes,
                    NEW w \in Workers, NEW l \in PcStates, NEW h \in Hosts \cup {NoHost},
                    NEW e \in Entry \cup {NoEntry},
                    Move(w, l, h, e), l # "idle" => h \in Hosts, l \in Using => e \in Entry
             PROVE  WorkerTypes' /\ UseTypes'
  OBVIOUS
<1>1. WorkerTypes'
  BY DEF WorkerTypes, Move
<1>2. UseTypes'
  BY DEF WorkerTypes, UseTypes, Move
<1> QED
  BY <1>1, <1>2

\* The end of a reconcile keeps the types of the workers.
LEMMA EndTypes ==
  WorkerTypes /\ UseTypes => \A w \in Workers : End(w) => WorkerTypes' /\ UseTypes'
BY MoveTypes DEF End, PcStates, Using

\* The initial state is well typed.
LEMMA InitTypes == Init => TypeOK
<1> SUFFICES ASSUME Init PROVE TypeOK
  OBVIOUS
<1>1. StoreTypes
  <2>1. /\ mu \in Workers \cup {NoWorker}
        /\ entries \in [Hosts -> Entry \cup {NoEntry}]
        /\ last \in 0..MaxRegisters
        /\ uid \in [Entry -> Hosts \cup {NoHost}]
    BY MaxRegistersIsNat DEF Init
  <2>2. deleting \in SUBSET Hosts /\ ctxDone \in BOOLEAN
    BY DEF Init
  <2> QED
    BY <2>1, <2>2 DEF StoreTypes
<1>2. EntryTypes
  BY DEF Init, EntryTypes, MonStates
<1>3. WorkerTypes /\ UseTypes
  BY DEF Init, WorkerTypes, UseTypes, PcStates, Using
<1> QED
  BY <1>1, <1>2, <1>3 DEF TypeOK

\* Every step keeps the types, as long as only HostReconciler writes the store.
LEMMA NextTypes == TypeOK /\ WriterInv /\ [Next]_vars => TypeOK'
<1> SUFFICES ASSUME TypeOK, WriterInv, [Next]_vars PROVE TypeOK'
  OBVIOUS
<1>0. StoreTypes /\ EntryTypes /\ WorkerTypes /\ UseTypes
  BY DEF TypeOK
<1> USE <1>0 DEF PcStates, Holding, Using
<1>1. ASSUME NEW w \in Workers, NEW h \in Hosts, BeginReconcile(w, h) PROVE TypeOK'
  <2>1. StoreTypes' /\ EntryTypes'
    BY <1>1 DEF BeginReconcile, storeVars, entryVars, StoreTypes, EntryTypes
  <2>2. WorkerTypes' /\ UseTypes'
    BY <1>1, MoveTypes DEF BeginReconcile
  <2> QED
    BY <2>1, <2>2 DEF TypeOK
<1>2. ASSUME NEW w \in Workers, NEW h \in Hosts, BeginDelete(w, h) PROVE TypeOK'
  <2>1. StoreTypes' /\ EntryTypes'
    BY <1>2 DEF BeginDelete, storeVars, entryVars, StoreTypes, EntryTypes
  <2>2. WorkerTypes' /\ UseTypes'
    BY <1>2, MoveTypes DEF BeginDelete
  <2> QED
    BY <2>1, <2>2 DEF TypeOK
<1>3. ASSUME NEW w \in Workers, Lookup(w) PROVE TypeOK'
  <2>1. StoreTypes' /\ EntryTypes'
    BY <1>3 DEF Lookup, storeVars, entryVars, StoreTypes, EntryTypes
  <2>2. arg[w] \in Hosts /\ entries[arg[w]] \in Entry \cup {NoEntry}
    BY <1>3 DEF Lookup, UseTypes, StoreTypes
  <2>3. WorkerTypes' /\ UseTypes'
    <3>1. CASE pc[w] = "lookup" /\ entries[arg[w]] # NoEntry
      BY <1>3, <2>2, <3>1, MoveTypes DEF Lookup
    <3>2. CASE pc[w] = "lookup" /\ entries[arg[w]] = NoEntry
      BY <1>3, <2>2, <3>2, MoveTypes, EndTypes DEF Lookup
    <3>3. CASE pc[w] = "relookup"
      BY <1>3, <2>2, <3>3, MoveTypes DEF Lookup, WriterInv
    <3> QED
      BY <1>3, <3>1, <3>2, <3>3 DEF Lookup
  <2> QED
    BY <2>1, <2>3 DEF TypeOK
<1>4. ASSUME NEW w \in Workers, Reregister(w) PROVE TypeOK'
  <2>1. StoreTypes' /\ EntryTypes'
    BY <1>4 DEF Reregister, storeVars, entryVars, StoreTypes, EntryTypes
  <2>2. arg[w] \in Hosts
    BY <1>4 DEF Reregister, UseTypes
  <2>3. WorkerTypes' /\ UseTypes'
    BY <1>4, <2>2, MoveTypes DEF Reregister
  <2> QED
    BY <2>1, <2>3 DEF TypeOK
<1>5. ASSUME NEW w \in Workers, Return(w) PROVE TypeOK'
  <2>1. StoreTypes' /\ EntryTypes'
    BY <1>5 DEF Return, storeVars, entryVars, StoreTypes, EntryTypes
  <2>2. WorkerTypes' /\ UseTypes'
    BY <1>5, EndTypes DEF Return
  <2> QED
    BY <2>1, <2>2 DEF TypeOK
<1>6. ASSUME NEW w \in Workers, RegisterLock(w) PROVE TypeOK'
  <2>1. StoreTypes' /\ EntryTypes'
    BY <1>6 DEF RegisterLock, entryVars, StoreTypes, EntryTypes
  <2>2. arg[w] \in Hosts
    BY <1>6 DEF RegisterLock, UseTypes
  <2>3. WorkerTypes' /\ UseTypes'
    BY <1>6, <2>2, MoveTypes DEF RegisterLock
  <2> QED
    BY <2>1, <2>3 DEF TypeOK
<1>7. ASSUME NEW w \in Workers, RegisterInstall(w) PROVE TypeOK'
  <2>1. arg[w] \in Hosts /\ last + 1 \in Entry /\ OldEntry(w) \in Entry \cup {NoEntry}
    BY <1>7, MaxRegistersIsNat
       DEF RegisterInstall, UseTypes, StoreTypes, WriterInv, Entry, OldEntry
  <2>2. StoreTypes'
    BY <1>7, <2>1, MaxRegistersIsNat DEF RegisterInstall, StoreTypes, Entry
  <2>3. EntryTypes'
    BY <1>7, <2>1 DEF RegisterInstall, EntryTypes, MonStates, Serving
  <2>4. WorkerTypes' /\ UseTypes'
    BY <1>7, <2>1, MoveTypes DEF RegisterInstall
  <2> QED
    BY <2>2, <2>3, <2>4 DEF TypeOK
<1>8. ASSUME NEW w \in Workers, Deregister(w) PROVE TypeOK'
  <2>1. arg[w] \in Hosts /\ entries[arg[w]] \in Entry \cup {NoEntry}
    BY <1>8 DEF Deregister, UseTypes, StoreTypes
  <2>2. StoreTypes'
    BY <1>8, <2>1 DEF Deregister, StoreTypes
  <2>3. EntryTypes'
    BY <1>8 DEF Deregister, entryVars, EntryTypes
  <2>4. WorkerTypes' /\ UseTypes'
    BY <1>8, <2>1, MoveTypes, EndTypes DEF Deregister
  <2> QED
    BY <2>2, <2>3, <2>4 DEF TypeOK
<1>9. ASSUME NEW w \in Workers, Signal(w) PROVE TypeOK'
  <2>1. arg[w] \in Hosts /\ ref[w] \in Entry
    BY <1>9 DEF Signal, UseTypes
  <2>2. StoreTypes'
    BY <1>9 DEF Signal, StoreTypes
  <2>3. EntryTypes'
    BY <1>9, <2>1 DEF Signal, EntryTypes, MonStates
  <2>4. WorkerTypes' /\ UseTypes'
    BY <1>9, <2>1, MoveTypes, EndTypes DEF Signal, AfterSignal
  <2> QED
    BY <2>2, <2>3, <2>4 DEF TypeOK
<1>10. ASSUME NEW w \in Workers, SessionCheck(w) PROVE TypeOK'
  <2>1. StoreTypes' /\ EntryTypes'
    BY <1>10 DEF SessionCheck, storeVars, entryVars, StoreTypes, EntryTypes
  <2>2. arg[w] \in Hosts /\ ref[w] \in Entry
    BY <1>10 DEF SessionCheck, UseTypes
  <2>3. WorkerTypes' /\ UseTypes'
    BY <1>10, <2>2, MoveTypes, EndTypes DEF SessionCheck
  <2> QED
    BY <2>1, <2>3 DEF TypeOK
<1>11. ASSUME NEW w \in Workers, SessionOpen(w) PROVE TypeOK'
  <2>1. StoreTypes' /\ EntryTypes'
    BY <1>11 DEF SessionOpen, storeVars, StoreTypes, EntryTypes
  <2>2. WorkerTypes' /\ UseTypes'
    BY <1>11 DEF SessionOpen, WorkerTypes, UseTypes
  <2> QED
    BY <2>1, <2>2 DEF TypeOK
<1>12. ASSUME NEW w \in Workers, SessionEnd(w) PROVE TypeOK'
  <2>1. StoreTypes' /\ EntryTypes'
    BY <1>12 DEF SessionEnd, storeVars, StoreTypes, EntryTypes
  <2>2. WorkerTypes' /\ UseTypes'
    BY <1>12, EndTypes DEF SessionEnd
  <2> QED
    BY <2>1, <2>2 DEF TypeOK
<1>13. ASSUME NEW e \in Entry, MonitorStep(e) \/ ConnectionLost(e) PROVE TypeOK'
  <2>1. UNCHANGED <<storeVars, workerVars, deleting, ctxDone>>
    BY <1>13 DEF MonitorStep, MonitorDisconnected, MonitorReconnect, MonitorCtxDone,
                 MonitorDrain, MonitorWake, MonitorClose, ConnectionLost
  <2>2. StoreTypes' /\ WorkerTypes' /\ UseTypes'
    BY <2>1 DEF storeVars, workerVars, StoreTypes, WorkerTypes, UseTypes
  <2>3. EntryTypes'
    <3>1. sessions' = sessions
      BY <1>13 DEF MonitorStep, MonitorDisconnected, MonitorReconnect, MonitorCtxDone,
                   MonitorDrain, MonitorWake, MonitorClose, ConnectionLost
    <3>2. \/ client' = client
          \/ \E c \in {"up", "down"} : client' = [client EXCEPT ![e] = c]
      BY <1>13 DEF MonitorStep, MonitorDisconnected, MonitorReconnect, MonitorCtxDone,
                   MonitorDrain, MonitorWake, MonitorClose, ConnectionLost
    <3>3. mon' = mon \/ \E l \in MonStates : mon' = [mon EXCEPT ![e] = l]
      BY <1>13 DEF MonitorStep, MonitorDisconnected, MonitorReconnect, MonitorCtxDone,
                   MonitorDrain, MonitorWake, MonitorClose, ConnectionLost, MonGoto,
                   MonStates, Serving
    <3> QED
      BY <3>1, <3>2, <3>3 DEF EntryTypes
  <2> QED
    BY <2>2, <2>3 DEF TypeOK
<1>14. ASSUME Shutdown PROVE TypeOK'
  <2>1. StoreTypes' /\ EntryTypes'
    BY <1>14 DEF Shutdown, storeVars, entryVars, StoreTypes, EntryTypes
  <2>2. WorkerTypes' /\ UseTypes'
    BY <1>14 DEF Shutdown, workerVars, WorkerTypes, UseTypes
  <2> QED
    BY <2>1, <2>2 DEF TypeOK
<1>15. ASSUME UNCHANGED vars PROVE TypeOK'
  BY <1>15 DEF vars, storeVars, entryVars, workerVars, TypeOK, StoreTypes, EntryTypes,
               WorkerTypes, UseTypes
<1> QED
  BY <1>1, <1>2, <1>3, <1>4, <1>5, <1>6, <1>7, <1>8, <1>9, <1>10, <1>11, <1>12,
     <1>13, <1>14, <1>15 DEF Next, WorkerStep

-----------------------------------------------------------------------------
(***************************************************************************)
(* The relations between the variables, and the properties.                *)
(***************************************************************************)

\* What IInv says besides the types.
StoreInv == LockInv /\ WriterInv /\ MapInv /\ MonInv /\ SignalInv
MonitorInv == CurrentIsServed /\ ServingIsCurrent /\ SignalIsReceived /\ RetiredIsDisconnected
DrainInv == SessionInv /\ EarlySessionIsKept

\* The store starts empty: IInv holds initially.
LEMMA InitIInv == Init => IInv
<1> SUFFICES ASSUME Init PROVE IInv
  OBVIOUS
<1>1. TypeOK
  BY InitTypes
<1>2. StoreInv
  BY NoWorkerIsNoWorker
     DEF Init, StoreInv, LockInv, WriterInv, MapInv, MonInv, SignalInv, Holding
<1>3. MonitorInv
  BY DEF Init, MonitorInv, CurrentIsServed, ServingIsCurrent, SignalIsReceived,
         RetiredIsDisconnected, Serving
<1>4. DrainInv
  BY DEF Init, DrainInv, SessionInv, EarlySessionIsKept
<1> QED
  BY <1>1, <1>2, <1>3, <1>4 DEF IInv, StoreInv, MonitorInv, DrainInv

\* Every step of a worker, of a monitor or of the environment keeps the
\* mutex, the map and the monitors consistent.
LEMMA NextStoreInv == IInv /\ [Next]_vars => StoreInv' /\ MonitorInv' /\ DrainInv'
<1> SUFFICES ASSUME IInv, [Next]_vars PROVE StoreInv' /\ MonitorInv' /\ DrainInv'
  OBVIOUS
<1>0. /\ StoreTypes /\ EntryTypes /\ WorkerTypes /\ UseTypes
      /\ StoreInv /\ MonitorInv /\ DrainInv
  BY DEF IInv, TypeOK, StoreInv, MonitorInv, DrainInv
<1> USE <1>0, HostWorkerIsWorker, NoWorkerIsNoWorker, NoHostIsNoHost, MaxRegistersIsNat
    DEF StoreTypes, EntryTypes, WorkerTypes, UseTypes, StoreInv, MonitorInv, DrainInv,
        LockInv, WriterInv, MapInv, MonInv, SignalInv, SessionInv,
        CurrentIsServed, ServingIsCurrent, SignalIsReceived, RetiredIsDisconnected,
        EarlySessionIsKept, Entry, NoEntry, Serving, Holding, Using,
        storeVars, entryVars, workerVars
<1>1. ASSUME NEW w \in Workers, NEW h \in Hosts, BeginReconcile(w, h)
      PROVE  StoreInv' /\ MonitorInv' /\ DrainInv'
  <2>1. StoreInv'
    BY <1>1 DEF BeginReconcile, Move
  <2>2. MonitorInv'
    BY <1>1 DEF BeginReconcile, Move
  <2>3. DrainInv'
    BY <1>1 DEF BeginReconcile, Move
  <2> QED
    BY <2>1, <2>2, <2>3
<1>2. ASSUME NEW w \in Workers, NEW h \in Hosts, BeginDelete(w, h)
      PROVE  StoreInv' /\ MonitorInv' /\ DrainInv'
  <2>1. StoreInv'
    BY <1>2 DEF BeginDelete, Move
  <2>2. MonitorInv'
    BY <1>2 DEF BeginDelete, Move
  <2>3. DrainInv'
    BY <1>2 DEF BeginDelete, Move
  <2> QED
    BY <2>1, <2>2, <2>3
<1>3. ASSUME NEW w \in Workers, Lookup(w)
      PROVE  StoreInv' /\ MonitorInv' /\ DrainInv'
  <2>1. StoreInv'
    BY <1>3 DEF Lookup, Move, End
  <2>2. MonitorInv'
    BY <1>3 DEF Lookup, Move, End
  <2>3. DrainInv'
    BY <1>3 DEF Lookup, Move, End
  <2> QED
    BY <2>1, <2>2, <2>3
<1>4. ASSUME NEW w \in Workers, Reregister(w)
      PROVE  StoreInv' /\ MonitorInv' /\ DrainInv'
  <2>1. StoreInv'
    BY <1>4 DEF Reregister, Move
  <2>2. MonitorInv'
    BY <1>4 DEF Reregister, Move
  <2>3. DrainInv'
    BY <1>4 DEF Reregister, Move
  <2> QED
    BY <2>1, <2>2, <2>3
<1>5. ASSUME NEW w \in Workers, Return(w)
      PROVE  StoreInv' /\ MonitorInv' /\ DrainInv'
  <2>1. StoreInv'
    BY <1>5 DEF Return, Move, End
  <2>2. MonitorInv'
    BY <1>5 DEF Return, Move, End
  <2>3. DrainInv'
    BY <1>5 DEF Return, Move, End
  <2> QED
    BY <2>1, <2>2, <2>3
<1>6. ASSUME NEW w \in Workers, RegisterLock(w)
      PROVE  StoreInv' /\ MonitorInv' /\ DrainInv'
  <2>1. StoreInv'
    BY <1>6 DEF RegisterLock, Move
  <2>2. MonitorInv'
    BY <1>6 DEF RegisterLock, Move
  <2>3. DrainInv'
    BY <1>6 DEF RegisterLock, Move
  <2> QED
    BY <2>1, <2>2, <2>3
<1>7. ASSUME NEW w \in Workers, RegisterInstall(w)
      PROVE  StoreInv' /\ MonitorInv' /\ DrainInv'
  <2>1. StoreInv'
    <3>1. LockInv'
      BY <1>7 DEF RegisterInstall, OldEntry, Move
    <3>2. WriterInv'
      BY <1>7 DEF RegisterInstall, OldEntry, Move
    <3>3. MapInv'
      BY <1>7 DEF RegisterInstall, OldEntry, Move
    <3>4. MonInv'
      BY <1>7 DEF RegisterInstall, OldEntry, Move
    <3>5. SignalInv'
      BY <1>7 DEF RegisterInstall, OldEntry, Move
    <3> QED
      BY ONLY <3>1, <3>2, <3>3, <3>4, <3>5 DEF StoreInv
  <2>2. MonitorInv'
    BY <1>7 DEF RegisterInstall, OldEntry, Move
  <2>3. DrainInv'
    BY <1>7 DEF RegisterInstall, OldEntry, Move
  <2> QED
    BY <2>1, <2>2, <2>3
<1>8. ASSUME NEW w \in Workers, Deregister(w)
      PROVE  StoreInv' /\ MonitorInv' /\ DrainInv'
  <2>1. StoreInv'
    <3>1. LockInv'
      BY <1>8 DEF Deregister, Move, End
    <3>2. WriterInv'
      BY <1>8 DEF Deregister, Move, End
    <3>3. MapInv'
      BY <1>8 DEF Deregister, Move, End
    <3>4. MonInv'
      BY <1>8 DEF Deregister, Move, End
    <3>5. SignalInv'
      BY <1>8 DEF Deregister, Move, End
    <3> QED
      BY ONLY <3>1, <3>2, <3>3, <3>4, <3>5 DEF StoreInv
  <2>2. MonitorInv'
    BY <1>8 DEF Deregister, Move, End
  <2>3. DrainInv'
    BY <1>8 DEF Deregister, Move, End
  <2> QED
    BY <2>1, <2>2, <2>3
<1>9. ASSUME NEW w \in Workers, Signal(w)
      PROVE  StoreInv' /\ MonitorInv' /\ DrainInv'
  <2>1. StoreInv'
    <3>1. LockInv'
      BY <1>9 DEF Signal, AfterSignal, CanReceive, Move, End
    <3>2. WriterInv'
      BY <1>9 DEF Signal, AfterSignal, CanReceive, Move, End
    <3>3. MapInv'
      BY <1>9 DEF Signal, AfterSignal, CanReceive, Move, End
    <3>4. MonInv'
      BY <1>9 DEF Signal, AfterSignal, CanReceive, Move, End
    <3>5. SignalInv'
      BY <1>9 DEF Signal, AfterSignal, CanReceive, Move, End
    <3> QED
      BY ONLY <3>1, <3>2, <3>3, <3>4, <3>5 DEF StoreInv
  <2>2. MonitorInv'
    BY <1>9 DEF Signal, AfterSignal, CanReceive, Move, End
  <2>3. DrainInv'
    BY <1>9 DEF Signal, AfterSignal, CanReceive, Move, End
  <2> QED
    BY <2>1, <2>2, <2>3
<1>10. ASSUME NEW w \in Workers, SessionCheck(w)
      PROVE  StoreInv' /\ MonitorInv' /\ DrainInv'
  <2>1. StoreInv'
    <3>1. LockInv'
      BY <1>10 DEF SessionCheck, Move, End
    <3>2. WriterInv'
      BY <1>10 DEF SessionCheck, Move, End
    <3>3. MapInv'
      BY <1>10 DEF SessionCheck, Move, End
    <3>4. MonInv'
      BY <1>10 DEF SessionCheck, Move, End
    <3>5. SignalInv'
      BY <1>10 DEF SessionCheck, Move, End
    <3> QED
      BY ONLY <3>1, <3>2, <3>3, <3>4, <3>5 DEF StoreInv
  <2>2. MonitorInv'
    <3>1. CurrentIsServed'
      BY <1>10 DEF SessionCheck, Move, End
    <3>2. ServingIsCurrent'
      BY <1>10 DEF SessionCheck, Move, End
    <3>3. SignalIsReceived'
      BY <1>10 DEF SessionCheck, Move, End
    <3>4. RetiredIsDisconnected'
      BY <1>10 DEF SessionCheck, Move, End
    <3> QED
      BY ONLY <3>1, <3>2, <3>3, <3>4 DEF MonitorInv
  <2>3. DrainInv'
    BY <1>10 DEF SessionCheck, Move, End
  <2> QED
    BY <2>1, <2>2, <2>3
<1>11. ASSUME NEW w \in Workers, SessionOpen(w)
      PROVE  StoreInv' /\ MonitorInv' /\ DrainInv'
  <2>1. StoreInv'
    BY <1>11 DEF SessionOpen
  <2>2. MonitorInv'
    BY <1>11 DEF SessionOpen
  <2>3. DrainInv'
    BY <1>11 DEF SessionOpen
  <2> QED
    BY <2>1, <2>2, <2>3
<1>12. ASSUME NEW w \in Workers, SessionEnd(w)
      PROVE  StoreInv' /\ MonitorInv' /\ DrainInv'
  <2>1. StoreInv'
    BY <1>12 DEF SessionEnd, Move, End
  <2>2. MonitorInv'
    BY <1>12 DEF SessionEnd, Move, End
  <2>3. DrainInv'
    BY <1>12 DEF SessionEnd, Move, End
  <2> QED
    BY <2>1, <2>2, <2>3
<1>13. ASSUME NEW e \in Entry, MonitorStep(e) \/ ConnectionLost(e)
      PROVE  StoreInv' /\ MonitorInv' /\ DrainInv'
  <2>1. StoreInv'
    BY <1>13 DEF MonitorStep, MonitorDisconnected, MonitorReconnect, MonitorCtxDone,
      MonitorDrain, MonitorWake, MonitorClose, ConnectionLost, MonGoto, NoSessions
  <2>2. MonitorInv'
    <3>1. CurrentIsServed'
      BY <1>13 DEF MonitorStep, MonitorDisconnected, MonitorReconnect, MonitorCtxDone,
      MonitorDrain, MonitorWake, MonitorClose, ConnectionLost, MonGoto, NoSessions
    <3>2. ServingIsCurrent'
      BY <1>13 DEF MonitorStep, MonitorDisconnected, MonitorReconnect, MonitorCtxDone,
      MonitorDrain, MonitorWake, MonitorClose, ConnectionLost, MonGoto, NoSessions
    <3>3. SignalIsReceived'
      BY <1>13 DEF MonitorStep, MonitorDisconnected, MonitorReconnect, MonitorCtxDone,
      MonitorDrain, MonitorWake, MonitorClose, ConnectionLost, MonGoto, NoSessions
    <3>4. RetiredIsDisconnected'
      BY <1>13 DEF MonitorStep, MonitorDisconnected, MonitorReconnect, MonitorCtxDone,
      MonitorDrain, MonitorWake, MonitorClose, ConnectionLost, MonGoto, NoSessions
    <3> QED
      BY ONLY <3>1, <3>2, <3>3, <3>4 DEF MonitorInv
  <2>3. DrainInv'
    BY <1>13 DEF MonitorStep, MonitorDisconnected, MonitorReconnect, MonitorCtxDone,
      MonitorDrain, MonitorWake, MonitorClose, ConnectionLost, MonGoto, NoSessions
  <2> QED
    BY <2>1, <2>2, <2>3
<1>14. ASSUME Shutdown
      PROVE  StoreInv' /\ MonitorInv' /\ DrainInv'
  <2>1. StoreInv'
    BY <1>14 DEF Shutdown
  <2>2. MonitorInv'
    BY <1>14 DEF Shutdown
  <2>3. DrainInv'
    BY <1>14 DEF Shutdown
  <2> QED
    BY <2>1, <2>2, <2>3
<1>15. ASSUME UNCHANGED vars
      PROVE  StoreInv' /\ MonitorInv' /\ DrainInv'
  <2>1. StoreInv'
    BY <1>15 DEF vars
  <2>2. MonitorInv'
    BY <1>15 DEF vars
  <2>3. DrainInv'
    BY <1>15 DEF vars
  <2> QED
    BY <2>1, <2>2, <2>3
<1> QED
  BY <1>1, <1>2, <1>3, <1>4, <1>5, <1>6, <1>7, <1>8, <1>9, <1>10, <1>11, <1>12,
     <1>13, <1>14, <1>15 DEF Next, WorkerStep

\* IInv is inductive.
LEMMA NextIInv == IInv /\ [Next]_vars => IInv'
<1> SUFFICES ASSUME IInv, [Next]_vars PROVE IInv'
  OBVIOUS
<1>1. TypeOK'
  BY NextTypes DEF IInv
<1>2. StoreInv' /\ MonitorInv' /\ DrainInv'
  BY NextStoreInv
<1> QED
  BY <1>1, <1>2 DEF IInv, StoreInv, MonitorInv, DrainInv

\* IInv is an invariant of the store.
THEOREM Invariance == Spec => []IInv
BY InitIInv, NextIInv, PTL DEF Spec

\* The variables keep their types and no nil *HostEntry is dereferenced after
\* Lookup, whatever the interleaving of the reconcilers.
THEOREM TypeCorrect == Spec => []TypeOK
BY Invariance, PTL DEF IInv

\* As long as the operator runs, the entry Lookup finds has a live monitor: a
\* host in the map is reconnected when its connection is lost.
THEOREM CurrentServed == Spec => []CurrentIsServed
BY Invariance, PTL DEF IInv

\* Register and Deregister leave no monitor behind: a monitor that still
\* reconnects is that of the entry in the map or of the one being stopped.
THEOREM ServingCurrent == Spec => []ServingIsCurrent
BY Invariance, PTL DEF IInv

\* The send on mon that Register and Deregister do with the store locked has a
\* receiver, as long as the operator runs.
THEOREM SignalReceived == Spec => []SignalIsReceived
BY Invariance, PTL DEF IInv

\* gracefulDisconnect that returns without an error leaves the client
\* disconnected for good.
THEOREM RetiredDisconnected == Spec => []RetiredIsDisconnected
BY Invariance, PTL DEF IInv

\* gracefulDisconnect waits for every session that was opened while the monitor
\* was in its loop.
THEOREM EarlySessionKept == Spec => []EarlySessionIsKept
BY Invariance, PTL DEF IInv
=============================================================================
