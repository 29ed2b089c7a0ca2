------------------------------ MODULE HostStore ------------------------------
(***************************************************************************)
(* The store of libvirt connections (internal/store/host.go).              *)
(*                                                                         *)
(* A HostStore maps the UID of a Host object to a HostEntry: a libvirt     *)
(* client, the set of sessions open on it, and a goroutine, the monitor,   *)
(* that reconnects the client whenever its connection is lost.  Register   *)
(* replaces the entry of a host and Deregister removes it; both tell the   *)
(* old monitor to stop over the unbuffered channel mon while they still    *)
(* hold the mutex of the store.  A monitor that is told to stop waits for  *)
(* the sessions of its entry to end and then disconnects the client.       *)
(*                                                                         *)
(* The callers are the reconcile workers of the controllers.  There is one *)
(* per controller (the default of MaxConcurrentReconciles), and only the   *)
(* one of HostReconciler registers and deregisters.                        *)
(*                                                                         *)
(* The generation of an entry is data that only HostReconciler compares;   *)
(* the choice it leads to (keep the entry or register again) is left open. *)
(***************************************************************************)
EXTENDS Naturals

CONSTANTS
  Hosts,         \* the UIDs of the Host objects
  Workers,       \* the reconcile workers
  HostWorker,    \* the worker of HostReconciler
  MaxRegisters,  \* bound on the number of Register calls of a behaviour
  NoWorker, NoHost

ASSUME HostWorkerIsWorker == HostWorker \in Workers
ASSUME NoWorkerIsNoWorker == NoWorker \notin Workers
ASSUME NoHostIsNoHost     == NoHost \notin Hosts
ASSUME MaxRegistersIsNat  == MaxRegisters \in Nat

Entry   == 1..MaxRegisters      \* the HostEntry objects, in order of creation
NoEntry == 0                    \* a nil *HostEntry

VARIABLES
  mu,        \* who holds HostStore.mu
  entries,   \* HostStore.entries
  last,      \* the entries created so far are 1..last
  uid,       \* the host whose entry it is: the argument of its monitor
  client,    \* HostEntry.client, as IsConnected sees it: "up" or "down"
  sessions,  \* HostEntry.sessions: the workers with an open session
  mon,       \* where the monitor goroutine of an entry is
  pc,        \* where a worker is
  arg,       \* the host a worker reconciles
  ref,       \* the *HostEntry a worker holds
  late,      \* history: the workers whose session was opened when the monitor
             \* of the entry had already left its loop
  deleting,  \* the hosts that HostReconciler has seen to be deleted
  ctxDone    \* the context of the manager is cancelled: the operator stops

storeVars  == <<mu, entries, last, uid>>
entryVars  == <<client, sessions, mon>>
workerVars == <<pc, arg, ref, late>>
vars       == <<storeVars, entryVars, workerVars, deleting, ctxDone>>

(***************************************************************************)
(* A monitor is in its select, is reconnecting, is in the loop of          *)
(* gracefulDisconnect ("drain"), sleeps there, is about to call            *)
(* Disconnect, or has returned: "done", or "failed" when Disconnect        *)
(* reported an error, which the code only logs.                            *)
(***************************************************************************)
Serving   == {"select", "reconnect"}
MonStates == {"none"} \cup Serving \cup
             {"drain", "sleep", "closing", "done", "failed"}

(***************************************************************************)
(* A worker is idle; waits for HostStore.mu in Lookup, Register or         *)
(* Deregister ("relookup" is the lookup HostReconciler does after its own  *)
(* Register); holds it while it connects or while it signals the old       *)
(* monitor; holds an entry it looked up ("probe" after the second lookup); *)
(* is past the IsConnected test of Session; or has a session open.         *)
(***************************************************************************)
Holding  == {"connect", "signal"}
Using    == {"looked", "probe", "checked", "open", "signal"}
PcStates == {"idle", "lookup", "relookup", "register", "deregister"}
            \cup Holding \cup Using

StoreTypes ==
  /\ mu \in Workers \cup {NoWorker}
  /\ entries \in [Hosts -> Entry \cup {NoEntry}]
  /\ last \in 0..MaxRegisters
  /\ uid \in [Entry -> Hosts \cup {NoHost}]
  /\ deleting \in SUBSET Hosts
  /\ ctxDone \in BOOLEAN

EntryTypes ==
  /\ client \in [Entry -> {"up", "down"}]
  /\ sessions \in [Entry -> SUBSET Workers]
  /\ mon \in [Entry -> MonStates]

WorkerTypes ==
  /\ pc \in [Workers -> PcStates]
  /\ arg \in [Workers -> Hosts \cup {NoHost}]
  /\ ref \in [Workers -> Entry \cup {NoEntry}]
  /\ late \in SUBSET Workers

\* A worker that uses an entry has one: Lookup never lets a nil *HostEntry
\* through to Session, not even where HostReconciler drops its second result.
UseTypes ==
  \A w \in Workers :
    /\ pc[w] # "idle" => arg[w] \in Hosts
    /\ pc[w] \in Using => ref[w] \in Entry

\* The variables have their types, and no nil *HostEntry is dereferenced.
TypeOK == StoreTypes /\ EntryTypes /\ WorkerTypes /\ UseTypes

Init ==
  /\ mu = NoWorker
  /\ entries = [h \in Hosts |-> NoEntry]
  /\ last = 0
  /\ uid = [e \in Entry |-> NoHost]
  /\ client = [e \in Entry |-> "down"]
  /\ sessions = [e \in Entry |-> {}]
  /\ mon = [e \in Entry |-> "none"]
  /\ pc = [w \in Workers |-> "idle"]
  /\ arg = [w \in Workers |-> NoHost]
  /\ ref = [w \in Workers |-> NoEntry]
  /\ late = {}
  /\ deleting = {}
  /\ ctxDone = FALSE

\* A worker moves to l, reconciling h and holding e.
Move(w, l, h, e) ==
  /\ pc' = [pc EXCEPT ![w] = l]
  /\ arg' = [arg EXCEPT ![w] = h]
  /\ ref' = [ref EXCEPT ![w] = e]
  /\ late' = late \ {w}

End(w) == Move(w, "idle", NoHost, NoEntry)

-----------------------------------------------------------------------------
(***************************************************************************)
(* Workers.  No reconcile starts once the operator stops, the ones under   *)
(* way run on.  A Host that HostReconciler has seen to be deleted it will  *)
(* never again see otherwise: its copies only get newer.                   *)
(***************************************************************************)
BeginReconcile(w, h) ==
  /\ pc[w] = "idle"
  /\ ~ctxDone
  /\ w # HostWorker \/ h \notin deleting
  /\ Move(w, "lookup", h, NoEntry)
  /\ UNCHANGED <<storeVars, entryVars, deleting, ctxDone>>

BeginDelete(w, h) ==
  /\ pc[w] = "idle" /\ w = HostWorker
  /\ ~ctxDone
  /\ deleting' = deleting \cup {h}
  /\ Move(w, "deregister", h, NoEntry)
  /\ UNCHANGED <<storeVars, entryVars, ctxDone>>

\* Lookup without the test of found: what a miss would lead to if the result
\* were used unchecked.
LookupUnchecked(w) ==
  /\ pc[w] \in {"lookup", "relookup"}
  /\ mu = NoWorker
  /\ Move(w, "looked", arg[w], entries[arg[w]])
  /\ UNCHANGED <<storeVars, entryVars, deleting, ctxDone>>

\* Lookup: the mutex is held for one map access, so it is one step.  A host
\* without an entry is registered by HostReconciler and sends any other
\* reconciler back to the queue.  HostReconciler does not test the result of
\* the lookup that follows its Register.
Lookup(w) ==
  LET e == entries[arg[w]] IN
  /\ mu = NoWorker
  /\ \/ pc[w] = "lookup" /\ e # NoEntry /\ Move(w, "looked", arg[w], e)
     \/ /\ pc[w] = "lookup" /\ e = NoEntry
        /\ IF w = HostWorker THEN Move(w, "register", arg[w], NoEntry) ELSE End(w)
     \/ pc[w] = "relookup" /\ Move(w, "probe", arg[w], e)
  /\ UNCHANGED <<storeVars, entryVars, deleting, ctxDone>>

\* HostReconciler compares the generation of the entry it found and registers
\* again when it differs.
Reregister(w) ==
  /\ pc[w] = "looked" /\ w = HostWorker
  /\ Move(w, "register", arg[w], NoEntry)
  /\ UNCHANGED <<storeVars, entryVars, deleting, ctxDone>>

\* HostReconciler returns early: the last probe is recent, the type of the
\* Auth is not supported, or an update of the Host object fails.
Return(w) ==
  /\ pc[w] \in {"looked", "register", "relookup", "probe"} /\ w = HostWorker
  /\ End(w)
  /\ UNCHANGED <<storeVars, entryVars, deleting, ctxDone>>

-----------------------------------------------------------------------------
(***************************************************************************)
(* Register and Deregister.                                                *)
(***************************************************************************)
RegisterLock(w) ==
  /\ pc[w] = "register"
  /\ mu = NoWorker
  /\ last < MaxRegisters
  /\ mu' = w
  /\ Move(w, "connect", arg[w], NoEntry)
  /\ UNCHANGED <<entries, last, uid, entryVars, deleting, ctxDone>>

\* Register that signals the entry it has just made, or none.
OldEntryIsNew(w)  == last + 1
OldEntryIsNone(w) == NoEntry

\* The entry that Register replaces; its monitor is the one to be signalled.
OldEntry(w) == entries[arg[w]]

\* The new client connects, or fails to (the error is only logged and the
\* monitor tries again), its monitor starts and the entry is published.
RegisterInstall(w) ==
  LET e == last + 1 IN
  /\ pc[w] = "connect"
  /\ last' = e
  /\ uid' = [uid EXCEPT ![e] = arg[w]]
  /\ \E c \in {"up", "down"} : client' = [client EXCEPT ![e] = c]
  /\ mon' = [mon EXCEPT ![e] = "select"]
  /\ entries' = [entries EXCEPT ![arg[w]] = e]
  /\ \/ OldEntry(w) # NoEntry /\ Move(w, "signal", arg[w], OldEntry(w)) /\ mu' = mu
     \/ OldEntry(w) = NoEntry /\ Move(w, "relookup", arg[w], NoEntry) /\ mu' = NoWorker
  /\ UNCHANGED <<sessions, deleting, ctxDone>>

\* Deregister that leaves the entry in the map.
DeregisterKeepsEntry(w) ==
  LET e == entries[arg[w]] IN
  /\ pc[w] = "deregister"
  /\ mu = NoWorker
  /\ \/ e # NoEntry /\ Move(w, "signal", arg[w], e) /\ mu' = w
     \/ e = NoEntry /\ End(w) /\ mu' = mu
  /\ UNCHANGED <<entries, last, uid, entryVars, deleting, ctxDone>>

Deregister(w) ==
  LET e == entries[arg[w]] IN
  /\ pc[w] = "deregister"
  /\ mu = NoWorker
  /\ entries' = [entries EXCEPT ![arg[w]] = NoEntry]
  /\ \/ e # NoEntry /\ Move(w, "signal", arg[w], e) /\ mu' = w
     \/ e = NoEntry /\ End(w) /\ mu' = mu
  /\ UNCHANGED <<last, uid, entryVars, deleting, ctxDone>>

\* A monitor takes the message of mon only in its select.
CanReceive(e) == mon[e] = "select"

\* After the message Register goes on to look its entry up, and Deregister
\* ends the reconcile.
AfterSignal(w) ==
  IF entries[arg[w]] # NoEntry THEN Move(w, "relookup", arg[w], NoEntry) ELSE End(w)

\* A sender that returns without unlocking the store.
SignalKeepsLock(w) ==
  /\ pc[w] = "signal"
  /\ CanReceive(ref[w])
  /\ mon' = [mon EXCEPT ![ref[w]] = "drain"]
  /\ AfterSignal(w)
  /\ UNCHANGED <<storeVars, client, sessions, deleting, ctxDone>>

\* mon <- struct{}{}: the channel is unbuffered, so sender and receiver move
\* together.  The sender then unlocks the store.
Signal(w) ==
  /\ pc[w] = "signal"
  /\ CanReceive(ref[w])
  /\ mon' = [mon EXCEPT ![ref[w]] = "drain"]
  /\ mu' = NoWorker
  /\ AfterSignal(w)
  /\ UNCHANGED <<entries, last, uid, client, sessions, deleting, ctxDone>>

-----------------------------------------------------------------------------
(***************************************************************************)
(* Session: IsConnected is tested before HostEntry.mu is taken, so the     *)
(* test and the insertion are two steps.  HostEntry.mu is only ever held   *)
(* for one map access and needs no variable.                               *)
(***************************************************************************)
SessionCheck(w) ==
  /\ pc[w] \in {"looked", "probe"}
  /\ IF client[ref[w]] = "up" THEN Move(w, "checked", arg[w], ref[w]) ELSE End(w)
  /\ UNCHANGED <<storeVars, entryVars, deleting, ctxDone>>

SessionOpen(w) ==
  /\ pc[w] = "checked"
  /\ sessions' = [sessions EXCEPT ![ref[w]] = @ \cup {w}]
  /\ late' = IF mon[ref[w]] \in Serving THEN late \ {w} ELSE late \cup {w}
  /\ pc' = [pc EXCEPT ![w] = "open"]
  /\ UNCHANGED <<storeVars, client, mon, arg, ref, deleting, ctxDone>>

\* An end() that forgets to delete the session.
SessionEndForgets(w) ==
  /\ pc[w] = "open"
  /\ End(w)
  /\ UNCHANGED <<storeVars, entryVars, deleting, ctxDone>>

\* The deferred end(), when the reconcile returns.
SessionEnd(w) ==
  /\ pc[w] = "open"
  /\ sessions' = [sessions EXCEPT ![ref[w]] = @ \ {w}]
  /\ End(w)
  /\ UNCHANGED <<storeVars, client, mon, deleting, ctxDone>>

-----------------------------------------------------------------------------
(***************************************************************************)
(* The monitor of an entry.                                                *)
(***************************************************************************)
MonGoto(e, l) == mon' = [mon EXCEPT ![e] = l]

\* case <-e.client.Disconnected()
MonitorDisconnected(e) ==
  /\ mon[e] = "select"
  /\ client[e] = "down"
  /\ MonGoto(e, "reconnect")
  /\ UNCHANGED <<storeVars, client, sessions, workerVars, deleting, ctxDone>>

\* Connect, successful or not
MonitorReconnect(e) ==
  /\ mon[e] = "reconnect"
  /\ \E c \in {"up", "down"} : client' = [client EXCEPT ![e] = c]
  /\ MonGoto(e, "select")
  /\ UNCHANGED <<storeVars, sessions, workerVars, deleting, ctxDone>>

\* case <-ctx.Done()
MonitorCtxDone(e) ==
  /\ mon[e] = "select"
  /\ ctxDone
  /\ MonGoto(e, "drain")
  /\ UNCHANGED <<storeVars, client, sessions, workerVars, deleting, ctxDone>>

\* The test that lets gracefulDisconnect go on: len(e.sessions) is read
\* without HostEntry.mu, so it is the number of sessions at some instant.
NoSessionsIgnored(e) == TRUE
NoSessions(e) == sessions[e] = {}

\* A monitor that returns without Disconnect once the sessions have ended.
MonitorDrainForgets(e) ==
  /\ mon[e] = "drain"
  /\ \/ (client[e] = "down" \/ NoSessions(e)) /\ MonGoto(e, "done")
     \/ client[e] = "up" /\ ~NoSessions(e) /\ MonGoto(e, "sleep")
  /\ UNCHANGED <<storeVars, client, sessions, workerVars, deleting, ctxDone>>

\* One round of the loop of gracefulDisconnect
MonitorDrain(e) ==
  /\ mon[e] = "drain"
  /\ \/ client[e] = "down" /\ MonGoto(e, "done")
     \/ client[e] = "up" /\ ~NoSessions(e) /\ MonGoto(e, "sleep")
     \/ client[e] = "up" /\ NoSessions(e) /\ MonGoto(e, "closing")
  /\ UNCHANGED <<storeVars, client, sessions, workerVars, deleting, ctxDone>>

\* WaitForSessionRetry has passed
MonitorWake(e) ==
  /\ mon[e] = "sleep"
  /\ MonGoto(e, "drain")
  /\ UNCHANGED <<storeVars, client, sessions, workerVars, deleting, ctxDone>>

\* Disconnect; when it fails the error is logged and the monitor returns
MonitorClose(e) ==
  /\ mon[e] = "closing"
  /\ \/ client' = [client EXCEPT ![e] = "down"] /\ MonGoto(e, "done")
     \/ client[e] = "up" /\ MonGoto(e, "failed") /\ client' = client
  /\ UNCHANGED <<storeVars, sessions, workerVars, deleting, ctxDone>>

-----------------------------------------------------------------------------
(***************************************************************************)
(* The environment: a connection is lost; the operator is told to stop.    *)
(***************************************************************************)
ConnectionLost(e) ==
  /\ client[e] = "up"
  /\ client' = [client EXCEPT ![e] = "down"]
  /\ UNCHANGED <<storeVars, sessions, mon, workerVars, deleting, ctxDone>>

Shutdown ==
  /\ ~ctxDone
  /\ ctxDone' = TRUE
  /\ UNCHANGED <<storeVars, entryVars, workerVars, deleting>>

-----------------------------------------------------------------------------
WorkerStep(w) ==
  \/ Lookup(w) \/ Reregister(w) \/ Return(w)
  \/ RegisterLock(w) \/ RegisterInstall(w) \/ Deregister(w) \/ Signal(w)
  \/ SessionCheck(w) \/ SessionOpen(w) \/ SessionEnd(w)

MonitorStep(e) ==
  \/ MonitorDisconnected(e) \/ MonitorReconnect(e) \/ MonitorCtxDone(e)
  \/ MonitorDrain(e) \/ MonitorWake(e) \/ MonitorClose(e)

Next ==
  \/ \E w \in Workers : WorkerStep(w) \/ \E h \in Hosts : BeginReconcile(w, h) \/ BeginDelete(w, h)
  \/ \E e \in Entry : MonitorStep(e) \/ ConnectionLost(e)
  \/ Shutdown

Spec == Init /\ [][Next]_vars

(***************************************************************************)
(* Goroutines are scheduled and every call to libvirt returns: weak        *)
(* fairness of the workers and the monitors.  A select that is offered the *)
(* message and a lost connection again and again picks among the ready     *)
(* cases at random, so the message is taken at last, and a sync.Mutex that *)
(* is released again and again is not withheld from a waiter (its          *)
(* starvation mode): strong fairness of the steps that wait for them.      *)
(***************************************************************************)
Fairness ==
  /\ \A w \in Workers :
       /\ WF_vars(WorkerStep(w))
       /\ SF_vars(Signal(w))
       /\ SF_vars(Lookup(w) \/ RegisterLock(w) \/ Deregister(w))
  /\ \A e \in Entry : WF_vars(MonitorStep(e))

FairSpec == Spec /\ Fairness

-----------------------------------------------------------------------------
(***************************************************************************)
(* Properties.                                                             *)
(***************************************************************************)

\* As long as the operator runs, the monitor of an entry that is in the map
\* is in its loop: a host that can be looked up is a host that is reconnected.
CurrentIsServed ==
  \A h \in Hosts : entries[h] # NoEntry => mon[entries[h]] \in Serving \/ ctxDone

\* A monitor that still reconnects belongs to the entry in the map, or to the
\* one entry that Register or Deregister is about to stop: no replaced client
\* is kept alive behind the back of the store.
ServingIsCurrent ==
  \A e \in Entry : mon[e] \in Serving =>
    \/ entries[uid[e]] = e
    \/ \E w \in Workers : pc[w] = "signal" /\ ref[w] = e

\* Register and Deregister block on mon while they hold the store: the
\* monitor they wait for has not returned, unless the operator is stopping
\* (then it may have, and the store is locked until the process exits).
SignalIsReceived ==
  \A w \in Workers : pc[w] = "signal" => mon[ref[w]] \in Serving \/ ctxDone

\* A monitor that has returned without an error from Disconnect leaves its
\* client disconnected, and nothing connects it again.
RetiredIsDisconnected ==
  \A e \in Entry : mon[e] = "done" => client[e] = "down"

\* gracefulDisconnect does not cut a session that was opened while the
\* monitor was still in its loop.
EarlySessionIsKept ==
  \A e \in Entry : mon[e] = "closing" =>
    sessions[e] \subseteq late

\* Unless the operator stops, every reconcile gets through the store: no
\* worker waits forever for the mutex, for a monitor or for a session.
ReconcileEnds ==
  \A w \in Workers : pc[w] # "idle" ~> pc[w] = "idle" \/ ctxDone

\* A client whose monitor has been told to stop is disconnected at last.
RetiredIsClosed ==
  \A e \in Entry : mon[e] = "drain" ~> mon[e] \in {"done", "failed"}

-----------------------------------------------------------------------------
(***************************************************************************)
(* The inductive invariant of the proofs: what holds between the variables *)
(* in every reachable state, and why each step keeps it.                   *)
(***************************************************************************)

\* Whoever is inside Register or Deregister holds the mutex.
LockInv == \A w \in Workers : pc[w] \in Holding <=> mu = w

\* Only HostReconciler writes the store, and its entry is still there when it
\* looks it up again.
WriterInv ==
  \A w \in Workers :
    /\ pc[w] \in Holding \cup {"register", "relookup", "deregister", "probe"}
         => w = HostWorker
    /\ pc[w] = "connect" => last < MaxRegisters
    /\ pc[w] = "relookup" => entries[arg[w]] # NoEntry

\* An entry in the map has been created, for that host.
MapInv ==
  \A h \in Hosts : entries[h] # NoEntry => entries[h] <= last /\ uid[entries[h]] = h

\* Only created entries have a monitor.
MonInv == \A e \in Entry : mon[e] # "none" => e <= last /\ uid[e] \in Hosts

\* The entry whose monitor is being stopped has left the map.
SignalInv ==
  \A w \in Workers : pc[w] = "signal" =>
    /\ ref[w] <= last
    /\ \A h \in Hosts : entries[h] # ref[w]

\* A session belongs to the worker that opened it and has not ended it.
SessionInv ==
  \A e \in Entry : \A w \in sessions[e] : pc[w] = "open" /\ ref[w] = e

IInv ==
  /\ TypeOK /\ LockInv /\ WriterInv /\ MapInv /\ MonInv /\ SignalInv /\ SessionInv
  /\ CurrentIsServed /\ ServingIsCurrent /\ SignalIsReceived
  /\ RetiredIsDisconnected /\ EarlySessionIsKept
=============================================================================
