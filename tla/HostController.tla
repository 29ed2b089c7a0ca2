---------------------------- MODULE HostController ----------------------------
(***************************************************************************)
(* AuthReconciler and HostReconciler (internal/controller/auth.go and      *)
(* host.go), which keep the credentials of the operator and its libvirt    *)
(* connections in line with the Auth and the Host objects.                 *)
(*                                                                         *)
(* Their workers share the two stores: AuthReconciler registers the        *)
(* credentials of an Auth at its generation; HostReconciler looks them up  *)
(* and registers a connection at the sum of the generations of the Host    *)
(* and of the credentials, which is how it notices later that one of them  *)
(* has changed.  The store of credentials is the one of Credentials, the   *)
(* store of connections (HostStore) is reduced to its map.                 *)
(*                                                                         *)
(* Secrets are not objects of the model: a Secret has no generation, which *)
(* is 0 in the sum of AuthReconciler and never passes the predicate of its *)
(* watch.  Neither the label of that watch nor the condition Probed and    *)
(* the capacity of a Host is kept: a write of them is a step that may fail *)
(* and changes nothing here.  Whether a Secret is there and of the right   *)
(* type, whether a host answers, and whether other objects use it is left  *)
(* open at each step.                                                      *)
(***************************************************************************)
EXTENDS Reconcilers, Naturals

CONSTANTS
  Auths, Hosts,     \* the objects
  AuthWorker, HostWorker,
  MaxGeneration,    \* bound on the changes of the Spec of an object
  Changing,         \* bound: the objects whose Spec users change
  Choices,          \* the Auths that a Host may refer to
  Deletable         \* bound: the objects that users delete

ASSUME ObjectsAreOfTwoKinds ==
  /\ Objects = Auths \cup Hosts /\ Auths \cap Hosts = {}
  /\ Workers = {AuthWorker, HostWorker} /\ AuthWorker # HostWorker
  /\ Served[AuthWorker] = Auths /\ Served[HostWorker] = Hosts
  /\ Choices \subseteq Auths
ASSUME MaxGenerationIsPositive == MaxGeneration \in Nat \ {0}

Generation == 1..MaxGeneration

VARIABLES
  creds,     \* AuthStore: the generation registered for an Auth, or 0
  conns,     \* HostStore: the connection registered for a Host
  spec,      \* of the HostWorker: the generation of its copy of the Auth
  cred,      \* ... and the one it has looked up in the AuthStore
  unlabelled \* history: the Hosts whose AuthLabel could not be written

localVars == <<spec, cred>>
storeVars == <<creds, conns>>
vars      == <<coreVars, storeVars, localVars, unlabelled>>

(***************************************************************************)
(* Of an object: its generation and its condition DeletionPrevented, and   *)
(* of a Host the Auth that its Spec refers to and the one that its label   *)
(* names.                                                                  *)
(***************************************************************************)
Object == [life : {"live", "deleting"}, finalizer : BOOLEAN, generation : Generation,
           ref : Auths \cup {NoObject}, label : Auths \cup {NoObject},
           prevented : BOOLEAN]

Created(r) == [life |-> "live", finalizer |-> FALSE, generation |-> 1, ref |-> r,
               label |-> NoObject, prevented |-> FALSE]

\* A connection: the generation it is registered at and what its dialer was
\* made of: the generation of the Host, its Auth, and the one of that Auth.
Connection == [at : 2..(2 * MaxGeneration), host : Generation, auth : Auths, spec : Generation]
NoConnection == [at |-> 0]

Places == {"meta", "check", "deregister", "unfinalize", "label",
           "secret", "register", "auth", "creds", "entry", "dial", "probe"}

\* The variables have their types.
TypeOK ==
  /\ CoreTypeOK(Object, Places)
  /\ creds \in [Auths -> 0..MaxGeneration]
  /\ conns \in [Hosts -> Connection \cup {NoConnection}]
  /\ spec \in 0..MaxGeneration /\ cred \in 0..MaxGeneration
  /\ unlabelled \in SUBSET Hosts
  /\ \A x \in Objects : Present(obj[x]) => (obj[x].ref = NoObject <=> x \in Auths)

Init ==
  /\ CoreInit
  /\ creds = [a \in Auths |-> 0]
  /\ conns = [h \in Hosts |-> NoConnection]
  /\ spec = 0 /\ cred = 0
  /\ unlabelled = {}

-----------------------------------------------------------------------------
(***************************************************************************)
(* Users.  A Host may come to refer to another Auth.                       *)
(***************************************************************************)
References(x) == IF x \in Auths THEN {NoObject} ELSE Choices

UserCreates(x) ==
  /\ obj[x] = Absent
  /\ \E r \in References(x) : OthersWrite(x, Created(r))
  /\ UNCHANGED <<storeVars, localVars, unlabelled>>

UserChanges(x) ==
  /\ x \in Changing /\ Present(obj[x])
  /\ obj[x].generation < MaxGeneration
  /\ \E r \in References(x) :
       OthersWrite(x, [obj[x] EXCEPT !.generation = @ + 1, !.ref = r])
  /\ UNCHANGED <<storeVars, localVars, unlabelled>>

UserDeletes(x) ==
  /\ x \in Deletable
  /\ Delete(x)
  /\ UNCHANGED <<storeVars, localVars, unlabelled>>

\* A controller is told of a new object, a deletion or another generation
\* (GenerationChangedPredicate), and HostReconciler also of another generation
\* of an Auth: the Hosts that bear its label in the cache (watchPredicate).
Changed(x) == <<obj[x].life, IF Present(obj[x]) THEN obj[x].generation ELSE 0>>
                # <<cache[x].life, IF Present(cache[x]) THEN cache[x].generation ELSE 0>>

\* A list that leaves out what is being deleted
LiveWithLabel(a) == {h \in Hosts : cache[h].life = "live" /\ cache[h].label = a}

\* The list of AuthReconciler and of the watch: the Hosts that bear the label
WithLabel(a) == {h \in Hosts : Present(cache[h]) /\ cache[h].label = a}

Enqueued(x) ==
  IF ~Changed(x) THEN {}
  ELSE {x} \cup IF x \in Auths /\ Present(cache[x]) /\ Present(obj[x]) THEN WithLabel(x) ELSE {}

CacheSync(x) ==
  /\ Learn(x, Enqueued(x))
  /\ UNCHANGED <<storeVars, localVars, unlabelled>>

-----------------------------------------------------------------------------
(***************************************************************************)
(* What the two reconciles have in common: the finalizer, the check of a   *)
(* deletion and the label.  Each step has an outcome where its call        *)
(* succeeds and one where it fails, which ends the reconcile.              *)
(***************************************************************************)
Same == UNCHANGED <<storeVars, localVars, unlabelled>>

Copy(w)  == loc[w]

Begin(w, x) == Take(w, x, "meta") /\ Same

WithFinalizer(o) == [o EXCEPT !.finalizer = TRUE]

AddFinalizerOk(w) ==
  /\ At(w, "meta") /\ ~Deleting(Copy(w)) /\ ~Copy(w).finalizer
  /\ WriteOk(w, WithFinalizer(Copy(w)), "meta")
  /\ Same

AddFinalizerFails(w) ==
  /\ At(w, "meta") /\ ~Deleting(Copy(w)) /\ ~Copy(w).finalizer
  /\ WriteFails(w, WithFinalizer(Copy(w)))
  /\ Same

\* A reconcile that does not look at the deletion timestamp
DispatchAlive(w) ==
  /\ At(w, "meta")
  /\ Copy(w).finalizer
  /\ Jump(w, IF w = AuthWorker THEN "secret" ELSE "auth")
  /\ Local /\ Same

Dispatch(w) ==
  /\ At(w, "meta")
  /\ IF Copy(w).finalizer
       THEN Jump(w, IF Deleting(Copy(w)) THEN "check"
                    ELSE IF w = AuthWorker THEN "secret" ELSE "auth")
       ELSE Deleting(Copy(w)) /\ Done(w)
  /\ Local /\ Same

\* The Hosts that bear the label of the Auth in the cache; the pools, networks,
\* devices and domains that bear the one of the Host are left open.
FreeOk(w) ==
  /\ At(w, "check")
  /\ w = AuthWorker => WithLabel(cur[w]) = {}
  /\ Jump(w, "deregister")
  /\ Local /\ Same

Prevented(o) == [o EXCEPT !.prevented = TRUE]

PreventOk(w) ==
  /\ At(w, "check")
  /\ w = AuthWorker => WithLabel(cur[w]) # {}
  /\ Retry(w)
  /\ IF Copy(w).prevented THEN Local ELSE WriteEnds(w, Prevented(Copy(w)))
  /\ Same

PreventFails(w) ==
  /\ At(w, "check")
  /\ w = AuthWorker => WithLabel(cur[w]) # {}
  /\ ~Copy(w).prevented
  /\ WriteFails(w, Prevented(Copy(w)))
  /\ Same

\* Deregister of either store
Deregister(w) ==
  /\ At(w, "deregister")
  /\ IF w = AuthWorker
       THEN creds' = [creds EXCEPT ![cur[w]] = 0] /\ UNCHANGED conns
       ELSE conns' = [conns EXCEPT ![cur[w]] = NoConnection] /\ UNCHANGED creds
  /\ Jump(w, "unfinalize")
  /\ Local /\ UNCHANGED <<localVars, unlabelled>>

Unfinalized(o) == [o EXCEPT !.finalizer = FALSE]

UnfinalizeOk(w) ==
  /\ At(w, "unfinalize")
  /\ WriteEnds(w, Unfinalized(Copy(w))) /\ Done(w)
  /\ Same

UnfinalizeFails(w) == At(w, "unfinalize") /\ WriteFails(w, Unfinalized(Copy(w))) /\ Same

\* SetLabel reports whether there is anything to Update.
Labelled(o)   == [o EXCEPT !.label = o.ref]
NeedsLabel(o) == o.label # o.ref
-----------------------------------------------------------------------------
(***************************************************************************)
(* AuthReconciler                                                          *)
(***************************************************************************)

\* The Secret is there; the entry of the store is of this generation, or not.
SecretOk ==
  /\ At(AuthWorker, "secret")
  /\ IF creds[cur[AuthWorker]] = Copy(AuthWorker).generation
       THEN Done(AuthWorker) ELSE Jump(AuthWorker, "register")
  /\ Local /\ Same

SecretFails == At(AuthWorker, "secret") /\ Retry(AuthWorker) /\ Local /\ Same

\* SecretLabel, which is not part of an object here, is written after Register
\* if it is not there; when that fails, the retry finds the new entry.
RegisterOk ==
  /\ At(AuthWorker, "register")
  /\ creds' = [creds EXCEPT ![cur[AuthWorker]] = Copy(AuthWorker).generation]
  /\ \/ Done(AuthWorker) /\ (Local \/ WriteEnds(AuthWorker, Copy(AuthWorker)))
     \/ WriteFails(AuthWorker, Copy(AuthWorker))
  /\ UNCHANGED <<conns, localVars, unlabelled>>

\* The type of the Secret is another one, or Register fails.
RegisterFails == At(AuthWorker, "register") /\ Retry(AuthWorker) /\ Local /\ Same

-----------------------------------------------------------------------------
(***************************************************************************)
(* HostReconciler                                                          *)
(***************************************************************************)
host == Copy(HostWorker)

\* The copy of the Auth and its generations are not used any more.
Forget == spec' = 0 /\ cred' = 0

\* It gets the Auth from the cache,
GetAuthOk ==
  /\ At(HostWorker, "auth")
  /\ Present(cache[host.ref])
  /\ spec' = cache[host.ref].generation
  /\ Jump(HostWorker, "creds")
  /\ Local /\ UNCHANGED <<storeVars, cred, unlabelled>>

GetAuthFails == At(HostWorker, "auth") /\ Retry(HostWorker) /\ Local /\ Same

\* A reconcile that is over when there are no credentials yet
LookupGivesUp ==
  /\ At(HostWorker, "creds")
  /\ IF creds[host.ref] = 0
       THEN Done(HostWorker) /\ Forget
       ELSE Jump(HostWorker, "entry") /\ cred' = creds[host.ref] /\ UNCHANGED spec
  /\ Local /\ UNCHANGED <<storeVars, unlabelled>>

\* then, with the AuthStore, its credentials,
LookupOk ==
  /\ At(HostWorker, "creds")
  /\ IF creds[host.ref] = 0
       THEN Retry(HostWorker) /\ Forget
       ELSE Jump(HostWorker, "entry") /\ cred' = creds[host.ref] /\ UNCHANGED spec
  /\ Local /\ UNCHANGED <<storeVars, unlabelled>>

\* A sum without the Host
CombinedIgnoresHost(g, c) == 1 + c

\* then its own entry, which is kept when it is of the same generation.
Combined(g, c) == g + c
combinedGeneration == Combined(host.generation, cred)

EntryOk ==
  /\ At(HostWorker, "entry")
  /\ IF conns[cur[HostWorker]].at # combinedGeneration
       THEN Jump(HostWorker, "dial") /\ UNCHANGED localVars
       ELSE Jump(HostWorker, "probe") /\ Forget
  /\ Local /\ UNCHANGED <<storeVars, unlabelled>>

DialOk ==
  /\ At(HostWorker, "dial")
  /\ conns' = [conns EXCEPT ![cur[HostWorker]] =
                 [at |-> combinedGeneration, host |-> host.generation,
                  auth |-> host.ref, spec |-> spec]]
  /\ Jump(HostWorker, "label")
  /\ Forget
  /\ Local /\ UNCHANGED <<creds, unlabelled>>

AuthLabelOk ==
  /\ At(HostWorker, "label")
  /\ IF NeedsLabel(host)
       THEN /\ WriteOk(HostWorker, Labelled(host), "probe")
            /\ unlabelled' = unlabelled \ {cur[HostWorker]}
       ELSE Jump(HostWorker, "probe") /\ Local /\ UNCHANGED unlabelled
  /\ UNCHANGED <<storeVars, localVars>>

AuthLabelFails ==
  /\ At(HostWorker, "label") /\ NeedsLabel(host)
  /\ WriteFails(HostWorker, Labelled(host))
  /\ unlabelled' = unlabelled \cup {cur[HostWorker]}
  /\ UNCHANGED <<storeVars, localVars>>

\* It waits when the last probe was a short time ago.  Otherwise it writes that
\* a probe is required, opens a session and writes what it tells of the host,
\* or that there is none: the status is not part of an object here, but writing
\* it makes every copy of the Host an old one.  In any case the Host is queued
\* for the next probe.
Probe ==
  /\ At(HostWorker, "probe")
  /\ Retry(HostWorker)
  /\ Local \/ WriteEnds(HostWorker, host)
  /\ Same

\* NewHostProbe: the capabilities or the memory statistics of the host are not
\* to be had, or the write of the condition that says so is refused.
ProbeFails == At(HostWorker, "probe") /\ WriteFails(HostWorker, host) /\ Same

-----------------------------------------------------------------------------
Crash ==
  /\ Restart
  /\ creds' = [a \in Auths |-> 0]
  /\ conns' = [h \in Hosts |-> NoConnection]
  /\ spec' = 0 /\ cred' = 0 /\ unlabelled' = {}

CommonOk(w) ==
  \/ AddFinalizerOk(w) \/ Dispatch(w) \/ FreeOk(w) \/ PreventOk(w)
  \/ Deregister(w) \/ UnfinalizeOk(w)
CommonFails(w) == AddFinalizerFails(w) \/ PreventFails(w) \/ UnfinalizeFails(w)

AuthOk    == CommonOk(AuthWorker) \/ SecretOk \/ RegisterOk
AuthFails == CommonFails(AuthWorker) \/ SecretFails \/ RegisterFails

HostOk ==
  \/ CommonOk(HostWorker) \/ GetAuthOk \/ LookupOk \/ EntryOk \/ DialOk
  \/ AuthLabelOk \/ Probe
HostFails ==
  \/ CommonFails(HostWorker) \/ GetAuthFails \/ AuthLabelFails \/ ProbeFails

Environment ==
  \/ \E x \in Objects : UserCreates(x) \/ UserChanges(x) \/ UserDeletes(x) \/ CacheSync(x)
  \/ Crash

Next ==
  \/ AuthOk \/ AuthFails \/ HostOk \/ HostFails
  \/ \E w \in Workers, x \in Objects : Begin(w, x)
  \/ Environment

Spec == Init /\ [][Next]_vars

(***************************************************************************)
(* The workers and the watches of the cache run, and the queues serve      *)
(* every object.  From some time on the operator does not crash, users     *)
(* leave the objects alone, and a step fails only when the copy that its   *)
(* reconcile works on is an old one or the Auth is not there: the API      *)
(* server, the file system and the Secrets are back.  (A worker that is     *)
(* ready waits for the cache only because of the bound Lagging: that this  *)
(* happens again and again does not keep it from running.)                 *)
(***************************************************************************)
Begins(x) == \E w \in Workers : Begin(w, x)

Faultless ==
  \/ AuthOk \/ HostOk
  \/ AuthFails /\ AuthWorker \notin fresh
  \/ HostFails /\ HostWorker \notin fresh
  \/ GetAuthFails /\ ~ENABLED GetAuthOk
  \/ \E x \in Objects : Begins(x) \/ CacheSync(x) \/ UserCreates(x) \/ UserDeletes(x)

Fairness ==
  /\ SF_vars(AuthOk \/ AuthFails) /\ SF_vars(HostOk \/ HostFails)
  /\ \A x \in Objects : WF_vars(CacheSync(x)) /\ SF_vars(Begins(x))
  /\ <>[][Faultless]_vars

FairSpec == Spec /\ Fairness

-----------------------------------------------------------------------------
(***************************************************************************)
(* Properties                                                              *)
(***************************************************************************)
Connected(h) == conns[h] # NoConnection

\* No connection outlives its Host and no credentials outlive their Auth: the
\* stores are keyed by UIDs that nobody would ask them for again.
StoresAreOwned ==
  /\ \A h \in Hosts : Connected(h) => Present(obj[h]) /\ obj[h].finalizer
  /\ \A a \in Auths : creds[a] # 0 => Present(obj[a]) /\ obj[a].finalizer

\* The label of a Host names the Auth its connection was made with, as soon as
\* the reconcile that made it has gone on, unless the label was not written:
\* the retry finds the connection and leaves the label alone.
BetweenDialAndLabel(h) == pc[HostWorker] = "label" /\ cur[HostWorker] = h

ConnectionIsLabelled ==
  \A h \in Hosts : Connected(h) =>
    \/ obj[h].label = conns[h].auth
    \/ BetweenDialAndLabel(h)
    \/ h \in unlabelled

\* The check of a deletion does not pass an Auth that a Host is connected with
\* but for these two cases, or while the cache lags behind the Host.
FreeAuthIsUnused ==
  [][\A a \in Auths :
       At(AuthWorker, "check") /\ cur[AuthWorker] = a /\ pc'[AuthWorker] = "deregister" =>
         \A h \in Hosts : Connected(h) /\ conns[h].auth = a =>
           h \in behind \cup unlabelled \/ BetweenDialAndLabel(h)]_vars

\* The generation of the credentials that a connection was registered with
CredOf(c) == c.at - c.host

\* A Host whose number is the current one keeps its connection.  It was made for
\* this Spec of the Host, hence with the Auth that it refers to, whatever else has
\* changed the sum, unless the Host has gone over from another Auth of a larger
\* generation, which makes up for the next generation of the Host.
CurrentConnectionIsNew ==
  \A h \in Hosts : Connected(h) /\ Present(obj[h]) =>
    LET r == obj[h].ref IN
    creds[r] # 0 /\ conns[h].at = Combined(obj[h].generation, creds[r]) =>
      \/ conns[h].host = obj[h].generation /\ conns[h].auth = r
      \/ conns[h].auth # r /\ creds[r] < CredOf(conns[h])

\* Neither store goes back: credentials are only replaced by those of a later
\* Spec of their Auth, which is what the dialers of AuthStore rely on, and a
\* connection by one that no Spec is older for than it was, be the copies of the
\* two reconciles as old as they may.
NotOlder(c, d) == c.host <= d.host /\ (c.auth = d.auth => c.spec <= d.spec)

StoresGoForward ==
  [][/\ \A a \in Auths : creds'[a] # 0 => creds[a] <= creds'[a]
     /\ \A h \in Hosts : Connected(h) /\ Connected(h)' => NotOlder(conns[h], conns'[h])]_vars

\* The Auth was read before the registration whose generation was looked up: the
\* dialer is made of an older Spec than its number tells.
Overtaken(c) == c.spec < CredOf(c)

\* In the end the credentials are those of the newest Spec and the connection has
\* the number of the newest Specs.  It has been made of them, too, but in the two
\* cases where the number is no reason to make it again: the Auth was overtaken,
\* or the Host has gone over from another one of a larger generation.
StoresCatchUp ==
  <>[](\A h \in Hosts :
         LET r == obj[h].ref IN
         obj[h].life = "live" /\ obj[r].life = "live" =>
           /\ creds[r] = obj[r].generation
           /\ conns[h].at = Combined(obj[h].generation, creds[r])
           /\ IF conns[h].auth = r
                THEN /\ conns[h].host = obj[h].generation
                     /\ conns[h].spec = obj[r].generation \/ Overtaken(conns[h])
                ELSE creds[r] < CredOf(conns[h]))

\* The stores hold something for an object
InStore == {a \in Auths : creds[a] # 0} \cup {h \in Hosts : Connected(h)}

Owning ==
  INSTANCE Ownership WITH
    life <- LifeOf, held <- Held, has <- InStore, retired <- Retired, Volatile <- TRUE

\* The controllers keep what Ownership promises: credentials and connections are
\* registered for objects that hold the finalizer, are removed before it is, and
\* no later reconcile of an old copy, nor one after a crash, registers them again.
ImplementsOwnership == Owning!Spec
=============================================================================
