------------------------------ MODULE AuthStore ------------------------------
(***************************************************************************)
(* The store of credentials (internal/store/auth.go): files that the       *)
(* libvirt dialers read through a path that never changes.                 *)
(*                                                                         *)
(* Register writes the files of a new generation to a new directory and    *)
(* has the path, a symbolic link, point at it: with Symlink the first      *)
(* time, then by renaming a second link over it.  Every call to the file   *)
(* system may fail.  Register holds the mutex of the store all along, and  *)
(* so does Deregister; the dialers, which run in the monitors of the       *)
(* HostStore, do not: they open the files at any time.                     *)
(*                                                                         *)
(* AuthReconciler, one worker, is the only caller of Register and          *)
(* Deregister.  It registers an Auth whose entry is not of the newest      *)
(* generation, again and again until it succeeds, and deregisters an Auth  *)
(* that is being deleted.  A restart is not modelled: it begins in Init,   *)
(* the directory for temporary files being the container's own.            *)
(***************************************************************************)
EXTENDS Naturals

CONSTANTS
  Auths,          \* the UIDs of the Auth objects
  Dialers,        \* dialers of hosts
  Dirs,           \* names that MkdirTemp may choose
  MaxGeneration,  \* bound on the generations of an Auth
  MaxFailures,    \* bound on the failing calls of a behaviour
  NoAuth, NoDir

ASSUME NoAuthIsNoAuth == NoAuth \notin Auths
ASSUME NoDirIsNoDir   == NoDir \notin Dirs
ASSUME BoundsAreNat   == MaxGeneration \in Nat \ {0} /\ MaxFailures \in Nat

Generations  == 1..MaxGeneration
NoGeneration == 0               \* no entry

VARIABLES
  wanted,    \* the generation of the Auth objects
  deleting,  \* the Auths that AuthReconciler has seen to be deleted
  entries,   \* AuthStore.entries: the generation of an entry
  link,      \* the directory that the path of an Auth points at
  tmpLink,   \* the directory that path.tmp points at
  dirs,      \* the directories that exist
  whole,     \* the directories whose files have been written and closed
  unclosed,  \* those where Close has failed for a file, written or not
  made,      \* the generation a directory was made for
  pc,        \* where AuthReconciler is in Register or Deregister
  cur,       \* the Auth it is about
  gen,       \* the generation it registers
  dir,       \* the directory it has made
  old,       \* the directory the path pointed at when it was resolved
  dial,      \* what a dialer does
  failures   \* the calls that have failed so far

fsVars   == <<link, tmpLink, dirs, whole, unclosed, made>>
callVars == <<pc, cur, gen, dir, old>>
vars     == <<wanted, deleting, entries, fsVars, callVars, dial, failures>>

(***************************************************************************)
(* A dialer opens two files of an Auth in turn.  Seen is the newest        *)
(* generation it has met, in the store or under the path; at is the        *)
(* directory that the path of the next file has been resolved to.          *)
(***************************************************************************)
Dial == [auth : Auths \cup {NoAuth}, seen : 0..MaxGeneration,
         at : Dirs \cup {NoDir}, opened : 0..2]
NoDial == [auth |-> NoAuth, seen |-> 0, at |-> NoDir, opened |-> 0]

PcStates == {"idle", "mkdir", "write", "symlink", "resolve", "tmpLink", "rename",
             "clean", "enter", "lookAt", "unlink", "wipe"}

\* The variables have their types.
TypeOK ==
  /\ wanted \in [Auths -> Generations]
  /\ deleting \in SUBSET Auths
  /\ entries \in [Auths -> 0..MaxGeneration]
  /\ link \in [Auths -> Dirs \cup {NoDir}]
  /\ tmpLink \in [Auths -> Dirs \cup {NoDir}]
  /\ dirs \in SUBSET Dirs
  /\ whole \in SUBSET dirs /\ unclosed \in SUBSET dirs
  /\ made \in [Dirs -> 0..MaxGeneration]
  /\ pc \in PcStates
  /\ cur \in Auths \cup {NoAuth}
  /\ gen \in 0..MaxGeneration
  /\ dir \in Dirs \cup {NoDir}
  /\ old \in Dirs \cup {NoDir}
  /\ dial \in [Dialers -> Dial]
  /\ failures \in 0..MaxFailures
  /\ pc = "idle" <=> cur = NoAuth

Init ==
  /\ wanted = [a \in Auths |-> 1]
  /\ deleting = {}
  /\ entries = [a \in Auths |-> NoGeneration]
  /\ link = [a \in Auths |-> NoDir]
  /\ tmpLink = [a \in Auths |-> NoDir]
  /\ dirs = {} /\ whole = {} /\ unclosed = {}
  /\ made = [d \in Dirs |-> NoGeneration]
  /\ pc = "idle" /\ cur = NoAuth /\ gen = NoGeneration
  /\ dir = NoDir /\ old = NoDir
  /\ dial = [d \in Dialers |-> NoDial]
  /\ failures = 0

-----------------------------------------------------------------------------
(***************************************************************************)
(* Users change and delete Auth objects.                                   *)
(***************************************************************************)
UserChanges(a) ==
  /\ wanted[a] < MaxGeneration
  /\ wanted' = [wanted EXCEPT ![a] = @ + 1]
  /\ UNCHANGED <<deleting, entries, fsVars, callVars, dial, failures>>

(***************************************************************************)
(* AuthReconciler calls the store, which is the only way to its mutex but  *)
(* for Lookup: the mutex is taken as long as pc is not "idle".             *)
(***************************************************************************)
Enter(l, a, g) ==
  /\ pc = "idle"
  /\ pc' = l /\ cur' = a /\ gen' = g /\ dir' = NoDir /\ old' = NoDir
  /\ UNCHANGED <<wanted, entries, fsVars, dial, failures>>

\* A reconcile that takes any entry for the newest one
RegisterOnce(a) ==
  /\ a \notin deleting
  /\ entries[a] = NoGeneration
  /\ Enter("mkdir", a, wanted[a])
  /\ UNCHANGED deleting

Register(a) ==
  /\ a \notin deleting
  /\ entries[a] # wanted[a]
  /\ Enter("mkdir", a, wanted[a])
  /\ UNCHANGED deleting

Deregister(a) ==
  /\ Enter("lookAt", a, NoGeneration)
  /\ deleting' = deleting \cup {a}

\* A call succeeds and the next one is l, or it fails.
Goto(l) == pc' = l /\ UNCHANGED <<cur, gen, dir, old>>

Return == pc' = "idle" /\ cur' = NoAuth /\ gen' = NoGeneration /\ dir' = NoDir /\ old' = NoDir

Fault == failures < MaxFailures /\ failures' = failures + 1

Local == UNCHANGED <<wanted, deleting, dial>>

-----------------------------------------------------------------------------
(***************************************************************************)
(* Register                                                                *)
(***************************************************************************)

\* A name that nothing bears and nothing points at
Unused == Dirs \ (dirs \cup {link[a] : a \in Auths} \cup {tmpLink[a] : a \in Auths}
                       \cup {dial[d].at : d \in Dialers})

MkdirOk ==
  /\ pc = "mkdir"
  /\ Unused # {}
  /\ dir' = CHOOSE d \in Unused : TRUE
  /\ dirs' = dirs \cup {dir'}
  /\ made' = [made EXCEPT ![dir'] = gen]
  /\ pc' = "write"
  /\ UNCHANGED <<cur, gen, old, entries, link, tmpLink, whole, unclosed, failures>> /\ Local

\* Returns the error; whatever has been written stays.
GiveUp == Return /\ Fault /\ UNCHANGED <<entries, fsVars>> /\ Local

MkdirFails == pc = "mkdir" /\ GiveUp

\* The old path is only there when the entry is.
AfterWrite == Goto(IF entries[cur] = NoGeneration THEN "symlink" ELSE "resolve")

\* All the files are created, written and closed.
WriteOk ==
  /\ pc = "write"
  /\ whole' = whole \cup {dir}
  /\ AfterWrite
  /\ UNCHANGED <<entries, link, tmpLink, dirs, unclosed, made, failures>> /\ Local

\* Create or Write returns an error.
WriteFails == pc = "write" /\ GiveUp

\* Close does, which is only logged: Register goes on with what has been
\* written of the file, which need not be all of it.
CloseFails ==
  /\ pc = "write"
  /\ unclosed' = unclosed \cup {dir}
  /\ AfterWrite /\ Fault
  /\ UNCHANGED <<entries, link, tmpLink, dirs, whole, made>> /\ Local

\* Symlink does not replace a link.
SymlinkOk ==
  /\ pc = "symlink"
  /\ link[cur] = NoDir
  /\ link' = [link EXCEPT ![cur] = dir]
  /\ Goto("enter")
  /\ UNCHANGED <<entries, tmpLink, dirs, whole, unclosed, made, failures>> /\ Local

SymlinkFails == pc = "symlink" /\ GiveUp

\* A Register that replaces the entry before the path
ResolveEnters ==
  /\ pc = "resolve"
  /\ link[cur] \in dirs
  /\ old' = link[cur]
  /\ pc' = "tmpLink"
  /\ entries' = [entries EXCEPT ![cur] = gen]
  /\ UNCHANGED <<cur, gen, dir, fsVars, failures>> /\ Local

\* EvalSymlinks of the path
ResolveOk ==
  /\ pc = "resolve"
  /\ link[cur] \in dirs
  /\ old' = link[cur]
  /\ pc' = "tmpLink"
  /\ UNCHANGED <<cur, gen, dir, entries, fsVars, failures>> /\ Local

ResolveFails == pc = "resolve" /\ GiveUp

\* A Register that makes way for the link instead of renaming one over it
TmpLinkUnlinks ==
  /\ pc = "tmpLink"
  /\ tmpLink' = [tmpLink EXCEPT ![cur] = dir]
  /\ link' = [link EXCEPT ![cur] = NoDir]
  /\ Goto("rename")
  /\ UNCHANGED <<entries, dirs, whole, unclosed, made, failures>> /\ Local

TmpLinkOk ==
  /\ pc = "tmpLink"
  /\ tmpLink[cur] = NoDir
  /\ tmpLink' = [tmpLink EXCEPT ![cur] = dir]
  /\ Goto("rename")
  /\ UNCHANGED <<entries, link, dirs, whole, unclosed, made, failures>> /\ Local

TmpLinkFails == pc = "tmpLink" /\ GiveUp

\* A link of an earlier Register is in the way: an error without a fault.
TmpLinkExists ==
  /\ pc = "tmpLink"
  /\ tmpLink[cur] # NoDir
  /\ Return
  /\ UNCHANGED <<entries, fsVars, failures>> /\ Local

RenameOk ==
  /\ pc = "rename"
  /\ link' = [link EXCEPT ![cur] = tmpLink[cur]]
  /\ tmpLink' = [tmpLink EXCEPT ![cur] = NoDir]
  /\ Goto("clean")
  /\ UNCHANGED <<entries, dirs, whole, unclosed, made, failures>> /\ Local

RenameFails == pc = "rename" /\ GiveUp

\* RemoveAll.  When it fails, which is only logged, some files may be left.
Removed(d) ==
  /\ dirs' = dirs \ {d}
  /\ whole' = whole \ {d}
  /\ unclosed' = unclosed \ {d}
  /\ made' = [x \in Dirs |-> IF x = d THEN NoGeneration ELSE made[x]]

\* A clean-up of what the path points at after the rename
CleanNew ==
  /\ pc = "clean"
  /\ Removed(link[cur])
  /\ Goto("enter")
  /\ UNCHANGED <<entries, link, tmpLink, failures>> /\ Local

CleanOk ==
  /\ pc = "clean"
  /\ Removed(old)
  /\ Goto("enter")
  /\ UNCHANGED <<entries, link, tmpLink, failures>> /\ Local

CleanFails ==
  /\ pc = "clean"
  /\ Goto("enter") /\ Fault
  /\ UNCHANGED <<entries, fsVars>> /\ Local

EnterEntry ==
  /\ pc = "enter"
  /\ entries' = [entries EXCEPT ![cur] = gen]
  /\ Return
  /\ UNCHANGED <<fsVars, failures>> /\ Local

-----------------------------------------------------------------------------
(***************************************************************************)
(* Deregister.  Errors are only logged.                                    *)
(***************************************************************************)
\* A Deregister that forgets the directory
Unresolved == NoDir

Resolved == IF link[cur] \in dirs THEN link[cur] ELSE NoDir

LookAt ==
  /\ pc = "lookAt"
  /\ IF entries[cur] = NoGeneration
       THEN Return /\ UNCHANGED <<entries, failures>>
       ELSE /\ entries' = [entries EXCEPT ![cur] = NoGeneration]
            /\ pc' = "unlink"
            /\ \/ old' = Resolved /\ UNCHANGED failures
               \/ old' = NoDir /\ Fault
            /\ UNCHANGED <<cur, gen, dir>>
  /\ UNCHANGED fsVars /\ Local

Unlink ==
  /\ pc = "unlink"
  /\ \/ link' = [link EXCEPT ![cur] = NoDir] /\ UNCHANGED failures
     \/ Fault /\ UNCHANGED link
  /\ Goto("wipe")
  /\ UNCHANGED <<entries, tmpLink, dirs, whole, unclosed, made>> /\ Local

Wipe ==
  /\ pc = "wipe"
  /\ \/ Removed(old) /\ UNCHANGED failures
     \/ Fault /\ UNCHANGED <<dirs, whole, unclosed, made>>
  /\ Return
  /\ UNCHANGED <<entries, link, tmpLink>> /\ Local

-----------------------------------------------------------------------------
(***************************************************************************)
(* Dialers.  HostReconciler looks an Auth up, which waits for the mutex,   *)
(* and makes a dialer of the path; the dialer opens the files of the path, *)
(* then and whenever the monitor reconnects.  To open a file is to follow  *)
(* the link, then to open it in the directory found.                       *)
(***************************************************************************)
Shared == UNCHANGED <<wanted, deleting, entries, fsVars, callVars, failures>>

Lookup(d, a) ==
  /\ pc = "idle"
  /\ entries[a] # NoGeneration
  /\ dial' = [dial EXCEPT ![d] = [NoDial EXCEPT !.auth = a, !.seen = entries[a]]]
  /\ Shared

Redial(d) ==
  /\ dial[d].auth # NoAuth
  /\ dial' = [dial EXCEPT ![d] = [@ EXCEPT !.at = NoDir, !.opened = 0]]
  /\ Shared

Follow(d) ==
  /\ dial[d].auth # NoAuth /\ dial[d].at = NoDir /\ dial[d].opened < 2
  /\ link[dial[d].auth] \in dirs
  /\ dial' = [dial EXCEPT ![d].at = link[dial[d].auth]]
  /\ Shared

\* A directory that has been half removed may have lost the file.
Open(d) ==
  /\ dial[d].at \in dirs
  /\ dial' = [dial EXCEPT ![d].at = NoDir, ![d].opened = @ + 1, ![d].seen = made[dial[d].at]]
  /\ Shared

Caller ==
  \E a \in Auths : Register(a) \/ Deregister(a)

Store ==
  \/ MkdirOk \/ WriteOk \/ SymlinkOk \/ ResolveOk \/ TmpLinkOk \/ TmpLinkExists
  \/ RenameOk \/ CleanOk \/ EnterEntry \/ LookAt \/ Unlink \/ Wipe

Failing ==
  \/ MkdirFails \/ WriteFails \/ CloseFails \/ SymlinkFails \/ ResolveFails \/ TmpLinkFails
  \/ RenameFails \/ CleanFails

Environment ==
  \/ \E a \in Auths : UserChanges(a)
  \/ \E d \in Dialers : Redial(d) \/ Follow(d) \/ Open(d) \/ \E a \in Auths : Lookup(d, a)

Next == Caller \/ Store \/ Failing \/ Environment

Spec == Init /\ [][Next]_vars

\* A call to the file system returns, and the controller retries an Auth whose
\* registration has failed.  Calls stop failing, which MaxFailures stands for.
Fairness ==
  /\ WF_vars(Store \/ Failing)
  /\ \A a \in Auths : SF_vars(Register(a))

FairSpec == Spec /\ Fairness

-----------------------------------------------------------------------------
(***************************************************************************)
(* Properties                                                              *)
(***************************************************************************)

\* The path of an Auth that has an entry always leads to a directory that
\* Register has gone through to the end, also while it replaces the files and
\* whichever of its calls fails: a monitor may reconnect at any time.  The files
\* are complete, unless a Close has failed: that error Register only logs.
PathIsWhole ==
  \A a \in Auths : entries[a] # NoGeneration =>
    link[a] \in dirs \cap (whole \cup unclosed)

\* The generation that Lookup returns is the one of the files under the path:
\* HostReconciler compares it to decide whether its connection is current.
GenerationIsServed ==
  pc = "idle" => \A a \in Auths : entries[a] # NoGeneration => made[link[a]] = entries[a]

\* A dialer never opens files older than the generation it was made for, nor
\* older than those it has opened before.
NoOldFiles ==
  [][\A d \in Dialers : dial'[d].opened > dial[d].opened => dial'[d].seen >= dial[d].seen]_vars

\* Without failing calls no directory of old credentials is left behind, and
\* none of a deregistered Auth.
NothingIsLeft ==
  pc = "idle" /\ failures = 0 =>
    /\ dirs = {link[a] : a \in Auths} \ {NoDir}
    /\ \A a \in Auths : tmpLink[a] = NoDir /\ (entries[a] = NoGeneration => link[a] = NoDir)

\* The newest generation of an Auth is registered in the end, unless a failed
\* Rename has left its link in the way of every later Register.
EntryCatchesUp ==
  <>[](\A a \in Auths :
         \/ entries[a] = wanted[a]
         \/ a \in deleting
         \/ \E b \in Auths : tmpLink[b] # NoDir)

\* What is under the path of an Auth is served, and an Auth is withdrawn when
\* its entry is deleted.
Served    == [a \in Auths |-> IF link[a] \in dirs THEN made[link[a]] ELSE NoGeneration]
Withdrawn == {a \in deleting : entries[a] = NoGeneration}

Abstract ==
  INSTANCE Credentials WITH
    served <- Served, announced <- entries, withdrawn <- Withdrawn

\* The store keeps what Credentials promises, whatever fails and whenever the
\* dialers read.
ImplementsCredentials == Abstract!Spec
=============================================================================
