--------------------------- MODULE AuthStoreProofs ---------------------------
(***************************************************************************)
(* The store of credentials serves the files of the announced generation,  *)
(* whole unless a Close has failed, for any number of Auths, dialers and   *)
(* failing calls, and implements Credentials.                              *)
(*                                                                         *)
(* That a path is whole depends on who else may remove its directory: IInv *)
(* says that paths never share a directory, that the one Register is about *)
(* to link is nobody's, and that the one it removes is nobody's any more.  *)
(***************************************************************************)
EXTENDS AuthStore, TLAPS

\* The places of Register before the path leads to the new directory, and all
InTheOld    == {"mkdir", "write", "symlink", "resolve", "tmpLink", "rename"}
Registering == InTheOld \cup {"clean", "enter"}
Withdrawing == {"lookAt", "unlink", "wipe"}

\* What a call of AuthReconciler is about
CallInv ==
  /\ pc \in Registering => cur \notin deleting /\ gen \in Generations /\ gen <= wanted[cur]
  /\ pc \in Withdrawing => cur \in deleting
  /\ pc \in InTheOld => entries[cur] < gen
  /\ pc \in {"resolve", "tmpLink", "rename", "clean"} => entries[cur] # NoGeneration
  /\ pc \in {"symlink", "unlink", "wipe"} => entries[cur] = NoGeneration
  /\ \A a \in Auths : entries[a] <= wanted[a]

\* The directory that Register has made
DirInv ==
  /\ pc \in Registering \ {"mkdir"} => dir \in dirs /\ made[dir] = gen
  /\ pc \in Registering \ {"mkdir", "write"} => dir \in whole \cup unclosed

\* Who points at a directory
LinkInv ==
  /\ \A a, b \in Auths : a # b /\ link[a] = link[b] => link[a] = NoDir
  /\ \A a, b \in Auths : tmpLink[a] = link[b] => tmpLink[a] = NoDir
  /\ pc \in {"write", "symlink", "resolve", "tmpLink"} =>
       \A a \in Auths : link[a] # dir /\ tmpLink[a] # dir
  /\ pc = "rename" => \A a \in Auths : tmpLink[a] = dir <=> a = cur
  /\ pc \in {"tmpLink", "rename"} => old = link[cur]
  /\ pc \in {"clean", "enter"} => link[cur] = dir
  /\ pc = "clean" => \A a \in Auths : link[a] # old
  /\ pc \in {"unlink", "wipe"} => \A a \in Auths \ {cur} : link[a] = old => old = NoDir

\* What Lookup may return is under the path.
Announced(a) == entries[a] # NoGeneration
Replacing(a) == a = cur /\ pc \in {"clean", "enter"}

ServedInv ==
  /\ PathIsWhole
  /\ \A a \in Auths : Announced(a) /\ ~Replacing(a) => made[link[a]] = entries[a]

IInv == TypeOK /\ CallInv /\ DirInv /\ LinkInv /\ ServedInv

\* What a dialer may still open is not older than what it has met.
NotOlder(d, a) ==
  /\ Announced(a) \/ a \in deleting
  /\ link[a] \in dirs => dial[d].seen <= made[link[a]]
  /\ dial[d].at \in dirs => dial[d].seen <= made[dial[d].at]
  /\ dial[d].at \in dirs /\ link[a] \in dirs => made[dial[d].at] <= made[link[a]]

DialInv ==
  \A d \in Dialers :
    IF dial[d].auth = NoAuth THEN dial[d] = NoDial ELSE NotOlder(d, dial[d].auth)

-----------------------------------------------------------------------------
(***************************************************************************)
(* Every step keeps the invariant.                                         *)
(***************************************************************************)

\* A step of a dialer
Dialling ==
  \E d \in Dialers : Redial(d) \/ Follow(d) \/ Open(d) \/ \E a \in Auths : Lookup(d, a)

\* A dialer only reads.
LEMMA DialStep ==
  Dialling => UNCHANGED <<wanted, deleting, entries, fsVars, callVars, failures>>
BY DEF Dialling, Redial, Follow, Open, Lookup, Shared

\* A dialer keeps its type.
LEMMA DialTypes == TypeOK /\ Dialling => dial' \in [Dialers -> Dial]
<1> SUFFICES ASSUME TypeOK, NEW d \in Dialers,
                    Redial(d) \/ Follow(d) \/ Open(d) \/ \E a \in Auths : Lookup(d, a)
             PROVE  dial' \in [Dialers -> Dial]
  BY DEF Dialling
<1>1. dial \in [Dialers -> Dial] /\ dial[d] \in Dial
  BY DEF TypeOK
<1>2. CASE Redial(d)
  <2> DEFINE x == [dial[d] EXCEPT !.at = NoDir]
  <2>1. x \in Dial
    BY <1>1 DEF Dial
  <2>2. dial' = [dial EXCEPT ![d] = [x EXCEPT !.opened = 0]]
    BY <1>2 DEF Redial
  <2> HIDE DEF x
  <2>3. [x EXCEPT !.opened = 0] \in Dial
    BY <2>1 DEF Dial
  <2> QED
    BY <1>1, <2>2, <2>3
<1>3. CASE Follow(d)
  BY <1>1, <1>3 DEF Follow, Dial, TypeOK
<1>4. CASE Open(d)
  <2>1. made[dial[d].at] \in 0..MaxGeneration
    BY <1>4 DEF Open, TypeOK
  <2>2. dial[d].opened + 1 \in 0..2
    BY <1>1, <1>4 DEF Open, Dial
  <2> QED
    BY <1>1, <1>4, <2>1, <2>2 DEF Open, Dial
<1>5. CASE \E a \in Auths : Lookup(d, a)
  <2>1. PICK a \in Auths : Lookup(d, a)
    BY <1>5
  <2>2. entries[a] \in 0..MaxGeneration
    BY DEF TypeOK
  <2> DEFINE x == [NoDial EXCEPT !.auth = a]
  <2>3. x \in Dial
    BY BoundsAreNat DEF NoDial, Dial
  <2>4. dial' = [dial EXCEPT ![d] = [x EXCEPT !.seen = entries[a]]]
    BY <2>1 DEF Lookup
  <2> HIDE DEF x
  <2>5. [x EXCEPT !.seen = entries[a]] \in Dial
    BY <2>2, <2>3 DEF Dial
  <2> QED
    BY <1>1, <2>4, <2>5
<1> QED
  BY <1>2, <1>3, <1>4, <1>5

\* MkdirTemp chooses a directory that nobody points at.
LEMMA MadeIsUnused == MkdirOk => dir' \in Unused
BY DEF MkdirOk

\* Every step keeps the types.
LEMMA NextTypes == TypeOK /\ CallInv /\ DirInv /\ [Next]_vars => TypeOK'
<1> SUFFICES ASSUME TypeOK, CallInv, DirInv, [Next]_vars PROVE TypeOK'
  OBVIOUS
<1> USE NoAuthIsNoAuth, NoDirIsNoDir, BoundsAreNat DEF Goto, Return, Fault, Local, fsVars,
     callVars, NoGeneration, Generations, TypeOK, CallInv, DirInv, PcStates, Dial, NoDial,
     Unused, Resolved, Removed, InTheOld, Registering, Withdrawing
<1>1. CASE \E a \in Auths : Register(a) \/ Deregister(a)
  BY <1>1 DEF Register, Deregister, Enter
<1>2. CASE MkdirOk
  BY <1>2, MadeIsUnused DEF MkdirOk, Unused
<1>3. CASE WriteOk
  BY <1>3 DEF WriteOk, AfterWrite
<1>4. CASE SymlinkOk
  BY <1>4 DEF SymlinkOk
<1>5. CASE ResolveOk
  BY <1>5 DEF ResolveOk
<1>6. CASE TmpLinkOk
  BY <1>6 DEF TmpLinkOk
<1>7. CASE TmpLinkExists
  BY <1>7 DEF TmpLinkExists
<1>8. CASE RenameOk
  BY <1>8 DEF RenameOk
<1>9. CASE CleanOk
  BY <1>9 DEF CleanOk
<1>10. CASE EnterEntry
  BY <1>10 DEF EnterEntry
<1>11. CASE LookAt
  BY <1>11 DEF LookAt
<1>12. CASE Unlink
  BY <1>12 DEF Unlink
<1>13. CASE Wipe
  BY <1>13 DEF Wipe
<1>14. CASE Failing
  BY <1>14 DEF Failing, MkdirFails, WriteFails, CloseFails, AfterWrite, SymlinkFails, ResolveFails,
               TmpLinkFails, RenameFails, CleanFails, GiveUp
<1>15. CASE \E a \in Auths : UserChanges(a)
  BY <1>15 DEF UserChanges
<1>16. CASE Dialling
  <2>1. dial' \in [Dialers -> Dial]
    BY <1>16, DialTypes
  <2> QED
    BY <1>16, <2>1, DialStep
<1>17. CASE UNCHANGED vars
  BY <1>17 DEF vars
<1> QED
  BY <1>1, <1>2, <1>3, <1>4, <1>5, <1>6, <1>7, <1>8, <1>9, <1>10, <1>11, <1>12, <1>13, <1>14,
     <1>15, <1>16, <1>17
     DEF Next, Caller, Store, Environment, Dialling

\* ... what is known of the call, the only writer of the map being itself,
LEMMA NextCallInv == TypeOK /\ CallInv /\ [Next]_vars => CallInv'
<1> SUFFICES ASSUME TypeOK, CallInv, [Next]_vars PROVE CallInv'
  OBVIOUS
<1> USE NoAuthIsNoAuth, NoDirIsNoDir, BoundsAreNat DEF Goto, Return, Fault, Local, fsVars,
     callVars, NoGeneration, Generations, TypeOK, CallInv, Removed, InTheOld, Registering,
     Withdrawing
<1>1. CASE \E a \in Auths : Register(a) \/ Deregister(a)
  BY <1>1 DEF Register, Deregister, Enter
<1>2. CASE MkdirOk
  BY <1>2, MadeIsUnused DEF MkdirOk, Unused
<1>3. CASE WriteOk
  BY <1>3 DEF WriteOk, AfterWrite
<1>4. CASE SymlinkOk
  BY <1>4 DEF SymlinkOk
<1>5. CASE ResolveOk
  BY <1>5 DEF ResolveOk
<1>6. CASE TmpLinkOk
  BY <1>6 DEF TmpLinkOk
<1>7. CASE TmpLinkExists
  BY <1>7 DEF TmpLinkExists
<1>8. CASE RenameOk
  BY <1>8 DEF RenameOk
<1>9. CASE CleanOk
  BY <1>9 DEF CleanOk
<1>10. CASE EnterEntry
  BY <1>10 DEF EnterEntry
<1>11. CASE LookAt
  BY <1>11 DEF LookAt
<1>12. CASE Unlink
  BY <1>12 DEF Unlink
<1>13. CASE Wipe
  BY <1>13 DEF Wipe
<1>14. CASE Failing
  BY <1>14 DEF Failing, MkdirFails, WriteFails, CloseFails, AfterWrite, SymlinkFails, ResolveFails,
               TmpLinkFails, RenameFails, CleanFails, GiveUp
<1>15. CASE \E a \in Auths : UserChanges(a)
  BY <1>15 DEF UserChanges
<1>16. CASE Dialling
  BY <1>16, DialStep
<1>17. CASE UNCHANGED vars
  BY <1>17 DEF vars
<1> QED
  BY <1>1, <1>2, <1>3, <1>4, <1>5, <1>6, <1>7, <1>8, <1>9, <1>10, <1>11, <1>12, <1>13, <1>14,
     <1>15, <1>16, <1>17
     DEF Next, Caller, Store, Environment, Dialling

\* ... of the directory it has made,
LEMMA NextDirInv == TypeOK /\ CallInv /\ DirInv /\ LinkInv /\ [Next]_vars => DirInv'
<1> SUFFICES ASSUME TypeOK, CallInv, DirInv, LinkInv, [Next]_vars PROVE DirInv'
  OBVIOUS
<1> USE NoAuthIsNoAuth, NoDirIsNoDir, BoundsAreNat DEF Goto, Return, Fault, Local, fsVars,
     callVars, NoGeneration, Generations, TypeOK, CallInv, DirInv, LinkInv, Removed, InTheOld,
     Registering, Withdrawing
<1>1. CASE \E a \in Auths : Register(a) \/ Deregister(a)
  BY <1>1 DEF Register, Deregister, Enter
<1>2. CASE MkdirOk
  BY <1>2, MadeIsUnused DEF MkdirOk, Unused
<1>3. CASE WriteOk
  BY <1>3 DEF WriteOk, AfterWrite
<1>4. CASE SymlinkOk
  BY <1>4 DEF SymlinkOk
<1>5. CASE ResolveOk
  BY <1>5 DEF ResolveOk
<1>6. CASE TmpLinkOk
  BY <1>6 DEF TmpLinkOk
<1>7. CASE TmpLinkExists
  BY <1>7 DEF TmpLinkExists
<1>8. CASE RenameOk
  BY <1>8 DEF RenameOk
<1>9. CASE CleanOk
  BY <1>9 DEF CleanOk
<1>10. CASE EnterEntry
  BY <1>10 DEF EnterEntry
<1>11. CASE LookAt
  BY <1>11 DEF LookAt
<1>12. CASE Unlink
  BY <1>12 DEF Unlink
<1>13. CASE Wipe
  BY <1>13 DEF Wipe
<1>14. CASE Failing
  BY <1>14 DEF Failing, MkdirFails, WriteFails, CloseFails, AfterWrite, SymlinkFails, ResolveFails,
               TmpLinkFails, RenameFails, CleanFails, GiveUp
<1>15. CASE \E a \in Auths : UserChanges(a)
  BY <1>15 DEF UserChanges
<1>16. CASE Dialling
  BY <1>16, DialStep
<1>17. CASE UNCHANGED vars
  BY <1>17 DEF vars
<1> QED
  BY <1>1, <1>2, <1>3, <1>4, <1>5, <1>6, <1>7, <1>8, <1>9, <1>10, <1>11, <1>12, <1>13, <1>14,
     <1>15, <1>16, <1>17
     DEF Next, Caller, Store, Environment, Dialling

\* ... of the links,
LEMMA NextLinkInv == IInv /\ [Next]_vars => LinkInv'
<1> SUFFICES ASSUME IInv, [Next]_vars PROVE LinkInv'
  OBVIOUS
<1> USE NoAuthIsNoAuth, NoDirIsNoDir, BoundsAreNat DEF Goto, Return, Fault, Local, fsVars,
     callVars, NoGeneration, Generations, IInv, TypeOK, CallInv, DirInv, LinkInv, Removed,
     Unused, Resolved, ServedInv, PathIsWhole, Announced, Replacing, InTheOld, Registering,
     Withdrawing
<1>1. CASE \E a \in Auths : Register(a) \/ Deregister(a)
  BY <1>1 DEF Register, Deregister, Enter
<1>2. CASE MkdirOk
  BY <1>2, MadeIsUnused DEF MkdirOk, Unused
<1>3. CASE WriteOk
  BY <1>3 DEF WriteOk, AfterWrite
<1>4. CASE SymlinkOk
  BY <1>4 DEF SymlinkOk
<1>5. CASE ResolveOk
  BY <1>5 DEF ResolveOk
<1>6. CASE TmpLinkOk
  BY <1>6 DEF TmpLinkOk
<1>7. CASE TmpLinkExists
  BY <1>7 DEF TmpLinkExists
<1>8. CASE RenameOk
  BY <1>8 DEF RenameOk
<1>9. CASE CleanOk
  BY <1>9 DEF CleanOk
<1>10. CASE EnterEntry
  BY <1>10 DEF EnterEntry
<1>11. CASE LookAt
  BY <1>11 DEF LookAt
<1>12. CASE Unlink
  BY <1>12 DEF Unlink
<1>13. CASE Wipe
  BY <1>13 DEF Wipe
<1>14. CASE Failing
  BY <1>14 DEF Failing, MkdirFails, WriteFails, CloseFails, AfterWrite, SymlinkFails, ResolveFails,
               TmpLinkFails, RenameFails, CleanFails, GiveUp
<1>15. CASE \E a \in Auths : UserChanges(a)
  BY <1>15 DEF UserChanges
<1>16. CASE Dialling
  BY <1>16, DialStep
<1>17. CASE UNCHANGED vars
  BY <1>17 DEF vars
<1> QED
  BY <1>1, <1>2, <1>3, <1>4, <1>5, <1>6, <1>7, <1>8, <1>9, <1>10, <1>11, <1>12, <1>13, <1>14,
     <1>15, <1>16, <1>17
     DEF Next, Caller, Store, Environment, Dialling

\* ... and what the paths serve.
LEMMA NextServedInv == IInv /\ [Next]_vars => ServedInv'
<1> SUFFICES ASSUME IInv, [Next]_vars PROVE ServedInv'
  OBVIOUS
<1> USE NoAuthIsNoAuth, NoDirIsNoDir, BoundsAreNat DEF Goto, Return, Fault, Local, fsVars,
     callVars, NoGeneration, Generations, IInv, TypeOK, CallInv, DirInv, LinkInv, Removed,
     Unused, Resolved, ServedInv, PathIsWhole, Announced, Replacing, InTheOld, Registering,
     Withdrawing
<1>1. CASE \E a \in Auths : Register(a) \/ Deregister(a)
  BY <1>1 DEF Register, Deregister, Enter
<1>2. CASE MkdirOk
  BY <1>2, MadeIsUnused DEF MkdirOk, Unused
<1>3. CASE WriteOk
  BY <1>3 DEF WriteOk, AfterWrite
<1>4. CASE SymlinkOk
  BY <1>4 DEF SymlinkOk
<1>5. CASE ResolveOk
  BY <1>5 DEF ResolveOk
<1>6. CASE TmpLinkOk
  BY <1>6 DEF TmpLinkOk
<1>7. CASE TmpLinkExists
  BY <1>7 DEF TmpLinkExists
<1>8. CASE RenameOk
  BY <1>8 DEF RenameOk
<1>9. CASE CleanOk
  BY <1>9 DEF CleanOk
<1>10. CASE EnterEntry
  BY <1>10 DEF EnterEntry
<1>11. CASE LookAt
  BY <1>11 DEF LookAt
<1>12. CASE Unlink
  BY <1>12 DEF Unlink
<1>13. CASE Wipe
  BY <1>13 DEF Wipe
<1>14. CASE Failing
  BY <1>14 DEF Failing, MkdirFails, WriteFails, CloseFails, AfterWrite, SymlinkFails, ResolveFails,
               TmpLinkFails, RenameFails, CleanFails, GiveUp
<1>15. CASE \E a \in Auths : UserChanges(a)
  BY <1>15 DEF UserChanges
<1>16. CASE Dialling
  BY <1>16, DialStep
<1>17. CASE UNCHANGED vars
  BY <1>17 DEF vars
<1> QED
  BY <1>1, <1>2, <1>3, <1>4, <1>5, <1>6, <1>7, <1>8, <1>9, <1>10, <1>11, <1>12, <1>13, <1>14,
     <1>15, <1>16, <1>17
     DEF Next, Caller, Store, Environment, Dialling

-----------------------------------------------------------------------------
(***************************************************************************)
(* The invariants.                                                         *)
(***************************************************************************)

\* The invariant holds initially.
LEMMA InitIInv == Init => IInv
<1> SUFFICES ASSUME Init PROVE IInv
  OBVIOUS
<1> USE NoAuthIsNoAuth, NoDirIsNoDir, BoundsAreNat
    DEF Init, Generations, NoGeneration, InTheOld, Registering, Withdrawing
<1>1. TypeOK
  <2>1. NoDial \in Dial
    BY DEF Dial, NoDial
  <2> QED
    BY <2>1 DEF TypeOK, PcStates
<1>2. CallInv /\ DirInv /\ LinkInv
  BY DEF CallInv, DirInv, LinkInv
<1>3. ServedInv
  BY DEF ServedInv, PathIsWhole, Announced
<1> QED
  BY <1>1, <1>2, <1>3 DEF IInv

\* Every reachable state satisfies it.
LEMMA Invariance == Spec => []IInv
<1>1. IInv /\ [Next]_vars => IInv'
  BY NextTypes, NextCallInv, NextDirInv, NextLinkInv, NextServedInv DEF IInv
<1> QED
  BY InitIInv, <1>1, PTL DEF Spec

\* The variables have their types.
THEOREM TypeCorrect == Spec => []TypeOK
<1>1. IInv => TypeOK
  BY DEF IInv
<1> QED
  BY Invariance, <1>1, PTL

\* The path of an Auth that can be looked up leads to the directory of a Register
\* that has written its files, whichever calls fail and whoever else registers:
\* whole files, or those of a Register whose failed Close was only logged, never
\* a directory that a Register has given up or one that has been removed.
THEOREM PathsWhole == Spec => []PathIsWhole
<1>1. IInv => PathIsWhole
  BY DEF IInv, ServedInv
<1> QED
  BY Invariance, <1>1, PTL

\* Between the calls of AuthReconciler, the generation that Lookup returns is
\* the one of the files under the path.
THEOREM GenerationServed == Spec => []GenerationIsServed
<1>1. IInv => GenerationIsServed
  BY DEF IInv, ServedInv, GenerationIsServed, Announced, Replacing, NoGeneration
<1> QED
  BY Invariance, <1>1, PTL

-----------------------------------------------------------------------------
(***************************************************************************)
(* The dialers, which read without the mutex.                              *)
(***************************************************************************)

\* The steps of the store do not make what a dialer may open older.
LEMMA NotOlderKept ==
  ASSUME IInv, Next, UNCHANGED dial, NEW d \in Dialers, NEW a \in Auths, NotOlder(d, a)
  PROVE  NotOlder(d, a)'
<1>0. dial[d] \in Dial /\ dial[d].seen \in Nat /\ dial[d].at \in Dirs \cup {NoDir}
  BY BoundsAreNat DEF IInv, TypeOK, Dial
<1> USE <1>0, NoAuthIsNoAuth, NoDirIsNoDir, BoundsAreNat
    DEF Goto, Return, Fault, Local, fsVars, callVars, NoGeneration, Generations, InTheOld,
        Registering, Withdrawing, IInv, TypeOK, CallInv, DirInv, LinkInv, ServedInv, PathIsWhole,
        Announced, Replacing, NotOlder, Removed
<1>1. CASE \E b \in Auths : Register(b) \/ Deregister(b)
  BY <1>1 DEF Register, Deregister, Enter
<1>2. CASE MkdirOk
  BY <1>2, MadeIsUnused DEF MkdirOk, Unused
<1>3. CASE WriteOk
  BY <1>3 DEF WriteOk, AfterWrite
<1>4. CASE SymlinkOk
  BY <1>4 DEF SymlinkOk
<1>5. CASE ResolveOk
  BY <1>5 DEF ResolveOk
<1>6. CASE TmpLinkOk
  BY <1>6 DEF TmpLinkOk
<1>7. CASE TmpLinkExists
  BY <1>7 DEF TmpLinkExists
<1>8. CASE RenameOk
  BY <1>8 DEF RenameOk
<1>9. CASE CleanOk
  BY <1>9 DEF CleanOk
<1>10. CASE EnterEntry
  BY <1>10 DEF EnterEntry
<1>11. CASE LookAt
  BY <1>11 DEF LookAt
<1>12. CASE Unlink
  BY <1>12 DEF Unlink
<1>13. CASE Wipe
  BY <1>13 DEF Wipe
<1>14. CASE Failing
  BY <1>14 DEF Failing, MkdirFails, WriteFails, CloseFails, AfterWrite, SymlinkFails, ResolveFails,
               TmpLinkFails, RenameFails, CleanFails, GiveUp
<1>15. CASE Environment
  BY <1>15 DEF Environment, UserChanges, Redial, Follow, Open, Lookup, Shared
<1> QED
  BY <1>1, <1>2, <1>3, <1>4, <1>5, <1>6, <1>7, <1>8, <1>9, <1>10, <1>11, <1>12, <1>13, <1>14,
     <1>15 DEF Next, Caller, Store

\* Every step keeps it, of the store and of the dialers.
LEMMA NextDialInv == IInv /\ DialInv /\ [Next]_vars => DialInv'
<1> SUFFICES ASSUME IInv, DialInv, [Next]_vars PROVE DialInv'
  OBVIOUS
<1>0. /\ dial \in [Dialers -> Dial]
      /\ \A d \in Dialers : dial[d].auth # NoAuth => dial[d].auth \in Auths
  BY DEF IInv, TypeOK, Dial
<1>1. CASE UNCHANGED vars
  BY <1>1 DEF DialInv, NotOlder, Announced, vars, fsVars
<1>2. CASE Next /\ UNCHANGED dial
  <2> SUFFICES ASSUME NEW d \in Dialers, dial[d].auth # NoAuth PROVE NotOlder(d, dial[d].auth)'
    BY <1>2 DEF DialInv
  <2>1. NotOlder(d, dial[d].auth)
    BY DEF DialInv
  <2>2. dial[d].auth' = dial[d].auth
    BY <1>2
  <2> QED
    BY <1>0, <1>2, <2>1, <2>2, NotOlderKept
<1>3. CASE Dialling
  <2> SUFFICES ASSUME NEW d \in Dialers
               PROVE  (IF dial[d].auth = NoAuth THEN dial[d] = NoDial
                                                ELSE NotOlder(d, dial[d].auth))'
    BY DEF DialInv
  <2>1. UNCHANGED <<deleting, entries, link, dirs, made>>
    BY <1>3, DialStep DEF fsVars
  <2>2. IF dial[d].auth = NoAuth THEN dial[d] = NoDial ELSE NotOlder(d, dial[d].auth)
    BY DEF DialInv
  <2>3. CASE dial'[d] = dial[d]
    BY <2>1, <2>2, <2>3 DEF NotOlder, Announced
  <2>4. CASE Redial(d)
    BY <1>0, <2>1, <2>2, <2>4, NoDirIsNoDir DEF Redial, NotOlder, Announced, IInv, TypeOK
  <2>5. CASE Follow(d)
    BY <1>0, <2>1, <2>2, <2>5 DEF Follow, NotOlder, Announced, IInv, TypeOK
  <2>6. CASE Open(d)
    BY <1>0, <2>1, <2>2, <2>6, NoDirIsNoDir DEF Open, NotOlder, Announced, IInv, TypeOK, NoDial
  <2>7. CASE \E a \in Auths : Lookup(d, a)
    BY <1>0, <2>1, <2>2, <2>7, NoDirIsNoDir, NoAuthIsNoAuth
       DEF Lookup, NotOlder, Announced, NoDial, IInv, TypeOK, ServedInv, Replacing
  <2> QED
    BY <1>0, <1>3, <2>3, <2>4, <2>5, <2>6, <2>7 DEF Dialling, Redial, Follow, Open, Lookup
<1> QED
  BY <1>1, <1>2, <1>3 DEF Next, Caller, Store, Failing, Environment, Dialling, Register,
     Deregister, Enter, UserChanges, MkdirOk, WriteOk, SymlinkOk, ResolveOk, TmpLinkOk,
     TmpLinkExists, RenameOk, CleanOk, EnterEntry, LookAt, Unlink, Wipe, MkdirFails, WriteFails,
     CloseFails, SymlinkFails, ResolveFails, TmpLinkFails, RenameFails, CleanFails, GiveUp, Local

\* However its steps interleave with the renames and removals of Register, a
\* dialer never goes back to older files.
THEOREM FilesNeverOlder == Spec => NoOldFiles
<1>1. Init => DialInv
  BY DEF Init, DialInv, NoDial
<1>2. IInv /\ DialInv /\ [Next]_vars =>
        [\A d \in Dialers : dial'[d].opened > dial[d].opened => dial'[d].seen >= dial[d].seen]_vars
  <2> SUFFICES ASSUME IInv, DialInv, Next, NEW d \in Dialers, dial'[d].opened > dial[d].opened
               PROVE  dial'[d].seen >= dial[d].seen
    BY DEF vars
  <2>0. dial \in [Dialers -> Dial] /\ dial[d].opened \in 0..2 /\ dial[d].seen \in 0..MaxGeneration
    BY DEF IInv, TypeOK, Dial
  <2>1. Open(d)
    <3>0. dial' # dial
      BY <2>0
    <3>1. PICK e \in Dialers : Redial(e) \/ Follow(e) \/ Open(e) \/ \E a \in Auths : Lookup(e, a)
      BY <3>0
         DEF Next, Caller, Store, Failing, Environment, Register,
             Deregister, Enter, UserChanges, MkdirOk, WriteOk, SymlinkOk, ResolveOk, TmpLinkOk,
             TmpLinkExists, RenameOk, CleanOk, EnterEntry, LookAt, Unlink, Wipe, MkdirFails,
             WriteFails, CloseFails, SymlinkFails, ResolveFails, TmpLinkFails, RenameFails,
             CleanFails, GiveUp, Local
    <3>2. ASSUME Redial(e) PROVE FALSE
      <4>1. dial' = [dial EXCEPT ![e] = [dial[e] EXCEPT !.at = NoDir, !.opened = 0]]
        BY <3>2, <2>0 DEF Redial
      <4>2. [dial[e] EXCEPT !.at = NoDir, !.opened = 0].opened = 0
        BY <2>0 DEF Dial
      <4> QED
        BY <2>0, <4>1, <4>2
    <3>3. ASSUME Follow(e) PROVE FALSE
      <4>1. dial' = [dial EXCEPT ![e] = [dial[e] EXCEPT !.at = link[dial[e].auth]]]
        BY <3>3, <2>0 DEF Follow
      <4>2. [dial[e] EXCEPT !.at = link[dial[e].auth]].opened = dial[e].opened
        BY <2>0 DEF Dial
      <4> QED
        BY <2>0, <4>1, <4>2
    <3>4. ASSUME NEW a \in Auths, Lookup(e, a) PROVE FALSE
      <4>1. dial' = [dial EXCEPT ![e] = [NoDial EXCEPT !.auth = a, !.seen = entries[a]]]
        BY <3>4 DEF Lookup
      <4>2. [NoDial EXCEPT !.auth = a, !.seen = entries[a]].opened = 0
        BY DEF NoDial
      <4> QED
        BY <2>0, <4>1, <4>2
    <3>5. dial'[d] # dial[d]
      BY <2>0
    <3> QED
      BY <3>1, <3>2, <3>3, <3>4, <3>5, <2>0 DEF Open
  <2>2. dial'[d].seen = made[dial[d].at] /\ dial[d].at \in dirs
    BY <2>0, <2>1 DEF Open, Dial
  <2>3. dial[d].auth # NoAuth
    BY <2>2, NoDirIsNoDir DEF DialInv, NoDial, IInv, TypeOK
  <2>4. dial[d].seen <= made[dial[d].at]
    BY <2>2, <2>3 DEF DialInv, NotOlder
  <2> QED
    BY <2>0, <2>2, <2>4, BoundsAreNat DEF IInv, TypeOK
<1> QED
  BY <1>1, <1>2, NextDialInv, Invariance, PTL DEF Spec, NoOldFiles

-----------------------------------------------------------------------------
(***************************************************************************)
(* AuthStore implements Credentials: the swap of the link serves, the      *)
(* change of the map announces, and whatever Deregister does first         *)
(* withdraws.  Every other step maps to a stutter.                         *)
(***************************************************************************)

\* The initial state maps to the one of Credentials.
LEMMA InitAbstract == Init => Abstract!Init
BY DEF Init, Abstract!Init, Served, Withdrawn

\* The steps that change neither what is served nor what is withdrawn
LEMMA SameServed ==
  ASSUME IInv, UNCHANGED <<link, entries, deleting>>,
         \A a \in Auths : link[a] \in dirs' <=> link[a] \in dirs,
         \A a \in Auths : link[a] \in dirs => made'[link[a]] = made[link[a]]
  PROVE  UNCHANGED Abstract!vars
BY DEF Abstract!vars, Served, Withdrawn

\* Every step maps to a step or a stutter.
LEMMA NextAbstract == IInv /\ [Next]_vars => [Abstract!Next]_(Abstract!vars)
<1> SUFFICES ASSUME IInv, [Next]_vars PROVE Abstract!Next \/ UNCHANGED Abstract!vars
  OBVIOUS
<1>0. /\ link \in [Auths -> Dirs \cup {NoDir}] /\ entries \in [Auths -> 0..MaxGeneration]
      /\ dirs \subseteq Dirs /\ made \in [Dirs -> 0..MaxGeneration] /\ deleting \subseteq Auths
      /\ pc # "idle" => cur \in Auths
  BY DEF IInv, TypeOK
<1> USE <1>0, NoAuthIsNoAuth, NoDirIsNoDir, BoundsAreNat
    DEF Goto, Return, Fault, Local, fsVars, callVars, NoGeneration, Generations, InTheOld,
        Registering, Withdrawing, Removed
<1>1. CASE UNCHANGED <<link, entries, deleting, dirs, made>>
  BY <1>1, SameServed
<1>2. CASE MkdirOk
  BY <1>2, MadeIsUnused, SameServed DEF MkdirOk, Unused
<1>3. CASE CleanOk
  BY <1>3, SameServed DEF CleanOk, IInv, LinkInv
<1>4. ASSUME NEW a \in Auths, Deregister(a) PROVE Abstract!Next \/ UNCHANGED Abstract!vars
  <2>1. Served' = Served /\ UNCHANGED entries
    BY <1>4 DEF Deregister, Enter, Served
  <2>2. Withdrawn' = IF entries[a] = NoGeneration THEN Withdrawn \cup {a} ELSE Withdrawn
    BY <1>4 DEF Deregister, Enter, Withdrawn
  <2>3. CASE entries[a] = NoGeneration
    BY <2>1, <2>2, <2>3 DEF Abstract!Next, Abstract!Withdraw
  <2>4. CASE entries[a] # NoGeneration
    BY <2>1, <2>2, <2>4 DEF Abstract!vars
  <2> QED
    BY <2>3, <2>4
<1>5. CASE SymlinkOk \/ RenameOk
  <2>1. UNCHANGED <<entries, deleting, dirs, made>> /\ cur \in Auths
    BY <1>5 DEF SymlinkOk, RenameOk
  <2>2. link' = [link EXCEPT ![cur] = dir] /\ dir \in dirs /\ made[dir] = gen
    BY <1>5 DEF SymlinkOk, RenameOk, IInv, LinkInv, DirInv
  <2>3. gen \in Generations /\ Served[cur] # gen /\ cur \notin Withdrawn
    BY <1>5 DEF SymlinkOk, RenameOk, IInv, CallInv, ServedInv, Announced, Replacing, Served,
                Withdrawn
  <2>4. Served' = [Served EXCEPT ![cur] = gen]
    BY <2>1, <2>2 DEF Served
  <2>5. Withdrawn' = Withdrawn
    BY <2>1 DEF Withdrawn
  <2> QED
    BY <2>1, <2>3, <2>4, <2>5 DEF Abstract!Next, Abstract!Serve
<1>6. CASE EnterEntry
  <2>1. UNCHANGED <<link, dirs, made, deleting>> /\ cur \in Auths
    BY <1>6 DEF EnterEntry
  <2>2. Served' = Served
    BY <2>1 DEF Served
  <2>3. Served[cur] = gen /\ gen # NoGeneration /\ cur \notin deleting
    BY <1>6 DEF EnterEntry, IInv, CallInv, DirInv, LinkInv, Served
  <2>4. Withdrawn' = Withdrawn /\ cur \notin Withdrawn
    BY <1>6, <2>1, <2>3 DEF EnterEntry, Withdrawn
  <2> QED
    BY <1>6, <2>1, <2>2, <2>3, <2>4 DEF EnterEntry, Abstract!Next, Abstract!Announce
<1>7. CASE LookAt
  <2>1. UNCHANGED <<link, dirs, made, deleting>> /\ cur \in deleting
    BY <1>7 DEF LookAt, IInv, CallInv
  <2>2. Served' = Served
    BY <2>1 DEF Served
  <2>3. entries' = [entries EXCEPT ![cur] = NoGeneration]
    BY <1>7, <2>1 DEF LookAt
  <2>4. Withdrawn' = Withdrawn \cup {cur}
    BY <2>1, <2>3 DEF Withdrawn
  <2> QED
    BY <2>1, <2>2, <2>3, <2>4 DEF Abstract!Next, Abstract!Withdraw
<1>8. CASE Unlink \/ Wipe
  <2>1. UNCHANGED <<entries, deleting>> /\ cur \in Withdrawn
    BY <1>8 DEF Unlink, Wipe, IInv, CallInv, Withdrawn
  <2>2. Served' = Served \/ Served' = [Served EXCEPT ![cur] = NoGeneration]
    <3>1. \A a \in Auths \ {cur} : Served'[a] = Served[a]
      BY <1>8 DEF Unlink, Wipe, IInv, LinkInv, Served
    <3>2. Served'[cur] \in {Served[cur], NoGeneration}
      BY <1>8, <2>1 DEF Unlink, Wipe, Served, Withdrawn
    <3>3. Served = [a \in Auths |-> Served[a]] /\ Served' = [a \in Auths |-> Served'[a]]
      BY DEF Served
    <3> QED
      BY <3>1, <3>2, <3>3
  <2>3. Withdrawn' = Withdrawn
    BY <2>1 DEF Withdrawn
  <2> QED
    BY <1>0, <2>1, <2>2, <2>3 DEF Abstract!Next, Abstract!Remove, Abstract!vars, Withdrawn
<1> QED
  BY <1>1, <1>2, <1>3, <1>4, <1>5, <1>6, <1>7, <1>8
     DEF vars, Next, Caller, Store, Failing, Environment, Register, Enter, UserChanges, WriteOk,
         ResolveOk, TmpLinkOk, TmpLinkExists, MkdirFails, WriteFails, CloseFails, SymlinkFails,
         ResolveFails, TmpLinkFails, RenameFails, CleanFails, GiveUp, Redial, Follow, Open, Lookup,
         Shared, AfterWrite

\* The store implements Credentials: a path serves nothing or one generation,
\* it is announced after it is served and withdrawn before it goes.
THEOREM Implements == Spec => ImplementsCredentials
<1>1. Init => Abstract!Init
  BY InitAbstract
<1> QED
  BY <1>1, NextAbstract, Invariance, PTL DEF Spec, ImplementsCredentials, Abstract!Spec

-----------------------------------------------------------------------------
(***************************************************************************)
(* What is left behind.                                                    *)
(***************************************************************************)

\* Without failures, every directory is under a path but for the one that
\* Register or Deregister is about, path.tmp is a link only before the rename,
\* and a path without an entry is one that is about to get or to lose it.
LeftInv ==
  failures = 0 =>
    /\ \A d \in Dirs : d \in dirs <=>
         \/ \E a \in Auths : link[a] = d
         \/ pc \in {"write", "symlink", "resolve", "tmpLink", "rename"} /\ d = dir
         \/ pc \in {"clean", "wipe"} /\ d = old
    /\ \A a \in Auths : tmpLink[a] # NoDir => pc = "rename" /\ a = cur
    /\ \A a \in Auths : ~Announced(a) /\ link[a] # NoDir => pc \in {"enter", "unlink"} /\ a = cur
    /\ pc = "unlink" => old = link[cur]

\* A failing call is the end of it; every other step keeps it.
LEMMA NextLeftInv == IInv /\ LeftInv /\ [Next]_vars => LeftInv'
<1> SUFFICES ASSUME IInv, LeftInv, [Next]_vars, failures' = 0 PROVE LeftInv'
  BY DEF LeftInv
<1> USE NoAuthIsNoAuth, NoDirIsNoDir, BoundsAreNat
    DEF Goto, Return, Fault, Local, fsVars, callVars, NoGeneration, Generations, InTheOld,
        Registering, Withdrawing, IInv, TypeOK, CallInv, DirInv, LinkInv, ServedInv, PathIsWhole,
        Announced, Replacing, Removed, LeftInv
<1>1. CASE \E a \in Auths : Register(a) \/ Deregister(a)
  BY <1>1 DEF Register, Deregister, Enter
<1>2. CASE MkdirOk
  BY <1>2, MadeIsUnused DEF MkdirOk, Unused
<1>3. CASE WriteOk
  BY <1>3 DEF WriteOk, AfterWrite
<1>4. CASE SymlinkOk
  BY <1>4 DEF SymlinkOk
<1>5. CASE ResolveOk
  BY <1>5 DEF ResolveOk
<1>6. CASE TmpLinkOk
  BY <1>6 DEF TmpLinkOk
<1>7. CASE TmpLinkExists
  BY <1>7 DEF TmpLinkExists
<1>8. CASE RenameOk
  BY <1>8 DEF RenameOk
<1>9. CASE CleanOk
  BY <1>9 DEF CleanOk
<1>10. CASE EnterEntry
  BY <1>10 DEF EnterEntry
<1>11. CASE LookAt
  BY <1>11 DEF LookAt, Resolved
<1>12. CASE Unlink
  BY <1>12 DEF Unlink
<1>13. CASE Wipe
  BY <1>13 DEF Wipe
<1>14. CASE Failing
  BY <1>14 DEF Failing, MkdirFails, WriteFails, CloseFails, AfterWrite, SymlinkFails, ResolveFails,
               TmpLinkFails, RenameFails, CleanFails, GiveUp
<1>15. CASE \E a \in Auths : UserChanges(a)
  BY <1>15 DEF UserChanges
<1>16. CASE Dialling
  BY <1>16, DialStep
<1>17. CASE UNCHANGED vars
  BY <1>17 DEF vars
<1> QED
  BY <1>1, <1>2, <1>3, <1>4, <1>5, <1>6, <1>7, <1>8, <1>9, <1>10, <1>11, <1>12, <1>13, <1>14,
     <1>15, <1>16, <1>17 DEF Next, Caller, Store, Environment, Dialling

\* As long as no call fails, neither a directory of old credentials nor a link
\* of a deregistered Auth is left.
THEOREM NothingLeft == Spec => []NothingIsLeft
<1>1. Init => LeftInv
  BY NoDirIsNoDir DEF Init, LeftInv, Announced, NoGeneration
<1>2. IInv /\ LeftInv => NothingIsLeft
  BY NoDirIsNoDir DEF IInv, TypeOK, LeftInv, NothingIsLeft, Announced, NoGeneration
<1> QED
  BY <1>1, <1>2, NextLeftInv, Invariance, PTL DEF Spec
=============================================================================
