-------------------------- MODULE ReconcilersProofs --------------------------
(***************************************************************************)
(* What the parts of a step of Reconcilers keep, for any sets Os of        *)
(* objects and Ps of places: the types, that a copy or the cache is the    *)
(* newest version where the model says so, and the finalizer that an old   *)
(* version shows.  The proofs about the controllers cite these lemmas for  *)
(* the parts their actions consist of.                                     *)
(***************************************************************************)
EXTENDS Reconcilers, TLAPS

\* What is present is of Os.
LEMMA PresentObject ==
  ASSUME NEW Os, NEW o \in Os \cup Missing, Present(o)
  PROVE  o \in Os
BY DEF Missing, Absent, Gone, Present

\* A step of users, and any other step that leaves the workers alone, keeps the
\* types; their copies are old ones from then on.
LEMMA OthersWriteTypes ==
  ASSUME NEW Os, NEW Ps, CoreTypeOK(Os, Ps), NEW x \in Objects, NEW o \in Os, OthersWrite(x, o)
  PROVE  CoreTypeOK(Os, Ps)'
<1>1. Stored(o) \in Os \cup Missing
  BY DEF Stored, Missing
<1> QED
  BY <1>1 DEF OthersWrite, Store, CoreTypeOK

\* The cache catches up.
LEMMA LearnTypes ==
  ASSUME NEW Os, NEW Ps, CoreTypeOK(Os, Ps), NEW x \in Objects, NEW xs \in SUBSET Objects,
         Learn(x, xs)
  PROVE  CoreTypeOK(Os, Ps)'
BY DEF Learn, workerVars, CoreTypeOK

\* The operator restarts.
LEMMA RestartTypes ==
  ASSUME NEW Os, NEW Ps, CoreTypeOK(Os, Ps), Restart
  PROVE  CoreTypeOK(Os, Ps)'
BY DEF Restart, CoreTypeOK

\* A reconcile begins.
LEMMA TakeTypes ==
  ASSUME NEW Os, NEW Ps, CoreTypeOK(Os, Ps), NEW w \in Workers, NEW x, NEW l \in Ps \ {"idle"},
         Take(w, x, l)
  PROVE  CoreTypeOK(Os, Ps)'
<1>0. x \in Objects /\ x \in Served[w]
  BY ServedAreObjects DEF Take
<1>1. CASE Present(cache[x])
  <2>1. cache[x] \in Os
    BY <1>0, <1>1, PresentObject DEF CoreTypeOK
  <2> QED
    BY <1>0, <1>1, <2>1 DEF Take, At, Local, apiVars, CoreTypeOK
<1>2. CASE ~Present(cache[x])
  BY <1>2 DEF Take, Local, apiVars, workerVars, CoreTypeOK
<1> QED
  BY <1>1, <1>2

\* It goes on.
LEMMA JumpTypes ==
  ASSUME NEW Os, NEW Ps, CoreTypeOK(Os, Ps), NEW w \in Workers, NEW l \in Ps \ {"idle"},
         pc[w] # "idle", Jump(w, l), Local
  PROVE  CoreTypeOK(Os, Ps)'
BY DEF Jump, Goto, Local, apiVars, CoreTypeOK

\* It ends, for good or to be retried, with nothing written.
LEMMA EndTypes ==
  ASSUME NEW Os, NEW Ps, CoreTypeOK(Os, Ps), NEW w \in Workers, pc[w] # "idle",
         Done(w) \/ Retry(w), Local
  PROVE  CoreTypeOK(Os, Ps)'
<1>1. cur[w] \in Objects
  BY ServedAreObjects DEF CoreTypeOK
<1> QED
  BY <1>1 DEF Done, Retry, End, Local, apiVars, CoreTypeOK

\* A write that the reconcile goes on after, of an object that it does not remove
LEMMA WriteOkTypes ==
  ASSUME NEW Os, NEW Ps, CoreTypeOK(Os, Ps), NEW w \in Workers, NEW o \in Os,
         Stored(o) = o, NEW l \in Ps \ {"idle"}, WriteOk(w, o, l)
  PROVE  CoreTypeOK(Os, Ps)'
<1>1. pc[w] # "idle" /\ cur[w] \in Served[w] /\ cur[w] \in Objects
  BY ServedAreObjects DEF WriteOk, CoreTypeOK
<1>2. ASSUME NEW v \in fresh, v # w PROVE cur[v] # cur[w]
  BY <1>1, <1>2, ServedOnce DEF CoreTypeOK
<1> QED
  BY <1>1, <1>2 DEF WriteOk, Store, CoreTypeOK

\* The last write of a reconcile
LEMMA WriteEndsTypes ==
  ASSUME NEW Os, NEW Ps, CoreTypeOK(Os, Ps), NEW w \in Workers, NEW o \in Os,
         WriteEnds(w, o), Done(w) \/ Retry(w)
  PROVE  CoreTypeOK(Os, Ps)'
<1>1. pc[w] # "idle" /\ cur[w] \in Served[w] /\ cur[w] \in Objects
  BY ServedAreObjects DEF WriteEnds, CoreTypeOK
<1>2. ASSUME NEW v \in fresh, v # w PROVE cur[v] # cur[w]
  BY <1>1, <1>2, ServedOnce DEF CoreTypeOK
<1>3. Stored(o) \in Os \cup Missing
  BY DEF Stored, Missing
<1> QED
  BY <1>1, <1>2, <1>3 DEF WriteEnds, Store, Done, Retry, End, CoreTypeOK

\* A write that fails, or of which only the reply does
LEMMA WriteFailsTypes ==
  ASSUME NEW Os, NEW Ps, CoreTypeOK(Os, Ps), NEW w \in Workers, pc[w] # "idle", NEW o \in Os,
         WriteFails(w, o)
  PROVE  CoreTypeOK(Os, Ps)'
<1>1. CASE UNCHANGED apiVars
  BY <1>1, EndTypes DEF WriteFails, Local
<1>2. CASE w \in fresh /\ Store(cur[w], o)
  BY <1>2, WriteEndsTypes DEF WriteFails, WriteEnds
<1> QED
  BY <1>1, <1>2 DEF WriteFails

\* A write of a worker is made to the version that it has read.
LEMMA WrittenObject ==
  ASSUME NEW Os, NEW Ps, CoreTypeOK(Os, Ps), NEW w \in fresh, NEW o, Store(cur[w], o),
         NEW x \in Objects, obj'[x] # obj[x]
  PROVE  /\ pc[w] # "idle" /\ x = cur[w] /\ obj[x] = loc[w] /\ loc[w] \in Os
         /\ obj'[x] = Stored(o)
BY DEF CoreTypeOK, Store

\* What is present was stored as it is.
LEMMA StoredPresent == ASSUME NEW o, Present(Stored(o)) PROVE Stored(o) = o
BY DEF Stored, Present, Gone

-----------------------------------------------------------------------------
\* What a worker may do after it has taken an object
WorkerStep(w, Os, Ps) ==
  \/ \E l \in Ps \ {"idle"} : Jump(w, l) /\ Local
  \/ (Done(w) \/ Retry(w)) /\ Local
  \/ \E o \in Os, l \in Ps \ {"idle"} : Stored(o) = o /\ WriteOk(w, o, l)
  \/ \E o \in Os : WriteEnds(w, o) /\ (Done(w) \/ Retry(w))
  \/ \E o \in Os : WriteFails(w, o)

\* ... and what happens around the workers
OtherStep(Os) ==
  \/ \E x \in Objects, o \in Os : OthersWrite(x, o)
  \/ \E x \in Objects, xs \in SUBSET Objects : Learn(x, xs)
  \/ Restart

\* All of it keeps the types.
LEMMA CoreTypes ==
  ASSUME NEW Os, NEW Ps, CoreTypeOK(Os, Ps), NEW w \in Workers,
         \/ pc[w] # "idle" /\ WorkerStep(w, Os, Ps)
         \/ \E x \in Objects, l \in Ps \ {"idle"} : Take(w, x, l)
         \/ OtherStep(Os)
         \/ UNCHANGED coreVars
  PROVE  CoreTypeOK(Os, Ps)'
<1>1. CASE pc[w] # "idle" /\ WorkerStep(w, Os, Ps)
  BY <1>1, JumpTypes, EndTypes, WriteOkTypes, WriteEndsTypes, WriteFailsTypes DEF WorkerStep
<1>2. CASE \E x \in Objects, l \in Ps \ {"idle"} : Take(w, x, l)
  BY <1>2, TakeTypes
<1>3. CASE OtherStep(Os)
  BY <1>3, OthersWriteTypes, LearnTypes, RestartTypes DEF OtherStep
<1>4. CASE UNCHANGED coreVars
  BY <1>4 DEF coreVars, apiVars, workerVars, CoreTypeOK
<1> QED
  BY <1>1, <1>2, <1>3, <1>4

-----------------------------------------------------------------------------
(***************************************************************************)
(* What an old version of an object still tells of the newest one: that    *)
(* the object was created, that its deletion has begun, and, before that,  *)
(* that its finalizer is there.  Only a worker that has seen the deletion  *)
(* removes the finalizer, and the cache never goes back.                   *)
(***************************************************************************)
Owned(x) == Present(obj[x]) /\ obj[x].finalizer
Over(o)  == o.life \in {"deleting", "gone"}

\* What version c of x still tells
Tells(c, x) ==
  /\ c # Absent => obj[x] # Absent
  /\ Over(c) => Over(obj[x])
  /\ c.life = "live" /\ c.finalizer => Owned(x)

SeenInv ==
  /\ \A x \in Objects : Tells(cache[x], x)
  /\ \A w \in Workers : pc[w] # "idle" =>
       Tells(loc[w], cur[w]) /\ (Deleting(loc[w]) => Over(cache[cur[w]]))

\* The objects of Os have a life and a finalizer.
AreObjects(Os) == \A o \in Os : Present(o) /\ o.finalizer \in BOOLEAN

\* A write of o over p that keeps what p tells
Follows(o, p) == o.life = p.life /\ (p.finalizer => o.finalizer)

\* What a worker does but for the removal of the finalizer
KeepingStep(w) ==
  \/ \E l : l # "idle" /\ Jump(w, l) /\ Local
  \/ (Done(w) \/ Retry(w)) /\ Local
  \/ \E o, l : Follows(o, loc[w]) /\ WriteOk(w, o, l)
  \/ \E o : Follows(o, loc[w]) /\ WriteEnds(w, o) /\ (Done(w) \/ Retry(w))
  \/ \E o : Follows(o, loc[w]) /\ WriteFails(w, o)

\* The removal, which may be one that fails
RemovingStep(w) ==
  \E o : /\ Deleting(loc[w]) /\ Deleting(o)
         /\ \/ WriteEnds(w, o) /\ (Done(w) \/ Retry(w))
            \/ WriteFails(w, o)

\* What others do to an object that is there
TouchingStep ==
  \E x \in Objects : \E o :
    /\ OthersWrite(x, o)
    /\ \/ obj[x] = Absent /\ Present(o) /\ ~Deleting(o) /\ ~o.finalizer
       \/ Present(obj[x]) /\ Present(o) /\ o.finalizer = obj[x].finalizer
          /\ (Deleting(obj[x]) => Deleting(o))

\* What every step does to an object
Evolves(x) == (obj[x] # Absent => obj'[x] # Absent) /\ (Over(obj[x]) => Over(obj'[x]))
Keeps(x)   == Owned(x) => Owned(x)'

\* A write of a worker
LEMMA WriteEvolves ==
  ASSUME NEW Os, NEW Ps, AreObjects(Os), CoreTypeOK(Os, Ps), NEW w \in fresh, NEW o,
         o.life = loc[w].life, Store(cur[w], o)
  PROVE  \A x \in Objects :
           /\ Evolves(x)
           /\ x # cur[w] => Keeps(x)
           /\ x = cur[w] /\ Follows(o, loc[w]) => Keeps(x) /\ Tells(o, x)'
<1>1. /\ w \in Workers /\ pc[w] # "idle" /\ cur[w] \in Objects /\ obj[cur[w]] = loc[w]
      /\ Present(loc[w]) /\ loc[w].finalizer \in BOOLEAN
  BY ServedAreObjects DEF CoreTypeOK, AreObjects
<1>2. \A x \in Objects : obj'[x] = IF x = cur[w] THEN Stored(o) ELSE obj[x]
  BY <1>1 DEF Store, CoreTypeOK
<1>3. Stored(o) # Absent /\ (Deleting(loc[w]) => Over(Stored(o)))
  BY <1>1 DEF Stored, Present, Deleting, Over, Gone, Absent
<1>4. ~Over(loc[w]) \/ Deleting(loc[w])
  BY <1>1 DEF Over, Present, Deleting
<1>5. \A x \in Objects : Evolves(x) /\ (x # cur[w] => Keeps(x))
  BY <1>1, <1>2, <1>3, <1>4 DEF Evolves, Keeps, Owned
<1>6. ASSUME NEW x \in Objects, x = cur[w], Follows(o, loc[w]) PROVE Keeps(x) /\ Tells(o, x)'
  <2>1. Present(o)
    BY <1>1, <1>6 DEF Follows, Present
  <2>2. loc[w].finalizer \/ o.life = "live" => Stored(o) = o
    BY <1>6 DEF Follows, Stored, Deleting
  <2>3. Keeps(x)
    <3>1. Owned(x) => loc[w].finalizer /\ o.finalizer
      BY <1>1, <1>6 DEF Owned, Follows
    <3>2. Owned(x) => obj'[x] = o
      BY <1>2, <1>6, <2>2, <3>1
    <3> QED
      BY <2>1, <3>1, <3>2 DEF Keeps, Owned
  <2>4. Over(o) => Over(Stored(o))
    BY DEF Over, Stored, Gone
  <2>5. o.life = "live" /\ o.finalizer => Owned(x)'
    <3>1. o.life = "live" => obj'[x] = o
      BY <1>2, <1>6, <2>2
    <3> QED
      BY <2>1, <3>1 DEF Owned
  <2> QED
    BY <1>2, <1>3, <1>6, <2>3, <2>4, <2>5 DEF Tells
<1> QED
  BY <1>5, <1>6

\* The other workers and the cache still tell what they told.
LEMMA OthersStillTell ==
  ASSUME NEW Os, NEW Ps, CoreTypeOK(Os, Ps), SeenInv, NEW w \in Workers, pc[w] # "idle",
         UNCHANGED cache,
         \A v \in Workers \ {w} : pc'[v] = pc[v] /\ cur'[v] = cur[v] /\ loc'[v] = loc[v],
         \A x \in Objects : Evolves(x) /\ (x # cur[w] \/ ~Deleting(loc[w]) => Keeps(x))
  PROVE  /\ \A x \in Objects : Tells(cache[x], x)'
         /\ \A v \in Workers \ {w} : (pc[v] # "idle" =>
              Tells(loc[v], cur[v]) /\ (Deleting(loc[v]) => Over(cache[cur[v]])))'
<1>1. cur[w] \in Objects /\ cur[w] \in Served[w]
  BY ServedAreObjects DEF CoreTypeOK
<1>2. ASSUME NEW x \in Objects PROVE Tells(cache[x], x)'
  <2>1. Keeps(x) \/ cache[x].life # "live"
    BY <1>1 DEF SeenInv, Over
  <2> QED
    BY <2>1 DEF SeenInv, Tells, Evolves, Keeps
<1>3. ASSUME NEW v \in Workers \ {w}, pc'[v] # "idle"
      PROVE  Tells(loc[v], cur[v])' /\ (Deleting(loc[v]) => Over(cache[cur[v]]))'
  <2>1. /\ cur[v] # cur[w] /\ cur[v] \in Objects /\ pc[v] # "idle" /\ cur'[v] = cur[v]
        /\ loc'[v] = loc[v]
    BY <1>1, <1>3, ServedOnce, ServedAreObjects DEF CoreTypeOK
  <2>2. Tells(loc[v], cur[v]) /\ Evolves(cur[v]) /\ Keeps(cur[v])
    BY <2>1 DEF SeenInv
  <2>3. Tells(loc[v], cur[v])'
    BY <2>1, <2>2 DEF Tells, Evolves, Keeps, Owned
  <2> QED
    BY <2>1, <2>3 DEF SeenInv
<1> QED
  BY <1>2, <1>3

\* The worker goes on, ends or writes what keeps the finalizer.
LEMMA KeepingSeen ==
  ASSUME NEW Os, NEW Ps, AreObjects(Os), CoreTypeOK(Os, Ps), SeenInv, NEW w \in Workers,
         pc[w] # "idle", KeepingStep(w)
  PROVE  SeenInv' /\ \A x \in Objects : Keeps(x)
<1>1. ASSUME Local, (\E l : l # "idle" /\ Jump(w, l)) \/ Done(w) \/ Retry(w)
      PROVE  SeenInv' /\ \A x \in Objects : Keeps(x)
  BY <1>1 DEF Jump, Goto, Done, Retry, End, Local, apiVars, SeenInv, Tells, Owned, Keeps,
     CoreTypeOK
<1>2. ASSUME NEW o, Follows(o, loc[w]), w \in fresh, Store(cur[w], o), UNCHANGED cache,
             \A v \in Workers \ {w} : pc'[v] = pc[v] /\ cur'[v] = cur[v] /\ loc'[v] = loc[v],
             pc'[w] = "idle" \/ (cur'[w] = cur[w] /\ loc'[w] = o)
      PROVE  SeenInv' /\ \A x \in Objects : Keeps(x)
  <2>1. \A x \in Objects : Evolves(x) /\ Keeps(x) /\ (x = cur[w] => Tells(o, x)')
    BY <1>2, WriteEvolves DEF Follows
  <2>0. cur[w] \in Objects
    BY ServedAreObjects DEF CoreTypeOK
  <2>2. /\ \A x \in Objects : Tells(cache[x], x)'
        /\ \A v \in Workers \ {w} : (pc[v] # "idle" =>
             Tells(loc[v], cur[v]) /\ (Deleting(loc[v]) => Over(cache[cur[v]])))'
    BY <1>2, <2>1, OthersStillTell
  <2>3. Deleting(o) => Over(cache[cur[w]])
    BY <1>2 DEF Follows, Deleting, SeenInv
  <2>4. (pc[w] # "idle" =>
           Tells(loc[w], cur[w]) /\ (Deleting(loc[w]) => Over(cache[cur[w]])))'
    BY <1>2, <2>0, <2>1, <2>3 DEF Tells, Owned
  <2> QED
    BY <2>1, <2>2, <2>4 DEF SeenInv
<1>3. ASSUME NEW o, NEW l, Follows(o, loc[w]), WriteOk(w, o, l)
      PROVE  SeenInv' /\ \A x \in Objects : Keeps(x)
  BY <1>2, <1>3 DEF WriteOk, CoreTypeOK
<1>4. ASSUME NEW o, Follows(o, loc[w]), WriteEnds(w, o), Done(w) \/ Retry(w)
      PROVE  SeenInv' /\ \A x \in Objects : Keeps(x)
  BY <1>2, <1>4 DEF WriteEnds, Done, Retry, End, CoreTypeOK
<1>5. ASSUME NEW o, Follows(o, loc[w]), WriteFails(w, o)
      PROVE  SeenInv' /\ \A x \in Objects : Keeps(x)
  BY <1>1, <1>4, <1>5 DEF WriteFails, WriteEnds, Local
<1> QED
  BY <1>1, <1>3, <1>4, <1>5 DEF KeepingStep

\* The worker removes the finalizer.
LEMMA RemovingSeen ==
  ASSUME NEW Os, NEW Ps, AreObjects(Os), CoreTypeOK(Os, Ps), SeenInv, NEW w \in Workers,
         pc[w] # "idle", RemovingStep(w)
  PROVE  SeenInv' /\ \A x \in Objects : x # cur[w] => Keeps(x)
<1>1. PICK o : /\ Deleting(loc[w]) /\ Deleting(o)
               /\ \/ WriteEnds(w, o) /\ (Done(w) \/ Retry(w))
                  \/ WriteFails(w, o)
  BY DEF RemovingStep
<1>2. CASE Local /\ Retry(w)
  BY <1>2, KeepingSeen DEF KeepingStep
<1>3. CASE w \in fresh /\ Store(cur[w], o) /\ UNCHANGED cache /\ (Done(w) \/ Retry(w))
  <2>1. \A x \in Objects : Evolves(x) /\ (x # cur[w] => Keeps(x))
    BY <1>1, <1>3, WriteEvolves DEF Deleting
  <2>2. /\ \A v \in Workers \ {w} : pc'[v] = pc[v] /\ cur'[v] = cur[v] /\ loc'[v] = loc[v]
        /\ pc'[w] = "idle"
    BY <1>3 DEF Done, Retry, End, CoreTypeOK
  <2>3. /\ \A x \in Objects : Tells(cache[x], x)'
        /\ \A v \in Workers \ {w} : (pc[v] # "idle" =>
             Tells(loc[v], cur[v]) /\ (Deleting(loc[v]) => Over(cache[cur[v]])))'
    BY <1>1, <1>3, <2>1, <2>2, OthersStillTell
  <2> QED
    BY <2>1, <2>2, <2>3 DEF SeenInv
<1> QED
  BY <1>1, <1>2, <1>3 DEF WriteEnds, WriteFails, Local

\* Others touch an object.
LEMMA TouchingSeen ==
  ASSUME NEW Os, NEW Ps, AreObjects(Os), CoreTypeOK(Os, Ps), SeenInv, TouchingStep
  PROVE  SeenInv' /\ \A x \in Objects : Keeps(x)
<1>0. PICK y \in Objects : \E o :
        /\ OthersWrite(y, o)
        /\ \/ obj[y] = Absent /\ Present(o) /\ ~Deleting(o) /\ ~o.finalizer
           \/ Present(obj[y]) /\ Present(o) /\ o.finalizer = obj[y].finalizer
              /\ (Deleting(obj[y]) => Deleting(o))
  BY DEF TouchingStep
<1>1. PICK o :
        /\ OthersWrite(y, o)
        /\ \/ obj[y] = Absent /\ Present(o) /\ ~Deleting(o) /\ ~o.finalizer
           \/ Present(obj[y]) /\ Present(o) /\ o.finalizer = obj[y].finalizer
              /\ (Deleting(obj[y]) => Deleting(o))
  BY <1>0
<1>2. \A x \in Objects : obj'[x] = IF x = y THEN Stored(o) ELSE obj[x]
  BY <1>1 DEF OthersWrite, Store, CoreTypeOK
<1>3. Stored(o) # Absent /\ (Deleting(o) => Over(Stored(o)))
  BY <1>1 DEF Stored, Present, Deleting, Over, Gone, Absent
<1>4. Evolves(y) /\ Keeps(y)
  <2>1. CASE obj[y] = Absent
    BY <1>2, <2>1 DEF Evolves, Keeps, Owned, Over, Absent, Present
  <2>2. CASE Present(obj[y])
    <3>1. Over(obj[y]) => Deleting(obj[y])
      BY <2>2 DEF Over, Present, Deleting
    <3>2. obj[y].finalizer => Stored(o) = o
      BY <1>1, <2>2 DEF Stored, Present, Absent
    <3> QED
      BY <1>1, <1>2, <1>3, <2>2, <3>1, <3>2 DEF Evolves, Keeps, Owned, Present, Absent
  <2> QED
    BY <1>1, <2>1, <2>2
<1>5. \A x \in Objects : Evolves(x) /\ Keeps(x)
  BY <1>2, <1>4 DEF Evolves, Keeps, Owned
<1>6. ASSUME NEW x \in Objects PROVE Tells(cache[x], x)'
  BY <1>1, <1>5 DEF SeenInv, OthersWrite, Tells, Evolves, Keeps, Owned
<1>7. ASSUME NEW w \in Workers, pc'[w] # "idle"
      PROVE  Tells(loc[w], cur[w])' /\ (Deleting(loc[w]) => Over(cache[cur[w]]))'
  <2>1. /\ pc[w] # "idle" /\ cur[w] \in Objects /\ cur'[w] = cur[w] /\ loc'[w] = loc[w]
        /\ cache' = cache
    BY <1>1, <1>7, ServedAreObjects DEF OthersWrite, CoreTypeOK
  <2> QED
    BY <1>5, <2>1 DEF SeenInv, Tells, Evolves, Keeps, Owned
<1> QED
  BY <1>5, <1>6, <1>7 DEF SeenInv

\* The cache learns, a reconcile begins, the operator restarts.
LEMMA ReadingSeen ==
  ASSUME NEW Os, NEW Ps, AreObjects(Os), CoreTypeOK(Os, Ps), SeenInv, NEW w \in Workers,
         \/ \E x, l : Take(w, x, l)
         \/ \E x \in Objects : \E xs : Learn(x, xs)
         \/ Restart
         \/ UNCHANGED coreVars
  PROVE  SeenInv' /\ \A x \in Objects : Keeps(x)
<1>0. ASSUME NEW x \in Objects PROVE Tells(obj[x], x)
  BY DEF Tells, Owned, Present
<1>1. CASE \E x, l : Take(w, x, l)
  <2>1. PICK x, l : Take(w, x, l)
    BY <1>1
  <2>2. x \in Objects
    BY <2>1, ServedAreObjects DEF Take
  <2>3. Deleting(cache[x]) => Over(cache[x])
    BY DEF Deleting, Over
  <2> QED
    BY <2>1, <2>2, <2>3
       DEF Take, Local, apiVars, workerVars, SeenInv, Tells, Owned, Keeps, CoreTypeOK
<1>2. CASE \E x \in Objects : \E xs : Learn(x, xs)
  <2>1. PICK x \in Objects : \E xs : Learn(x, xs)
    BY <1>2
  <2>2. \A y \in Objects : cache'[y] = IF y = x THEN obj[x] ELSE cache[y]
    BY <2>1 DEF Learn, CoreTypeOK
  <2>3. Over(cache[x]) => Over(obj[x])
    BY DEF SeenInv, Tells
  <2>4. UNCHANGED <<obj, workerVars>>
    BY <2>1 DEF Learn
  <2>5. ASSUME NEW y \in Objects PROVE Tells(cache[y], y)'
    BY <1>0, <2>2, <2>4, <2>5 DEF SeenInv, Tells, Owned
  <2>6. ASSUME NEW v \in Workers, pc'[v] # "idle"
        PROVE  Tells(loc[v], cur[v])' /\ (Deleting(loc[v]) => Over(cache[cur[v]]))'
    <3>1. pc[v] # "idle" /\ cur[v] \in Objects
      BY <2>4, <2>6, ServedAreObjects DEF workerVars, CoreTypeOK
    <3> QED
      BY <2>2, <2>3, <2>4, <3>1 DEF SeenInv, Tells, Owned, workerVars
  <2> QED
    BY <2>4, <2>5, <2>6 DEF SeenInv, Keeps, Owned
<1>3. CASE Restart
  BY <1>0, <1>3 DEF Restart, SeenInv, Tells, Owned, Keeps
<1>4. CASE UNCHANGED coreVars
  BY <1>4 DEF coreVars, apiVars, workerVars, SeenInv, Tells, Owned, Keeps
<1> QED
  BY <1>1, <1>2, <1>3, <1>4

-----------------------------------------------------------------------------
(***************************************************************************)
(* What Ownership sees of these steps: each writes at most one object,     *)
(* which it creates, holds, deletes, releases or leaves as it is.          *)
(***************************************************************************)

\* The API server removes an object that is being deleted with its finalizer.
StoredInv == \A x \in Objects : Deleting(obj[x]) => obj[x].finalizer

Unseen      == UNCHANGED <<LifeOf, Held>>
Creates(x)  == /\ obj[x].life = "absent" /\ LifeOf' = [LifeOf EXCEPT ![x] = "live"]
               /\ Held' = Held
Holds(x)    == obj[x].life = "live" /\ LifeOf' = LifeOf /\ Held' = Held \cup {x}
Deletes(x)  == /\ obj[x].life = "live" /\ Held' = Held
               /\ LifeOf' = [LifeOf EXCEPT ![x] = IF x \in Held THEN "deleting" ELSE "gone"]
Releases(x) == /\ obj[x].life = "deleting" /\ LifeOf' = [LifeOf EXCEPT ![x] = "gone"]
               /\ Held' = Held \ {x}

\* A write of one object
LEMMA StoreSeen ==
  ASSUME NEW Os, NEW Ps, AreObjects(Os), CoreTypeOK(Os, Ps), NEW x \in Objects, NEW o, Store(x, o)
  PROVE  /\ LifeOf' = [LifeOf EXCEPT ![x] = Stored(o).life]
         /\ Held' \ {x} = Held \ {x}
         /\ x \in Held <=> Present(obj[x]) /\ obj[x].finalizer
         /\ x \in Held' <=> Present(Stored(o)) /\ Stored(o).finalizer
         /\ StoredInv => StoredInv'
<1>1. \A y \in Objects : obj'[y] = IF y = x THEN Stored(o) ELSE obj[y]
  BY DEF Store, CoreTypeOK
<1>2. LifeOf' = [LifeOf EXCEPT ![x] = Stored(o).life]
  <2>1. [LifeOf EXCEPT ![x] = Stored(o).life]
        = [y \in Objects |-> IF y = x THEN Stored(o).life ELSE obj[y].life]
    BY DEF LifeOf
  <2> QED
    BY <1>1, <2>1 DEF LifeOf
<1>3. StoredInv => StoredInv'
  BY <1>1 DEF StoredInv, Stored, Deleting, Gone
<1> QED
  BY <1>1, <1>2, <1>3 DEF Held

\* A write that leaves life and finalizer alone
LEMMA StoreSame ==
  ASSUME NEW Os, NEW Ps, AreObjects(Os), CoreTypeOK(Os, Ps), StoredInv, NEW x \in Objects, NEW o,
         Store(x, o), Present(obj[x]), o.life = obj[x].life, o.finalizer <=> obj[x].finalizer
  PROVE  Unseen
<1>1. Stored(o) = o
  BY DEF StoredInv, Stored, Deleting
<1>2. Present(o)
  BY DEF Present
<1>3. LifeOf' = [LifeOf EXCEPT ![x] = LifeOf[x]] /\ (x \in Held' <=> x \in Held)
  BY <1>1, <1>2, StoreSeen DEF LifeOf
<1>4. LifeOf' = LifeOf
  BY <1>3 DEF LifeOf
<1>5. Held' \ {x} = Held \ {x}
  BY StoreSeen
<1>6. Held' = Held
  BY <1>3, <1>5
<1> QED
  BY <1>4, <1>6 DEF Unseen

\* A write of a worker to the newest version
LEMMA WriteSeen ==
  ASSUME NEW Os, NEW Ps, AreObjects(Os), CoreTypeOK(Os, Ps), StoredInv, NEW w \in fresh, NEW o,
         o.life = loc[w].life, Store(cur[w], o)
  PROVE  /\ StoredInv'
         /\ \/ Unseen \/ Holds(cur[w])
            \/ Releases(cur[w]) /\ Deleting(loc[w]) /\ ~Follows(o, loc[w])
            \/ obj[cur[w]].life = "live" /\ ~Follows(o, loc[w])
<1>1. /\ w \in Workers /\ pc[w] # "idle" /\ cur[w] \in Objects /\ obj[cur[w]] = loc[w]
      /\ Present(loc[w]) /\ loc[w].finalizer \in BOOLEAN
  BY ServedAreObjects DEF CoreTypeOK, AreObjects
<1>2. StoredInv'
  BY <1>1, StoreSeen
<1>3. CASE o.finalizer <=> loc[w].finalizer
  BY <1>1, <1>2, <1>3, StoreSame
<1>4. CASE o.finalizer /\ ~loc[w].finalizer
  <2>1. obj[cur[w]].life = "live" /\ Stored(o) = o /\ Present(o)
    BY <1>1, <1>4 DEF StoredInv, Present, Deleting, Stored
  <2>2. LifeOf' = [LifeOf EXCEPT ![cur[w]] = LifeOf[cur[w]]]
        /\ cur[w] \in Held' /\ Held' \ {cur[w]} = Held \ {cur[w]}
    BY <1>1, <1>4, <2>1, StoreSeen DEF LifeOf
  <2>3. LifeOf' = LifeOf
    BY <2>2 DEF LifeOf
  <2>4. Held' = Held \cup {cur[w]}
    BY <2>2
  <2> QED
    BY <1>2, <2>1, <2>3, <2>4 DEF Holds
<1>5. CASE ~o.finalizer /\ loc[w].finalizer
  <2>1. ~Follows(o, loc[w])
    BY <1>5 DEF Follows
  <2>2. CASE Deleting(loc[w])
    <3>1. Stored(o) = Gone /\ ~Present(Gone) /\ Gone.life = "gone"
      BY <1>5, <2>2 DEF Stored, Deleting, Gone, Present
    <3>2. /\ LifeOf' = [LifeOf EXCEPT ![cur[w]] = "gone"]
          /\ cur[w] \notin Held' /\ Held' \ {cur[w]} = Held \ {cur[w]}
      BY <1>1, <3>1, StoreSeen
    <3>3. Held' = Held \ {cur[w]}
      BY <3>2
    <3> QED
      BY <1>1, <1>2, <2>1, <2>2, <3>2, <3>3 DEF Releases, Deleting
  <2>3. CASE ~Deleting(loc[w])
    BY <1>1, <1>2, <2>1, <2>3 DEF Deleting, Present
  <2> QED
    BY <2>2, <2>3
<1> QED
  BY <1>3, <1>4, <1>5

\* A worker that does not remove the finalizer
LEMMA KeepingOwns ==
  ASSUME NEW Os, NEW Ps, AreObjects(Os), CoreTypeOK(Os, Ps), StoredInv, NEW w \in Workers,
         KeepingStep(w)
  PROVE  StoredInv' /\ (Unseen \/ Holds(cur[w]))
<1>1. CASE UNCHANGED obj
  BY <1>1 DEF Unseen, LifeOf, Held, StoredInv
<1>2. ASSUME NEW o, Follows(o, loc[w]), w \in fresh, Store(cur[w], o)
      PROVE  StoredInv' /\ (Unseen \/ Holds(cur[w]))
  <2>1. obj[cur[w]] = loc[w] /\ o.life = loc[w].life
    BY <1>2 DEF Follows, CoreTypeOK
  <2> QED
    BY <1>2, <2>1, WriteSeen
<1> QED
  BY <1>1, <1>2 DEF KeepingStep, WriteOk, WriteEnds, WriteFails, Local, apiVars

\* ... and one that may
LEMMA RemovingOwns ==
  ASSUME NEW Os, NEW Ps, AreObjects(Os), CoreTypeOK(Os, Ps), StoredInv, NEW w \in Workers,
         RemovingStep(w)
  PROVE  StoredInv' /\ (Unseen \/ Holds(cur[w]) \/ Releases(cur[w]))
<1>1. CASE UNCHANGED obj
  BY <1>1 DEF Unseen, LifeOf, Held, StoredInv
<1>2. ASSUME NEW o, Deleting(loc[w]), Deleting(o), w \in fresh, Store(cur[w], o)
      PROVE  StoredInv' /\ (Unseen \/ Holds(cur[w]) \/ Releases(cur[w]))
  <2>1. obj[cur[w]] = loc[w] /\ o.life = loc[w].life /\ obj[cur[w]].life # "live"
    BY <1>2 DEF Deleting, CoreTypeOK
  <2> QED
    BY <1>2, <2>1, WriteSeen
<1> QED
  BY <1>1, <1>2 DEF RemovingStep, WriteEnds, WriteFails, apiVars

\* What others do
LEMMA TouchingOwns ==
  ASSUME NEW Os, NEW Ps, AreObjects(Os), CoreTypeOK(Os, Ps), StoredInv, TouchingStep
  PROVE  StoredInv' /\ (Unseen \/ \E x \in Objects : Creates(x) \/ Deletes(x))
<1>1. PICK x \in Objects : \E o :
        /\ OthersWrite(x, o)
        /\ \/ obj[x] = Absent /\ Present(o) /\ ~Deleting(o) /\ ~o.finalizer
           \/ Present(obj[x]) /\ Present(o) /\ o.finalizer = obj[x].finalizer
              /\ (Deleting(obj[x]) => Deleting(o))
  BY DEF TouchingStep
<1>2. PICK o :
        /\ Store(x, o)
        /\ \/ obj[x] = Absent /\ Present(o) /\ ~Deleting(o) /\ ~o.finalizer
           \/ Present(obj[x]) /\ Present(o) /\ o.finalizer = obj[x].finalizer
              /\ (Deleting(obj[x]) => Deleting(o))
  BY <1>1 DEF OthersWrite
<1>3. StoredInv'
  BY <1>2, StoreSeen
<1>4. CASE obj[x] = Absent
  <2>1. obj[x].life = "absent" /\ ~Present(obj[x]) /\ Stored(o) = o /\ o.life = "live" /\ ~o.finalizer
    BY <1>2, <1>4 DEF Absent, Present, Deleting, Stored
  <2>2. Held' \ {x} = Held \ {x} /\ x \notin Held /\ x \notin Held'
        /\ LifeOf' = [LifeOf EXCEPT ![x] = "live"]
    BY <1>2, <2>1, StoreSeen
  <2>3. Held' = Held
    BY <2>2
  <2> QED
    BY <1>3, <2>1, <2>2, <2>3 DEF Creates
<1>5. CASE Present(obj[x]) /\ o.life = obj[x].life /\ o.finalizer = obj[x].finalizer
  BY <1>2, <1>3, <1>5, StoreSame
<1>6. CASE /\ obj[x].life = "live" /\ o.life = "deleting" /\ o.finalizer = obj[x].finalizer
  <2>1. /\ Stored(o).life = IF o.finalizer THEN "deleting" ELSE "gone"
        /\ Present(Stored(o)) /\ Stored(o).finalizer <=> o.finalizer
        /\ Present(obj[x])
    BY <1>6 DEF Stored, Deleting, Gone, Present
  <2>2. Held' \ {x} = Held \ {x} /\ (x \in Held' <=> x \in Held) /\ (x \in Held <=> o.finalizer)
        /\ LifeOf' = [LifeOf EXCEPT ![x] = Stored(o).life]
    BY <1>2, <1>6, <2>1, StoreSeen
  <2>3. Held' = Held
    BY <2>2
  <2>4. LifeOf' = [LifeOf EXCEPT ![x] = IF x \in Held THEN "deleting" ELSE "gone"]
    BY <2>1, <2>2
  <2> QED
    BY <1>3, <1>6, <2>3, <2>4 DEF Deletes
<1> QED
  BY <1>2, <1>4, <1>5, <1>6 DEF Present, Deleting, Absent

\* Reading changes nothing.
LEMMA ReadingOwns ==
  ASSUME StoredInv,
         \/ \E w \in Workers : \E x, l : Take(w, x, l)
         \/ \E x \in Objects : \E xs : Learn(x, xs)
         \/ Restart
         \/ UNCHANGED coreVars
  PROVE  StoredInv' /\ Unseen
<1>1. obj' = obj
  BY DEF Take, Learn, Restart, Local, apiVars, coreVars
<1> QED
  BY <1>1 DEF StoredInv, Unseen, LifeOf, Held

\* What is retired stays so, and its deletion has begun.
LEMMA OwnsRetired ==
  ASSUME NEW Os, NEW Ps, AreObjects(Os), CoreTypeOK(Os, Ps), SeenInv, SeenInv',
         \/ \E w \in Workers : pc[w] # "idle" /\ (KeepingStep(w) \/ RemovingStep(w))
         \/ TouchingStep
         \/ \E w \in Workers : \E x, l : Take(w, x, l)
         \/ \E x \in Objects : \E xs : Learn(x, xs)
         \/ Restart
         \/ UNCHANGED coreVars
  PROVE  /\ Retired \subseteq Retired'
         /\ \A x \in Retired' : LifeOf'[x] \in {"deleting", "gone"}
<1>1. \A x \in Objects : Tells(cache[x], x) /\ Tells(cache[x], x)'
  BY DEF SeenInv
<1>2. \A x \in Objects : cache'[x] = cache[x] \/ cache'[x] = obj[x]
  BY DEF KeepingStep, RemovingStep, TouchingStep, OthersWrite, Take, Learn, Restart, coreVars, Local,
         WriteOk, WriteEnds, WriteFails, CoreTypeOK
<1>3. ASSUME NEW w \in Workers, pc'[w] # "idle"
      PROVE  \/ pc[w] # "idle" /\ cur'[w] = cur[w] /\ loc'[w].life = loc[w].life
             \/ Present(loc'[w]) /\ loc'[w] = cache[cur'[w]]
  <2>1. CASE \E v \in Workers : pc[v] # "idle" /\ (KeepingStep(v) \/ RemovingStep(v))
    <3>1. PICK v \in Workers : pc[v] # "idle" /\ (KeepingStep(v) \/ RemovingStep(v))
      BY <2>1
    <3>2. \/ \E l : Goto(v, l)
          \/ End(v)
          \/ \E o, l : WriteOk(v, o, l) /\ o.life = loc[v].life
      BY <3>1 DEF KeepingStep, RemovingStep, Follows, Jump, Done, Retry, WriteFails
    <3>3. CASE \E l : Goto(v, l)
      BY <1>3, <3>1, <3>3 DEF Goto, CoreTypeOK
    <3>4. CASE End(v)
      BY <1>3, <3>4 DEF End, CoreTypeOK
    <3>5. CASE \E o, l : WriteOk(v, o, l) /\ o.life = loc[v].life
      <4>1. PICK o, l : WriteOk(v, o, l) /\ o.life = loc[v].life
        BY <3>5
      <4>2. /\ pc[v] # "idle" /\ cur' = cur
            /\ \A u \in Workers : /\ u # v => pc'[u] = pc[u] /\ loc'[u] = loc[u]
                                  /\ u = v => loc'[u] = o
        BY <3>1, <4>1 DEF WriteOk, CoreTypeOK
      <4>3. loc'[w].life = loc[w].life
        BY <4>1, <4>2
      <4> QED
        BY <1>3, <4>2, <4>3
    <3> QED
      BY <3>2, <3>3, <3>4, <3>5
  <2>2. CASE \E v \in Workers : \E x, l : Take(v, x, l)
    BY <1>3, <2>2 DEF Take, workerVars, CoreTypeOK
  <2>3. CASE TouchingStep \/ (\E x \in Objects : \E xs : Learn(x, xs)) \/ UNCHANGED coreVars
    BY <1>3, <2>3 DEF TouchingStep, OthersWrite, Learn, coreVars, workerVars
  <2>4. CASE Restart
    BY <1>3, <2>4 DEF Restart
  <2> QED
    BY <2>1, <2>2, <2>3, <2>4
<1>4. ASSUME NEW x \in Retired PROVE x \in Retired'
  <2>1. x \in Objects /\ Over(cache[x])
    BY DEF Retired, Over
  <2>2. Over(cache'[x])
    BY <1>1, <1>2, <2>1 DEF Tells
  <2>3. ASSUME NEW w \in Workers, pc'[w] # "idle", cur'[w] = x PROVE Deleting(loc'[w])
    BY <1>3, <2>1, <2>3 DEF Retired, Deleting, Present, Over
  <2> QED
    BY <2>1, <2>2, <2>3 DEF Retired, Over
<1>5. ASSUME NEW x \in Retired' PROVE LifeOf'[x] \in {"deleting", "gone"}
  BY <1>1 DEF Retired, LifeOf, Tells, Over
<1> QED
  BY <1>4, <1>5
=============================================================================
