-------------------------- MODULE BucketEngineProofs --------------------------
(***************************************************************************)
(* The handles of bucket_engine for any number of connections, names and   *)
(* buckets: BooksFit, and with it MutexesFit, is inductive, and a call is  *)
(* only ever in a live engine.                                             *)
(***************************************************************************)
EXTENDS BucketEngine, FiniteSetTheorems, TLAPS

-----------------------------------------------------------------------------
(* Counting *)

In(b) == IF b THEN 1 ELSE 0

\* When sets differ at most in one element, so do their cardinalities.
LEMMA OneChanges ==
    ASSUME NEW S, NEW T, NEW c, IsFiniteSet(S), T \ {c} = S \ {c}
    PROVE  /\ Cardinality(S) \in Nat /\ Cardinality(T) \in Nat
           /\ Cardinality(T) - In(c \in T) = Cardinality(S) - In(c \in S)
<1> DEFINE R == S \ {c}
<1>1. IsFiniteSet(R) /\ Cardinality(R) \in Nat
  BY FS_Difference, FS_CardinalityType
<1>2. Cardinality(S) \in Nat /\ Cardinality(R) = Cardinality(S) - In(c \in S)
  BY FS_CardinalityType, FS_RemoveElement DEF In
<1>3. CASE c \in T
  <2>1. T = R \cup {c} /\ c \notin R
    BY <1>3
  <2>2. Cardinality(T) = Cardinality(R) + 1
    BY <1>1, <2>1, FS_AddElement
  <2> QED  BY <1>1, <1>2, <1>3, <2>2 DEF In
<1>4. CASE c \notin T
  <2>1. T = R
    BY <1>4
  <2> QED  BY <1>1, <1>2, <1>4, <2>1 DEF In
<1> QED  BY <1>3, <1>4

\* The references to a handle that a connection holds.
Held(r, h) ==
    In(r.peh = h) + In(r.tmp = h) + In(r.old = h) + In(r.peh = h /\ r.reserved = 1)

\* The table's reference.
Listed(r) == In(r.state = "running")

\* A connection's call in an engine.
Calls(r, h) == In(r.at = "inside" /\ r.peh = h)

Others(c) == \A d \in Conns \ {c} : conn'[d] = conn[d]

\* A step of one connection changes only that connection's part of the references.
LEMMA RefsChange ==
    ASSUME NEW c \in Conns, Others(c), NEW h \in Handles
    PROVE  /\ Refs(h) \in Int /\ Refs(h)' \in Int
           /\ Refs(h)' - Listed(peh'[h]) - Held(conn'[c], h)
                = Refs(h) - Listed(peh[h]) - Held(conn[c], h)
<1> DEFINE P == {d \in Conns : conn[d].peh = h}
           T == {d \in Conns : conn[d].tmp = h}
           O == {d \in Conns : conn[d].old = h}
           R == {d \in Conns : conn[d].peh = h /\ conn[d].reserved = 1}
<1>1. IsFiniteSet(P) /\ IsFiniteSet(T) /\ IsFiniteSet(O) /\ IsFiniteSet(R)
  BY BucketEngineAssumption, FS_Subset
<1>2. /\ P' \ {c} = P \ {c} /\ T' \ {c} = T \ {c}
      /\ O' \ {c} = O \ {c} /\ R' \ {c} = R \ {c}
  BY DEF Others
<1>3. /\ (c \in P <=> conn[c].peh = h) /\ (c \in P' <=> conn'[c].peh = h)
      /\ (c \in T <=> conn[c].tmp = h) /\ (c \in T' <=> conn'[c].tmp = h)
      /\ (c \in O <=> conn[c].old = h) /\ (c \in O' <=> conn'[c].old = h)
      /\ (c \in R <=> conn[c].peh = h /\ conn[c].reserved = 1)
      /\ (c \in R' <=> conn'[c].peh = h /\ conn'[c].reserved = 1)
  OBVIOUS
<1> HIDE DEF P, T, O, R
<1>4. /\ Cardinality(P) \in Nat /\ Cardinality(P') \in Nat
      /\ Cardinality(P') - In(c \in P') = Cardinality(P) - In(c \in P)
  BY <1>1, <1>2, OneChanges
<1>5. /\ Cardinality(T) \in Nat /\ Cardinality(T') \in Nat
      /\ Cardinality(T') - In(c \in T') = Cardinality(T) - In(c \in T)
  BY <1>1, <1>2, OneChanges
<1>6. /\ Cardinality(O) \in Nat /\ Cardinality(O') \in Nat
      /\ Cardinality(O') - In(c \in O') = Cardinality(O) - In(c \in O)
  BY <1>1, <1>2, OneChanges
<1>7. /\ Cardinality(R) \in Nat /\ Cardinality(R') \in Nat
      /\ Cardinality(R') - In(c \in R') = Cardinality(R) - In(c \in R)
  BY <1>1, <1>2, OneChanges
<1>8. /\ Refs(h) = Listed(peh[h]) + Cardinality(P) + Cardinality(T) + Cardinality(O) + Cardinality(R)
      /\ Refs(h)' = Listed(peh'[h]) + Cardinality(P') + Cardinality(T') + Cardinality(O')
                      + Cardinality(R')
  BY DEF Refs, Listed, In, P, T, O, R
<1> QED  BY <1>3, <1>4, <1>5, <1>6, <1>7, <1>8 DEF Held, Listed, In

\* Nobody holds less than nothing, and a holder counts.
LEMMA RefsBound ==
    ASSUME NEW c \in Conns, NEW h \in Handles
    PROVE  Refs(h) \in Int /\ Refs(h) >= Listed(peh[h]) + Held(conn[c], h)
<1> DEFINE P == {d \in Conns : conn[d].peh = h}
           T == {d \in Conns : conn[d].tmp = h}
           O == {d \in Conns : conn[d].old = h}
           R == {d \in Conns : conn[d].peh = h /\ conn[d].reserved = 1}
<1>1. IsFiniteSet(P) /\ IsFiniteSet(T) /\ IsFiniteSet(O) /\ IsFiniteSet(R)
  BY BucketEngineAssumption, FS_Subset
<1>2. /\ (c \in P <=> conn[c].peh = h) /\ (c \in T <=> conn[c].tmp = h)
      /\ (c \in O <=> conn[c].old = h)
      /\ (c \in R <=> conn[c].peh = h /\ conn[c].reserved = 1)
  OBVIOUS
<1> HIDE DEF P, T, O, R
<1>3. \A S : IsFiniteSet(S) => Cardinality(S) \in Nat /\ Cardinality(S) >= In(c \in S)
  <2> SUFFICES ASSUME NEW S, IsFiniteSet(S)
               PROVE  Cardinality(S) \in Nat /\ Cardinality(S) >= In(c \in S)
    OBVIOUS
  <2>1. Cardinality(S) \in Nat /\ (Cardinality(S) = 0 <=> S = {})
    BY FS_CardinalityType, FS_EmptySet
  <2> QED  BY <2>1 DEF In
<1>4. Refs(h) = Listed(peh[h]) + Cardinality(P) + Cardinality(T) + Cardinality(O) + Cardinality(R)
  BY DEF Refs, Listed, In, P, T, O, R
<1> QED  BY <1>1, <1>2, <1>3, <1>4 DEF Held, Listed, In

\* A step of one connection changes only that connection's part of the calls.
LEMMA CallsChange ==
    ASSUME NEW c \in Conns, Others(c), NEW h \in Handles, ClientsCounted,
           peh'[h].clients \in Int, peh[h].clients \in Int,
           peh'[h].clients - Calls(conn'[c], h) = peh[h].clients - Calls(conn[c], h)
    PROVE  peh'[h].clients = Cardinality({d \in Conns : conn'[d].at = "inside" /\ conn'[d].peh = h})
<1> DEFINE S == {d \in Conns : conn[d].at = "inside" /\ conn[d].peh = h}
<1>1. IsFiniteSet(S)
  BY BucketEngineAssumption, FS_Subset
<1>2. S' \ {c} = S \ {c}
  BY DEF Others
<1>3. /\ (c \in S <=> conn[c].at = "inside" /\ conn[c].peh = h)
      /\ (c \in S' <=> conn'[c].at = "inside" /\ conn'[c].peh = h)
  OBVIOUS
<1>4. peh[h].clients = Cardinality(S)
  BY DEF ClientsCounted
<1> HIDE DEF S
<1>5. /\ Cardinality(S) \in Nat /\ Cardinality(S') \in Nat
      /\ Cardinality(S') - In(c \in S') = Cardinality(S) - In(c \in S)
  BY <1>1, <1>2, OneChanges
<1>6. peh'[h].clients = Cardinality(S')
  BY <1>3, <1>4, <1>5 DEF Calls, In
<1> QED  BY <1>6 DEF S

-----------------------------------------------------------------------------
(* What follows from the parts of the invariant *)

\* Two engines of one name are not alive at once because the table has one place for a
\* name, and a destroyed engine stays destroyed.
LEMMA EnginesApart ==
    ASSUME TypeOK, ThreadsFit, EnginesFit, TableFits
    PROVE  OneEnginePerName /\ DestroyedOnce
<1>1. \A h \in Handles : peh[h].engine \notin {"none", "destroyed"} => table[peh[h].name] = h
  BY DEF TypeOK, HandleRecords, ConnRecords, ThreadsFit, EnginesFit, TableFits, InTable
<1>2. OneEnginePerName
  BY <1>1 DEF OneEnginePerName, TypeOK, HandleRecords, ConnRecords
<1>3. DestroyedOnce
  BY DEF DestroyedOnce, EnginesFit, TypeOK, HandleRecords, ConnRecords
<1> QED  BY <1>2, <1>3

\* What a connection's step may do to a handle: count, stop it, start its thread.
Evolves(r, s) ==
    /\ s.name = r.name /\ s.engine = r.engine /\ s.destroys = r.destroys
    /\ \/ s.state = r.state /\ s.thread = r.thread
       \/ /\ r.state \in {"running", "stop_requested"}
          /\ s.state = "stop_requested" /\ s.thread = r.thread
       \/ /\ r.state \in {"running", "stop_requested"}
          /\ s.state = "stopping" /\ s.thread = "start" /\ s.clients = 0
    /\ s.clients # r.clients => r.state \in {"running", "stop_requested"}

\* Then threads, engines and table still fit.
LEMMA EnginesKept ==
    ASSUME BooksFit, TypeOK', UNCHANGED <<table, counter, shutdown>>,
           \A g \in Handles : Evolves(peh[g], peh'[g])
    PROVE  /\ ThreadsFit' /\ EnginesFit' /\ TableFits' /\ BusyCounted'
           /\ OneEnginePerName' /\ DestroyedOnce'
<1> USE DEF BooksFit
<1>1. ThreadsFit'
  BY DEF ThreadsFit, Evolves, TypeOK, HandleRecords, ConnRecords
<1>2. EnginesFit'
  <2> SUFFICES ASSUME NEW h \in Handles PROVE EnginesFit!(h)'
    BY DEF EnginesFit
  <2> QED  BY DEF ThreadsFit, EnginesFit, Evolves, TypeOK, HandleRecords, ConnRecords
<1>3. TableFits'
  BY DEF TableFits, InTable, Evolves, TypeOK, HandleRecords, ConnRecords
<1>4. BusyCounted'
  <2>1. \A g \in Handles : peh'[g].thread # peh[g].thread
                            => peh[g].thread = "none" /\ peh'[g].thread = "start"
    BY DEF ThreadsFit, Evolves, TypeOK, HandleRecords, ConnRecords
  <2>2. Busy' = Busy
    BY <2>1 DEF Busy
  <2> QED  BY <2>2 DEF BusyCounted
<1>5. OneEnginePerName' /\ DestroyedOnce'
  BY <1>1, <1>2, <1>3, EnginesApart, PTL
<1> QED  BY <1>1, <1>2, <1>3, <1>4, <1>5

Points(r) == {r.peh, r.tmp, r.old} \ {None}

\* The references that a step adds to what is counted and to what is held.
Balance(c, g) ==
    (peh'[g].ref - Listed(peh'[g]) - Held(conn'[c], g)) - (peh[g].ref - Listed(peh[g]) - Held(conn[c], g))

Quiet == {"off", "idle", "pending", "blocked", "answered"}

\* What the invariant asks of a step of one connection.
ConnStep(c) ==
    /\ Others(c) /\ ConnFits(conn'[c])
    /\ shutdown # "no" => conn'[c].at \in Quiet
    /\ \A h \in Points(conn'[c]) : h \in Points(conn[c]) \/ peh[h].state = "running"
    /\ \A g \in Handles : Evolves(peh[g], peh'[g])
    /\ harmed \subseteq harmed' /\ leaked \subseteq leaked'
    /\ \A g \in Handles \ harmed' : Balance(c, g) >= 0 /\ (g \notin leaked' => Balance(c, g) = 0)
    /\ \A g \in Handles : peh'[g].clients - Calls(conn'[c], g) = peh[g].clients - Calls(conn[c], g)

LEMMA ConnStepInv ==
    ASSUME BooksFit, TypeOK', AssertionsHold', NEW c \in Conns, ConnStep(c),
           UNCHANGED <<table, counter, shutdown>>
    PROVE  BooksFit'
<1>1. Others(c)
  BY DEF ConnStep
<1>2. ThreadsFit' /\ EnginesFit' /\ TableFits' /\ BusyCounted' /\ OneEnginePerName' /\ DestroyedOnce'
  BY EnginesKept DEF ConnStep
<1>3. RefsCounted'
  <2> SUFFICES ASSUME NEW h \in Handles, h \notin harmed'
               PROVE  Refs(h)' <= peh'[h].ref /\ (h \notin leaked' => peh'[h].ref = Refs(h)')
    BY DEF RefsCounted
  <2>1. Refs(h) <= peh[h].ref /\ (h \notin leaked' => peh[h].ref = Refs(h))
    BY DEF BooksFit, RefsCounted, ConnStep
  <2>2. Balance(c, h) >= 0 /\ (h \notin leaked' => Balance(c, h) = 0)
    BY DEF ConnStep
  <2>3. peh[h].ref \in Int /\ peh'[h].ref \in Int
    BY DEF BooksFit, TypeOK, HandleRecords, ConnRecords
  <2>4. /\ Refs(h) \in Int /\ Refs(h)' \in Int
        /\ Refs(h)' - Listed(peh'[h]) - Held(conn'[c], h)
                = Refs(h) - Listed(peh[h]) - Held(conn[c], h)
    BY <1>1, RefsChange
  <2>5. /\ Listed(peh'[h]) \in Int /\ Held(conn'[c], h) \in Int
        /\ Listed(peh[h]) \in Int /\ Held(conn[c], h) \in Int
    BY DEF Listed, Held, In
  <2> QED  BY <2>1, <2>2, <2>3, <2>4, <2>5 DEF Balance
<1>4. ClientsCounted'
  <2> SUFFICES ASSUME NEW h \in Handles
               PROVE  peh'[h].clients = Cardinality({d \in Conns : conn'[d].at = "inside" /\ conn'[d].peh = h})
    BY DEF ClientsCounted
  <2>1. peh[h].clients \in Int /\ peh'[h].clients \in Int
    BY DEF BooksFit, TypeOK, HandleRecords, ConnRecords
  <2> QED  BY <1>1, <2>1, CallsChange DEF BooksFit, ConnStep
<1>5. ConnsFit' /\ HandleOutlivesUse'
  <2>1. \A g \in Handles :
           /\ peh[g].state # "unused" => peh'[g].state # "unused"
           /\ peh'[g].state = "freed" => peh[g].state = "freed"
    BY DEF ConnStep, Evolves
  <2>2. \A d \in Conns : \A h \in Points(conn'[d]) : h \in Handles
    BY DEF Points, TypeOK, HandleRecords, ConnRecords
  <2>3. ASSUME NEW d \in Conns, NEW h \in Handles, h \in Points(conn'[d])
        PROVE  /\ peh'[h].state # "unused"
               /\ peh'[h].state = "freed" => h \in harmed' \/ shutdown' # "no"
    <3>1. h \in Points(conn[d]) \/ peh[h].state = "running"
      BY <1>1, <2>3 DEF ConnStep, Points, Others
    <3>2. /\ peh[h].state # "unused"
          /\ peh[h].state = "freed" => h \in harmed \/ shutdown # "no"
      BY <3>1 DEF BooksFit, ConnsFit, HandleOutlivesUse, Points
    <3> QED  BY <2>1, <3>2 DEF ConnStep
  <2>4. \A d \in Conns : ConnFits(conn'[d])
    BY DEF BooksFit, ConnsFit, ConnStep, Others
  <2> QED  BY <2>2, <2>3, <2>4 DEF ConnsFit, HandleOutlivesUse, Points, ConnFits
<1>6. ShutdownFits'
  BY DEF BooksFit, ShutdownFits, ConnStep, Others, Quiet
<1> QED  BY <1>2, <1>3, <1>4, <1>5, <1>6 DEF BooksFit

-----------------------------------------------------------------------------
(* The steps of a connection *)

LEMMA NoneIsNoHandle == None \notin Handles
BY DEF None, Handles

\* Whether an assertion has failed is a Boolean; a fact of its own because the provers
\* that do sets and arithmetic do not decide Booleans.
LEMMA AbortedType ==
    ASSUME BooksFit, [Next]_vars
    PROVE  aborted' \in BOOLEAN
<1>1. aborted \in BOOLEAN
  BY DEF BooksFit, TypeOK
<1>2. ASSUME NEW c \in Conns, Continue(c) PROVE aborted' \in BOOLEAN
  <2>1. CASE ReleaseOld(c) \/ ReleaseTemporary(c) \/ Refused(c)
    BY <2>1 DEF ReleaseOld, ReleaseTemporary, Refused, Release
  <2>2. CASE Disconnected(c)
    BY <1>1, <2>2 DEF Disconnected, Release
  <2>3. CASE DeleteBucket(c)
    BY <2>3 DEF DeleteBucket
  <2>4. CASE \/ Create(c) \/ SetEngineHandle(c) \/ Enter(c) \/ Leave(c) \/ Disconnect(c)
             \/ Callback(c) \/ ClosePending(c) \/ Answered(c)
    BY <1>1, <2>4 DEF Create, SetEngineHandle, Enter, Leave, Disconnect, Callback, ClosePending, Answered
  <2> QED  BY <1>2, <2>1, <2>2, <2>3, <2>4 DEF Continue
<1>3. ASSUME NEW c \in Conns, Command(c) PROVE aborted' \in BOOLEAN
  BY <1>1, <1>3 DEF Command, Connect, Call, Reserve, HangUp, Attach, CreateBucket, FindToDelete
<1>4. ASSUME NEW c \in Conns, ReleaseCookie(c) PROVE aborted' \in BOOLEAN
  BY <1>4 DEF ReleaseCookie
<1>5. ASSUME NEW h \in Handles, ShutdownThread(h) PROVE aborted' \in BOOLEAN
  BY <1>1, <1>5 DEF ShutdownThread, ThreadStarts, DestroyEngine, EngineDestroyed, Unlink, Announce,
     Notify, FreeHandle
<1>6. CASE ShutdownServer \/ DestroyAll \/ UNCHANGED vars
  BY <1>1, <1>6 DEF ShutdownServer, DestroyAll, vars
<1> QED  BY <1>2, <1>3, <1>4, <1>5, <1>6 DEF Next

\* A connection goes on with the references that it has.
LEMMA MoveInv ==
    ASSUME BooksFit, NEW c \in Conns, NEW s \in ConnRecords, conn' = [conn EXCEPT ![c] = s],
           UNCHANGED <<peh, table, counter, shutdown, aborted, harmed, leaked>>,
           \A g \in Handles : Held(s, g) = Held(conn[c], g) /\ Calls(s, g) = Calls(conn[c], g),
           Points(s) \subseteq Points(conn[c]), ConnFits(s), shutdown # "no" => s.at \in Quiet
    PROVE  BooksFit'
<1>1. conn'[c] = s /\ Others(c)
  BY DEF BooksFit, TypeOK, Others
<1>2. TypeOK' /\ AssertionsHold'
  BY DEF BooksFit, TypeOK, AssertionsHold
<1>3. \A g \in Handles : peh[g].ref \in Int /\ Listed(peh[g]) \in Int /\ Held(conn[c], g) \in Int
  BY DEF BooksFit, TypeOK, HandleRecords, Listed, Held, In
<1>4. \A g \in Handles : Balance(c, g) = 0
  BY <1>1, <1>3 DEF Balance
<1>5. \A g \in Handles : Evolves(peh[g], peh'[g])
  BY DEF Evolves
<1>6. ConnStep(c)
  BY <1>1, <1>4, <1>5 DEF ConnStep
<1> QED  BY <1>2, <1>6, ConnStepInv

\* A connection and one handle change.
LEMMA UpdateInv ==
    ASSUME BooksFit, aborted' \in BOOLEAN, AssertionsHold', NEW c \in Conns, NEW h \in Handles,
           NEW r \in HandleRecords, NEW s \in ConnRecords,
           peh' = [peh EXCEPT ![h] = r], conn' = [conn EXCEPT ![c] = s],
           UNCHANGED <<table, counter, shutdown, harmed>>,
           leaked' \in SUBSET Handles, leaked \subseteq leaked',
           ConnFits(s), shutdown # "no" => s.at \in Quiet,
           \A g \in Points(s) : g \in Points(conn[c]) \/ peh[g].state = "running",
           Evolves(peh[h], r),
           \A g \in Handles \ {h} : Held(s, g) = Held(conn[c], g) /\ Calls(s, g) = Calls(conn[c], g),
           r.ref - Listed(r) - Held(s, h) >= peh[h].ref - Listed(peh[h]) - Held(conn[c], h),
           h \notin leaked' =>
              r.ref - Listed(r) - Held(s, h) = peh[h].ref - Listed(peh[h]) - Held(conn[c], h),
           r.clients - Calls(s, h) = peh[h].clients - Calls(conn[c], h)
    PROVE  BooksFit'
<1>1. conn'[c] = s /\ Others(c) /\ peh'[h] = r /\ \A g \in Handles \ {h} : peh'[g] = peh[g]
  BY DEF BooksFit, TypeOK, Others
<1>2. TypeOK'
  BY DEF BooksFit, TypeOK
<1>3. \A g \in Handles : /\ peh[g].ref \in Int /\ Listed(peh[g]) \in Int /\ Held(conn[c], g) \in Int
                         /\ peh[g].clients \in Int /\ Calls(conn[c], g) \in Int
  BY DEF BooksFit, TypeOK, HandleRecords, Listed, Held, Calls, In
<1>4. r.ref \in Int /\ Listed(r) \in Int /\ Held(s, h) \in Int
  BY DEF HandleRecords, Listed, Held, In
<1>5. \A g \in Handles : Balance(c, g) >= 0 /\ (g \notin leaked' => Balance(c, g) = 0)
  BY <1>1, <1>3, <1>4 DEF Balance
<1>6. \A g \in Handles : Evolves(peh[g], peh'[g])
  BY <1>1 DEF Evolves
<1>7. \A g \in Handles : peh'[g].clients - Calls(conn'[c], g) = peh[g].clients - Calls(conn[c], g)
  BY <1>1, <1>3
<1>8. ConnStep(c)
  BY <1>1, <1>5, <1>6, <1>7 DEF ConnStep
<1> QED  BY <1>2, <1>8, ConnStepInv

\* release_handle_locked takes a reference and nothing that is counted elsewhere.
LEMMA DroppedFacts ==
    ASSUME NEW r \in HandleRecords
    PROVE  /\ Dropped(r) \in HandleRecords /\ Dropped(r).ref = r.ref - 1
           /\ Dropped(r).clients = r.clients /\ Listed(Dropped(r)) = Listed(r)
           /\ Evolves(r, Dropped(r))
<1> DEFINE d == [r EXCEPT !.ref = @ - 1]
<1>1. /\ d \in HandleRecords /\ d.ref = r.ref - 1 /\ d.clients = r.clients /\ d.state = r.state
      /\ d.name = r.name /\ d.engine = r.engine /\ d.destroys = r.destroys /\ d.thread = r.thread
  BY DEF HandleRecords
<1>2. Dropped(r) = Started(d)
  BY DEF Dropped
<1> HIDE DEF d
<1>3. CASE d.clients = 0 /\ d.state = "stop_requested"
  <2>1. Started(d) = [d EXCEPT !.state = "stopping", !.thread = "start"]
    BY <1>3 DEF Started
  <2>2. /\ Started(d) \in HandleRecords /\ Started(d).ref = d.ref /\ Started(d).clients = d.clients
        /\ Started(d).state = "stopping" /\ Started(d).thread = "start" /\ Started(d).name = d.name
        /\ Started(d).engine = d.engine /\ Started(d).destroys = d.destroys
    BY <1>1, <2>1 DEF HandleRecords
  <2> QED  BY <1>1, <1>2, <1>3, <2>2 DEF Evolves, Listed, In
<1>4. CASE ~(d.clients = 0 /\ d.state = "stop_requested")
  <2>1. Started(d) = d
    BY <1>4 DEF Started
  <2> QED  BY <1>1, <1>2, <2>1 DEF Evolves, Listed, In
<1> QED  BY <1>3, <1>4

\* Who holds a handle that is not harmed keeps its count above zero.
LEMMA HolderCounts ==
    ASSUME BooksFit, NEW c \in Conns, NEW h \in Handles, h \notin harmed
    PROVE  peh[h].ref \in Int /\ peh[h].ref >= Listed(peh[h]) + Held(conn[c], h)
<1>1. Refs(h) \in Int /\ Refs(h) >= Listed(peh[h]) + Held(conn[c], h)
  BY RefsBound
<1>2. Refs(h) <= peh[h].ref /\ peh[h].ref \in Int
  BY DEF BooksFit, RefsCounted, TypeOK, HandleRecords
<1>3. Listed(peh[h]) \in Int /\ Held(conn[c], h) \in Int
  BY DEF Listed, Held, In
<1> QED  BY <1>1, <1>2, <1>3

\* release_handle of what the connection has held.
LEMMA ReleaseInv ==
    ASSUME BooksFit, aborted' \in BOOLEAN, NEW c \in Conns, NEW s \in ConnRecords,
           NEW h \in Handles \cup {None}, Release(h), ~aborted,
           conn' = [conn EXCEPT ![c] = s], UNCHANGED <<table, counter, shutdown, harmed, leaked>>,
           h # None => Held(s, h) = Held(conn[c], h) - 1,
           \A g \in Handles \ {h} : Held(s, g) = Held(conn[c], g),
           \A g \in Handles : Calls(s, g) = Calls(conn[c], g),
           Points(s) \subseteq Points(conn[c]), ConnFits(s), shutdown # "no" => s.at \in Quiet
    PROVE  BooksFit'
<1>1. CASE h = None
  <2>1. peh' = peh
    BY <1>1 DEF Release
  <2>2. aborted' = aborted
    BY <1>1 DEF Release, BooksFit, TypeOK
  <2> QED  BY <1>1, <2>1, <2>2, MoveInv, NoneIsNoHandle
<1>2. CASE h # None
  <2> DEFINE r == Dropped(peh[h])
  <2>1. h \in Handles /\ peh[h] \in HandleRecords
    BY <1>2 DEF BooksFit, TypeOK
  <2>2. peh' = [peh EXCEPT ![h] = r]
    BY <1>2 DEF Release
  <2>3. /\ r \in HandleRecords /\ r.ref = peh[h].ref - 1 /\ r.clients = peh[h].clients
        /\ Listed(r) = Listed(peh[h]) /\ Evolves(peh[h], r)
    BY <2>1, DroppedFacts
  <2>4. AssertionsHold'
    <3>1. CASE h \in harmed
      BY <3>1 DEF AssertionsHold
    <3>2. CASE h \notin harmed
      <4>1. peh[h].ref \in Int /\ peh[h].ref >= Listed(peh[h]) + Held(conn[c], h)
        BY <2>1, <3>2, HolderCounts
      <4>2. Held(conn[c], h) >= 1 /\ Held(conn[c], h) \in Int
        BY <1>2 DEF Held, In
      <4>3. Listed(peh[h]) \in Nat
        BY DEF Listed, In
      <4>4. ~(peh[h].ref <= 0)
        BY <4>1, <4>2, <4>3
      <4>5. ~aborted'
        BY <4>4 DEF Release
      <4> QED  BY <4>5 DEF AssertionsHold
    <3> QED  BY <3>1, <3>2
  <2>5. peh[h].ref \in Int /\ Listed(peh[h]) \in Int /\ Held(conn[c], h) \in Int
    BY <2>1 DEF HandleRecords, Listed, Held, In
  <2>6. leaked \in SUBSET Handles
    BY DEF BooksFit, TypeOK
  <2> HIDE DEF r
  <2>7. /\ r.ref - Listed(r) - Held(s, h) = peh[h].ref - Listed(peh[h]) - Held(conn[c], h)
        /\ r.ref - Listed(r) - Held(s, h) >= peh[h].ref - Listed(peh[h]) - Held(conn[c], h)
    BY <1>2, <2>3, <2>5
  <2>8. r.clients - Calls(s, h) = peh[h].clients - Calls(conn[c], h)
    BY <2>1, <2>3
  <2>9. \A g \in Points(s) : g \in Points(conn[c]) \/ peh[g].state = "running"
    OBVIOUS
  <2> QED  BY <2>1, <2>2, <2>3, <2>4, <2>6, <2>7, <2>8, <2>9, UpdateInv
<1> QED  BY <1>1, <1>2

\* retain_handle of a running bucket.
LEMMA RetainInv ==
    ASSUME BooksFit, NEW c \in Conns, NEW s \in ConnRecords,
           NEW h \in Handles \cup {None}, Retained(h), peh' = [peh EXCEPT ![h].ref = @ + 1],
           conn' = [conn EXCEPT ![c] = s], UNCHANGED <<table, counter, shutdown, aborted, harmed, leaked>>,
           Held(s, h) = Held(conn[c], h) + 1,
           \A g \in Handles \ {h} : Held(s, g) = Held(conn[c], g),
           \A g \in Handles : Calls(s, g) = Calls(conn[c], g),
           Points(s) \subseteq Points(conn[c]) \cup {h}, ConnFits(s), shutdown # "no" => s.at \in Quiet
    PROVE  BooksFit'
<1> DEFINE r == [peh[h] EXCEPT !.ref = @ + 1]
<1>1. h \in Handles /\ peh[h] \in HandleRecords /\ peh[h].state = "running"
  BY DEF Retained, BooksFit, TypeOK
<1>2. peh' = [peh EXCEPT ![h] = r]
  BY <1>1 DEF BooksFit, TypeOK
<1>3. /\ r \in HandleRecords /\ r.ref = peh[h].ref + 1 /\ r.clients = peh[h].clients
      /\ Listed(r) = Listed(peh[h]) /\ Evolves(peh[h], r)
  BY <1>1 DEF HandleRecords, Listed, Evolves
<1>4. aborted' \in BOOLEAN /\ AssertionsHold'
  BY DEF BooksFit, TypeOK, AssertionsHold
<1>5. peh[h].ref \in Int /\ Listed(peh[h]) \in Int /\ Held(conn[c], h) \in Int
  BY <1>1 DEF HandleRecords, Listed, Held, In
<1>6. leaked \in SUBSET Handles
  BY DEF BooksFit, TypeOK
<1> HIDE DEF r
<1>7. /\ r.ref - Listed(r) - Held(s, h) = peh[h].ref - Listed(peh[h]) - Held(conn[c], h)
      /\ r.ref - Listed(r) - Held(s, h) >= peh[h].ref - Listed(peh[h]) - Held(conn[c], h)
  BY <1>3, <1>5
<1>8. r.clients - Calls(s, h) = peh[h].clients - Calls(conn[c], h)
  BY <1>1, <1>3
<1>9. \A g \in Points(s) : g \in Points(conn[c]) \/ peh[g].state = "running"
  BY <1>1
<1> QED  BY <1>1, <1>2, <1>3, <1>4, <1>6, <1>7, <1>8, <1>9, UpdateInv

\* Nobody holds a handle that create_bucket has not filled in yet.
LEMMA UnusedRefs ==
    ASSUME BooksFit, NEW h \in Handles, peh[h].state = "unused"
    PROVE  Refs(h) = 0 /\ \A c \in Conns : Held(conn[c], h) = 0
<1>1. \A c \in Conns : conn[c].peh # h /\ conn[c].tmp # h /\ conn[c].old # h
  BY NoneIsNoHandle DEF BooksFit, ConnsFit
<1>2. /\ {c \in Conns : conn[c].peh = h} = {}
      /\ {c \in Conns : conn[c].tmp = h} = {}
      /\ {c \in Conns : conn[c].old = h} = {}
      /\ {c \in Conns : conn[c].peh = h /\ conn[c].reserved = 1} = {}
  BY <1>1
<1>3. Cardinality({}) = 0
  BY FS_EmptySet
<1>4. \A c \in Conns : Held(conn[c], h) = 0
  BY <1>1 DEF Held, In
<1>5. Refs(h) = 0 + 0 + 0 + 0 + 0
  BY <1>2, <1>3 DEF Refs
<1> QED  BY <1>4, <1>5

\* create_bucket.
LEMMA CreatedInv ==
    ASSUME BooksFit, NEW c \in Conns, NEW s \in ConnRecords, NEW h \in Handles, Unused(h),
           NEW name \in Names, table[name] = None, shutdown = "no",
           peh' = Created(h, name), table' = [table EXCEPT ![name] = h],
           conn' = [conn EXCEPT ![c] = s], UNCHANGED <<counter, shutdown, aborted, harmed, leaked>>,
           Held(s, h) = 1,
           \A g \in Handles \ {h} : Held(s, g) = Held(conn[c], g),
           \A g \in Handles : Calls(s, g) = Calls(conn[c], g),
           Points(s) \subseteq Points(conn[c]) \cup {h}, ConnFits(s)
    PROVE  BooksFit'
<1> DEFINE r == peh'[h]
<1>1. /\ peh' \in [Handles -> HandleRecords] /\ \A g \in Handles \ {h} : peh'[g] = peh[g]
      /\ r.name = name /\ r.ref = 2 /\ r.state = "running" /\ r.engine = "alive"
      /\ r.clients = peh[h].clients /\ r.destroys = peh[h].destroys /\ r.thread = peh[h].thread
  <2> DEFINE q == [peh[h] EXCEPT !.name = name, !.ref = 2, !.state = "running", !.engine = "alive"]
  <2>1. peh[h] \in HandleRecords /\ peh \in [Handles -> HandleRecords]
    BY DEF BooksFit, TypeOK
  <2>2. /\ q \in HandleRecords /\ q.name = name /\ q.ref = 2 /\ q.state = "running"
        /\ q.engine = "alive" /\ q.clients = peh[h].clients /\ q.destroys = peh[h].destroys
        /\ q.thread = peh[h].thread
    <3> DEFINE x == [peh[h] EXCEPT !.name = name]
               y == [x EXCEPT !.ref = 2]
    <3>1. /\ x \in HandleRecords /\ x.name = name
          /\ x.clients = peh[h].clients /\ x.destroys = peh[h].destroys /\ x.thread = peh[h].thread
      BY <2>1 DEF HandleRecords
    <3> HIDE DEF x
    <3>2. /\ y \in HandleRecords /\ y.name = name /\ y.ref = 2
          /\ y.clients = x.clients /\ y.destroys = x.destroys /\ y.thread = x.thread
      BY <3>1 DEF HandleRecords
    <3>3. q = [y EXCEPT !.state = "running", !.engine = "alive"]
      BY DEF x
    <3> HIDE DEF y, q
    <3> QED  BY <3>1, <3>2, <3>3 DEF HandleRecords
  <2>3. peh' = [peh EXCEPT ![h] = q]
    BY <2>1 DEF Created, HandleRecords
  <2> HIDE DEF q
  <2> QED  BY <2>1, <2>2, <2>3
<1>2. conn'[c] = s /\ Others(c) /\ peh[h].state = "unused" /\ h # None
  BY NoneIsNoHandle DEF BooksFit, TypeOK, Others, Unused
<1>3. TypeOK' /\ AssertionsHold'
  BY <1>1 DEF BooksFit, TypeOK, AssertionsHold
<1> HIDE DEF r
<1>4. RefsCounted'
  <2> SUFFICES ASSUME NEW g \in Handles, g \notin harmed
               PROVE  Refs(g)' <= peh'[g].ref /\ (g \notin leaked => peh'[g].ref = Refs(g)')
    BY DEF RefsCounted
  <2>1. /\ Refs(g) \in Int /\ Refs(g)' \in Int
        /\ Refs(g)' - Listed(peh'[g]) - Held(conn'[c], g)
                = Refs(g) - Listed(peh[g]) - Held(conn[c], g)
    BY <1>2, RefsChange
  <2>2. /\ Held(conn[c], g) \in Int /\ Listed(peh[g]) \in Int /\ Listed(peh'[g]) \in Int
        /\ Held(s, g) \in Int
    BY DEF Held, Listed, In
  <2>3. CASE g = h
    <3>1. Refs(h) = 0 /\ Held(conn[c], h) = 0
      BY <1>2, UnusedRefs
    <3>2. Listed(peh[h]) = 0 /\ Listed(peh'[h]) = 1
      BY <1>1, <1>2 DEF Listed, In, r
    <3> QED  BY <1>1, <1>2, <2>1, <2>3, <3>1, <3>2 DEF r
  <2>4. CASE g # h
    <3>1. peh'[g] = peh[g] /\ Held(conn'[c], g) = Held(conn[c], g)
      BY <1>1, <1>2, <2>4
    <3>2. Refs(g) <= peh[g].ref /\ (g \notin leaked => peh[g].ref = Refs(g))
      BY DEF BooksFit, RefsCounted
    <3> QED  BY <2>1, <2>2, <3>1, <3>2
  <2> QED  BY <2>3, <2>4
<1>5. ClientsCounted'
  <2> SUFFICES ASSUME NEW g \in Handles
               PROVE  peh'[g].clients = Cardinality({d \in Conns : conn'[d].at = "inside" /\ conn'[d].peh = g})
    BY DEF ClientsCounted
  <2>1. peh'[g].clients = peh[g].clients
    BY <1>1 DEF r
  <2>2. peh[g].clients \in Int
    BY DEF BooksFit, TypeOK, HandleRecords
  <2> QED  BY <1>2, <2>1, <2>2, CallsChange DEF BooksFit
<1>6. ThreadsFit'
  BY <1>1, <1>2 DEF r, BooksFit, ThreadsFit
<1>7. EnginesFit'
  <2>1. peh[h].engine = "none" /\ peh[h].destroys = 0
    BY <1>2 DEF BooksFit, EnginesFit
  <2>2. EnginesFit!(h)'
    BY <1>1, <2>1 DEF r
  <2>3. ASSUME NEW g \in Handles, g # h PROVE EnginesFit!(g)'
    <3>1. EnginesFit!(g)
      BY DEF BooksFit, EnginesFit
    <3>2. peh'[g] = peh[g]
      BY <1>1, <2>3
    <3> QED  BY <3>1, <3>2
  <2> QED  BY <2>2, <2>3 DEF EnginesFit
<1>8. TableFits'
  <2>1. table' \in [Names -> Handles \cup {None}] /\ table \in [Names -> Handles \cup {None}]
    BY <1>3 DEF BooksFit, TypeOK
  <2>2. \A g \in Handles \ {h} : InTable(peh[g]) => table'[peh[g].name] = g
    BY <2>1, NoneIsNoHandle DEF BooksFit, TableFits, TypeOK, HandleRecords
  <2>3. \A n \in Names \ {name} : table[n] # h
    BY <1>2, NoneIsNoHandle DEF BooksFit, TableFits, InTable
  <2>4. \A n \in Names \ {name} : table'[n] # None =>
             /\ table'[n] \in Handles \ {h}
             /\ peh[table'[n]].name = n /\ InTable(peh[table'[n]])
    BY <2>1, <2>3 DEF BooksFit, TableFits
  <2>5. table'[name] = h /\ InTable(r)
    BY <1>1, <2>1 DEF InTable
  <2> QED  BY <1>1, <2>2, <2>4, <2>5 DEF r, TableFits
<1>9. BusyCounted'
  <2>1. \A g \in Handles : peh'[g].thread = peh[g].thread
    BY <1>1 DEF r
  <2>2. Busy' = Busy
    BY <2>1 DEF Busy
  <2> QED  BY <2>2 DEF BooksFit, BusyCounted
<1>10. OneEnginePerName' /\ DestroyedOnce'
  BY <1>3, <1>6, <1>7, <1>8, EnginesApart, PTL
<1>11. ConnsFit' /\ HandleOutlivesUse'
  <2>1. \A d \in Conns : ConnFits(conn'[d])
    BY <1>2 DEF BooksFit, ConnsFit, Others
  <2>2. ASSUME NEW d \in Conns, NEW g \in Points(conn'[d])
        PROVE  g \in Handles /\ (g = h \/ g \in Points(conn[d]))
    BY <1>2, <1>3, <2>2 DEF Others, TypeOK, ConnRecords, Points
  <2>3. ASSUME NEW d \in Conns, NEW g \in Points(conn'[d])
        PROVE  peh'[g].state # "unused" /\ (peh'[g].state = "freed" => g \in harmed \/ shutdown # "no")
    BY <1>1, <1>2, <2>2 DEF r, BooksFit, ConnsFit, HandleOutlivesUse, Points
  <2> QED  BY <2>1, <2>3 DEF ConnsFit, HandleOutlivesUse, Points
<1>12. ShutdownFits'
  BY DEF ShutdownFits
<1> QED  BY <1>3, <1>4, <1>5, <1>6, <1>7, <1>8, <1>9, <1>10, <1>11, <1>12 DEF BooksFit

\* What is known of a connection before its step.
LEMMA ConnBefore ==
    ASSUME BooksFit, NEW c \in Conns
    PROVE  /\ conn[c] \in ConnRecords /\ ConnFits(conn[c])
           /\ conn[c].peh \in Handles \cup {None} /\ conn[c].tmp \in Handles \cup {None}
           /\ conn[c].old \in Handles \cup {None} /\ conn[c].reserved \in {0, 1}
BY DEF BooksFit, TypeOK, ConnRecords, ConnsFit

\* A connection only gets to another place.
LEMMA GoesInv ==
    ASSUME BooksFit, NEW c \in Conns, NEW to \in Places, Move(c, to), shutdown = "no",
           UNCHANGED <<peh, table, counter, shutdown, aborted, harmed, leaked>>,
           conn[c].at # "inside", to # "inside", ConnFits([conn[c] EXCEPT !.at = to])
    PROVE  BooksFit'
<1> DEFINE s == [conn[c] EXCEPT !.at = to]
<1>1. /\ s \in ConnRecords /\ s.at = to /\ s.peh = conn[c].peh /\ s.tmp = conn[c].tmp
      /\ s.old = conn[c].old /\ s.reserved = conn[c].reserved
  BY ConnBefore DEF ConnRecords
<1>2. conn' = [conn EXCEPT ![c] = s] /\ ConnFits(s)
  BY DEF Move, BooksFit, TypeOK
<1> HIDE DEF s
<1>3. Points(s) \subseteq Points(conn[c])
  BY <1>1 DEF Points
<1>4. \A g \in Handles : Held(s, g) = Held(conn[c], g) /\ Calls(s, g) = Calls(conn[c], g)
  BY <1>1 DEF Held, Calls, In
<1> QED  BY <1>1, <1>2, <1>3, <1>4, MoveInv

LEMMA MovesInv ==
    ASSUME BooksFit, NEW c \in Conns,
           Call(c) \/ HangUp(c) \/ Callback(c) \/ ClosePending(c) \/ Answered(c)
    PROVE  BooksFit'
<1>1. conn[c] \in ConnRecords /\ ConnFits(conn[c])
  BY ConnBefore
<1> USE DEF Alive
<1>2. CASE HangUp(c)
  <2>1. ConnFits([conn[c] EXCEPT !.at = "closing"])
    BY <1>1, <1>2 DEF HangUp, ConnFits, ConnRecords
  <2> QED  BY <1>2, <2>1, GoesInv DEF HangUp, Places
<1>3. CASE Callback(c)
  <2>1. ConnFits([conn[c] EXCEPT !.at = "release"])
    BY <1>1, <1>3 DEF Callback, ConnFits, ConnRecords
  <2> QED  BY <1>3, <2>1, GoesInv DEF Callback, Places
<1>4. CASE ClosePending(c)
  <2>1. ConnFits([conn[c] EXCEPT !.at = "off"])
    BY <1>1, <1>4 DEF ClosePending, ConnFits, ConnRecords
  <2> QED  BY <1>4, <2>1, GoesInv DEF ClosePending, Places
<1>5. CASE Answered(c)
  <2>1. ConnFits([conn[c] EXCEPT !.at = "idle"])
    BY <1>1, <1>5 DEF Answered, ConnFits, ConnRecords
  <2> QED  BY <1>5, <2>1, GoesInv DEF Answered, Places
<1>6. CASE Call(c)
  <2>1. ConnFits([conn[c] EXCEPT !.at = "calling"])
    BY <1>1, <1>6 DEF Call, ConnFits, ConnRecords
  <2> QED  BY <1>6, <2>1, GoesInv DEF Call, Places
<1> QED  BY <1>2, <1>3, <1>4, <1>5, <1>6

LEMMA DisconnectInv ==
    ASSUME BooksFit, NEW c \in Conns, Disconnect(c)
    PROVE  BooksFit'
<1>1. conn[c] \in ConnRecords /\ ConnFits(conn[c])
  BY ConnBefore
<1>2. shutdown = "no" /\ conn[c].at = "closing"
  BY DEF Disconnect, Alive
<1>3. CASE ~conn[c].es \/ conn[c].peh = None
  <2> DEFINE s == [conn[c] EXCEPT !.at = "off", !.es = FALSE]
  <2>1. /\ s \in ConnRecords /\ s.at = "off" /\ ~s.es /\ s.peh = conn[c].peh /\ s.tmp = conn[c].tmp
        /\ s.old = conn[c].old /\ s.reserved = conn[c].reserved /\ s.notified = conn[c].notified
    BY <1>1 DEF ConnRecords, Places
  <2>2. conn' = [conn EXCEPT ![c] = s]
    BY <1>3 DEF Disconnect, BooksFit, TypeOK
  <2> HIDE DEF s
  <2>3. ConnFits(s)
    BY <1>1, <1>2, <1>3, <2>1 DEF ConnFits
  <2>4. Points(s) \subseteq Points(conn[c])
    BY <2>1 DEF Points
  <2>5. \A g \in Handles : Held(s, g) = Held(conn[c], g) /\ Calls(s, g) = Calls(conn[c], g)
    BY <1>2, <2>1 DEF Held, Calls, In
  <2> QED  BY <1>2, <2>1, <2>2, <2>3, <2>4, <2>5, MoveInv DEF Disconnect
<1>4. CASE ~(~conn[c].es \/ conn[c].peh = None)
  <2> DEFINE to == IF peh[conn[c].peh].state = "running" THEN "callback" ELSE "release"
  <2>1. to \in {"callback", "release"} /\ Move(c, to)
    BY <1>4 DEF Disconnect
  <2> HIDE DEF to
  <2>2. ConnFits([conn[c] EXCEPT !.at = to])
    BY <1>1, <1>2, <2>1 DEF ConnFits, ConnRecords
  <2> QED  BY <1>2, <2>1, <2>2, GoesInv DEF Disconnect, Places
<1> QED  BY <1>3, <1>4

LEMMA DisconnectedInv ==
    ASSUME BooksFit, aborted' \in BOOLEAN, NEW c \in Conns, Disconnected(c)
    PROVE  BooksFit'
<1>1. conn[c] \in ConnRecords /\ ConnFits(conn[c]) /\ conn[c].reserved \in {0, 1}
  BY ConnBefore
<1>2. shutdown = "no" /\ ~aborted /\ conn[c].at = "release"
  BY DEF Disconnected, Alive
<1>3. CASE conn[c].reserved = 0
  <2> DEFINE s == [conn[c] EXCEPT !.at = "off", !.es = FALSE, !.peh = None]
             h == conn[c].peh
  <2>1. /\ s \in ConnRecords /\ s.at = "off" /\ ~s.es /\ s.peh = None /\ s.tmp = conn[c].tmp
        /\ s.old = conn[c].old /\ s.reserved = 0 /\ s.notified = conn[c].notified
    BY <1>1, <1>3 DEF ConnRecords, Places
  <2>2. conn' = [conn EXCEPT ![c] = s] /\ Release(h)
    BY <1>3 DEF Disconnected, BooksFit, TypeOK
  <2> HIDE DEF s
  <2>3. ConnFits(s)
    BY <1>1, <1>2, <2>1 DEF ConnFits
  <2>4. Points(s) \subseteq Points(conn[c])
    BY <2>1 DEF Points
  <2>5. \A g \in Handles : Held(s, g) = Held(conn[c], g) - In(g = h) /\ Calls(s, g) = Calls(conn[c], g)
    BY <1>2, <1>3, <2>1, NoneIsNoHandle DEF Held, Calls, In
  <2>6. h # None => Held(s, h) = Held(conn[c], h) - 1
    BY <2>5, ConnBefore DEF In
  <2>7. \A g \in Handles : Held(conn[c], g) \in Int
    BY DEF Held, In
  <2>8. \A g \in Handles \ {h} : Held(s, g) = Held(conn[c], g)
    BY <2>5, <2>7 DEF In
  <2>9. h \in Handles \cup {None}
    BY ConnBefore
  <2> QED  BY <1>2, <2>1, <2>2, <2>3, <2>4, <2>5, <2>6, <2>8, <2>9, ReleaseInv DEF Disconnected
<1>4. CASE conn[c].reserved # 0
  <2> DEFINE s == [conn[c] EXCEPT !.at = "pending", !.notified = TRUE]
  <2>1. /\ s \in ConnRecords /\ s.at = "pending" /\ s.es = conn[c].es /\ s.peh = conn[c].peh
        /\ s.tmp = conn[c].tmp /\ s.old = conn[c].old /\ s.reserved = conn[c].reserved /\ s.notified
    BY <1>1 DEF ConnRecords, Places
  <2>2. conn' = [conn EXCEPT ![c] = s] /\ UNCHANGED <<peh, aborted>>
    BY <1>4 DEF Disconnected, BooksFit, TypeOK
  <2> HIDE DEF s
  <2>3. ConnFits(s)
    BY <1>1, <1>2, <1>4, <2>1 DEF ConnFits
  <2>4. Points(s) \subseteq Points(conn[c])
    BY <2>1 DEF Points
  <2>5. \A g \in Handles : Held(s, g) = Held(conn[c], g) /\ Calls(s, g) = Calls(conn[c], g)
    BY <1>2, <2>1 DEF Held, Calls, In
  <2> QED  BY <1>2, <2>1, <2>2, <2>3, <2>4, <2>5, MoveInv DEF Disconnected
<1> QED  BY <1>3, <1>4

LEMMA ReleaseOldInv ==
    ASSUME BooksFit, aborted' \in BOOLEAN, NEW c \in Conns, ReleaseOld(c)
    PROVE  BooksFit'
<1> DEFINE s == [conn[c] EXCEPT !.at = "tmp", !.old = None]
           h == conn[c].old
<1>1. conn[c] \in ConnRecords /\ ConnFits(conn[c]) /\ h \in Handles \cup {None}
  BY ConnBefore
<1>2. shutdown = "no" /\ ~aborted /\ conn[c].at = "old"
  BY DEF ReleaseOld, Alive
<1>3. /\ s \in ConnRecords /\ s.at = "tmp" /\ s.es = conn[c].es /\ s.peh = conn[c].peh
      /\ s.old = None /\ s.tmp = conn[c].tmp /\ s.reserved = conn[c].reserved
      /\ s.notified = conn[c].notified
  BY <1>1 DEF ConnRecords, Places
<1>4. conn' = [conn EXCEPT ![c] = s] /\ Release(h)
  BY DEF ReleaseOld, BooksFit, TypeOK
<1> HIDE DEF s
<1>5. ConnFits(s) /\ Points(s) \subseteq Points(conn[c])
  BY <1>1, <1>2, <1>3 DEF ConnFits, Points
<1>6. \A g \in Handles : Held(s, g) = Held(conn[c], g) - In(g = h) /\ Calls(s, g) = Calls(conn[c], g)
  BY <1>2, <1>3, NoneIsNoHandle DEF Held, Calls, In
<1>7. \A g \in Handles : Held(conn[c], g) \in Int
  BY DEF Held, In
<1>8. /\ h # None => Held(s, h) = Held(conn[c], h) - 1
      /\ \A g \in Handles \ {h} : Held(s, g) = Held(conn[c], g)
  BY <1>1, <1>6, <1>7 DEF In
<1> QED  BY <1>1, <1>2, <1>3, <1>4, <1>5, <1>6, <1>8, ReleaseInv DEF ReleaseOld

LEMMA ReleaseTemporaryInv ==
    ASSUME BooksFit, aborted' \in BOOLEAN, NEW c \in Conns, ReleaseTemporary(c)
    PROVE  BooksFit'
<1> DEFINE s == [conn[c] EXCEPT !.at = "idle", !.tmp = None]
           h == conn[c].tmp
<1>1. conn[c] \in ConnRecords /\ ConnFits(conn[c]) /\ h \in Handles \cup {None}
  BY ConnBefore
<1>2. shutdown = "no" /\ ~aborted /\ conn[c].at = "tmp"
  BY DEF ReleaseTemporary, Alive
<1>3. /\ s \in ConnRecords /\ s.at = "idle" /\ s.es = conn[c].es /\ s.peh = conn[c].peh
      /\ s.tmp = None /\ s.old = conn[c].old /\ s.reserved = conn[c].reserved
      /\ s.notified = conn[c].notified
  BY <1>1 DEF ConnRecords, Places
<1>4. conn' = [conn EXCEPT ![c] = s] /\ Release(h)
  BY DEF ReleaseTemporary, BooksFit, TypeOK
<1> HIDE DEF s
<1>5. ConnFits(s) /\ Points(s) \subseteq Points(conn[c])
  BY <1>1, <1>2, <1>3 DEF ConnFits, Points
<1>6. \A g \in Handles : Held(s, g) = Held(conn[c], g) - In(g = h) /\ Calls(s, g) = Calls(conn[c], g)
  BY <1>2, <1>3, NoneIsNoHandle DEF Held, Calls, In
<1>7. \A g \in Handles : Held(conn[c], g) \in Int
  BY DEF Held, In
<1>8. /\ h # None => Held(s, h) = Held(conn[c], h) - 1
      /\ \A g \in Handles \ {h} : Held(s, g) = Held(conn[c], g)
  BY <1>1, <1>6, <1>7 DEF In
<1> QED  BY <1>1, <1>2, <1>3, <1>4, <1>5, <1>6, <1>8, ReleaseInv DEF ReleaseTemporary

LEMMA RefusedInv ==
    ASSUME BooksFit, aborted' \in BOOLEAN, NEW c \in Conns, Refused(c)
    PROVE  BooksFit'
<1> DEFINE s == [conn[c] EXCEPT !.at = "closing", !.tmp = None]
           h == conn[c].tmp
<1>1. conn[c] \in ConnRecords /\ ConnFits(conn[c]) /\ h \in Handles \cup {None}
  BY ConnBefore
<1>2. shutdown = "no" /\ ~aborted /\ conn[c].at = "refused"
  BY DEF Refused, Alive
<1>3. /\ s \in ConnRecords /\ s.at = "closing" /\ s.es = conn[c].es /\ s.peh = conn[c].peh
      /\ s.tmp = None /\ s.old = conn[c].old /\ s.reserved = conn[c].reserved
      /\ s.notified = conn[c].notified
  BY <1>1 DEF ConnRecords, Places
<1>4. conn' = [conn EXCEPT ![c] = s] /\ Release(h)
  BY DEF Refused, BooksFit, TypeOK
<1> HIDE DEF s
<1>5. ConnFits(s) /\ Points(s) \subseteq Points(conn[c])
  BY <1>1, <1>2, <1>3 DEF ConnFits, Points
<1>6. \A g \in Handles : Held(s, g) = Held(conn[c], g) - In(g = h) /\ Calls(s, g) = Calls(conn[c], g)
  BY <1>2, <1>3, NoneIsNoHandle DEF Held, Calls, In
<1>7. \A g \in Handles : Held(conn[c], g) \in Int
  BY DEF Held, In
<1>8. /\ h # None => Held(s, h) = Held(conn[c], h) - 1
      /\ \A g \in Handles \ {h} : Held(s, g) = Held(conn[c], g)
  BY <1>1, <1>6, <1>7 DEF In
<1> QED  BY <1>1, <1>2, <1>3, <1>4, <1>5, <1>6, <1>8, ReleaseInv DEF Refused

LEMMA SetEngineHandleInv ==
    ASSUME BooksFit, NEW c \in Conns, SetEngineHandle(c)
    PROVE  BooksFit'
<1> DEFINE h == conn[c].tmp
           p == IF Retained(h) THEN h ELSE None
           to == IF conn[c].peh = None THEN "tmp" ELSE "old"
           s == [conn[c] EXCEPT !.at = to, !.old = conn[c].peh, !.peh = p]
<1>1. conn[c] \in ConnRecords /\ ConnFits(conn[c]) /\ h \in Handles \cup {None}
      /\ p \in Handles \cup {None}
  BY ConnBefore
<1>2. shutdown = "no" /\ conn[c].at = "set" /\ conn[c].reserved = 0 /\ conn[c].old = None
      /\ conn[c].es /\ to \in {"tmp", "old"} /\ (conn[c].peh # None => to = "old")
  BY ConnBefore DEF SetEngineHandle, Alive, ConnFits
<1>3. /\ s \in ConnRecords /\ s.at = to /\ s.es = conn[c].es /\ s.peh = p /\ s.tmp = h
      /\ s.old = conn[c].peh /\ s.reserved = 0 /\ s.notified = conn[c].notified
  <2> DEFINE x == [conn[c] EXCEPT !.at = to]
  <2>1. /\ x \in ConnRecords /\ x.at = to /\ x.es = conn[c].es /\ x.tmp = h
        /\ x.reserved = 0 /\ x.notified = conn[c].notified
    <3> HIDE DEF to
    <3> QED  BY <1>1, <1>2 DEF ConnRecords, Places
  <2>2. s = [x EXCEPT !.old = conn[c].peh, !.peh = p]
    <3> HIDE DEF to, p
    <3> QED  BY <1>1 DEF ConnRecords
  <2> HIDE DEF x, s, to, p
  <2> QED  BY <1>1, <2>1, <2>2 DEF ConnRecords
<1>4. conn' = [conn EXCEPT ![c] = s]
  BY DEF SetEngineHandle, BooksFit, TypeOK
<1> HIDE DEF s, to
<1>5. ConnFits(s) /\ Points(s) \subseteq Points(conn[c])
  BY <1>1, <1>2, <1>3, NoneIsNoHandle DEF ConnFits, Points
<1>6. \A g \in Handles : /\ Held(s, g) = Held(conn[c], g) + In(g = p)
                         /\ Calls(s, g) = Calls(conn[c], g) /\ Held(conn[c], g) \in Int
  BY <1>2, <1>3, NoneIsNoHandle DEF Held, Calls, In
<1>7. UNCHANGED <<table, counter, shutdown, aborted, harmed, leaked>>
  BY DEF SetEngineHandle
<1>8. CASE Retained(h)
  <2>1. p = h /\ h # None /\ h \in Handles /\ peh' = [peh EXCEPT ![h].ref = @ + 1]
    BY <1>1, <1>8 DEF SetEngineHandle, Retained
  <2>2. Held(s, h) = Held(conn[c], h) + 1 /\ \A g \in Handles \ {h} : Held(s, g) = Held(conn[c], g)
    BY <1>6, <2>1 DEF In
  <2>3. Points(s) \subseteq Points(conn[c]) \cup {h}
    BY <1>5
  <2> QED  BY <1>2, <1>3, <1>4, <1>5, <1>6, <1>8, <1>7, <2>1, <2>2, <2>3, RetainInv
<1>9. CASE ~Retained(h)
  <2>1. p = None /\ peh' = peh
    BY <1>9 DEF SetEngineHandle
  <2>2. \A g \in Handles : Held(s, g) = Held(conn[c], g)
    BY <1>6, <2>1, NoneIsNoHandle DEF In
  <2> QED  BY <1>2, <1>3, <1>4, <1>5, <1>6, <1>7, <2>1, <2>2, MoveInv
<1> QED  BY <1>8, <1>9

\* find_bucket for a connection that is about to be attached.
LEMMA LookupInv ==
    ASSUME BooksFit, NEW c \in Conns, NEW name \in Names, NEW creates, NEW k \in ConnRecords,
           Lookup(c, name, creates, k), shutdown = "no",
           UNCHANGED <<table, counter, shutdown, aborted, harmed, leaked>>,
           k.peh = conn[c].peh, k.tmp = None, conn[c].tmp = None, k.old = None, conn[c].old = None,
           k.reserved = 0, conn[c].reserved = 0, k.es, ~k.notified, conn[c].at # "inside"
    PROVE  BooksFit'
<1>1. table[name] \in Handles \cup {None}
  BY DEF BooksFit, TypeOK
<1>2. ASSUME NEW s \in ConnRecords, NEW h \in Handles \cup {None}, s.tmp = h, s.peh = k.peh, s.old = None,
             s.reserved = 0, s.es, ~s.notified, s.at = "set" \/ (s.at = "create" /\ h = None /\ s.name # None)
      PROVE  /\ ConnFits(s) /\ Points(s) \subseteq Points(conn[c]) \cup {h}
             /\ \A g \in Handles : /\ Held(s, g) = Held(conn[c], g) + In(g = h)
                                   /\ Held(conn[c], g) \in Int /\ Calls(s, g) = Calls(conn[c], g)
  <2>1. ConnFits(s) /\ Points(s) \subseteq Points(conn[c]) \cup {h}
    BY <1>2 DEF ConnFits, Points
  <2>2. \A g \in Handles : /\ Held(s, g) = Held(conn[c], g) + In(g = h)
                           /\ Held(conn[c], g) \in Int /\ Calls(s, g) = Calls(conn[c], g)
    BY <1>2, NoneIsNoHandle DEF Held, Calls, In
  <2> QED  BY <2>1, <2>2
<1>3. CASE /\ Retained(table[name]) /\ peh' = [peh EXCEPT ![table[name]].ref = @ + 1]
           /\ conn' = [conn EXCEPT ![c] = [k EXCEPT !.at = "set", !.tmp = table[name]]]
  <2> DEFINE h == table[name]
             s == [k EXCEPT !.at = "set", !.tmp = h]
  <2>1. h \in Handles
    BY <1>1, <1>3 DEF Retained
  <2>2. /\ s \in ConnRecords /\ s.tmp = h /\ s.peh = k.peh /\ s.old = None /\ s.reserved = 0
        /\ s.es /\ ~s.notified /\ s.at = "set"
    BY <2>1 DEF ConnRecords, Places
  <2>3. /\ Retained(h) /\ peh' = [peh EXCEPT ![h].ref = @ + 1] /\ conn' = [conn EXCEPT ![c] = s]
    BY <1>3
  <2> HIDE DEF s, h
  <2>4. /\ ConnFits(s) /\ Points(s) \subseteq Points(conn[c]) \cup {h}
        /\ \A g \in Handles : /\ Held(s, g) = Held(conn[c], g) + In(g = h)
                              /\ Held(conn[c], g) \in Int /\ Calls(s, g) = Calls(conn[c], g)
    BY <1>2, <2>1, <2>2
  <2>5. Held(s, h) = Held(conn[c], h) + 1 /\ \A g \in Handles \ {h} : Held(s, g) = Held(conn[c], g)
    BY <2>1, <2>4 DEF In
  <2> QED  BY <2>1, <2>2, <2>3, <2>4, <2>5, RetainInv
<1>4. CASE /\ UNCHANGED peh
           /\ conn' = [conn EXCEPT ![c] = IF creates THEN [k EXCEPT !.at = "create", !.name = name]
                                         ELSE [k EXCEPT !.at = "set"]]
  <2>1. PICK s \in {[k EXCEPT !.at = "create", !.name = name], [k EXCEPT !.at = "set"]} :
           conn' = [conn EXCEPT ![c] = s]
    BY <1>4
  <2>2. /\ s \in ConnRecords /\ s.tmp = None /\ s.peh = k.peh /\ s.old = None /\ s.reserved = 0
        /\ s.es /\ ~s.notified /\ (s.at = "set" \/ (s.at = "create" /\ s.name = name))
    BY <2>1 DEF ConnRecords, Places
  <2>3. name # None
    BY BucketEngineAssumption
  <2>4. /\ ConnFits(s) /\ Points(s) \subseteq Points(conn[c]) \cup {None}
        /\ \A g \in Handles : /\ Held(s, g) = Held(conn[c], g) + In(g = None)
                              /\ Held(conn[c], g) \in Int /\ Calls(s, g) = Calls(conn[c], g)
    BY <1>2, <2>2, <2>3
  <2>5. Points(s) \subseteq Points(conn[c]) /\ \A g \in Handles : Held(s, g) = Held(conn[c], g)
    BY <2>4, NoneIsNoHandle DEF Points, In
  <2> QED  BY <1>4, <2>1, <2>2, <2>4, <2>5, MoveInv
<1> QED  BY <1>3, <1>4 DEF Lookup

\* create_bucket after find_bucket: it takes a handle, or fails.
LEMMA CreateInv ==
    ASSUME BooksFit, NEW c \in Conns, Create(c)
    PROVE  BooksFit'
<1>1. conn[c] \in ConnRecords /\ ConnFits(conn[c]) /\ conn[c].reserved \in {0, 1}
  BY ConnBefore
<1>2. /\ shutdown = "no" /\ conn[c].at = "create" /\ conn[c].tmp = None /\ conn[c].es
      /\ conn[c].old = None /\ conn[c].reserved = 0 /\ ~conn[c].notified /\ conn[c].name \in Names
  BY <1>1 DEF Create, Alive, ConnFits, ConnRecords
<1>3. UNCHANGED <<counter, shutdown, aborted, harmed, leaked>>
  BY DEF Create
<1>4. ASSUME NEW h \in Handles \cup {None}
      PROVE  LET s == [conn[c] EXCEPT !.at = "set", !.name = None, !.tmp = h]
             IN  /\ s \in ConnRecords /\ ConnFits(s) /\ Points(s) \subseteq Points(conn[c]) \cup {h}
                 /\ \A g \in Handles : /\ Held(s, g) = Held(conn[c], g) + In(g = h)
                                       /\ Held(conn[c], g) \in Int /\ Calls(s, g) = Calls(conn[c], g)
  <2> DEFINE s == [conn[c] EXCEPT !.at = "set", !.name = None, !.tmp = h]
  <2>1. /\ s \in ConnRecords /\ s.at = "set" /\ s.es /\ s.peh = conn[c].peh /\ s.tmp = h
        /\ s.old = None /\ s.reserved = 0 /\ ~s.notified
    <3> DEFINE x == [conn[c] EXCEPT !.at = "set", !.name = None]
    <3>1. /\ x \in ConnRecords /\ x.at = "set" /\ x.es /\ x.peh = conn[c].peh
          /\ x.old = None /\ x.reserved = 0 /\ ~x.notified
      BY <1>1, <1>2 DEF ConnRecords, Places
    <3>2. s = [x EXCEPT !.tmp = h]
      BY <1>1 DEF ConnRecords
    <3> HIDE DEF x, s
    <3> QED  BY <3>1, <3>2 DEF ConnRecords
  <2> HIDE DEF s
  <2>2. ConnFits(s) /\ Points(s) \subseteq Points(conn[c]) \cup {h}
    BY <2>1 DEF ConnFits, Points
  <2>3. \A g \in Handles : /\ Held(s, g) = Held(conn[c], g) + In(g = h)
                           /\ Held(conn[c], g) \in Int /\ Calls(s, g) = Calls(conn[c], g)
    BY <1>2, <2>1, NoneIsNoHandle DEF Held, Calls, In
  <2> QED  BY <2>1, <2>2, <2>3 DEF s
<1>5. ASSUME table[conn[c].name] = None, NEW h \in Handles, Unused(h), peh' = Created(h, conn[c].name),
             table' = [table EXCEPT ![conn[c].name] = h],
             conn' = [conn EXCEPT ![c].at = "set", ![c].name = None, ![c].tmp = h]
      PROVE  BooksFit'
  <2> DEFINE s == [conn[c] EXCEPT !.at = "set", !.name = None, !.tmp = h]
  <2>1. /\ s \in ConnRecords /\ ConnFits(s) /\ Points(s) \subseteq Points(conn[c]) \cup {h}
        /\ \A g \in Handles : /\ Held(s, g) = Held(conn[c], g) + In(g = h)
                              /\ Held(conn[c], g) \in Int /\ Calls(s, g) = Calls(conn[c], g)
    BY <1>4
  <2>2. conn' = [conn EXCEPT ![c] = s]
    BY <1>5 DEF BooksFit, TypeOK
  <2> HIDE DEF s
  <2>3. Held(conn[c], h) = 0
    BY <1>5, UnusedRefs DEF Unused
  <2>4. Held(s, h) = 1 /\ \A g \in Handles \ {h} : Held(s, g) = Held(conn[c], g)
    BY <2>1, <2>3 DEF In
  <2> QED  BY <1>2, <1>3, <1>5, <2>1, <2>2, <2>4, CreatedInv
<1>6. CASE conn' = [conn EXCEPT ![c].at = "set", ![c].name = None] /\ UNCHANGED <<peh, table>>
  <2> DEFINE s == [conn[c] EXCEPT !.at = "set", !.name = None, !.tmp = None]
  <2>1. /\ s \in ConnRecords /\ ConnFits(s) /\ Points(s) \subseteq Points(conn[c]) \cup {None}
        /\ \A g \in Handles : /\ Held(s, g) = Held(conn[c], g) + In(g = None)
                              /\ Held(conn[c], g) \in Int /\ Calls(s, g) = Calls(conn[c], g)
    BY <1>4
  <2>2. s.at = "set" /\ s = [conn[c] EXCEPT !.at = "set", !.name = None]
    BY <1>1, <1>2 DEF ConnRecords
  <2>3. conn' = [conn EXCEPT ![c] = s]
    BY <1>6, <2>2 DEF BooksFit, TypeOK
  <2> HIDE DEF s
  <2>4. Points(s) \subseteq Points(conn[c]) /\ \A g \in Handles : Held(s, g) = Held(conn[c], g)
    BY <2>1, NoneIsNoHandle DEF Points, In
  <2> QED  BY <1>2, <1>3, <1>6, <2>1, <2>3, <2>4, MoveInv
<1> QED  BY <1>5, <1>6 DEF Create

LEMMA ConnectInv ==
    ASSUME BooksFit, NEW c \in Conns, Connect(c)
    PROVE  BooksFit'
<1> DEFINE k == [conn[c] EXCEPT !.es = TRUE, !.peh = None, !.notified = FALSE]
<1>1. conn[c] \in ConnRecords /\ ConnFits(conn[c]) /\ conn[c].reserved \in {0, 1}
  BY ConnBefore
<1>2. /\ shutdown = "no" /\ conn[c].at = "off" /\ conn[c].peh = None /\ conn[c].tmp = None
      /\ conn[c].old = None /\ conn[c].reserved = 0
  BY <1>1 DEF Connect, Alive, ConnFits
<1>3. /\ k \in ConnRecords /\ k.es /\ k.peh = None /\ k.tmp = None /\ k.old = None
      /\ k.reserved = 0 /\ ~k.notified
  <2> DEFINE y == [conn[c] EXCEPT !.peh = None]
  <2>1. y \in ConnRecords /\ y.peh = None /\ y.tmp = None /\ y.old = None /\ y.reserved = 0
    BY <1>1, <1>2 DEF ConnRecords
  <2>2. k = [y EXCEPT !.es = TRUE, !.notified = FALSE]
    BY <1>1 DEF ConnRecords
  <2> HIDE DEF k, y
  <2> QED  BY <2>1, <2>2 DEF ConnRecords
<1>4. Lookup(c, Default, AutoCreate, k)
  BY DEF Connect
<1> HIDE DEF k
<1> QED  BY <1>2, <1>3, <1>4, BucketEngineAssumption, LookupInv DEF Connect

LEMMA AttachInv ==
    ASSUME BooksFit, NEW c \in Conns, NEW name \in Names, NEW creates, Attach(c, name, creates)
    PROVE  BooksFit'
<1>1. conn[c] \in ConnRecords /\ ConnFits(conn[c])
  BY ConnBefore
<1>2. /\ shutdown = "no" /\ conn[c].at = "idle" /\ conn[c].tmp = None /\ conn[c].es
      /\ conn[c].old = None /\ conn[c].reserved = 0 /\ ~conn[c].notified
  BY <1>1 DEF Attach, Alive, ConnFits
<1>3. Lookup(c, name, creates, conn[c])
  BY DEF Attach
<1> QED  BY <1>1, <1>2, <1>3, LookupInv DEF Attach

LEMMA CreateBucketInv ==
    ASSUME BooksFit, NEW c \in Conns, NEW name \in Names, CreateBucket(c, name)
    PROVE  BooksFit'
<1>1. conn[c] \in ConnRecords /\ ConnFits(conn[c])
  BY ConnBefore
<1>2. /\ shutdown = "no" /\ conn[c].at = "idle" /\ conn[c].tmp = None /\ conn[c].es
      /\ conn[c].old = None /\ conn[c].reserved = 0 /\ ~conn[c].notified /\ table[name] = None
  BY <1>1 DEF CreateBucket, Alive, ConnFits
<1>3. PICK h \in Handles :
         /\ Unused(h) /\ peh' = Created(h, name) /\ table' = [table EXCEPT ![name] = h]
         /\ conn' = [conn EXCEPT ![c].at = "tmp", ![c].tmp = h]
  BY DEF CreateBucket
<1> DEFINE s == [conn[c] EXCEPT !.at = "tmp", !.tmp = h]
<1>4. /\ s \in ConnRecords /\ s.at = "tmp" /\ s.es /\ s.peh = conn[c].peh /\ s.tmp = h
      /\ s.old = None /\ s.reserved = 0 /\ ~s.notified
  BY <1>1, <1>2 DEF ConnRecords, Places
<1>5. conn' = [conn EXCEPT ![c] = s]
  BY <1>3 DEF BooksFit, TypeOK
<1> HIDE DEF s
<1>6. ConnFits(s) /\ Points(s) \subseteq Points(conn[c]) \cup {h}
  BY <1>4 DEF ConnFits, Points
<1>7. \A g \in Handles : /\ Held(s, g) = Held(conn[c], g) + In(g = h)
                         /\ Held(conn[c], g) \in Int /\ Calls(s, g) = Calls(conn[c], g)
  BY <1>2, <1>4, NoneIsNoHandle DEF Held, Calls, In
<1>8. Held(conn[c], h) = 0
  BY <1>3, UnusedRefs DEF Unused
<1>9. Held(s, h) = 1 /\ \A g \in Handles \ {h} : Held(s, g) = Held(conn[c], g)
  BY <1>7, <1>8 DEF In
<1>10. UNCHANGED <<counter, shutdown, aborted, harmed, leaked>>
  BY DEF CreateBucket
<1> QED  BY <1>2, <1>3, <1>4, <1>5, <1>6, <1>7, <1>9, <1>10, CreatedInv

LEMMA FindToDeleteInv ==
    ASSUME BooksFit, NEW c \in Conns, NEW name \in Names, FindToDelete(c, name)
    PROVE  BooksFit'
<1> DEFINE h == table[name]
           s == [conn[c] EXCEPT !.at = "delete", !.tmp = h]
<1>1. conn[c] \in ConnRecords /\ ConnFits(conn[c])
  BY ConnBefore
<1>2. /\ shutdown = "no" /\ conn[c].at = "idle" /\ conn[c].tmp = None /\ conn[c].es
      /\ conn[c].old = None /\ conn[c].reserved = 0 /\ ~conn[c].notified /\ Retained(h)
  BY <1>1 DEF FindToDelete, Alive, ConnFits
<1>3. h \in Handles /\ h # None
  BY <1>2 DEF Retained, BooksFit, TypeOK
<1>4. /\ s \in ConnRecords /\ s.at = "delete" /\ s.es /\ s.peh = conn[c].peh /\ s.tmp = h
      /\ s.old = None /\ s.reserved = 0 /\ ~s.notified
  BY <1>1, <1>2, <1>3 DEF ConnRecords, Places
<1>5. conn' = [conn EXCEPT ![c] = s] /\ peh' = [peh EXCEPT ![h].ref = @ + 1]
  BY DEF FindToDelete, BooksFit, TypeOK
<1> HIDE DEF s, h
<1>6. ConnFits(s) /\ Points(s) \subseteq Points(conn[c]) \cup {h}
  BY <1>3, <1>4 DEF ConnFits, Points
<1>7. \A g \in Handles : /\ Held(s, g) = Held(conn[c], g) + In(g = h)
                         /\ Held(conn[c], g) \in Int /\ Calls(s, g) = Calls(conn[c], g)
  BY <1>2, <1>4, NoneIsNoHandle DEF Held, Calls, In
<1>8. Held(s, h) = Held(conn[c], h) + 1 /\ \A g \in Handles \ {h} : Held(s, g) = Held(conn[c], g)
  BY <1>3, <1>7 DEF In
<1>9. UNCHANGED <<table, counter, shutdown, aborted, harmed, leaked>>
  BY DEF FindToDelete
<1> QED  BY <1>2, <1>3, <1>4, <1>5, <1>6, <1>7, <1>8, <1>9, RetainInv

-----------------------------------------------------------------------------
(* Calls, reservations and deletions *)

\* What Started, for maybe_start_engine_shutdown_LOCKED, does to a handle.
LEMMA StartedFacts ==
    ASSUME NEW r \in HandleRecords
    PROVE  /\ Started(r) \in HandleRecords /\ Started(r).ref = r.ref
           /\ Started(r).clients = r.clients /\ Listed(Started(r)) = Listed(r)
           /\ Evolves(r, Started(r)) /\ Started(r).state \in {r.state, "stopping"}
<1>1. CASE r.clients = 0 /\ r.state = "stop_requested"
  <2>1. Started(r) = [r EXCEPT !.state = "stopping", !.thread = "start"]
    BY <1>1 DEF Started
  <2>2. /\ Started(r) \in HandleRecords /\ Started(r).ref = r.ref /\ Started(r).clients = r.clients
        /\ Started(r).state = "stopping" /\ Started(r).thread = "start" /\ Started(r).name = r.name
        /\ Started(r).engine = r.engine /\ Started(r).destroys = r.destroys
    BY <2>1 DEF HandleRecords
  <2> QED  BY <1>1, <2>2 DEF Evolves, Listed, In
<1>2. CASE ~(r.clients = 0 /\ r.state = "stop_requested")
  <2>1. Started(r) = r
    BY <1>2 DEF Started
  <2> QED  BY <2>1 DEF Evolves, Listed, In
<1> QED  BY <1>1, <1>2

LEMMA ReserveInv ==
    ASSUME BooksFit, NEW c \in Conns, Reserve(c)
    PROVE  BooksFit'
<1> DEFINE h == conn[c].peh
           s == [conn[c] EXCEPT !.reserved = 1]
<1>1. conn[c] \in ConnRecords /\ ConnFits(conn[c]) /\ h \in Handles \cup {None}
  BY ConnBefore
<1>2. shutdown = "no" /\ conn[c].at = "inside" /\ conn[c].reserved = 0 /\ h # None /\ h \in Handles
  BY <1>1 DEF Reserve, Alive, ConnFits
<1>3. Retained(h) /\ peh' = [peh EXCEPT ![h].ref = @ + 1]
  BY <1>2 DEF Reserve, Retained
<1>4. /\ s \in ConnRecords /\ s.at = "inside" /\ s.es = conn[c].es /\ s.peh = h /\ s.tmp = conn[c].tmp
      /\ s.old = conn[c].old /\ s.reserved = 1 /\ s.notified = conn[c].notified
  BY <1>1, <1>2 DEF ConnRecords
<1>5. conn' = [conn EXCEPT ![c] = s]
  BY DEF Reserve, BooksFit, TypeOK
<1>6. UNCHANGED <<table, counter, shutdown, aborted, harmed, leaked>>
  BY DEF Reserve
<1> HIDE DEF s
<1>7. ConnFits(s) /\ Points(s) \subseteq Points(conn[c]) \cup {h}
  BY <1>1, <1>2, <1>4 DEF ConnFits, Points
<1>8. \A g \in Handles : /\ Held(s, g) = Held(conn[c], g) + In(g = h)
                         /\ Held(conn[c], g) \in Int /\ Calls(s, g) = Calls(conn[c], g)
  BY <1>2, <1>4 DEF Held, Calls, In
<1>9. Held(s, h) = Held(conn[c], h) + 1 /\ \A g \in Handles \ {h} : Held(s, g) = Held(conn[c], g)
  BY <1>2, <1>8 DEF In
<1> QED  BY <1>2, <1>3, <1>4, <1>5, <1>6, <1>7, <1>8, <1>9, RetainInv

LEMMA LeaveInv ==
    ASSUME BooksFit, NEW c \in Conns, Leave(c)
    PROVE  BooksFit'
<1> DEFINE h == conn[c].peh
           s == [conn[c] EXCEPT !.at = "idle"]
           d == [peh[h] EXCEPT !.clients = @ - 1]
           r == Started(d)
<1>1. conn[c] \in ConnRecords /\ ConnFits(conn[c]) /\ h \in Handles \cup {None}
  BY ConnBefore
<1>2. shutdown = "no" /\ conn[c].at = "inside" /\ h # None /\ h \in Handles
  BY <1>1 DEF Leave, Alive, ConnFits
<1>3. peh[h] \in HandleRecords /\ peh[h].clients > 0 /\ peh[h].state \in {"running", "stop_requested"}
  <2>1. peh[h].clients = Cardinality({e \in Conns : conn[e].at = "inside" /\ conn[e].peh = h})
    BY <1>2 DEF BooksFit, ClientsCounted
  <2>2. IsFiniteSet({e \in Conns : conn[e].at = "inside" /\ conn[e].peh = h})
    BY BucketEngineAssumption, FS_Subset
  <2>3. peh[h].clients # 0
    BY <1>2, <2>1, <2>2, FS_EmptySet
  <2>4. peh[h] \in HandleRecords /\ peh[h].clients \in Nat
    BY <1>2 DEF BooksFit, TypeOK, HandleRecords
  <2>5. peh[h].state \in {"running", "stop_requested"}
    BY <1>2, <2>3 DEF BooksFit, ThreadsFit
  <2> QED  BY <2>3, <2>4, <2>5
<1>4. /\ d \in HandleRecords /\ d.ref = peh[h].ref /\ d.clients = peh[h].clients - 1
      /\ d.state = peh[h].state /\ d.thread = peh[h].thread /\ d.name = peh[h].name
      /\ d.engine = peh[h].engine /\ d.destroys = peh[h].destroys
  BY <1>3 DEF HandleRecords
<1>5. peh' = [peh EXCEPT ![h] = r]
  BY DEF Leave
<1> HIDE DEF d
<1>6. /\ r \in HandleRecords /\ r.ref = d.ref /\ r.clients = d.clients /\ Listed(r) = Listed(d)
      /\ Evolves(d, r)
  BY <1>4, StartedFacts
<1> HIDE DEF r
<1>7. Evolves(peh[h], r) /\ Listed(d) = Listed(peh[h])
  BY <1>3, <1>4, <1>6 DEF Evolves, Listed
<1>8. /\ s \in ConnRecords /\ s.at = "idle" /\ s.es = conn[c].es /\ s.peh = h /\ s.tmp = conn[c].tmp
      /\ s.old = conn[c].old /\ s.reserved = conn[c].reserved /\ s.notified = conn[c].notified
  BY <1>1 DEF ConnRecords, Places
<1>9. conn' = [conn EXCEPT ![c] = s]
  BY DEF Leave, Move, BooksFit, TypeOK
<1>10. UNCHANGED <<table, counter, shutdown, aborted, harmed, leaked>>
  BY DEF Leave
<1> HIDE DEF s
<1>11. ConnFits(s) /\ \A g \in Points(s) : g \in Points(conn[c]) \/ peh[g].state = "running"
  BY <1>1, <1>2, <1>8 DEF ConnFits, Points
<1>12. \A g \in Handles : Held(s, g) = Held(conn[c], g)
  BY <1>8 DEF Held, In
<1>13. /\ \A g \in Handles \ {h} : Calls(s, g) = Calls(conn[c], g)
       /\ Calls(s, h) = 0 /\ Calls(conn[c], h) = 1
  BY <1>2, <1>8 DEF Calls, In
<1>14. aborted' \in BOOLEAN /\ AssertionsHold' /\ leaked' \in SUBSET Handles /\ leaked \subseteq leaked'
  BY <1>10 DEF BooksFit, TypeOK, AssertionsHold
<1>15. peh[h].ref \in Int /\ Listed(peh[h]) \in Int /\ Held(conn[c], h) \in Int
  BY <1>3 DEF HandleRecords, Listed, Held, In
<1>16. /\ r.ref - Listed(r) - Held(s, h) = peh[h].ref - Listed(peh[h]) - Held(conn[c], h)
       /\ r.ref - Listed(r) - Held(s, h) >= peh[h].ref - Listed(peh[h]) - Held(conn[c], h)
  BY <1>2, <1>4, <1>6, <1>7, <1>12, <1>15
<1>17. r.clients - Calls(s, h) = peh[h].clients - Calls(conn[c], h)
  BY <1>3, <1>4, <1>6, <1>13 DEF HandleRecords
<1> QED  BY <1>2, <1>5, <1>6, <1>7, <1>8, <1>9, <1>10, <1>11, <1>12, <1>13, <1>14, <1>16, <1>17, UpdateInv

LEMMA EnterInv ==
    ASSUME BooksFit, NEW c \in Conns, Enter(c)
    PROVE  BooksFit'
<1> DEFINE h == conn[c].peh
<1>1. /\ conn[c] \in ConnRecords /\ ConnFits(conn[c]) /\ h \in Handles \cup {None}
      /\ conn[c].reserved \in {0, 1}
  BY ConnBefore
<1>2. /\ shutdown = "no" /\ conn[c].at = "calling" /\ (h # None => conn[c].es)
      /\ conn[c].tmp = None /\ conn[c].old = None /\ ~conn[c].notified
  BY <1>1 DEF Enter, Alive, ConnFits
<1>3. UNCHANGED <<table, counter, shutdown, aborted, leaked>>
  BY DEF Enter
<1>4. CASE h = None /\ Move(c, "closing") /\ UNCHANGED <<peh, harmed>>
  <2>1. ConnFits([conn[c] EXCEPT !.at = "closing"])
    BY <1>1, <1>2 DEF ConnFits, ConnRecords
  <2> QED  BY <1>2, <1>3, <1>4, <2>1, GoesInv DEF Places
<1>5. CASE /\ h # None /\ peh[h].state = "running"
           /\ peh' = [peh EXCEPT ![h].clients = @ + 1] /\ Move(c, "inside") /\ UNCHANGED harmed
  <2> DEFINE s == [conn[c] EXCEPT !.at = "inside"]
             r == [peh[h] EXCEPT !.clients = @ + 1]
  <2>1. h \in Handles /\ peh[h] \in HandleRecords
    BY <1>1, <1>5 DEF BooksFit, TypeOK
  <2>2. /\ r \in HandleRecords /\ r.ref = peh[h].ref /\ r.clients = peh[h].clients + 1
        /\ Listed(r) = Listed(peh[h]) /\ Evolves(peh[h], r)
    BY <1>5, <2>1 DEF HandleRecords, Listed, Evolves
  <2>3. peh' = [peh EXCEPT ![h] = r]
    BY <1>5, <2>1 DEF BooksFit, TypeOK
  <2>4. /\ s \in ConnRecords /\ s.at = "inside" /\ s.es /\ s.peh = h /\ s.tmp = None
        /\ s.old = None /\ s.reserved = conn[c].reserved /\ ~s.notified
    BY <1>1, <1>2, <1>5 DEF ConnRecords, Places
  <2>5. conn' = [conn EXCEPT ![c] = s]
    BY <1>5 DEF Move, BooksFit, TypeOK
  <2> HIDE DEF s, r
  <2>6. ConnFits(s) /\ \A g \in Points(s) : g \in Points(conn[c]) \/ peh[g].state = "running"
    BY <1>2, <1>5, <2>4 DEF ConnFits, Points
  <2>7. \A g \in Handles : Held(s, g) = Held(conn[c], g)
    BY <1>2, <2>4 DEF Held, In
  <2>8. /\ \A g \in Handles \ {h} : Calls(s, g) = Calls(conn[c], g)
        /\ Calls(s, h) = 1 /\ Calls(conn[c], h) = 0
    BY <1>2, <2>4 DEF Calls, In
  <2>9. aborted' \in BOOLEAN /\ AssertionsHold' /\ leaked' \in SUBSET Handles /\ leaked \subseteq leaked'
    BY <1>3, <1>5 DEF BooksFit, TypeOK, AssertionsHold
  <2>10. peh[h].ref \in Int /\ Listed(peh[h]) \in Int /\ Held(conn[c], h) \in Int /\ peh[h].clients \in Nat
    BY <2>1 DEF HandleRecords, Listed, Held, In
  <2>11. /\ r.ref - Listed(r) - Held(s, h) = peh[h].ref - Listed(peh[h]) - Held(conn[c], h)
         /\ r.ref - Listed(r) - Held(s, h) >= peh[h].ref - Listed(peh[h]) - Held(conn[c], h)
    BY <2>1, <2>2, <2>7, <2>10
  <2>12. r.clients - Calls(s, h) = peh[h].clients - Calls(conn[c], h)
    BY <2>2, <2>8, <2>10
  <2>13. UNCHANGED <<table, counter, shutdown, harmed>>
    BY <1>3, <1>5
  <2> QED  BY <1>2, <2>1, <2>2, <2>3, <2>4, <2>5, <2>6, <2>7, <2>8, <2>9, <2>11, <2>12, <2>13, UpdateInv
<1>6. CASE /\ h # None /\ conn[c].reserved = 0
           /\ conn' = [conn EXCEPT ![c].at = "refused", ![c].tmp = h, ![c].es = FALSE, ![c].peh = None]
           /\ UNCHANGED <<peh, harmed>>
  <2> DEFINE s == [conn[c] EXCEPT !.at = "refused", !.tmp = h, !.es = FALSE, !.peh = None]
  <2>1. /\ s \in ConnRecords /\ s.at = "refused" /\ ~s.es /\ s.peh = None /\ s.tmp = h
        /\ s.old = None /\ s.reserved = 0 /\ ~s.notified
    <3> DEFINE x == [conn[c] EXCEPT !.at = "refused", !.es = FALSE]
    <3>1. /\ x \in ConnRecords /\ x.at = "refused" /\ ~x.es /\ x.old = None /\ x.reserved = 0
          /\ ~x.notified
      BY <1>1, <1>2, <1>6 DEF ConnRecords, Places
    <3> HIDE DEF x
    <3>2. s = [x EXCEPT !.tmp = h, !.peh = None]
      BY <1>1 DEF x, ConnRecords
    <3> HIDE DEF s
    <3> QED  BY <1>1, <3>1, <3>2 DEF ConnRecords
  <2>2. conn' = [conn EXCEPT ![c] = s]
    BY <1>6 DEF BooksFit, TypeOK
  <2> HIDE DEF s
  <2>3. ConnFits(s) /\ Points(s) \subseteq Points(conn[c])
    BY <1>2, <1>6, <2>1 DEF ConnFits, Points
  <2>4. \A g \in Handles : Held(s, g) = Held(conn[c], g) /\ Calls(s, g) = Calls(conn[c], g)
    BY <1>2, <1>6, <2>1, NoneIsNoHandle DEF Held, Calls, In
  <2>5. UNCHANGED <<peh, table, counter, shutdown, aborted, harmed, leaked>>
    BY <1>3, <1>6
  <2> QED  BY <1>2, <2>1, <2>2, <2>3, <2>4, <2>5, MoveInv
<1>7. CASE /\ h # None /\ conn[c].reserved # 0
           /\ conn' = [conn EXCEPT ![c].at = "refused", ![c].tmp = h]
           /\ harmed' = harmed \cup {h} /\ UNCHANGED peh
  <2> DEFINE s == [conn[c] EXCEPT !.at = "refused", !.tmp = h]
  <2>1. /\ s \in ConnRecords /\ s.at = "refused" /\ s.es /\ s.peh = h /\ s.tmp = h
        /\ s.old = None /\ s.reserved = 1 /\ ~s.notified
    BY <1>1, <1>2, <1>7 DEF ConnRecords, Places
  <2>2. conn' = [conn EXCEPT ![c] = s]
    BY <1>7 DEF BooksFit, TypeOK
  <2> HIDE DEF s
  <2>3. conn'[c] = s /\ Others(c) /\ h \in Handles
    BY <1>1, <1>7, <2>2 DEF BooksFit, TypeOK, Others
  <2>4. TypeOK' /\ AssertionsHold'
    BY <1>3, <1>7, <2>1, <2>2, <2>3 DEF BooksFit, TypeOK, AssertionsHold
  <2>5. ConnFits(s) /\ Points(s) \subseteq Points(conn[c])
    BY <1>7, <2>1 DEF ConnFits, Points
  <2>6. \A g \in Handles : /\ g # h => Held(s, g) = Held(conn[c], g)
                           /\ Calls(s, g) = Calls(conn[c], g)
    BY <1>2, <1>7, <2>1, NoneIsNoHandle DEF Held, Calls, In
  <2>7. \A g \in Handles : peh[g].ref \in Int /\ Listed(peh[g]) \in Int /\ Held(conn[c], g) \in Int
    BY DEF BooksFit, TypeOK, HandleRecords, Listed, Held, In
  <2>8. \A g \in Handles \ harmed' : Balance(c, g) = 0
    BY <1>7, <2>3, <2>6, <2>7 DEF Balance
  <2>9. \A g \in Handles : Evolves(peh[g], peh'[g])
    BY <1>7 DEF Evolves
  <2>10. \A g \in Handles \ harmed' : Balance(c, g) >= 0 /\ (g \notin leaked' => Balance(c, g) = 0)
    BY <2>8
  <2>11. \A g \in Handles : peh'[g].clients - Calls(conn'[c], g) = peh[g].clients - Calls(conn[c], g)
    BY <1>7, <2>3, <2>6
  <2>12. \A g \in Points(conn'[c]) : g \in Points(conn[c]) \/ peh[g].state = "running"
    BY <2>3, <2>5
  <2>13. harmed \subseteq harmed' /\ leaked \subseteq leaked'
    BY <1>3, <1>7
  <2>14. ConnStep(c)
    BY <1>2, <2>3, <2>5, <2>9, <2>10, <2>11, <2>12, <2>13 DEF ConnStep
  <2> QED  BY <1>3, <2>4, <2>14, ConnStepInv
<1> QED  BY <1>4, <1>5, <1>6, <1>7 DEF Enter

LEMMA ReleaseCookieInv ==
    ASSUME BooksFit, aborted' \in BOOLEAN, NEW c \in Conns, ReleaseCookie(c)
    PROVE  BooksFit'
<1> DEFINE h == conn[c].peh
           last == conn[c].notified
           left == peh[h].ref - (IF last THEN 1 ELSE 0)
           d == [peh[h] EXCEPT !.ref = left - 1]
           r == IF left = 1 THEN Started(d) ELSE d
           s == IF last THEN [conn[c] EXCEPT !.reserved = 0, !.es = FALSE, !.peh = None]
                ELSE [conn[c] EXCEPT !.reserved = 0]
<1>1. /\ conn[c] \in ConnRecords /\ ConnFits(conn[c]) /\ h \in Handles \cup {None}
      /\ conn[c].reserved = 1
  BY ConnBefore DEF ReleaseCookie
<1>3. h \in Handles /\ h # None /\ peh[h] \in HandleRecords
  BY <1>1 DEF ConnFits, BooksFit, TypeOK
<1>4. UNCHANGED <<table, counter, shutdown, harmed, leaked>> /\ peh' = [peh EXCEPT ![h] = r]
  BY DEF ReleaseCookie
<1>5. aborted' = (left <= 0)
  BY DEF ReleaseCookie
<1>6. conn' = [conn EXCEPT ![c] = s]
  <2>1. CASE last
    BY <2>1 DEF ReleaseCookie, BooksFit, TypeOK
  <2>2. CASE ~last
    BY <2>2 DEF ReleaseCookie, BooksFit, TypeOK
  <2> QED  BY <2>1, <2>2
<1>7. left \in Int /\ peh[h].ref \in Int /\ left = peh[h].ref - In(last)
  BY <1>3 DEF HandleRecords, In
<1> HIDE DEF left
<1>8. /\ d \in HandleRecords /\ d.ref = left - 1 /\ d.clients = peh[h].clients
      /\ Listed(d) = Listed(peh[h]) /\ d.state = peh[h].state /\ d.thread = peh[h].thread
      /\ d.name = peh[h].name /\ d.engine = peh[h].engine /\ d.destroys = peh[h].destroys
  BY <1>3, <1>7 DEF HandleRecords, Listed
<1> HIDE DEF d
<1>9. /\ Started(d) \in HandleRecords /\ Started(d).ref = d.ref /\ Started(d).clients = d.clients
      /\ Listed(Started(d)) = Listed(d) /\ Evolves(d, Started(d))
  BY <1>8, StartedFacts
<1>10. Evolves(d, d)
  BY DEF Evolves
<1>11. r \in {Started(d), d}
  OBVIOUS
<1> HIDE DEF r
<1>12. /\ r \in HandleRecords /\ r.ref = left - 1 /\ r.clients = peh[h].clients
       /\ Listed(r) = Listed(peh[h]) /\ Evolves(d, r)
  BY <1>8, <1>9, <1>10, <1>11
<1>13. Evolves(peh[h], r)
  BY <1>8, <1>12 DEF Evolves
<1>14. /\ s \in ConnRecords /\ s.at = conn[c].at /\ s.tmp = conn[c].tmp /\ s.old = conn[c].old
       /\ s.reserved = 0 /\ s.notified = last
       /\ last => ~s.es /\ s.peh = None
       /\ ~last => s.es = conn[c].es /\ s.peh = h
  <2>1. CASE last
    <3> DEFINE x == [conn[c] EXCEPT !.reserved = 0]
               y == [x EXCEPT !.peh = None]
    <3>1. /\ x \in ConnRecords /\ x.at = conn[c].at /\ x.tmp = conn[c].tmp /\ x.old = conn[c].old
          /\ x.reserved = 0 /\ x.notified = last
      BY <1>1 DEF ConnRecords
    <3> HIDE DEF x
    <3>2. /\ y \in ConnRecords /\ y.at = conn[c].at /\ y.tmp = conn[c].tmp /\ y.old = conn[c].old
          /\ y.reserved = 0 /\ y.notified = last /\ y.peh = None
      BY <3>1 DEF ConnRecords
    <3> HIDE DEF y
    <3>3. s = [y EXCEPT !.es = FALSE]
      BY <1>1, <2>1 DEF x, y, ConnRecords
    <3> HIDE DEF s
    <3> QED  BY <2>1, <3>2, <3>3 DEF ConnRecords
  <2>2. CASE ~last
    <3>1. s = [conn[c] EXCEPT !.reserved = 0]
      BY <2>2
    <3> HIDE DEF s
    <3> QED  BY <1>1, <2>2, <3>1 DEF ConnRecords
  <2> QED  BY <2>1, <2>2
<1> HIDE DEF s
<1>15. ConnFits(s) /\ \A g \in Points(s) : g \in Points(conn[c]) \/ peh[g].state = "running"
  BY <1>1, <1>14 DEF ConnFits, Points
<1>16. \A g \in Handles : /\ g # h => Held(s, g) = Held(conn[c], g)
                          /\ Calls(s, g) = Calls(conn[c], g)
  BY <1>1, <1>14, NoneIsNoHandle DEF Held, Calls, In, ConnFits
<1>17. Held(s, h) = Held(conn[c], h) - 1 - In(last) /\ Held(conn[c], h) \in Int /\ Held(conn[c], h) >= 2
  BY <1>1, <1>3, <1>14 DEF Held, In
<1>18. AssertionsHold'
  <2>1. CASE h \in harmed
    BY <1>4, <2>1 DEF AssertionsHold
  <2>2. CASE h \notin harmed
    <3>1. peh[h].ref >= Listed(peh[h]) + Held(conn[c], h)
      BY <1>3, <2>2, HolderCounts
    <3>2. Listed(peh[h]) \in Nat /\ In(last) \in {0, 1}
      BY DEF Listed, In
    <3>3. ~(left <= 0)
      BY <1>7, <1>17, <3>1, <3>2
    <3>4. ~aborted'
      BY <1>5, <3>3
    <3> QED  BY <3>4 DEF AssertionsHold
  <2> QED  BY <2>1, <2>2
<1>19. Listed(peh[h]) \in Int /\ In(last) \in Int
  BY DEF Listed, In
<1>20. /\ r.ref - Listed(r) - Held(s, h) = peh[h].ref - Listed(peh[h]) - Held(conn[c], h)
       /\ r.ref - Listed(r) - Held(s, h) >= peh[h].ref - Listed(peh[h]) - Held(conn[c], h)
  BY <1>7, <1>12, <1>17, <1>19
<1>21. r.clients - Calls(s, h) = peh[h].clients - Calls(conn[c], h)
  BY <1>3, <1>12, <1>16
<1>22. shutdown # "no" => s.at \in Quiet
  BY <1>14 DEF BooksFit, ShutdownFits, Quiet
<1>23. leaked' \in SUBSET Handles /\ leaked \subseteq leaked'
  BY <1>4 DEF BooksFit, TypeOK
<1>24. \A g \in Handles \ {h} : Held(s, g) = Held(conn[c], g) /\ Calls(s, g) = Calls(conn[c], g)
  BY <1>16
<1> HIDE DEF h
<1> QED  BY <1>3, <1>4, <1>6, <1>12, <1>13, <1>14, <1>15, <1>18, <1>20, <1>21, <1>22, <1>23, <1>24, UpdateInv

\* handle_delete_bucket returns two references of a running bucket, its own otherwise; the
\* connection's own bucket keeps one that nobody holds.
LEMMA DeleteBucketInv ==
    ASSUME BooksFit, aborted' \in BOOLEAN, NEW c \in Conns, DeleteBucket(c)
    PROVE  BooksFit'
<1> DEFINE h == conn[c].tmp
           found == peh[h].state = "running"
           stopped == [peh[h] EXCEPT !.cookie = c, !.state = "stop_requested"]
           own == conn[c].peh = h
           r == IF found THEN Dropped(Dropped(stopped)) ELSE Dropped(peh[h])
           s == [conn[c] EXCEPT !.at = IF found THEN "blocked" ELSE "idle", !.tmp = None,
                                !.peh = IF own THEN None ELSE @]
<1>1. /\ conn[c] \in ConnRecords /\ ConnFits(conn[c]) /\ h \in Handles \cup {None}
      /\ conn[c].reserved \in {0, 1}
  BY ConnBefore
<1>2. /\ shutdown = "no" /\ conn[c].at = "delete" /\ h # None /\ h \in Handles
      /\ conn[c].reserved = 0 /\ conn[c].old = None /\ ~conn[c].notified
  BY <1>1 DEF DeleteBucket, Alive, ConnFits
<1>3. peh[h] \in HandleRecords /\ peh[h].ref \in Int
  BY <1>2 DEF BooksFit, TypeOK, HandleRecords
<1>4. /\ peh' = [peh EXCEPT ![h] = r] /\ conn' = [conn EXCEPT ![c] = s]
      /\ UNCHANGED <<table, counter, shutdown, harmed>>
      /\ leaked' = IF own THEN leaked \cup {h} ELSE leaked
  BY DEF DeleteBucket, BooksFit, TypeOK
<1>5. aborted' = (peh[h].ref < IF found THEN 2 ELSE 1)
  BY DEF DeleteBucket
<1>6. /\ stopped \in HandleRecords /\ stopped.ref = peh[h].ref /\ stopped.clients = peh[h].clients
      /\ stopped.state = "stop_requested" /\ stopped.thread = peh[h].thread
      /\ stopped.name = peh[h].name /\ stopped.engine = peh[h].engine
      /\ stopped.destroys = peh[h].destroys
  BY <1>3 DEF HandleRecords
<1> HIDE DEF stopped
<1>7. /\ r \in HandleRecords /\ r.clients = peh[h].clients /\ Evolves(peh[h], r)
      /\ r.ref - Listed(r) = peh[h].ref - Listed(peh[h]) - 1
  <2>1. CASE found
    <3> DEFINE e == Dropped(stopped)
    <3>1. /\ e \in HandleRecords /\ e.ref = peh[h].ref - 1 /\ e.clients = peh[h].clients
          /\ Listed(e) = Listed(stopped) /\ Evolves(stopped, e)
      BY <1>6, DroppedFacts
    <3>2. r = Dropped(e)
      BY <2>1
    <3> HIDE DEF e, r
    <3>3. /\ r \in HandleRecords /\ r.ref = e.ref - 1 /\ r.clients = peh[h].clients
          /\ Listed(r) = Listed(e) /\ Evolves(e, r)
      BY <3>1, <3>2, DroppedFacts
    <3>4. Evolves(peh[h], r)
      BY <1>6, <2>1, <3>1, <3>3 DEF Evolves
    <3>5. Listed(stopped) = 0 /\ Listed(peh[h]) = 1
      BY <1>6, <2>1 DEF Listed, In
    <3> QED  BY <1>3, <3>1, <3>3, <3>4, <3>5
  <2>2. CASE ~found
    <3>1. r = Dropped(peh[h])
      BY <2>2
    <3>2. Listed(peh[h]) \in Int
      BY DEF Listed, In
    <3> HIDE DEF r
    <3> QED  BY <1>3, <3>1, <3>2, DroppedFacts
  <2> QED  BY <2>1, <2>2
<1> HIDE DEF r
<1>8. /\ s \in ConnRecords /\ s.at \in {"blocked", "idle"} /\ s.es = conn[c].es
      /\ s.peh = (IF own THEN None ELSE conn[c].peh) /\ s.tmp = None
      /\ s.old = None /\ s.reserved = 0 /\ ~s.notified
  <2> DEFINE x == [conn[c] EXCEPT !.at = IF found THEN "blocked" ELSE "idle"]
             y == [x EXCEPT !.tmp = None]
  <2>1. /\ x \in ConnRecords /\ x.at \in {"blocked", "idle"} /\ x.es = conn[c].es
        /\ x.peh = conn[c].peh /\ x.old = None /\ x.reserved = 0 /\ ~x.notified
    BY <1>1, <1>2 DEF ConnRecords, Places
  <2> HIDE DEF x
  <2>2. /\ y \in ConnRecords /\ y.at \in {"blocked", "idle"} /\ y.es = conn[c].es
        /\ y.peh = conn[c].peh /\ y.tmp = None /\ y.old = None /\ y.reserved = 0 /\ ~y.notified
    BY <2>1 DEF ConnRecords
  <2>3. s = [y EXCEPT !.peh = IF own THEN None ELSE conn[c].peh]
    BY <1>1 DEF x, ConnRecords
  <2> HIDE DEF s, y
  <2>4. conn[c].peh \in Handles \cup {None}
    BY ConnBefore
  <2>5. (IF own THEN None ELSE conn[c].peh) \in Handles \cup {None}
    BY <2>4
  <2> QED  BY <2>2, <2>3, <2>5 DEF ConnRecords
<1> HIDE DEF s
<1>9. ConnFits(s) /\ \A g \in Points(s) : g \in Points(conn[c]) \/ peh[g].state = "running"
  BY <1>1, <1>2, <1>8 DEF ConnFits, Points
<1>10. \A g \in Handles \ {h} : Held(s, g) = Held(conn[c], g) /\ Calls(s, g) = Calls(conn[c], g)
  BY <1>2, <1>8, NoneIsNoHandle DEF Held, Calls, In
<1>11. /\ Held(s, h) = Held(conn[c], h) - 1 - In(own) /\ Calls(s, h) = Calls(conn[c], h)
       /\ Held(conn[c], h) \in Int /\ Held(conn[c], h) >= 1
  BY <1>2, <1>8, NoneIsNoHandle DEF Held, Calls, In
<1>12. AssertionsHold'
  <2>1. CASE h \in harmed
    BY <1>4, <2>1 DEF AssertionsHold
  <2>2. CASE h \notin harmed
    <3>1. peh[h].ref >= Listed(peh[h]) + Held(conn[c], h)
      BY <1>2, <2>2, HolderCounts
    <3>2. Listed(peh[h]) = IF found THEN 1 ELSE 0
      BY DEF Listed, In
    <3>3. ~(peh[h].ref < IF found THEN 2 ELSE 1)
      BY <1>3, <1>11, <3>1, <3>2
    <3>4. ~aborted'
      BY <1>5, <3>3
    <3> QED  BY <3>4 DEF AssertionsHold
  <2> QED  BY <2>1, <2>2
<1>13. Listed(peh[h]) \in Int /\ Listed(r) \in Int /\ In(own) \in {0, 1} /\ r.ref \in Int
  BY <1>7 DEF Listed, In, HandleRecords
<1>14. r.ref - Listed(r) - Held(s, h) = peh[h].ref - Listed(peh[h]) - Held(conn[c], h) + In(own)
  BY <1>3, <1>7, <1>11, <1>13
<1>15. r.ref - Listed(r) - Held(s, h) >= peh[h].ref - Listed(peh[h]) - Held(conn[c], h)
  BY <1>3, <1>11, <1>13, <1>14
<1>16. h \notin leaked' =>
          r.ref - Listed(r) - Held(s, h) = peh[h].ref - Listed(peh[h]) - Held(conn[c], h)
  <2>1. CASE own
    BY <1>4, <2>1
  <2>2. CASE ~own
    BY <1>3, <1>11, <1>13, <1>14, <2>2 DEF In
  <2> QED  BY <2>1, <2>2
<1>17. leaked' \in SUBSET Handles /\ leaked \subseteq leaked'
  BY <1>2, <1>4 DEF BooksFit, TypeOK
<1>18. r.clients - Calls(s, h) = peh[h].clients - Calls(conn[c], h)
  BY <1>7, <1>11
<1> HIDE DEF h
<1> QED  BY <1>2, <1>4, <1>7, <1>8, <1>9, <1>10, <1>12, <1>15, <1>16, <1>17, <1>18, UpdateInv

-----------------------------------------------------------------------------
(* The steps of a bucket's own thread and of the server's shutdown *)

\* Connections keep their references; one that is blocked may get its answer.
Keeps(r, s) ==
    /\ s.peh = r.peh /\ s.tmp = r.tmp /\ s.old = r.old /\ s.reserved = r.reserved
    /\ s.es = r.es /\ s.notified = r.notified /\ s.name = r.name
    /\ s.at = r.at \/ (r.at = "blocked" /\ s.at = "answered")

LEMMA ThreadSide ==
    ASSUME BooksFit, TypeOK', AssertionsHold', UNCHANGED <<harmed, leaked>>,
           shutdown' = "no" => shutdown = "no", ShutdownFits',
           \A c \in Conns : Keeps(conn[c], conn'[c]),
           \A g \in Handles :
              /\ peh'[g].ref = peh[g].ref /\ peh'[g].clients = peh[g].clients
              /\ peh'[g].state = "running" <=> peh[g].state = "running"
              /\ peh'[g].state = "unused" <=> peh[g].state = "unused"
              /\ peh'[g].state = "freed" =>
                    peh[g].state = "freed" \/ g \in harmed \/ shutdown # "no" \/ peh[g].ref <= 0,
           ThreadsFit', EnginesFit', TableFits', BusyCounted'
    PROVE  BooksFit'
<1>1. RefsCounted'
  <2> SUFFICES ASSUME NEW h \in Handles PROVE Refs(h)' = Refs(h)
    BY DEF BooksFit, RefsCounted
  <2>1. /\ {c \in Conns : conn'[c].peh = h} = {c \in Conns : conn[c].peh = h}
        /\ {c \in Conns : conn'[c].tmp = h} = {c \in Conns : conn[c].tmp = h}
        /\ {c \in Conns : conn'[c].old = h} = {c \in Conns : conn[c].old = h}
        /\ {c \in Conns : conn'[c].peh = h /\ conn'[c].reserved = 1}
             = {c \in Conns : conn[c].peh = h /\ conn[c].reserved = 1}
    BY DEF Keeps
  <2> QED  BY <2>1 DEF Refs
<1>2. ClientsCounted'
  <2> SUFFICES ASSUME NEW h \in Handles
               PROVE  {c \in Conns : conn'[c].at = "inside" /\ conn'[c].peh = h}
                        = {c \in Conns : conn[c].at = "inside" /\ conn[c].peh = h}
    BY DEF BooksFit, ClientsCounted
  <2> QED  BY DEF Keeps
<1>3. ConnsFit' /\ HandleOutlivesUse'
  <2>1. \A c \in Conns : ConnFits(conn'[c])
    <3> SUFFICES ASSUME NEW c \in Conns PROVE ConnFits(conn'[c])
      OBVIOUS
    <3>1. ConnFits(conn[c]) /\ Keeps(conn[c], conn'[c])
      BY DEF BooksFit, ConnsFit
    <3> QED  BY <3>1 DEF ConnFits, Keeps
  <2>2. \A c \in Conns : Points(conn'[c]) = Points(conn[c]) /\ Points(conn[c]) \subseteq Handles
    BY DEF BooksFit, TypeOK, ConnRecords, Keeps, Points
  <2>3. ASSUME NEW c \in Conns, NEW h \in Handles, h \in Points(conn[c])
        PROVE  /\ peh[h].state # "unused" /\ (peh[h].ref <= 0 => h \in harmed)
               /\ peh[h].state = "freed" => h \in harmed \/ shutdown # "no"
    <3>1. peh[h].state # "unused" /\ (peh[h].state = "freed" => h \in harmed \/ shutdown # "no")
      BY <2>3 DEF BooksFit, ConnsFit, HandleOutlivesUse, Points
    <3>2. CASE h \notin harmed
      <4>1. peh[h].ref \in Int /\ peh[h].ref >= Listed(peh[h]) + Held(conn[c], h)
        BY <3>2, HolderCounts
      <4>2. Held(conn[c], h) >= 1 /\ Held(conn[c], h) \in Int /\ Listed(peh[h]) \in Nat
        BY <2>3 DEF Held, Listed, In, Points
      <4> QED  BY <3>1, <4>1, <4>2
    <3> QED  BY <3>1, <3>2
  <2>4. ASSUME NEW c \in Conns, NEW h \in Handles, h \in Points(conn'[c])
        PROVE  /\ peh'[h].state # "unused"
               /\ peh'[h].state = "freed" => h \in harmed' \/ shutdown' # "no"
    BY <2>2, <2>3, <2>4
  <2> QED  BY <2>1, <2>2, <2>4 DEF ConnsFit, HandleOutlivesUse, Points
<1>4. OneEnginePerName' /\ DestroyedOnce'
  BY EnginesApart, PTL
<1> QED  BY <1>1, <1>2, <1>3, <1>4 DEF BooksFit

LEMMA KeepsSame == \A r : Keeps(r, r)
BY DEF Keeps

\* A thread that is under way is in the count that the server waits for.
LEMMA BusyFacts ==
    ASSUME BooksFit
    PROVE  /\ IsFiniteSet(Busy) /\ Cardinality(Busy) \in Nat /\ counter = Cardinality(Busy)
           /\ \A h \in Busy : counter # 0 /\ shutdown # "done"
<1>1. IsFiniteSet(Handles)
  BY BucketEngineAssumption, FS_Interval DEF Handles
<1>2. IsFiniteSet(Busy)
  BY <1>1, FS_Subset DEF Busy
<1>3. Cardinality(Busy) \in Nat /\ (Cardinality(Busy) = 0 <=> Busy = {})
  BY <1>2, FS_CardinalityType, FS_EmptySet
<1> QED  BY <1>2, <1>3 DEF BooksFit, BusyCounted

\* The fields of the other handles and of this one when its thread goes on.
OnlyThread(h, state, engine, thread) ==
    /\ peh' \in [Handles -> HandleRecords]
    /\ \A g \in Handles \ {h} : peh'[g] = peh[g]
    /\ peh'[h].name = peh[h].name /\ peh'[h].ref = peh[h].ref /\ peh'[h].clients = peh[h].clients
    /\ peh'[h].state = state /\ peh'[h].engine = engine /\ peh'[h].thread = thread
    /\ peh'[h].destroys = peh[h].destroys + In(engine = "destroyed" /\ peh[h].engine # "destroyed")

LEMMA ThreadStartsInv ==
    ASSUME BooksFit, NEW h \in Handles, ThreadStarts(h)
    PROVE  BooksFit'
<1>1. /\ peh[h] \in HandleRecords /\ peh[h].thread = "start" /\ peh[h].state = "stopping"
      /\ UNCHANGED <<harmed, leaked, shutdown, table, conn, aborted>>
  BY DEF ThreadStarts, Step, BooksFit, TypeOK, ThreadsFit
<1> DEFINE t == IF shutdown = "no" THEN "destroy" ELSE "end"
<1>2. peh' = [peh EXCEPT ![h].thread = t] /\ counter' = counter + In(shutdown = "no")
  <2>1. counter \in Int
    BY DEF BooksFit, TypeOK
  <2> QED  BY <2>1 DEF ThreadStarts, In
<1>3. OnlyThread(h, "stopping", peh[h].engine, t)
  <2>1. peh \in [Handles -> HandleRecords] /\ t \in {"destroy", "end"} /\ peh[h].destroys \in Nat
    BY <1>1 DEF BooksFit, TypeOK, HandleRecords
  <2> HIDE DEF t
  <2> QED  BY <1>1, <1>2, <2>1 DEF OnlyThread, HandleRecords, In
<1>4. TypeOK' /\ AssertionsHold'
  BY <1>1, <1>2, <1>3 DEF OnlyThread, BooksFit, TypeOK, AssertionsHold, In
<1>5. peh[h].engine = "alive" \/ shutdown = "done"
  BY <1>1 DEF BooksFit, EnginesFit
<1>6. ThreadsFit'
  BY <1>1, <1>3 DEF OnlyThread, BooksFit, ThreadsFit
<1>7. EnginesFit'
  <2>1. EnginesFit!(h)
    BY DEF BooksFit, EnginesFit
  <2>2. EnginesFit!(h)'
    BY <1>1, <1>3, <1>5, <2>1 DEF OnlyThread, In
  <2>3. ASSUME NEW g \in Handles, g # h PROVE EnginesFit!(g)'
    <3>1. EnginesFit!(g) /\ peh'[g] = peh[g]
      BY <1>3, <2>3 DEF BooksFit, EnginesFit, OnlyThread
    <3> QED  BY <1>1, <3>1
  <2> QED  BY <2>2, <2>3 DEF EnginesFit
<1>8. TableFits'
  <2>1. \A g \in Handles : peh'[g].name = peh[g].name /\ InTable(peh'[g]) = InTable(peh[g])
    BY <1>1, <1>3 DEF OnlyThread, InTable
  <2> QED  BY <1>1, <2>1 DEF BooksFit, TableFits, TypeOK
<1>9. BusyCounted'
  <2>1. CASE shutdown = "no"
    <3>1. Busy' = Busy \cup {h} /\ h \notin Busy
      BY <1>1, <1>3, <2>1 DEF OnlyThread, Busy
    <3> QED  BY <1>1, <1>2, <2>1, <3>1, BusyFacts, FS_AddElement DEF BusyCounted, In
  <2>2. CASE shutdown # "no"
    <3>1. Busy' = Busy
      BY <1>1, <1>3, <2>2 DEF OnlyThread, Busy
    <3>2. counter' = counter
      BY <1>2, <2>2, BusyFacts DEF In
    <3> QED  BY <1>1, <3>1, <3>2 DEF BooksFit, BusyCounted
  <2> QED  BY <2>1, <2>2
<1>10. ShutdownFits'
  BY <1>1 DEF BooksFit, ShutdownFits
<1> QED  BY <1>1, <1>3, <1>4, <1>6, <1>7, <1>8, <1>9, <1>10, ThreadSide, KeepsSame DEF OnlyThread

LEMMA DestroyEngineInv ==
    ASSUME BooksFit, NEW h \in Handles, DestroyEngine(h)
    PROVE  BooksFit'
<1>1. /\ peh[h] \in HandleRecords /\ peh[h].thread = "destroy" /\ peh[h].state = "stopping" /\ ~aborted
      /\ UNCHANGED <<harmed, leaked, shutdown, table, conn, counter>>
  BY DEF DestroyEngine, Step, BooksFit, TypeOK, ThreadsFit
<1>2. h \in Busy /\ shutdown # "done" /\ peh[h].clients = 0 /\ EnginesFit!(h)
  BY <1>1, BusyFacts DEF Busy, BooksFit, ThreadsFit, EnginesFit
<1>3. OnlyThread(h, "stopping", "destroying", "destroy")
  <2>1. peh \in [Handles -> HandleRecords] /\ peh[h].destroys \in Nat
    BY <1>1 DEF BooksFit, TypeOK, HandleRecords
  <2>2. peh[h].engine = "alive"
    BY <1>1, <1>2 DEF DestroyEngine
  <2> QED  BY <1>1, <2>1, <2>2 DEF OnlyThread, HandleRecords, In, DestroyEngine
<1>4. aborted' = FALSE
  BY <1>1, <1>2 DEF DestroyEngine
<1>5. TypeOK' /\ AssertionsHold'
  BY <1>1, <1>3, <1>4 DEF OnlyThread, BooksFit, TypeOK, AssertionsHold
<1>6. ThreadsFit'
  BY <1>1, <1>2, <1>3 DEF OnlyThread, BooksFit, ThreadsFit
<1>7. EnginesFit'
  <2>1. EnginesFit!(h)'
    BY <1>1, <1>2, <1>3 DEF OnlyThread, In
  <2>2. ASSUME NEW g \in Handles, g # h PROVE EnginesFit!(g)'
    <3>1. EnginesFit!(g) /\ peh'[g] = peh[g]
      BY <1>3, <2>2 DEF BooksFit, EnginesFit, OnlyThread
    <3> QED  BY <1>1, <3>1
  <2> QED  BY <2>1, <2>2 DEF EnginesFit
<1>8. TableFits'
  <2>1. \A g \in Handles : peh'[g].name = peh[g].name /\ InTable(peh'[g]) = InTable(peh[g])
    BY <1>1, <1>3 DEF OnlyThread, InTable
  <2> QED  BY <1>1, <2>1 DEF BooksFit, TableFits, TypeOK
<1>9. BusyCounted'
  <2>1. Busy' = Busy
    BY <1>1, <1>3 DEF OnlyThread, Busy
  <2> QED  BY <1>1, <2>1 DEF BooksFit, BusyCounted
<1>10. (\A c \in Conns : Keeps(conn[c], conn'[c])) /\ ShutdownFits'
  BY <1>1, KeepsSame DEF BooksFit, ShutdownFits
<1> QED  BY <1>1, <1>3, <1>5, <1>6, <1>7, <1>8, <1>9, <1>10, ThreadSide DEF OnlyThread

LEMMA EngineDestroyedInv ==
    ASSUME BooksFit, NEW h \in Handles, EngineDestroyed(h)
    PROVE  BooksFit'
<1>1. /\ peh[h] \in HandleRecords /\ peh[h].thread = "destroy" /\ peh[h].state = "stopping" /\ ~aborted
      /\ UNCHANGED <<harmed, leaked, shutdown, table, conn, counter>>
  BY DEF EngineDestroyed, Step, BooksFit, TypeOK, ThreadsFit
<1>2. h \in Busy /\ shutdown # "done" /\ peh[h].clients = 0 /\ EnginesFit!(h)
  BY <1>1, BusyFacts DEF Busy, BooksFit, ThreadsFit, EnginesFit
<1>3. OnlyThread(h, "stopping", "destroyed", "unlink")
  <2>1. peh \in [Handles -> HandleRecords] /\ peh[h].destroys \in Nat
    BY <1>1 DEF BooksFit, TypeOK, HandleRecords
  <2>2. peh[h].engine = "destroying"
    BY <1>1, <1>2 DEF EngineDestroyed
  <2> QED  BY <1>1, <2>1, <2>2 DEF OnlyThread, HandleRecords, In, EngineDestroyed
<1>4. aborted' = FALSE
  BY <1>1 DEF EngineDestroyed
<1>5. TypeOK' /\ AssertionsHold'
  BY <1>1, <1>3, <1>4 DEF OnlyThread, BooksFit, TypeOK, AssertionsHold
<1>6. ThreadsFit'
  BY <1>1, <1>2, <1>3 DEF OnlyThread, BooksFit, ThreadsFit
<1>7. EnginesFit'
  <2>1. EnginesFit!(h)'
    BY <1>1, <1>2, <1>3 DEF OnlyThread, In
  <2>2. ASSUME NEW g \in Handles, g # h PROVE EnginesFit!(g)'
    <3>1. EnginesFit!(g) /\ peh'[g] = peh[g]
      BY <1>3, <2>2 DEF BooksFit, EnginesFit, OnlyThread
    <3> QED  BY <1>1, <3>1
  <2> QED  BY <2>1, <2>2 DEF EnginesFit
<1>8. TableFits'
  <2>1. \A g \in Handles : peh'[g].name = peh[g].name /\ InTable(peh'[g]) = InTable(peh[g])
    BY <1>1, <1>3 DEF OnlyThread, InTable
  <2> QED  BY <1>1, <2>1 DEF BooksFit, TableFits, TypeOK
<1>9. BusyCounted'
  <2>1. Busy' = Busy
    BY <1>1, <1>3 DEF OnlyThread, Busy
  <2> QED  BY <1>1, <2>1 DEF BooksFit, BusyCounted
<1>10. (\A c \in Conns : Keeps(conn[c], conn'[c])) /\ ShutdownFits'
  BY <1>1, KeepsSame DEF BooksFit, ShutdownFits
<1> QED  BY <1>1, <1>3, <1>5, <1>6, <1>7, <1>8, <1>9, <1>10, ThreadSide DEF OnlyThread

LEMMA UnlinkInv ==
    ASSUME BooksFit, NEW h \in Handles, Unlink(h)
    PROVE  BooksFit'
<1>1. /\ peh[h] \in HandleRecords /\ peh[h].thread = "unlink" /\ peh[h].state = "stopping" /\ ~aborted
      /\ UNCHANGED <<harmed, leaked, shutdown, conn, counter>>
  BY DEF Unlink, Step, BooksFit, TypeOK, ThreadsFit
<1>2. h \in Busy /\ shutdown # "done" /\ peh[h].clients = 0 /\ EnginesFit!(h)
  BY <1>1, BusyFacts DEF Busy, BooksFit, ThreadsFit, EnginesFit
<1>3. OnlyThread(h, "null", "destroyed", "announce")
  <2>1. peh \in [Handles -> HandleRecords] /\ peh[h].destroys \in Nat
    BY <1>1 DEF BooksFit, TypeOK, HandleRecords
  <2>2. peh[h].engine = "destroyed"
    BY <1>1, <1>2 DEF Unlink
  <2> QED  BY <1>1, <2>1, <2>2 DEF OnlyThread, HandleRecords, In, Unlink
<1>4. aborted' = FALSE
  <2>1. table[peh[h].name] = h
    BY <1>1 DEF BooksFit, TableFits, InTable
  <2> QED  BY <2>1 DEF Unlink
<1>5. TypeOK' /\ AssertionsHold'
  <2>1. table' \in [Names -> Handles \cup {None}]
    BY DEF Unlink, BooksFit, TypeOK
  <2> QED  BY <1>1, <1>3, <1>4, <2>1 DEF OnlyThread, BooksFit, TypeOK, AssertionsHold
<1>6. ThreadsFit'
  BY <1>1, <1>2, <1>3 DEF OnlyThread, BooksFit, ThreadsFit
<1>7. EnginesFit'
  <2>1. EnginesFit!(h)'
    BY <1>1, <1>2, <1>3 DEF OnlyThread, In
  <2>2. ASSUME NEW g \in Handles, g # h PROVE EnginesFit!(g)'
    <3>1. EnginesFit!(g) /\ peh'[g] = peh[g]
      BY <1>3, <2>2 DEF BooksFit, EnginesFit, OnlyThread
    <3> QED  BY <1>1, <3>1
  <2> QED  BY <2>1, <2>2 DEF EnginesFit
<1>8. TableFits'
  <2>1. /\ table[peh[h].name] = h /\ peh[h].name \in Names
        /\ table \in [Names -> Handles \cup {None}]
        /\ table' = [table EXCEPT ![peh[h].name] = None]
    BY <1>1 DEF BooksFit, TypeOK, HandleRecords, TableFits, InTable, Unlink
  <2>2. ~InTable(peh'[h])
    BY <1>3 DEF OnlyThread, InTable
  <2>3. \A g \in Handles \ {h} : InTable(peh[g]) => table'[peh[g].name] = g
    BY <2>1 DEF BooksFit, TableFits, TypeOK, HandleRecords
  <2>4. \A n \in Names : table'[n] # None => n # peh[h].name /\ table'[n] = table[n]
    BY <2>1
  <2>5. \A n \in Names : table[n] # None => /\ table[n] \in Handles
                                            /\ peh[table[n]].name = n /\ InTable(peh[table[n]])
    BY <2>1 DEF BooksFit, TableFits
  <2> QED  BY <1>3, <2>2, <2>3, <2>4, <2>5 DEF OnlyThread, TableFits
<1>9. BusyCounted'
  <2>1. Busy' = Busy
    BY <1>1, <1>3 DEF OnlyThread, Busy
  <2> QED  BY <1>1, <2>1 DEF BooksFit, BusyCounted
<1>10. (\A c \in Conns : Keeps(conn[c], conn'[c])) /\ ShutdownFits'
  BY <1>1, KeepsSame DEF BooksFit, ShutdownFits
<1> QED  BY <1>1, <1>3, <1>5, <1>6, <1>7, <1>8, <1>9, <1>10, ThreadSide DEF OnlyThread

LEMMA AnnounceInv ==
    ASSUME BooksFit, NEW h \in Handles, Announce(h)
    PROVE  BooksFit'
<1>1. /\ peh[h] \in HandleRecords /\ peh[h].thread = "announce" /\ peh[h].state = "null" /\ ~aborted
      /\ UNCHANGED <<harmed, leaked, shutdown, table, conn, counter>>
  BY DEF Announce, Step, BooksFit, TypeOK, ThreadsFit
<1>2. h \in Busy /\ shutdown # "done" /\ peh[h].clients = 0 /\ EnginesFit!(h)
  BY <1>1, BusyFacts DEF Busy, BooksFit, ThreadsFit, EnginesFit
<1>3. OnlyThread(h, "stopped", "destroyed", "notify")
  <2>1. peh \in [Handles -> HandleRecords] /\ peh[h].destroys \in Nat
    BY <1>1 DEF BooksFit, TypeOK, HandleRecords
  <2>2. peh[h].engine = "destroyed"
    BY <1>1, <1>2 DEF Announce
  <2> QED  BY <1>1, <2>1, <2>2 DEF OnlyThread, HandleRecords, In, Announce
<1>4. aborted' = FALSE
  BY <1>1 DEF Announce
<1>5. TypeOK' /\ AssertionsHold'
  BY <1>1, <1>3, <1>4 DEF OnlyThread, BooksFit, TypeOK, AssertionsHold
<1>6. ThreadsFit'
  BY <1>1, <1>2, <1>3 DEF OnlyThread, BooksFit, ThreadsFit
<1>7. EnginesFit'
  <2>1. EnginesFit!(h)'
    BY <1>1, <1>2, <1>3 DEF OnlyThread, In
  <2>2. ASSUME NEW g \in Handles, g # h PROVE EnginesFit!(g)'
    <3>1. EnginesFit!(g) /\ peh'[g] = peh[g]
      BY <1>3, <2>2 DEF BooksFit, EnginesFit, OnlyThread
    <3> QED  BY <1>1, <3>1
  <2> QED  BY <2>1, <2>2 DEF EnginesFit
<1>8. TableFits'
  <2>1. \A g \in Handles : peh'[g].name = peh[g].name /\ InTable(peh'[g]) = InTable(peh[g])
    BY <1>1, <1>3 DEF OnlyThread, InTable
  <2> QED  BY <1>1, <2>1 DEF BooksFit, TableFits, TypeOK
<1>9. BusyCounted'
  <2>1. Busy' = Busy
    BY <1>1, <1>3 DEF OnlyThread, Busy
  <2> QED  BY <1>1, <2>1 DEF BooksFit, BusyCounted
<1>10. (\A c \in Conns : Keeps(conn[c], conn'[c])) /\ ShutdownFits'
  BY <1>1, KeepsSame DEF BooksFit, ShutdownFits
<1> QED  BY <1>1, <1>3, <1>5, <1>6, <1>7, <1>8, <1>9, <1>10, ThreadSide DEF OnlyThread

LEMMA NotifyInv ==
    ASSUME BooksFit, NEW h \in Handles, Notify(h)
    PROVE  BooksFit'
<1>1. /\ peh[h] \in HandleRecords /\ peh[h].thread = "notify" /\ peh[h].state = "stopped" /\ ~aborted
      /\ UNCHANGED <<harmed, leaked, shutdown, table, counter>>
  BY DEF Notify, Step, BooksFit, TypeOK, ThreadsFit
<1>2. h \in Busy /\ shutdown # "done" /\ peh[h].clients = 0 /\ EnginesFit!(h)
  BY <1>1, BusyFacts DEF Busy, BooksFit, ThreadsFit, EnginesFit
<1>3. OnlyThread(h, "stopped", "destroyed", "wait")
  <2>1. peh \in [Handles -> HandleRecords] /\ peh[h].destroys \in Nat
    BY <1>1 DEF BooksFit, TypeOK, HandleRecords
  <2>2. peh[h].engine = "destroyed"
    BY <1>1, <1>2 DEF Notify
  <2> QED  BY <1>1, <2>1, <2>2 DEF OnlyThread, HandleRecords, In, Notify
<1>4. aborted' = FALSE
  BY <1>1 DEF Notify
<1>5. TypeOK' /\ AssertionsHold'
  <2>1. conn' \in [Conns -> ConnRecords]
    <3>1. \A c \in Conns : conn[c] \in ConnRecords /\ [conn[c] EXCEPT !.at = "answered"] \in ConnRecords
      BY DEF BooksFit, TypeOK, ConnRecords, Places
    <3> QED  BY <3>1 DEF Notify
  <2> QED  BY <1>1, <1>3, <1>4, <2>1 DEF OnlyThread, BooksFit, TypeOK, AssertionsHold
<1>6. ThreadsFit'
  BY <1>1, <1>2, <1>3 DEF OnlyThread, BooksFit, ThreadsFit
<1>7. EnginesFit'
  <2>1. EnginesFit!(h)'
    BY <1>1, <1>2, <1>3 DEF OnlyThread, In
  <2>2. ASSUME NEW g \in Handles, g # h PROVE EnginesFit!(g)'
    <3>1. EnginesFit!(g) /\ peh'[g] = peh[g]
      BY <1>3, <2>2 DEF BooksFit, EnginesFit, OnlyThread
    <3> QED  BY <1>1, <3>1
  <2> QED  BY <2>1, <2>2 DEF EnginesFit
<1>8. TableFits'
  <2>1. \A g \in Handles : peh'[g].name = peh[g].name /\ InTable(peh'[g]) = InTable(peh[g])
    BY <1>1, <1>3 DEF OnlyThread, InTable
  <2> QED  BY <1>1, <2>1 DEF BooksFit, TableFits, TypeOK
<1>9. BusyCounted'
  <2>1. Busy' = Busy
    BY <1>1, <1>3 DEF OnlyThread, Busy
  <2> QED  BY <1>1, <2>1 DEF BooksFit, BusyCounted
<1>10. (\A c \in Conns : Keeps(conn[c], conn'[c])) /\ ShutdownFits'
  <2>1. \A c \in Conns : conn[c] \in ConnRecords
    BY DEF BooksFit, TypeOK
  <2>2. \A c \in Conns : \/ conn'[c] = conn[c]
                         \/ conn[c].at = "blocked" /\ conn'[c] = [conn[c] EXCEPT !.at = "answered"]
    BY DEF Notify
  <2>3. ASSUME NEW c \in Conns PROVE Keeps(conn[c], conn'[c])
    BY <2>1, <2>2 DEF Keeps, ConnRecords
  <2> QED  BY <1>1, <2>3 DEF BooksFit, ShutdownFits, Keeps
<1> QED  BY <1>1, <1>3, <1>5, <1>6, <1>7, <1>8, <1>9, <1>10, ThreadSide DEF OnlyThread

LEMMA FreeHandleInv ==
    ASSUME BooksFit, NEW h \in Handles, FreeHandle(h)
    PROVE  BooksFit'
<1>1. /\ peh[h] \in HandleRecords /\ peh[h].thread = "wait" /\ peh[h].state = "stopped" /\ ~aborted
      /\ UNCHANGED <<harmed, leaked, shutdown, table, conn>>
  BY DEF FreeHandle, Step, BooksFit, TypeOK, ThreadsFit
<1>2. h \in Busy /\ shutdown # "done" /\ peh[h].clients = 0 /\ EnginesFit!(h)
  BY <1>1, BusyFacts DEF Busy, BooksFit, ThreadsFit, EnginesFit
<1>3. OnlyThread(h, "freed", "destroyed", "end")
  <2>1. peh \in [Handles -> HandleRecords] /\ peh[h].destroys \in Nat
    BY <1>1 DEF BooksFit, TypeOK, HandleRecords
  <2>2. peh[h].engine = "destroyed"
    BY <1>1, <1>2 DEF FreeHandle
  <2> QED  BY <1>1, <2>1, <2>2 DEF OnlyThread, HandleRecords, In, FreeHandle
<1>4. aborted' = FALSE
  BY <1>1 DEF FreeHandle
<1>5. TypeOK' /\ AssertionsHold'
  <2>1. counter' \in Nat
    BY <1>2, BusyFacts DEF FreeHandle
  <2> QED  BY <1>1, <1>3, <1>4, <2>1 DEF OnlyThread, BooksFit, TypeOK, AssertionsHold
<1>6. ThreadsFit'
  BY <1>1, <1>2, <1>3 DEF OnlyThread, BooksFit, ThreadsFit
<1>7. EnginesFit'
  <2>1. EnginesFit!(h)'
    BY <1>1, <1>2, <1>3 DEF OnlyThread, In
  <2>2. ASSUME NEW g \in Handles, g # h PROVE EnginesFit!(g)'
    <3>1. EnginesFit!(g) /\ peh'[g] = peh[g]
      BY <1>3, <2>2 DEF BooksFit, EnginesFit, OnlyThread
    <3> QED  BY <1>1, <3>1
  <2> QED  BY <2>1, <2>2 DEF EnginesFit
<1>8. TableFits'
  <2>1. \A g \in Handles : peh'[g].name = peh[g].name /\ InTable(peh'[g]) = InTable(peh[g])
    BY <1>1, <1>3 DEF OnlyThread, InTable
  <2> QED  BY <1>1, <2>1 DEF BooksFit, TableFits, TypeOK
<1>9. BusyCounted'
  <2>1. Busy' = Busy \ {h}
    BY <1>1, <1>3 DEF OnlyThread, Busy
  <2>2. counter' = counter - 1
    BY DEF FreeHandle
  <2> QED  BY <1>1, <1>2, <2>1, <2>2, BusyFacts, FS_RemoveElement DEF BusyCounted
<1>10. (\A c \in Conns : Keeps(conn[c], conn'[c])) /\ ShutdownFits'
  BY <1>1, KeepsSame DEF BooksFit, ShutdownFits
<1> QED  BY <1>1, <1>3, <1>5, <1>6, <1>7, <1>8, <1>9, <1>10, ThreadSide DEF OnlyThread, FreeHandle, MayFree

LEMMA ShutdownServerInv ==
    ASSUME BooksFit, ShutdownServer
    PROVE  BooksFit'
<1>1. /\ UNCHANGED <<peh, table, conn, counter, aborted, harmed, leaked>>
      /\ shutdown = "no" /\ shutdown' = "in_progress"
  BY DEF ShutdownServer, Alive
<1>2. TypeOK' /\ AssertionsHold' /\ ShutdownFits'
  BY <1>1 DEF BooksFit, TypeOK, AssertionsHold, ShutdownFits, ShutdownServer
<1>3. ThreadsFit' /\ TableFits' /\ BusyCounted'
  BY <1>1 DEF BooksFit, ThreadsFit, TableFits, BusyCounted, Busy
<1>4. EnginesFit'
  BY <1>1 DEF BooksFit, EnginesFit
<1> QED  BY <1>1, <1>2, <1>3, <1>4, ThreadSide, KeepsSame

LEMMA DestroyAllInv ==
    ASSUME BooksFit, DestroyAll
    PROVE  BooksFit'
<1>1. /\ UNCHANGED <<table, conn, counter, aborted, harmed, leaked>>
      /\ shutdown = "in_progress" /\ shutdown' = "done" /\ counter = 0
  BY DEF DestroyAll
<1>2. /\ peh \in [Handles -> HandleRecords] /\ peh' \in [Handles -> HandleRecords]
      /\ \A g \in Handles :
           IF table[peh[g].name] = g
           THEN /\ peh'[g].engine = "destroyed" /\ peh'[g].destroys = peh[g].destroys + 1
                /\ peh'[g].name = peh[g].name /\ peh'[g].ref = peh[g].ref
                /\ peh'[g].clients = peh[g].clients /\ peh'[g].state = peh[g].state
                /\ peh'[g].thread = peh[g].thread
           ELSE peh'[g] = peh[g]
  <2>1. peh \in [Handles -> HandleRecords]
    BY DEF BooksFit, TypeOK
  <2>2. ASSUME NEW g \in Handles
        PROVE  LET r == [peh[g] EXCEPT !.engine = "destroyed", !.destroys = @ + 1]
               IN  /\ r \in HandleRecords /\ r.engine = "destroyed" /\ r.destroys = peh[g].destroys + 1
                   /\ r.name = peh[g].name /\ r.ref = peh[g].ref /\ r.clients = peh[g].clients
                   /\ r.state = peh[g].state /\ r.thread = peh[g].thread
    <3> DEFINE x == [peh[g] EXCEPT !.engine = "destroyed"]
    <3>1. /\ x \in HandleRecords /\ x.engine = "destroyed" /\ x.destroys = peh[g].destroys
          /\ x.name = peh[g].name /\ x.ref = peh[g].ref /\ x.clients = peh[g].clients
          /\ x.state = peh[g].state /\ x.thread = peh[g].thread
      BY <2>1 DEF HandleRecords
    <3>2. [peh[g] EXCEPT !.engine = "destroyed", !.destroys = @ + 1]
            = [x EXCEPT !.destroys = peh[g].destroys + 1]
      BY <2>1 DEF HandleRecords
    <3>3. peh[g].destroys + 1 \in Nat
      BY <2>1 DEF HandleRecords
    <3> HIDE DEF x
    <3> QED  BY <3>1, <3>2, <3>3 DEF HandleRecords
  <2>3. peh' = [g \in Handles |-> IF table[peh[g].name] = g
                                 THEN [peh[g] EXCEPT !.engine = "destroyed", !.destroys = @ + 1]
                                 ELSE peh[g]]
    BY DEF DestroyAll
  <2> QED  BY <2>1, <2>2, <2>3
<1>3. \A g \in Handles : /\ peh'[g].name = peh[g].name /\ peh'[g].ref = peh[g].ref
                         /\ peh'[g].clients = peh[g].clients /\ peh'[g].state = peh[g].state
                         /\ peh'[g].thread = peh[g].thread
  BY <1>2
<1>4. TypeOK' /\ AssertionsHold' /\ ShutdownFits'
  BY <1>1, <1>2 DEF BooksFit, TypeOK, AssertionsHold, ShutdownFits
<1>5. ThreadsFit'
  BY <1>1, <1>3 DEF BooksFit, ThreadsFit
<1>6. TableFits'
  <2>1. \A g \in Handles : InTable(peh'[g]) = InTable(peh[g])
    BY <1>3 DEF InTable
  <2> QED  BY <1>1, <1>3, <2>1 DEF BooksFit, TableFits, TypeOK
<1>7. BusyCounted'
  <2>1. Busy' = Busy
    BY <1>3 DEF Busy
  <2> QED  BY <1>1, <2>1 DEF BooksFit, BusyCounted
<1>8. EnginesFit'
  <2> SUFFICES ASSUME NEW g \in Handles
               PROVE  /\ peh'[g].destroys = IF peh'[g].engine = "destroyed" THEN 1 ELSE 0
                      /\ peh'[g].engine \in {"none", "destroyed"}
    BY <1>1 DEF EnginesFit
  <2>1. peh[g].thread \notin {"destroy", "unlink", "announce", "notify", "wait"}
    BY <1>1, BusyFacts DEF Busy
  <2>2. CASE InTable(peh[g])
    <3>1. table[peh[g].name] = g
      BY <2>2 DEF BooksFit, TableFits
    <3>2. peh[g].engine = "alive" /\ peh[g].destroys = 0
      BY <1>1, <2>1, <2>2 DEF BooksFit, EnginesFit, InTable
    <3> QED  BY <1>2, <3>1, <3>2
  <2>3. CASE ~InTable(peh[g])
    <3>1. table[peh[g].name] # g
      BY <1>2, <2>3, NoneIsNoHandle DEF BooksFit, TableFits, HandleRecords
    <3>2. /\ peh[g].engine \in {"none", "destroyed"}
          /\ peh[g].destroys = IF peh[g].engine = "destroyed" THEN 1 ELSE 0
      BY <1>1, <1>2, <2>3 DEF BooksFit, EnginesFit, InTable, HandleRecords
    <3> QED  BY <1>2, <3>1, <3>2
  <2> QED  BY <2>2, <2>3
<1> QED  BY <1>1, <1>3, <1>4, <1>5, <1>6, <1>7, <1>8, ThreadSide, KeepsSame

-----------------------------------------------------------------------------
LEMMA InitInv == Init => BooksFit
<1> SUFFICES ASSUME Init PROVE BooksFit
  OBVIOUS
<1>1. TypeOK
  <2>1. [name |-> Default, ref |-> 0, clients |-> 0, cookie |-> None, state |-> "unused",
         engine |-> "none", destroys |-> 0, thread |-> "none"] \in HandleRecords
    BY BucketEngineAssumption DEF HandleRecords
  <2>2. [at |-> "off", name |-> None, es |-> FALSE, peh |-> None, tmp |-> None, old |-> None,
         reserved |-> 0, notified |-> FALSE] \in ConnRecords
    BY DEF ConnRecords, Places
  <2> QED  BY <2>1, <2>2 DEF Init, TypeOK
<1>2. AssertionsHold /\ ConnsFit /\ ShutdownFits /\ ThreadsFit /\ EnginesFit /\ TableFits
  BY BucketEngineAssumption DEF Init, AssertionsHold, ConnsFit, ConnFits, ShutdownFits, ThreadsFit,
     EnginesFit, TableFits, InTable
<1>3. OneEnginePerName /\ DestroyedOnce
  BY <1>1, <1>2, EnginesApart
<1>4. HandleOutlivesUse
  BY DEF Init, HandleOutlivesUse
<1>5. ClientsCounted /\ BusyCounted /\ RefsCounted
  <2>1. \A h \in Handles : /\ peh[h].ref = 0 /\ peh[h].clients = 0 /\ peh[h].state = "unused"
                           /\ peh[h].thread = "none"
    BY DEF Init
  <2>2. \A c \in Conns : /\ conn[c].peh = None /\ conn[c].tmp = None /\ conn[c].old = None
                         /\ conn[c].at = "off"
    BY DEF Init
  <2>3. Cardinality({}) = 0
    BY FS_EmptySet
  <2>4. ClientsCounted
    <3>1. {c \in Conns : conn[c].at = "inside"} = {}
      BY <2>2
    <3>2. \A h \in Handles : {c \in Conns : conn[c].at = "inside" /\ conn[c].peh = h} = {}
      BY <3>1
    <3> QED  BY <2>1, <2>3, <3>2 DEF ClientsCounted
  <2>5. BusyCounted
    <3>1. Busy = {}
      BY <2>1 DEF Busy
    <3> QED  BY <2>3, <3>1 DEF Init, BusyCounted
  <2>6. ASSUME NEW h \in Handles PROVE Refs(h) = 0
    <3>1. /\ {c \in Conns : conn[c].peh = h} = {}
          /\ {c \in Conns : conn[c].tmp = h} = {}
          /\ {c \in Conns : conn[c].old = h} = {}
          /\ {c \in Conns : conn[c].peh = h /\ conn[c].reserved = 1} = {}
      BY <2>2, NoneIsNoHandle
    <3>2. Refs(h) = 0 + 0 + 0 + 0 + 0
      BY <2>1, <2>3, <3>1 DEF Refs
    <3> QED  BY <3>2
  <2> QED  BY <2>1, <2>4, <2>5, <2>6 DEF RefsCounted
<1> QED  BY <1>1, <1>2, <1>3, <1>4, <1>5 DEF BooksFit

LEMMA NextInv ==
    ASSUME BooksFit, [Next]_vars
    PROVE  BooksFit'
<1>1. aborted' \in BOOLEAN
  BY AbortedType
<1>2. ASSUME NEW c \in Conns, Continue(c) PROVE BooksFit'
  BY <1>1, <1>2, CreateInv, SetEngineHandleInv, ReleaseOldInv, ReleaseTemporaryInv, EnterInv,
     RefusedInv, LeaveInv, DisconnectInv, MovesInv, DisconnectedInv, DeleteBucketInv DEF Continue
<1>3. ASSUME NEW c \in Conns, Command(c) PROVE BooksFit'
  BY <1>3, ConnectInv, ReserveInv, MovesInv, AttachInv, CreateBucketInv, FindToDeleteInv
     DEF Command
<1>4. ASSUME NEW c \in Conns, ReleaseCookie(c) PROVE BooksFit'
  BY <1>1, <1>4, ReleaseCookieInv
<1>5. ASSUME NEW h \in Handles, ShutdownThread(h) PROVE BooksFit'
  BY <1>5, ThreadStartsInv, DestroyEngineInv, EngineDestroyedInv, UnlinkInv, AnnounceInv, NotifyInv,
     FreeHandleInv DEF ShutdownThread
<1>6. CASE UNCHANGED vars
  <2>1. UNCHANGED <<peh, table, conn, counter, shutdown, aborted, harmed, leaked>>
    BY <1>6 DEF vars
  <2>2. TypeOK' /\ AssertionsHold' /\ ShutdownFits' /\ ThreadsFit' /\ TableFits' /\ BusyCounted'
    BY <2>1 DEF BooksFit, TypeOK, AssertionsHold, ShutdownFits, ThreadsFit, TableFits, BusyCounted, Busy
  <2>3. EnginesFit'
    BY <2>1 DEF BooksFit, EnginesFit
  <2> QED  BY <2>1, <2>2, <2>3, ThreadSide, KeepsSame
<1> QED  BY <1>2, <1>3, <1>4, <1>5, <1>6, ShutdownServerInv, DestroyAllInv DEF Next

-----------------------------------------------------------------------------
(* The mutexes of the threads *)

\* A step within a command, or of somebody who is in none.
LEMMA MutexesKept ==
    ASSUME MutexesFit, UNCHANGED <<worker, mutex>>,
           \A d \in Conns : conn[d].at \in InCommand => conn'[d].at \in InCommand
    PROVE  MutexesFit'
<1>1. \A w \in Threads : mutex[w] # None => mutex[w] \in Conns
  BY DEF MutexesFit
<1> QED  BY <1>1 DEF MutexesFit

\* A command begins: its connection was in none, so that no thread has its mutex for it.
LEMMA MutexesBegun ==
    ASSUME MutexesFit, NEW c \in Conns, BeginCommand(c), UNCHANGED worker, Others(c),
           conn[c].at \notin InCommand, conn'[c].at \in InCommand
    PROVE  MutexesFit'
<1> DEFINE t == Thread(c)
<1>1. t \in {worker[c], Tap} /\ t \in Threads
  BY BucketEngineAssumption DEF Thread, Threads, MutexesFit
<1>2. mutex[t] = None /\ mutex' = [mutex EXCEPT ![t] = c]
  BY DEF BeginCommand
<1> HIDE DEF t
<1>3. /\ mutex' \in [Threads -> Conns \cup {None}] /\ mutex'[t] = c
      /\ \A w \in Threads \ {t} : mutex'[w] = mutex[w] /\ mutex[w] # c
  BY <1>1, <1>2, BucketEngineAssumption DEF MutexesFit
<1>4. ASSUME NEW w \in Threads, mutex'[w] # None
      PROVE  /\ conn'[mutex'[w]].at \in InCommand /\ w \in {worker[mutex'[w]], Tap}
             /\ \A v \in Threads : mutex'[v] = mutex'[w] => v = w
  <2>1. CASE w = t
    BY <1>1, <1>3, <2>1
  <2>2. CASE w # t
    <3>1. mutex'[w] = mutex[w] /\ mutex[w] \in Conns \ {c}
      BY <1>3, <1>4, <2>2 DEF MutexesFit
    <3>2. conn'[mutex[w]] = conn[mutex[w]]
      BY <3>1 DEF Others
    <3> QED  BY <1>3, <1>4, <3>1, <3>2 DEF MutexesFit
  <2> QED  BY <2>1, <2>2
<1> QED  BY <1>3, <1>4 DEF MutexesFit

\* A command ends.
LEMMA MutexesEnded ==
    ASSUME MutexesFit, NEW c \in Conns, EndCommand(c), UNCHANGED worker, Others(c)
    PROVE  MutexesFit'
<1>1. /\ mutex' \in [Threads -> Conns \cup {None}]
      /\ \A w \in Threads : mutex'[w] # None => mutex'[w] = mutex[w] /\ mutex[w] \in Conns \ {c}
  BY DEF EndCommand, MutexesFit
<1>2. \A w \in Threads : mutex'[w] # None => conn'[mutex'[w]] = conn[mutex[w]]
  BY <1>1 DEF Others
<1>3. \A w, v \in Threads : mutex'[w] # None /\ mutex'[v] = mutex'[w] => mutex[v] = mutex[w]
  BY <1>1
<1> QED  BY <1>1, <1>2, <1>3 DEF MutexesFit

LEMMA MutexesInv ==
    ASSUME BooksFit, MutexesFit, [Next]_vars
    PROVE  MutexesFit'
<1>1. conn \in [Conns -> ConnRecords]
  BY DEF BooksFit, TypeOK
<1>2. ASSUME NEW c \in Conns, Continue(c) PROVE MutexesFit'
  <2>1. CASE Create(c) \/ SetEngineHandle(c) \/ ReleaseOld(c)
    BY <1>1, <2>1, MutexesKept DEF Create, SetEngineHandle, ReleaseOld, InCommand, ConnRecords
  <2>2. CASE ReleaseTemporary(c) \/ Refused(c) \/ Leave(c) \/ DeleteBucket(c)
    BY <1>1, <2>2, MutexesEnded DEF ReleaseTemporary, Refused, Leave, DeleteBucket, Move, Others
  <2>3. CASE Enter(c)
    <3>1. CASE EndCommand(c) /\ Move(c, "closing")
      BY <2>3, <3>1, MutexesEnded DEF Enter, Move, Others
    <3>2. CASE UNCHANGED mutex /\ conn'[c].at \in InCommand /\ Others(c)
      BY <2>3, <3>2, MutexesKept DEF Enter, Others
    <3>3. \/ EndCommand(c) /\ Move(c, "closing")
          \/ UNCHANGED mutex /\ conn'[c].at \in InCommand /\ Others(c)
      BY <1>1, <2>3 DEF Enter, Move, Others, InCommand, ConnRecords
    <3> QED  BY <3>1, <3>2, <3>3
  <2>4. CASE Disconnect(c) \/ Callback(c) \/ Disconnected(c) \/ ClosePending(c) \/ Answered(c)
    BY <1>1, <2>4, MutexesKept
       DEF Disconnect, Callback, Disconnected, ClosePending, Answered, Move, InCommand, ConnRecords
  <2> QED  BY <1>2, <2>1, <2>2, <2>3, <2>4 DEF Continue
<1>3. ASSUME NEW c \in Conns, Command(c) PROVE MutexesFit'
  <2>1. CASE Connect(c) \/ Reserve(c) \/ HangUp(c)
    BY <1>1, <2>1, MutexesKept DEF Connect, Lookup, Reserve, HangUp, Move, InCommand, ConnRecords
  <2>2. CASE Call(c)
    BY <1>1, <2>2, MutexesBegun DEF Call, Move, InCommand, Others, ConnRecords
  <2>3. ASSUME NEW name \in Names, NEW creates, Attach(c, name, creates) PROVE MutexesFit'
    <3>1. conn[c].at = "idle" /\ BeginCommand(c) /\ UNCHANGED worker
      BY <2>3 DEF Attach
    <3>2. PICK r \in {[conn[c] EXCEPT !.at = "set", !.tmp = table[name]], [conn[c] EXCEPT !.at = "set"],
                      [conn[c] EXCEPT !.at = "create", !.name = name]} : conn' = [conn EXCEPT ![c] = r]
      BY <2>3 DEF Attach, Lookup
    <3>3. r.at \in {"set", "create"}
      BY <1>1, <3>2 DEF ConnRecords
    <3>4. conn'[c].at \in {"set", "create"} /\ Others(c)
      BY <1>1, <3>2, <3>3 DEF Others
    <3> QED  BY <3>1, <3>4, MutexesBegun DEF InCommand
  <2>4. ASSUME NEW name \in Names, CreateBucket(c, name) PROVE MutexesFit'
    BY <1>1, <2>4, MutexesBegun DEF CreateBucket, InCommand, Others, ConnRecords
  <2>5. ASSUME NEW name \in Names, FindToDelete(c, name) PROVE MutexesFit'
    BY <1>1, <2>5, MutexesBegun DEF FindToDelete, InCommand, Others, ConnRecords
  <2> QED  BY <1>3, <2>1, <2>2, <2>3, <2>4, <2>5 DEF Command
<1>4. ASSUME NEW c \in Conns, ReleaseCookie(c) PROVE MutexesFit'
  <2>1. \A d \in Conns : conn'[d].at = conn[d].at
    BY <1>1, <1>4 DEF ReleaseCookie, ConnRecords
  <2> QED  BY <1>4, <2>1, MutexesKept DEF ReleaseCookie
<1>5. ASSUME NEW h \in Handles, ShutdownThread(h) PROVE MutexesFit'
  <2>1. UNCHANGED <<worker, mutex>>
    BY <1>5 DEF ShutdownThread, ThreadStarts, DestroyEngine, EngineDestroyed, Unlink, Announce, Notify,
       FreeHandle, Step
  <2>2. CASE Notify(h)
    BY <2>1, <2>2, MutexesKept DEF Notify, InCommand
  <2>3. CASE UNCHANGED conn
    BY <2>1, <2>3, MutexesKept
  <2>4. Notify(h) \/ UNCHANGED conn
    BY <1>5 DEF ShutdownThread, ThreadStarts, DestroyEngine, EngineDestroyed, Unlink, Announce, FreeHandle
  <2> QED  BY <2>2, <2>3, <2>4
<1>6. CASE ShutdownServer \/ DestroyAll \/ UNCHANGED vars
  BY <1>6, MutexesKept DEF ShutdownServer, DestroyAll, vars
<1> QED  BY <1>2, <1>3, <1>4, <1>5, <1>6 DEF Next

LEMMA MutexesInit == Init => MutexesFit
BY DEF Init, MutexesFit

\* peh->refcount counts the references, no handle is freed under a user, a name has one
\* live engine, an engine is destroyed once, and no assertion of bucket_engine.c fails as
\* long as no reserved connection is refused; a thread has its mutex for one command under
\* way.  For any number of connections, buckets and workers.
THEOREM HandlesInvariant == Spec => []HandlesFit
<1>1. Init => HandlesFit
  BY InitInv, MutexesInit DEF HandlesFit
<1>2. HandlesFit /\ [Next]_vars => HandlesFit'
  BY NextInv, MutexesInv DEF HandlesFit
<1> QED  BY <1>1, <1>2, PTL DEF Spec

\* get_engine_handle lets no call into an engine that engine_shutdown_thread destroys: the
\* clients it counts keep the thread from starting.
THEOREM CallsInvariant == Spec => []CallsInLiveEngine
<1>1. HandlesFit => CallsInLiveEngine
  <2> SUFFICES ASSUME BooksFit, NEW c \in Conns, conn[c].at = "inside"
               PROVE  peh[conn[c].peh].engine = "alive"
    BY DEF HandlesFit, CallsInLiveEngine
  <2> DEFINE h == conn[c].peh
  <2>1. h \in Handles /\ h # None
    BY ConnBefore DEF ConnFits
  <2>2. peh[h].clients = Cardinality({e \in Conns : conn[e].at = "inside" /\ conn[e].peh = h})
    BY <2>1 DEF BooksFit, ClientsCounted
  <2>3. IsFiniteSet({e \in Conns : conn[e].at = "inside" /\ conn[e].peh = h})
    BY BucketEngineAssumption, FS_Subset
  <2>4. peh[h].clients # 0
    BY <2>2, <2>3, FS_EmptySet
  <2>5. peh[h].state \in {"running", "stop_requested"} /\ shutdown = "no"
    BY <2>1, <2>4 DEF BooksFit, ThreadsFit, ShutdownFits
  <2> QED  BY <2>1, <2>5 DEF BooksFit, EnginesFit
<1> QED  BY <1>1, HandlesInvariant, PTL
=============================================================================
