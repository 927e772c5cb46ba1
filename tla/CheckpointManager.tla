------------------------- MODULE CheckpointManager -------------------------
(***************************************************************************)
(* The unified queue of one vbucket (ep-engine/checkpoint.cc, .hh): a list *)
(* of checkpoints, each a list of queued items without two items of one    *)
(* key, read by the persistence cursor and by one cursor per TAP           *)
(* connection.  Every public method runs under queueLock, so each is one   *)
(* operator here, from a manager record to a manager record:               *)
(*                                                                         *)
(*   items            the queued items of all checkpoints, by mutation id  *)
(*   list             checkpointList                                       *)
(*   numItems         items of all the checkpoints, the dummies excepted   *)
(*   mutationCounter  last value of nextMutationId()                       *)
(*   cursors          persistenceCursor and tapCursors, by name            *)
(*                                                                         *)
(* Every item that is pushed, the dummy and the checkpoint_start and       *)
(* checkpoint_end items included, takes a new mutation id and goes to the  *)
(* tail, so list order is mutation-id order: an iterator is a mutation id, *)
(* ++ is the next larger id of the checkpoint and -- the next smaller one. *)
(* A checkpoint is named by the id of its first item, its dummy: begin()   *)
(* of checkpoint c is c.  queue_op_set and queue_op_del, which this code   *)
(* never tells apart, are "mutation".                                      *)
(*                                                                         *)
(* Online update and hot reload are not part of this module:               *)
(* doOnlineUpdate is FALSE throughout.                                     *)
(***************************************************************************)
EXTENDS Integers, FiniteSets, FiniteSetsExt

CONSTANTS Keys,                 \* item keys
          NoKey,                \* the empty key of dummy, start and end items
          TapNames,             \* names of TAP connections
          Persistence,          \* the name standing for persistenceCursor
          CheckpointMaxItems,   \* checkpoint_max_items
          MaxCheckpoints        \* max_checkpoints

ASSUME KeyAssumption == NoKey \notin Keys

ASSUME NameAssumption == Persistence \notin TapNames /\ IsFiniteSet(TapNames)

\* validateCheckpointMaxItemsParam, validateMaxCheckpointsParam
ASSUME LimitAssumption ==
    /\ CheckpointMaxItems \in Nat \ {0}
    /\ MaxCheckpoints \in 2 .. 5

Names == TapNames \cup {Persistence}

Ops == {"empty", "checkpoint_start", "mutation", "checkpoint_end"}

Item == [ckpt : Nat, op : Ops, key : Keys \cup {NoKey}]

Checkpoint == [id : Nat, state : {"opened", "closed"}, refs : Nat, numItems : Nat]

\* offset is a size_t, kept in Int so that a subtraction that would wrap can be seen.
Cursor == [ckpt : Nat, pos : Nat, offset : Int, closedOnly : BOOLEAN]

-----------------------------------------------------------------------------
(* Reading the lists *)

ToWrite(m, c) == {i \in DOMAIN m.items : m.items[i].ckpt = c}

Back(m) == Max(DOMAIN m.list)

\* The positions after, and before, position p of checkpoint c.
After(m, c, p) == {i \in ToWrite(m, c) : i > p}

Prev(m, c, p) == Max({i \in ToWrite(m, c) : i < p})

\* The entry of keyIndex for a key, as a set of no or one position.
Index(m, c, key) == {i \in ToWrite(m, c) : m.items[i].key = key}

\* The sum of f over the set S of checkpoints, as the size of a disjoint union.
SumOver(f, S) == Cardinality(UNION {{c} \X (1 .. f[c]) : c \in S})

GetOpenCheckpointId(m) ==
    LET back == m.list[Back(m)]
    IN  IF back.state = "opened" THEN back.id ELSE back.id + 1

-----------------------------------------------------------------------------
(* Reference counters and offsets *)

IncrReferenceCounter(list, c) == [list EXCEPT ![c].refs = @ + 1]

DecrReferenceCounter(list, c) ==
    [list EXCEPT ![c].refs = IF @ = 0 THEN 0 ELSE @ - 1]

\* decrPersistenceCursorOffset stops at 0; a TAP cursor's offset is only subtracted from.
DecrOffset(n, offset, decr) ==
    IF n = Persistence /\ offset < decr THEN 0 ELSE offset - decr

-----------------------------------------------------------------------------
(* Opening and closing checkpoints *)

\* Push an item with the next mutation id at the tail of checkpoint c.
PushBack(m, c, op, key) ==
    LET mid == m.mutationCounter + 1
        it  == [ckpt |-> c, op |-> op, key |-> key]
    IN  [m EXCEPT
          !.items = [i \in DOMAIN m.items \cup {mid} |-> IF i = mid THEN it ELSE m.items[i]],
          !.mutationCounter = mid]

\* Mutant: the checkpoint_end item is not counted.
UncountedCheckpointEnd(m, id) ==
    LET c == Back(m)
    IN  IF id # m.list[c].id \/ m.list[c].state = "closed"
        THEN m
        ELSE [PushBack(m, c, "checkpoint_end", NoKey) EXCEPT !.list[c].state = "closed"]

CloseOpenCheckpoint(m, id) ==
    LET c == Back(m)
    IN  IF id # m.list[c].id \/ m.list[c].state = "closed"
        THEN m
        ELSE [PushBack(m, c, "checkpoint_end", NoKey) EXCEPT
                !.numItems = @ + 1,
                !.list[c].state = "closed"]

\* A new checkpoint holds a dummy item and a checkpoint_start item.
AppendCheckpoint(m, id) ==
    LET c  == m.mutationCounter + 1
        ck == [id |-> id, state |-> "opened", refs |-> 0, numItems |-> 0]
        m1 == PushBack(m, c, "empty", NoKey)
        m2 == PushBack(m1, c, "checkpoint_start", NoKey)
    IN  [m2 EXCEPT
          !.numItems = @ + 1,
          !.list = [d \in DOMAIN m.list \cup {c} |-> IF d = c THEN ck ELSE m.list[d]]]

AddNewCheckpoint(m, id) ==
    IF DOMAIN m.list # {} /\ m.list[Back(m)].state = "opened"
    THEN AppendCheckpoint(CloseOpenCheckpoint(m, m.list[Back(m)].id), id)
    ELSE AppendCheckpoint(m, id)

SetOpenCheckpointId(m, id) == [m EXCEPT !.list[Back(m)].id = id]

\* The three reasons to open a new checkpoint; elapsed: checkpoint_period has passed.
NeedsNewCheckpoint(m, forceCreation, elapsed) ==
    LET n == m.list[Back(m)].numItems
    IN  forceCreation \/ n >= CheckpointMaxItems \/ (n > 0 /\ elapsed)

CheckOpenCheckpoint(m, forceCreation, elapsed) ==
    LET id == m.list[Back(m)].id
    IN  IF NeedsNewCheckpoint(m, forceCreation, elapsed)
        THEN AddNewCheckpoint(CloseOpenCheckpoint(m, id), id + 1)
        ELSE m

\* Memory is above the high watermark, enough of the vbucket's items are in the open
\* checkpoint (highMem, an input) and so are all the cursors.
IsCheckpointCreationForHighMemUsage(m, highMem) ==
    highMem /\ Cardinality(DOMAIN m.cursors) = m.list[Back(m)].refs

\* A manager with one open checkpoint at whose begin the cursors in cs stand.
StartManager(id, cs) ==
    LET empty == [items |-> [i \in {} |-> 0], list |-> [c \in {} |-> 0],
                  numItems |-> 0, mutationCounter |-> 0, cursors |-> cs]
        m     == AddNewCheckpoint(empty, id)
        c     == Back(m)
    IN  [m EXCEPT
          !.list[c].refs = Cardinality(DOMAIN cs),
          !.cursors = [n \in DOMAIN cs |->
                         [cs[n] EXCEPT !.ckpt = c, !.pos = c, !.offset = 0]]]

\* The constructor: registerPersistenceCursor is the one cursor there is.
NewManager(id) ==
    StartManager(id, [n \in {Persistence} |->
                        [ckpt |-> 0, pos |-> 0, offset |-> 0, closedOnly |-> FALSE]])

Clear(m, active) == StartManager(IF active THEN 1 ELSE 0, m.cursors)

-----------------------------------------------------------------------------
(* Queueing a mutation *)

\* Mutant: the cursor on the erased item stays where it is.
UnshiftedCursor(m, n, old) ==
    LET cur == m.cursors[n]
    IN  IF cur.ckpt # Back(m) \/ m.items[cur.pos].key = NoKey \/ \A i \in old : i > cur.pos
        THEN cur
        ELSE [cur EXCEPT !.offset = DecrOffset(n, @, 1)]

\* An item of the same key left of a cursor goes away: one item less counts as
\* read, and a cursor that stands on that item is shifted left by 1.
ShiftCursor(m, n, old) ==
    LET cur   == m.cursors[n]
        onKey == m.items[cur.pos].key # NoKey
    IN  IF cur.ckpt # Back(m) THEN cur
        ELSE [cur EXCEPT
               !.offset = IF onKey /\ \E i \in old : i <= cur.pos
                          THEN DecrOffset(n, @, 1) ELSE @,
               !.pos = IF @ \in old THEN Prev(m, cur.ckpt, @) ELSE @]

\* Mutant: an item of the same key is updated in place.
QueueInPlace(m, key) ==
    LET c == Back(m)
    IN  IF Index(m, c, key) # {} THEN m
        ELSE [PushBack(m, c, "mutation", key) EXCEPT
                !.list[c].numItems = @ + 1,
                !.numItems = @ + 1]

\* Checkpoint::queueDirty on the open checkpoint, and the manager's ++numItems.
QueueInOpenCheckpoint(m, key) ==
    LET c   == Back(m)
        old == Index(m, c, key)
    IN  IF old = {}
        THEN [PushBack(m, c, "mutation", key) EXCEPT
                !.list[c].numItems = @ + 1,
                !.numItems = @ + 1]
        ELSE PushBack([m EXCEPT
                         !.items = Restrict(@, DOMAIN @ \ old),
                         !.cursors = [n \in DOMAIN @ |-> ShiftCursor(m, n, old)]],
                      c, "mutation", key)

\* Only an active vbucket may open its next checkpoint by itself.
MayCreate(m, active, inconsistentSlave) ==
    active /\ ~inconsistentSlave /\ Cardinality(DOMAIN m.list) < MaxCheckpoints

QueueDirty(m, key, active, inconsistentSlave, elapsed) ==
    LET q == QueueInOpenCheckpoint(m, key)
    IN  IF MayCreate(q, active, inconsistentSlave)
        THEN CheckOpenCheckpoint(q, FALSE, elapsed) ELSE q

-----------------------------------------------------------------------------
(* Cursors *)

\* moveCursorToNextCheckpoint succeeds when its checkpoint is closed and not the last.
CanMove(m, n) ==
    LET c == m.cursors[n].ckpt
    IN  m.list[c].state = "closed" /\ \E d \in DOMAIN m.list : d > c

NextCheckpoint(m, c) == Min({d \in DOMAIN m.list : d > c})

\* Mutant: the next checkpoint's reference counter is not increased.
MoveWithoutReference(m, n) ==
    LET c == m.cursors[n].ckpt
        d == NextCheckpoint(m, c)
    IN  [m EXCEPT
          !.list = DecrReferenceCounter(@, c),
          !.cursors[n].ckpt = d,
          !.cursors[n].pos = d]

MoveCursorToNextCheckpoint(m, n) ==
    LET c == m.cursors[n].ckpt
        d == NextCheckpoint(m, c)
    IN  [m EXCEPT
          !.list = IncrReferenceCounter(DecrReferenceCounter(@, c), d),
          !.cursors[n].ckpt = d,
          !.cursors[n].pos = d]

AtEnd(m, n) == After(m, m.cursors[n].ckpt, m.cursors[n].pos) = {}

\* ++currentPos and ++offset, undone at end().
Advance(m, n) ==
    LET cur == m.cursors[n]
    IN  IF AtEnd(m, n) THEN m
        ELSE [m EXCEPT
               !.cursors[n].pos = Min(After(m, cur.ckpt, cur.pos)),
               !.cursors[n].offset = @ + 1]

\* nextItem with nextItemFromClosedCheckpoint and nextItemFromOpenedCheckpoint:
\* the item returned is the one the cursor then stands on, if it advanced.
NextItem(m, n) ==
    LET m1      == IF AtEnd(m, n) /\ CanMove(m, n)
                   THEN MoveCursorToNextCheckpoint(m, n) ELSE m
        cur     == m1.cursors[n]
        blocked == m1.list[cur.ckpt].state = "opened" /\ cur.closedOnly
    IN  IF m.list[Back(m)].id = 0 THEN m
        ELSE IF blocked THEN m1 ELSE Advance(m1, n)

\* getAllItemsFromCurrentPosition walks to the first open or last checkpoint.
LastReached(m, n) ==
    Min({d \in DOMAIN m.list : /\ d >= m.cursors[n].ckpt
                               /\ m.list[d].state = "opened" \/ d = Back(m)})

\* Mutant: only the items of the first checkpoint are returned.
ItemsOfFirst(m, n) == After(m, m.cursors[n].ckpt, m.cursors[n].pos)

\* The items it returns: those it passes, dummies excepted.
AllItems(m, n) ==
    {i \in DOMAIN m.items : /\ i > m.cursors[n].pos
                            /\ m.items[i].ckpt \in m.cursors[n].ckpt .. LastReached(m, n)
                            /\ m.items[i].op # "empty"}

GetAllItems(m, n) ==
    LET c == m.cursors[n].ckpt
        d == LastReached(m, n)
    IN  [m EXCEPT
          !.list = IF c = d THEN @ ELSE IncrReferenceCounter(DecrReferenceCounter(@, c), d),
          !.cursors[n].ckpt = d,
          !.cursors[n].pos = Max(ToWrite(m, d)),
          !.cursors[n].offset = m.numItems]

WithId(m, id) == {c \in DOMAIN m.list : m.list[c].id = id}

\* A registered cursor already in a checkpoint of that id keeps its position.
KeepsPosition(m, n, id, fromBeginning) ==
    /\ WithId(m, id) # {} /\ ~fromBeginning
    /\ n \in DOMAIN m.cursors
    /\ m.list[m.cursors[n].ckpt].id = id

StartOffset(m, id, c) ==
    IF WithId(m, id) = {}
    THEN m.numItems - (m.list[c].numItems + 1)
    ELSE SumOver([d \in DOMAIN m.list |-> m.list[d].numItems + 2],
                 {d \in DOMAIN m.list : d < c})

RegisterTAPCursor(m, n, id, closedOnly, fromBeginning) ==
    LET c     == IF WithId(m, id) = {} THEN Back(m) ELSE Min(WithId(m, id))
        keep  == KeepsPosition(m, n, id, fromBeginning)
        cur   == [ckpt |-> c,
                  pos |-> IF keep THEN m.cursors[n].pos ELSE c,
                  offset |-> IF keep THEN m.cursors[n].offset ELSE StartOffset(m, id, c),
                  closedOnly |-> closedOnly]
        list1 == IF n \in DOMAIN m.cursors
                 THEN DecrReferenceCounter(m.list, m.cursors[n].ckpt) ELSE m.list
    IN  [m EXCEPT
          !.list = IncrReferenceCounter(list1, c),
          !.cursors = [x \in DOMAIN @ \cup {n} |-> IF x = n THEN cur ELSE m.cursors[x]]]

RemoveTAPCursor(m, n) ==
    [m EXCEPT
      !.list = DecrReferenceCounter(@, m.cursors[n].ckpt),
      !.cursors = Restrict(@, DOMAIN @ \ {n})]

DecrTapCursorFromCheckpointEnd(m, n) ==
    LET cur == m.cursors[n]
    IN  IF m.items[cur.pos].op = "checkpoint_end"
        THEN [m EXCEPT
               !.cursors[n].offset = @ - 1,
               !.cursors[n].pos = Prev(m, cur.ckpt, cur.pos)]
        ELSE m

-----------------------------------------------------------------------------
(* Removing checkpoints *)

WithoutCheckpoints(m, gone) ==
    [m EXCEPT
      !.items = Restrict(@, {i \in DOMAIN @ : m.items[i].ckpt \notin gone}),
      !.list = Restrict(@, DOMAIN @ \ gone)]

\* Cursors in a checkpoint of id oldId with nothing after them move to the next one.
MoveCursorsAtEnd(m, oldId) ==
    LET moved   == {n \in DOMAIN m.cursors :
                      /\ m.list[m.cursors[n].ckpt].id = oldId
                      /\ AtEnd(m, n) /\ CanMove(m, n)}
        Target(n) == NextCheckpoint(m, m.cursors[n].ckpt)
    IN  [m EXCEPT
          !.list = [c \in DOMAIN @ |->
                     [m.list[c] EXCEPT
                       !.refs = @ - Cardinality({n \in moved : m.cursors[n].ckpt = c})
                                  + Cardinality({n \in moved : Target(n) = c})]],
          !.cursors = [n \in DOMAIN @ |->
                        IF n \in moved
                        THEN [m.cursors[n] EXCEPT !.ckpt = Target(n), !.pos = Target(n)]
                        ELSE m.cursors[n]]]

\* The leading checkpoints that no cursor refers to.
UnrefPrefix(m) ==
    {c \in DOMAIN m.list : \A d \in DOMAIN m.list : d <= c => m.list[d].refs = 0}

RemoveUnrefPrefix(m) ==
    LET gone == UnrefPrefix(m)
        num  == SumOver([c \in DOMAIN m.list |-> m.list[c].numItems + 2], gone)
    IN  [WithoutCheckpoints(m, gone) EXCEPT
          !.numItems = @ - num,
          !.cursors = [n \in DOMAIN @ |->
                        [m.cursors[n] EXCEPT !.offset = DecrOffset(n, @, num)]]]

\* The id of the checkpoint closed by the remover, 0 when it closed none.
ClosedByRemover(m, mayCreate, forceCreation, elapsed) ==
    IF mayCreate /\ NeedsNewCheckpoint(m, forceCreation, elapsed)
    THEN m.list[Back(m)].id ELSE 0

RemoveClosedUnrefCheckpoints(m, mayCreate, forceCreation, elapsed) ==
    LET oldId == ClosedByRemover(m, mayCreate, forceCreation, elapsed)
        m1    == IF mayCreate THEN CheckOpenCheckpoint(m, forceCreation, elapsed) ELSE m
    IN  RemoveUnrefPrefix(IF oldId > 0 THEN MoveCursorsAtEnd(m1, oldId) ELSE m1)

\* The checkpoints a CHECKPOINT_START message of an old id rolls back.
RolledBack(m, id) ==
    LET atLeast == {c \in DOMAIN m.list : m.list[c].id >= id}
    IN  IF id = 0 \/ m.list[Back(m)].id = 0 \/ atLeast = {} THEN {}
        ELSE {c \in DOMAIN m.list : c >= Min(atLeast)}

\* Mutants of the roll-back: a wrong offset for the cursors that were repositioned, and a
\* reference counter that ignores them.
RollBackWith(m, id, offset, refs) ==
    LET gone  == RolledBack(m, id)
        num   == SumOver([c \in DOMAIN m.list |->
                            m.list[c].numItems + IF m.list[c].state = "closed" THEN 2 ELSE 1],
                         gone)
        m1    == AddNewCheckpoint([WithoutCheckpoints(m, gone) EXCEPT !.numItems = @ - num], id)
        c     == Back(m1)
        moved == {n \in DOMAIN m.cursors : m.cursors[n].ckpt \in gone}
    IN  [m1 EXCEPT
          !.list[c].refs = @ + refs * Cardinality(moved),
          !.cursors = [n \in DOMAIN @ |->
                        IF n \in moved
                        THEN [m.cursors[n] EXCEPT !.ckpt = c, !.pos = c,
                                                  !.offset = m1.numItems - offset]
                        ELSE m.cursors[n]]]

RollBackWrongOffset(m, id) == RollBackWith(m, id, 0, 1)

RollBackUnreferenced(m, id) == RollBackWith(m, id, 1, 0)

RollBack(m, id) ==
    LET gone  == RolledBack(m, id)
        num   == SumOver([c \in DOMAIN m.list |->
                            m.list[c].numItems + IF m.list[c].state = "closed" THEN 2 ELSE 1],
                         gone)
        m1    == AddNewCheckpoint([WithoutCheckpoints(m, gone) EXCEPT !.numItems = @ - num], id)
        c     == Back(m1)
        moved == {n \in DOMAIN m.cursors : m.cursors[n].ckpt \in gone}
    IN  [m1 EXCEPT
          !.list[c].refs = @ + Cardinality(moved),
          !.cursors = [n \in DOMAIN @ |->
                        IF n \in moved
                        THEN [m.cursors[n] EXCEPT !.ckpt = c, !.pos = c,
                                                  !.offset = m1.numItems - 1]
                        ELSE m.cursors[n]]]

CheckAndAddNewCheckpoint(m, id) ==
    IF id = 0 THEN m
    ELSE IF m.list[Back(m)].id = 0 THEN SetOpenCheckpointId(m, id)
    ELSE IF RolledBack(m, id) # {} THEN RollBack(m, id)
    ELSE AddNewCheckpoint(m, id)

-----------------------------------------------------------------------------
(* What the item pager asks before it evicts a value *)

\* getCasForKey: an item's cas is its mutation id here, 0 when there is none.
GetCasForKey(m, c, key) ==
    IF Index(m, c, key) = {} THEN 0 ELSE Max(Index(m, c, key))

\* Mutant: only the open checkpoint is searched.
IsKeyResidentInOpen(m, key, cas) == GetCasForKey(m, Back(m), key) = cas

\* The search starts at the first referenced checkpoint and stops at a larger cas.
IsKeyResidentInCheckpoints(m, key, cas) ==
    LET searched == DOMAIN m.list \ UnrefPrefix(m)
    IN  \E c \in searched : /\ GetCasForKey(m, c, key) = cas
                            /\ \A d \in searched : d < c => GetCasForKey(m, d, key) < cas

-----------------------------------------------------------------------------
(* What holds of a manager between any two calls *)

Fields == {"items", "list", "numItems", "mutationCounter", "cursors"}

IsManager(m) ==
    /\ DOMAIN m = Fields
    /\ m.mutationCounter \in Nat /\ m.numItems \in Int
    /\ m.items \in [DOMAIN m.items -> Item]
    /\ m.list \in [DOMAIN m.list -> Checkpoint]
    /\ m.cursors \in [DOMAIN m.cursors -> Cursor]
    /\ Persistence \in DOMAIN m.cursors /\ DOMAIN m.cursors \subseteq Names

\* Ids are handed out upwards; an item is in a checkpoint of the list, after its dummy and
\* after everything in the checkpoints before.
ItemsInOrder(m) ==
    /\ DOMAIN m.items \subseteq 1 .. m.mutationCounter
    /\ \A i \in DOMAIN m.items : m.items[i].ckpt \in DOMAIN m.list /\ m.items[i].ckpt <= i
    /\ \A i, j \in DOMAIN m.items : i <= j => m.items[i].ckpt <= m.items[j].ckpt

\* Only mutations have keys.
KeysOfMutations(m) ==
    \A i \in DOMAIN m.items : m.items[i].op # "mutation" => m.items[i].key = NoKey

\* Only the last checkpoint may be open.
ClosedBefore(m) ==
    \A c, d \in DOMAIN m.list : c < d => m.list[c].state = "closed"

DummiesFirst(m) ==
    \A c \in DOMAIN m.list :
      c \in DOMAIN m.items /\ m.items[c] = [ckpt |-> c, op |-> "empty", key |-> NoKey]

\* keyIndex has one entry per key.
UniqueKeys(m) ==
    \A i, j \in DOMAIN m.items :
      m.items[i].ckpt = m.items[j].ckpt /\ m.items[i].key = m.items[j].key
        /\ m.items[i].key # NoKey => i = j

CursorsInList(m) ==
    \A n \in DOMAIN m.cursors : /\ m.cursors[n].ckpt \in DOMAIN m.list
                                /\ m.cursors[n].pos \in ToWrite(m, m.cursors[n].ckpt)

CursorsIn(m, c) == {n \in DOMAIN m.cursors : m.cursors[n].ckpt = c}

RefsExact(m) == \A c \in DOMAIN m.list : m.list[c].refs = Cardinality(CursorsIn(m, c))

Lists(m) ==
    /\ IsManager(m) /\ ItemsInOrder(m) /\ DummiesFirst(m) /\ UniqueKeys(m)
    /\ KeysOfMutations(m) /\ ClosedBefore(m)

Good(m) == Lists(m) /\ DOMAIN m.list # {} /\ CursorsInList(m) /\ RefsExact(m)

-----------------------------------------------------------------------------
(* The counts *)

Of(m, c, op) == {i \in ToWrite(m, c) : m.items[i].op = op}

\* The shape that the sums rely on (2 is for checkpoint start and end items): a
\* checkpoint is a dummy, a start, mutations of keys, as many as its numItems says, and
\* an end exactly when it is closed.
WellFormed(m) ==
    \A c \in DOMAIN m.list :
      /\ Of(m, c, "empty") = {c}
      /\ \E s \in ToWrite(m, c) : /\ Of(m, c, "checkpoint_start") = {s}
                                  /\ \A i \in ToWrite(m, c) : i > c => i >= s
      /\ Of(m, c, "checkpoint_end") =
           IF m.list[c].state = "closed" THEN {Max(ToWrite(m, c))} ELSE {}
      /\ \A i \in Of(m, c, "mutation") : m.items[i].key # NoKey
      /\ m.list[c].numItems = Cardinality(Of(m, c, "mutation"))

Counted(m) == {i \in DOMAIN m.items : m.items[i].op # "empty"}

\* numItems of the manager, updated by increments and by sums over removed checkpoints.
NumItemsExact(m) == m.numItems = Cardinality(Counted(m))

ReadBy(m, n) == {i \in Counted(m) : i <= m.cursors[n].pos}

\* The persistence cursor's offset is the number of items left of it; that of a TAP
\* cursor, which can be placed in a closed last checkpoint, is at most one too large.
OffsetExact(m, n) ==
    m.cursors[n].offset - Cardinality(ReadBy(m, n)) \in IF n = Persistence THEN {0} ELSE {0, 1}

Exact(m) ==
    /\ WellFormed(m) /\ NumItemsExact(m)
    /\ \A n \in DOMAIN m.cursors : OffsetExact(m, n)
=============================================================================
