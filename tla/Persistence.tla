----------------------------- MODULE Persistence -----------------------------
(***************************************************************************)
(* The way of a mutation to the disk and back: the hash table of an active *)
(* vbucket, the items queued for persistence, the flusher's batch, the     *)
(* transaction of the storage and its commits, vbucket snapshots, the      *)
(* eviction and background fetch of values, and a crash with the warmup    *)
(* that follows.                                                           *)
(*                                                                         *)
(* A mutation is identified by its number, which stands for its CAS and    *)
(* its value.  The queue keeps one item per key, as the open checkpoint    *)
(* and the second pass of beginFlush do; the order of the keys in a batch  *)
(* is the storage's (optimizeWrites) and is left open.                     *)
(***************************************************************************)
EXTENDS Integers, FiniteSets

CONSTANTS Keys, NoKey, Clients,
          MaxMutations,      \* bound: mutations
          Volatile,          \* the mutations whose value has an expiry time
          MaxCheckpoints,    \* bound: checkpoints that are closed
          MaxFailures,       \* bound: statements of the storage that fail
          MaxCrashes,        \* bound: crashes
          SeparateReader     \* hasSeparateRODispatcher: fetches do not wait for the flusher

ASSUME PersistenceAssumption ==
    /\ NoKey \notin Keys
    /\ MaxMutations \in Nat /\ MaxCheckpoints \in Nat /\ MaxFailures \in Nat
    /\ MaxCrashes \in Nat
    /\ Volatile \subseteq 1 .. MaxMutations
    /\ SeparateReader \in BOOLEAN

VARIABLES
    \* memory
    mem,            \* the hash table: [cas, data, dirty, id, resident, deleted, exp]
    pending,        \* per client, the item of a set between the hash table and the queue
    queue,          \* per key, the item the persistence cursor has not read
    openId,         \* id of the open checkpoint
    fetch,          \* a background fetch: [stage, key, row, data]
    \* the flusher
    flush,          \* [on, id]: a flush is under way, of the closed checkpoints up to id
    writing,        \* the items of the flush not yet accepted by the storage
    cur,            \* the item the flusher has handed to the storage
    persistedId,    \* persistenceCheckpointIds as published by completeFlush
    snapshot,       \* a vbucket snapshot is scheduled
    \* the storage: [rows, id, applied], with the transaction and as committed
    txn, disk,
    warmup,         \* rows of the warmup still to be loaded
    time,           \* 0: before the expiry time, 1: within the expiry window of it, 2: after it
    mutations, failures, crashes,
    queued,         \* history: how many items have been queued
    due,            \* history: the last item of each key in a closed checkpoint
    harmed          \* history: keys that one of the faults listed in README.md has hit

memVars == <<mem, pending, queue, openId, fetch>>

flushVars == <<flush, writing, cur, persistedId, snapshot>>

bounds == <<mutations, failures, crashes>>

history == <<queued, due, harmed>>

vars == <<memVars, flushVars, txn, disk, warmup, time, bounds, history>>

Numbers == 1 .. MaxMutations

NoEntry == [cas |-> 0, data |-> 0, dirty |-> FALSE, id |-> -1, resident |-> FALSE,
            deleted |-> FALSE, exp |-> FALSE]

NoItem == [op |-> "none", cas |-> 0, seq |-> 0]

NoFetch == [stage |-> "none", key |-> NoKey, row |-> -1, data |-> 0]

NoCur == [key |-> NoKey, item |-> NoItem, id |-> -1]

NoFlush == [on |-> FALSE, id |-> 0]

\* Row ids: none yet, waiting for the storage, or a row.
NoId == -1

PendingId == -2

RowIds == Nat \ {0}

\* seq is history: the place of the item in the order of queueing.
Items == [op : {"none", "set", "del"}, cas : 0 .. MaxMutations, seq : Nat]

Rows == [row : RowIds, key : Keys, data : Numbers]

Storage == [rows : SUBSET Rows, id : 0 .. MaxCheckpoints, applied : [Keys -> Nat]]

Entries == [cas : 0 .. MaxMutations, data : 0 .. MaxMutations, dirty : BOOLEAN,
            id : {NoId, PendingId} \cup RowIds, resident : BOOLEAN, deleted : BOOLEAN, exp : BOOLEAN]

Ops == [key : Keys \cup {NoKey}, item : Items]

Fetches == [stage : {"none", "queued", "read"}, key : Keys \cup {NoKey},
            row : {NoId, PendingId} \cup RowIds, data : 0 .. MaxMutations]

Flushes == [on : BOOLEAN, id : 0 .. MaxCheckpoints]

Statements == [key : Keys \cup {NoKey}, item : Items, id : {NoId, PendingId} \cup RowIds]

TypeOK ==
    /\ mem \in [Keys -> Entries] /\ pending \in [Clients -> Ops] /\ queue \in [Keys -> Items]
    /\ openId \in 1 .. (MaxCheckpoints + 1) /\ fetch \in Fetches
    /\ flush \in Flushes /\ writing \in [Keys -> Items] /\ cur \in Statements
    /\ persistedId \in 0 .. MaxCheckpoints /\ snapshot \in BOOLEAN
    /\ txn \in Storage /\ disk \in Storage /\ IsFiniteSet(txn.rows) /\ IsFiniteSet(disk.rows)
    /\ warmup \subseteq Rows /\ time \in 0 .. 2
    /\ mutations \in 0 .. MaxMutations /\ failures \in 0 .. MaxFailures
    /\ crashes \in 0 .. MaxCrashes
    /\ due \in [1 .. MaxCheckpoints -> [Keys -> Nat]]
    /\ queued \in Nat /\ harmed \subseteq Keys

NoOp == [key |-> NoKey, item |-> NoItem]

Empty == [rows |-> {}, id |-> 0, applied |-> [k \in Keys |-> 0]]

Init ==
    /\ mem = [k \in Keys |-> NoEntry] /\ pending = [c \in Clients |-> NoOp]
    /\ queue = [k \in Keys |-> NoItem] /\ openId = 1 /\ fetch = NoFetch
    /\ flush = NoFlush /\ writing = [k \in Keys |-> NoItem] /\ cur = NoCur
    /\ persistedId = 0 /\ snapshot = FALSE
    /\ txn = Empty /\ disk = Empty /\ warmup = {} /\ time = 0
    /\ mutations = 0 /\ failures = 0 /\ crashes = 0
    /\ due = [c \in 1 .. MaxCheckpoints |-> [k \in Keys |-> 0]] /\ queued = 0 /\ harmed = {}

-----------------------------------------------------------------------------
(* The hash table and the front end *)

Exists(k) == mem[k] # NoEntry

Live(k) == Exists(k) /\ ~mem[k].deleted

IsExpired(k) == time = 2 /\ mem[k].exp

\* Within itemExpiryWindow of its expiry time.
IsExpiring(k) == time > 0 /\ mem[k].exp

\* waitforwarmup: clients are served when the warmup is over.
Serves == warmup = {}

Item(op, n) == [op |-> op, cas |-> n, seq |-> 0]

\* queueDirty: the item takes the place of an earlier one of its key.
Queue(k, item) ==
    /\ queued' = queued + 1
    /\ queue' = [queue EXCEPT ![k] = [item EXCEPT !.seq = queued + 1]]

\* Somebody else has written the key and not queued it yet: the two may be queued in the
\* opposite order.
Overlap(k) == IF \E c \in Clients : pending[c].key = k THEN {k} ELSE {}

\* set and add: HashTable::set under the bucket's lock, the queue after it.
Set(c, k) ==
    LET n == mutations + 1
    IN  /\ Serves /\ pending[c] = NoOp /\ n \in Numbers
        /\ mutations' = n
        /\ mem' = [mem EXCEPT ![k] = [cas |-> n, data |-> n, dirty |-> TRUE, id |-> mem[k].id,
                                      resident |-> TRUE, deleted |-> FALSE, exp |-> n \in Volatile]]
        /\ pending' = [pending EXCEPT ![c] = [key |-> k, item |-> Item("set", n)]]
        /\ harmed' = harmed \cup Overlap(k)
        /\ UNCHANGED <<queue, openId, fetch, flushVars, txn, disk,
                       warmup, time, failures, crashes, queued, due>>

QueueDirty(c) ==
    /\ pending[c] # NoOp
    /\ Queue(pending[c].key, pending[c].item)
    /\ pending' = [pending EXCEPT ![c] = NoOp]
    /\ UNCHANGED <<mem, openId, fetch, flushVars, txn, disk, warmup,
                   time, bounds, due, harmed>>

\* softDelete: the value goes, the row id and the expiry time stay, the cas changes.
SoftDeleted(e, n) == [e EXCEPT !.cas = n, !.data = 0, !.dirty = TRUE, !.deleted = TRUE]

\* del, and an access to an expired value; both queue the deletion under the lock.  A del
\* that finds an expired value without a row queues nothing.
Delete(c, k, access) ==
    LET n == mutations + 1
    IN  /\ Serves /\ pending[c] = NoOp /\ Live(k) /\ n \in Numbers
        /\ access => IsExpired(k)
        /\ mutations' = n
        /\ mem' = [mem EXCEPT ![k] = SoftDeleted(mem[k], n)]
        /\ IF ~access /\ IsExpired(k) /\ mem[k].id = NoId
           THEN UNCHANGED <<queue, queued>> ELSE Queue(k, Item("del", n))
        /\ harmed' = harmed \cup Overlap(k)
        /\ UNCHANGED <<pending, openId, fetch, flushVars, txn, disk,
                       warmup, time, failures, crashes, due>>

\* fetchValidValue finds an expired value: it is deleted, the deletion is queued, and the
\* caller sees no entry.
PurgeExpired(k) ==
    /\ mutations + 1 \in Numbers
    /\ mutations' = mutations + 1
    /\ mem' = [mem EXCEPT ![k] = SoftDeleted(mem[k], mutations + 1)]
    /\ Queue(k, Item("del", mutations + 1))

\* Time passes.
Expire ==
    /\ time < 2 /\ Volatile # {} /\ warmup = {}
    /\ time' = time + 1
    /\ UNCHANGED <<memVars, flushVars, txn, disk, warmup, bounds, history>>

\* ejectValue, for the item pager and the evict command.
Evict(k) ==
    /\ Live(k) /\ mem[k].resident /\ ~mem[k].dirty
    /\ mem' = [mem EXCEPT ![k].resident = FALSE, ![k].data = 0]
    /\ UNCHANGED <<pending, queue, openId, fetch, flushVars, txn, disk,
                   warmup, time, bounds, history>>

\* The newest item of a key that a flush has taken, and the newest that was queued.
LastTaken(k) == IF writing[k] # NoItem THEN writing[k].seq
                ELSE IF cur.key = k THEN cur.item.seq ELSE txn.applied[k]

LastQueued(k) == IF queue[k] # NoItem THEN queue[k].seq ELSE LastTaken(k)

\* The open checkpoint is closed and the next one opened.
CloseCheckpoint ==
    /\ openId <= MaxCheckpoints
    /\ openId' = openId + 1
    /\ due' = [due EXCEPT ![openId] = [k \in Keys |-> LastQueued(k)]]
    /\ UNCHANGED <<mem, pending, queue, fetch, flushVars, txn, disk,
                   warmup, time, bounds, queued, harmed>>

-----------------------------------------------------------------------------
(* Background fetch *)

\* The reader's view of the storage: its own connection sees what is committed.
Visible == IF SeparateReader THEN disk.rows ELSE txn.rows

\* get of a value that is not resident.
BgFetch(k) ==
    /\ Serves /\ fetch = NoFetch
    /\ Live(k) /\ ~mem[k].resident /\ ~IsExpired(k)
    /\ fetch' = [stage |-> "queued", key |-> k, row |-> mem[k].id, data |-> 0]
    /\ UNCHANGED <<mem, pending, queue, openId, flushVars, txn, disk,
                   warmup, time, bounds, history>>

\* completeBGFetch reads the row, whatever key it holds by now, without a lock ...
FetchRead ==
    LET found == {r \in Visible : r.row = fetch.row}
    IN  /\ fetch.stage = "queued" /\ (SeparateReader \/ cur = NoCur)
        /\ fetch' = IF found = {} THEN NoFetch
                    ELSE [fetch EXCEPT !.stage = "read", !.data = (CHOOSE r \in found : TRUE).data]
        /\ harmed' = IF \E r \in found : r.key # fetch.key THEN harmed \cup {fetch.key} ELSE harmed
        /\ UNCHANGED <<mem, pending, queue, openId, flushVars, txn, disk,
                       warmup, time, bounds, queued, due>>

\* ... and puts the value into an entry that has none and has not expired.
FetchDone ==
    LET k == fetch.key
    IN  /\ fetch.stage = "read"
        /\ \/ /\ ~(Live(k) /\ IsExpired(k))
              /\ mem' = IF Live(k) /\ ~mem[k].resident
                        THEN [mem EXCEPT ![k].resident = TRUE, ![k].data = fetch.data] ELSE mem
              /\ UNCHANGED <<queue, mutations, queued>>
           \/ Live(k) /\ IsExpired(k) /\ PurgeExpired(k)
        /\ fetch' = NoFetch
        /\ UNCHANGED <<pending, openId, flushVars, txn, disk,
                       warmup, time, failures, crashes, due, harmed>>

-----------------------------------------------------------------------------
(* The flusher, on the read-write dispatcher *)

\* One task at a time: an item is with the storage, or a fetch is on the same thread.
Dispatches == warmup = {} /\ cur = NoCur /\ (SeparateReader \/ fetch.stage # "read")

\* On one dispatcher a waiting fetch, which has the higher priority, goes first.
BeginFlush ==
    /\ Dispatches /\ ~flush.on /\ (SeparateReader \/ fetch = NoFetch)
    /\ \E k \in Keys : queue[k] # NoItem
    /\ flush' = [on |-> TRUE, id |-> openId - 1]
    /\ writing' = queue
    /\ queue' = [k \in Keys |-> NoItem]
    /\ UNCHANGED <<mem, pending, openId, fetch, cur, persistedId,
                   snapshot, txn, disk, warmup, time, bounds, history>>

Takes(k) == Dispatches /\ flush.on /\ writing[k] # NoItem

Without(k) == [writing EXCEPT ![k] = NoItem]

\* The item leaves the batch and is the storage's.
HandOver(k, item, id) ==
    /\ cur' = [key |-> k, item |-> item, id |-> id]
    /\ UNCHANGED <<pending, queue, openId, fetch, flush, persistedId,
                   snapshot, txn, disk, warmup, time, bounds, history>>

\* No entry: nothing is written.
FlushMissing(k) ==
    /\ Takes(k)
    /\ \/ ~Exists(k) /\ UNCHANGED <<mem, queue, mutations, queued>>
       \/ Live(k) /\ IsExpired(k) /\ PurgeExpired(k)
    /\ writing' = [writing EXCEPT ![k] = NoItem]
    /\ txn' = [txn EXCEPT !.applied[k] = writing[k].seq]
    /\ UNCHANGED <<pending, openId, fetch, flush, cur, persistedId,
                   snapshot, disk, warmup, time, failures, crashes, due, harmed>>

\* A value about to expire is not written and its row is deleted.
FlushExpired(k) ==
    /\ Takes(k) /\ Exists(k) /\ IsExpiring(k) /\ ~(Live(k) /\ IsExpired(k))
    /\ mem' = [mem EXCEPT ![k].dirty = FALSE, ![k].id = NoId]
    /\ writing' = Without(k)
    /\ HandOver(k, [writing[k] EXCEPT !.op = "del"], mem[k].id)

\* A row id is asked for when the item has none.
WithPendingId(id) == IF id = NoId THEN PendingId ELSE id

\* Mutant: the entry is cleaned whatever its value is by now.
FlushSetCleans(k) ==
    /\ Takes(k) /\ Exists(k) /\ ~IsExpiring(k) /\ writing[k].op = "set"
    /\ ~snapshot /\ mem[k].id # PendingId
    /\ mem' = [mem EXCEPT ![k].id = WithPendingId(@),
                          ![k].dirty = FALSE]
    /\ writing' = Without(k)
    /\ HandOver(k, writing[k], mem[k].id)

\* Mutant: an entry that has changed since is taken for a new one.
FlushSetAsNew(k) ==
    /\ Takes(k) /\ Exists(k) /\ ~IsExpiring(k) /\ writing[k].op = "set"
    /\ ~snapshot /\ mem[k].id # PendingId
    /\ mem' = [mem EXCEPT ![k].id = WithPendingId(@),
                          ![k].dirty = @ /\ mem[k].cas # writing[k].cas]
    /\ writing' = Without(k)
    /\ HandOver(k, writing[k], IF mem[k].cas = writing[k].cas THEN mem[k].id ELSE NoId)

\* A set waits for a scheduled snapshot, and for a row id that is asked for (which then is
\* for good); it cleans the entry that still has its value.
FlushSet(k) ==
    /\ Takes(k) /\ Exists(k) /\ ~IsExpiring(k) /\ writing[k].op = "set"
    /\ ~snapshot /\ mem[k].id # PendingId
    /\ mem' = [mem EXCEPT ![k].id = WithPendingId(@),
                          ![k].dirty = @ /\ mem[k].cas # writing[k].cas]
    /\ writing' = Without(k)
    /\ HandOver(k, writing[k], mem[k].id)

\* A deletion that finds a row id asked for is rejected, and carried out.
FlushDel(k) ==
    /\ Takes(k) /\ Exists(k) /\ ~IsExpiring(k) /\ writing[k].op = "del"
    /\ mem' = [mem EXCEPT ![k].id = WithPendingId(@)]
    /\ writing' = IF mem[k].id = PendingId THEN writing ELSE Without(k)
    /\ HandOver(k, writing[k], mem[k].id)

\* The row id of an insert: one more than the largest.
NewRow == 1 + CHOOSE m \in {0} \cup {r.row : r \in txn.rows} : \A r \in txn.rows : r.row <= m

Row(row, k, n) == [row |-> row, key |-> k, data |-> n]

\* The keys of others that a statement by row id hits.
Victims == {k \in Keys \ {cur.key} : \E r \in txn.rows : r.row = cur.id /\ r.key = k}

Applied(rows) == [txn EXCEPT !.rows = rows, !.applied[cur.key] = cur.item.seq]

\* The storage inserts the value and PersistenceCallback sets the row id.
Insert ==
    /\ cur.item.op = "set" /\ cur.id = NoId
    /\ txn' = Applied(txn.rows \cup {Row(NewRow, cur.key, cur.item.cas)})
    /\ mem' = IF Exists(cur.key) THEN [mem EXCEPT ![cur.key].id = NewRow] ELSE mem
    /\ cur' = NoCur
    /\ UNCHANGED <<pending, queue, openId, fetch, flush, writing,
                   persistedId, snapshot, disk, warmup, time, bounds, history>>

\* The storage updates the row; if there is none the callback only logs it.
Update ==
    /\ cur.item.op = "set" /\ cur.id # NoId
    /\ txn' = Applied({IF r.row = cur.id THEN Row(r.row, cur.key, cur.item.cas) ELSE r :
                       r \in txn.rows})
    /\ cur' = NoCur
    /\ harmed' = harmed \cup Victims
    /\ UNCHANGED <<memVars, flush, writing, persistedId, snapshot, disk, warmup, time, bounds,
                   queued, due>>

\* The row goes, then the entry; an entry that has a value again needs a new row.
DeleteRow ==
    LET k == cur.key
    IN  /\ cur.item.op = "del"
        /\ txn' = Applied({r \in txn.rows : r.row # cur.id})
        /\ \/ /\ ~(Live(k) /\ IsExpired(k))
              /\ mem' = [mem EXCEPT ![k] = IF mem[k].deleted THEN NoEntry
                                          ELSE [mem[k] EXCEPT !.id = NoId]]
              /\ harmed' = harmed \cup Victims
              /\ UNCHANGED <<queue, mutations, queued>>
           \/ /\ Live(k) /\ IsExpired(k) /\ PurgeExpired(k)
              /\ harmed' = harmed \cup Victims \cup {k}
        /\ cur' = NoCur
        /\ UNCHANGED <<pending, openId, fetch, flush, writing,
                       persistedId, snapshot, disk, warmup, time, failures, crashes, due>>

\* Mutant: the item is not rejected.
RedirtyForgets ==
    /\ cur # NoCur /\ failures < MaxFailures
    /\ cur.item.op = "del" => cur.id \in RowIds
    /\ failures' = failures + 1
    /\ harmed' = IF \/ cur.item.op = "del" /\ mem[cur.key].id # cur.id
                    \/ cur.item.op = "set" /\ ~mem[cur.key].resident
                 THEN harmed \cup {cur.key} ELSE harmed
    /\ mem' = IF Exists(cur.key)
              THEN [mem EXCEPT ![cur.key].dirty = TRUE,
                               ![cur.key].id = IF @ = PendingId THEN NoId ELSE @]
              ELSE mem
    /\ writing' = writing
    /\ cur' = NoCur
    /\ UNCHANGED <<pending, queue, openId, fetch, flush, persistedId,
                   snapshot, txn, disk, warmup, time, mutations, crashes, queued, due>>

\* The statement fails: reDirty, and the item is rejected.  A delete without a row runs no
\* statement.
Redirty ==
    /\ cur # NoCur /\ failures < MaxFailures
    /\ cur.item.op = "del" => cur.id \in RowIds
    /\ failures' = failures + 1
    /\ harmed' = IF \/ cur.item.op = "del" /\ mem[cur.key].id # cur.id
                    \/ cur.item.op = "set" /\ ~mem[cur.key].resident
                 THEN harmed \cup {cur.key} ELSE harmed
    /\ mem' = IF Exists(cur.key)
              THEN [mem EXCEPT ![cur.key].dirty = TRUE,
                               ![cur.key].id = IF @ = PendingId THEN NoId ELSE @]
              ELSE mem
    /\ writing' = [writing EXCEPT ![cur.key] = cur.item]
    /\ cur' = NoCur
    /\ UNCHANGED <<pending, queue, openId, fetch, flush, persistedId,
                   snapshot, txn, disk, warmup, time, mutations, crashes, queued, due>>

\* The end of a batch: the transaction is committed, unless the flusher is preempted.
Commit ==
    /\ cur = NoCur /\ txn # disk
    /\ disk' = txn
    /\ UNCHANGED <<memVars, flushVars, txn, warmup, time, bounds, history>>

\* completeFlush publishes the checkpoint id and schedules a snapshot.
CompleteFlush ==
    /\ Dispatches /\ flush.on /\ \A k \in Keys : writing[k] = NoItem
    /\ persistedId' = IF flush.id > 0 THEN flush.id ELSE persistedId
    /\ snapshot' = TRUE
    /\ flush' = NoFlush
    /\ UNCHANGED <<memVars, writing, cur, txn, disk, warmup, time, bounds, history>>

\* Mutant: the id is committed without the items.
SnapshotAlone ==
    /\ snapshot /\ Dispatches
    /\ \/ /\ txn' = [txn EXCEPT !.id = persistedId] /\ disk' = [disk EXCEPT !.id = persistedId]
          /\ UNCHANGED failures
       \/ /\ failures < MaxFailures /\ failures' = failures + 1
          /\ \/ txn' = [txn EXCEPT !.id = persistedId] /\ UNCHANGED disk
             \/ txn' = [txn EXCEPT !.id = 0] /\ disk' = txn'
    /\ snapshot' = FALSE
    /\ UNCHANGED <<memVars, flush, writing, cur, persistedId, warmup, time, mutations, crashes,
                   history>>

\* snapshotVBuckets writes the id in the transaction of the items.  What storeMap reports
\* as done may be uncommitted, or without the vbucket's row.
Snapshot ==
    /\ snapshot /\ Dispatches
    /\ \/ txn' = [txn EXCEPT !.id = persistedId] /\ disk' = txn' /\ UNCHANGED failures
       \/ /\ failures < MaxFailures /\ failures' = failures + 1
          /\ \/ txn' = [txn EXCEPT !.id = persistedId] /\ UNCHANGED disk
             \/ txn' = [txn EXCEPT !.id = 0] /\ disk' = txn'
    /\ snapshot' = FALSE
    /\ UNCHANGED <<memVars, flush, writing, cur, persistedId, warmup, time, mutations, crashes,
                   history>>

-----------------------------------------------------------------------------
(* Crash and warmup *)

\* The process dies; the storage keeps what is committed, and the vbucket comes back with
\* the checkpoint after the persisted one.
Crash ==
    /\ crashes < MaxCrashes
    /\ crashes' = crashes + 1
    /\ mem' = [k \in Keys |-> NoEntry] /\ pending' = [c \in Clients |-> NoOp]
    /\ queue' = [k \in Keys |-> NoItem] /\ openId' = disk.id + 1
    /\ fetch' = NoFetch 
    /\ flush' = NoFlush /\ writing' = [k \in Keys |-> NoItem] /\ cur' = NoCur
    /\ persistedId' = disk.id /\ snapshot' = FALSE
    /\ txn' = disk /\ warmup' = disk.rows
    /\ UNCHANGED <<disk, time, mutations, failures, history>>

\* LoadStorageKVPairCallback, in the order of the rows: an entry that is there is kept, one
\* that is deleted or expired is given the value and keeps its row id.  If the row's value
\* has expired the key is deleted.
Load ==
    \E r \in warmup :
      LET k == r.key
          e == IF Live(k) /\ ~IsExpired(k) THEN mem[k]
               ELSE [cas |-> r.data, data |-> r.data, dirty |-> FALSE,
                     id |-> IF Exists(k) THEN mem[k].id ELSE r.row,
                     resident |-> TRUE, deleted |-> FALSE, exp |-> r.data \in Volatile]
          n == mutations + 1
      IN  /\ \A s \in warmup : r.row <= s.row
          /\ warmup' = warmup \ {r}
          /\ \/ /\ ~(time = 2 /\ r.data \in Volatile)
                /\ mem' = [mem EXCEPT ![k] = e]
                /\ UNCHANGED <<queue, mutations, queued>>
             \/ /\ time = 2 /\ r.data \in Volatile /\ n \in Numbers
                /\ mutations' = n
                /\ mem' = [mem EXCEPT ![k] = SoftDeleted(e, n)]
                /\ IF e.exp /\ e.id = NoId THEN UNCHANGED <<queue, queued>>
                   ELSE Queue(k, Item("del", n))
          /\ UNCHANGED <<pending, openId, fetch, flushVars, txn, disk,
                         time, failures, crashes, due, harmed>>

-----------------------------------------------------------------------------
Next ==
    \/ \E c \in Clients : \/ QueueDirty(c)
                          \/ \E k \in Keys : \/ Set(c, k)
                                             \/ \E access \in BOOLEAN : Delete(c, k, access)
    \/ \E k \in Keys : \/ Evict(k) \/ BgFetch(k)
                       \/ FlushMissing(k) \/ FlushExpired(k) \/ FlushSet(k) \/ FlushDel(k)
    \/ Expire \/ CloseCheckpoint \/ FetchRead \/ FetchDone
    \/ BeginFlush \/ Insert \/ Update \/ DeleteRow \/ Redirty
    \/ Commit \/ CompleteFlush \/ Snapshot
    \/ Crash \/ Load

Spec == Init /\ [][Next]_vars

-----------------------------------------------------------------------------
(* Properties *)

RowsOf(k) == {r \in txn.rows : r.key = k}

\* Nothing is left to do for the flusher.
Quiet ==
    /\ \A c \in Clients : pending[c] = NoOp
    /\ \A k \in Keys : queue[k] = NoItem /\ writing[k] = NoItem
    /\ cur = NoCur /\ warmup = {}

SameContents(k) ==
    \/ Live(k) /\ RowsOf(k) = {Row(mem[k].id, k, mem[k].cas)}
    \/ (~Live(k) \/ IsExpiring(k)) /\ RowsOf(k) = {}

\* When the flusher has nothing left to do the storage holds what the hash table holds,
\* after failed statements that the persistence callback makes dirty again, deletions that
\* meet a new set of their key, and a crash with its warmup.
StoredWhenQuiet == Quiet => \A k \in Keys \ harmed : SameContents(k)

\* A key never has two rows, of which the warmup would take the older: flushOneDelOrSet
\* inserts only a key whose row id is unknown, and the callback sets that id before the key
\* is flushed again.
OneRowPerKey ==
    \A r, s \in txn.rows : r.key = s.key /\ r.key \notin harmed => r = s

\* A clean value, which the pager may drop, is in the row that the entry names, although
\* flushOneDelOrSet marks it clean before the storage has it.
CleanIsStored ==
    \A k \in Keys \ harmed : Live(k) /\ ~mem[k].dirty /\ ~IsExpiring(k) =>
         \/ Row(mem[k].id, k, mem[k].cas) \in txn.rows
         \/ cur # NoCur /\ cur.key = k

\* A value in memory is the one last written: completeBGFetch never brings an older one
\* back, whatever was written and evicted since the fetch was scheduled.
ResidentIsLatest ==
    \A k \in Keys \ harmed : Live(k) /\ mem[k].resident => mem[k].data = mem[k].cas

\* A checkpoint that the committed vbucket state names (snapshotVBuckets) is completely on
\* disk, whatever crashes, fails or is preempted between beginFlush and completeFlush.
CheckpointIsStored ==
    \A c \in 1 .. disk.id : \A k \in Keys : disk.applied[k] >= due[c][k]

-----------------------------------------------------------------------------
(* What ep.cc keeps true at every step of a flush, a fetch, an expiry or a warmup *)

\* What has not been queued, and what has, is of a mutation.
OpsFit ==
    \A c \in Clients : \/ pending[c] = NoOp
                       \/ /\ pending[c].key \in Keys /\ pending[c].item.op = "set"
                          /\ pending[c].item.cas \in 1 .. mutations

IsQueued(item) == item = NoItem \/ (item.op # "none" /\ item.cas \in 1 .. mutations)

ItemsFit ==
    \A k \in Keys : IsQueued(queue[k]) /\ IsQueued(writing[k]) /\ (Exists(k) => mem[k].cas >= 1)

\* The storage has an item of a key that has an entry, and that is not in the batch as well.
HandedFits ==
    \/ cur = NoCur
    \/ /\ cur.key \in Keys /\ Exists(cur.key) /\ cur.item.op \in {"set", "del"}
       /\ cur.item.cas \in 1 .. mutations
       /\ cur.item.op = "set" => cur.id # PendingId
       /\ cur.id # PendingId => writing[cur.key] = NoItem

\* Nothing is written outside a flush; one dispatcher runs one task at a time.
TasksFit ==
    /\ ~flush.on => cur = NoCur /\ \A k \in Keys : writing[k] = NoItem
    /\ fetch.stage = "none" \/ fetch.key \in Keys
    /\ ~SeparateReader /\ fetch.stage = "read" => cur = NoCur

BatchFits == OpsFit /\ ItemsFit /\ HandedFits /\ TasksFit

\* A row id is one row's, and the committed storage, too, has one row per key.
RowsFit ==
    /\ \A r, s \in txn.rows : r.row = s.row => r = s
    /\ \A r, s \in disk.rows : r.row = s.row \/ (r.key = s.key /\ r.key \notin harmed) => r = s

\* Nobody works before the warmup is over, and what it has not loaded has no entry.
WarmupFits ==
    warmup # {} =>
      /\ ~flush.on /\ fetch = NoFetch /\ \A c \in Clients : pending[c] = NoOp
      /\ warmup \subseteq txn.rows /\ warmup \subseteq disk.rows
      /\ \A r \in warmup : r.key \notin harmed => ~Exists(r.key) /\ queue[r.key] = NoItem

\* The items of a key are applied in the order in which they were queued.
OrderFits ==
    /\ \A k \in Keys :
         /\ disk.applied[k] <= queued
         /\ txn.applied[k] <= LastTaken(k) /\ LastTaken(k) <= LastQueued(k)
         /\ LastQueued(k) <= queued
         /\ cur.key = k => txn.applied[k] <= cur.item.seq /\ cur.item.seq <= LastTaken(k)

\* What is behind the checkpoints that are closed, being flushed, flushed, and stored.
CheckpointsFit ==
    /\ {flush.id, persistedId, txn.id, disk.id} \subseteq 0 .. (openId - 1)
    /\ \A c \in 1 .. MaxCheckpoints : \A k \in Keys :
         /\ c < openId => LastQueued(k) >= due[c][k]
         /\ c <= flush.id => LastTaken(k) >= due[c][k]
         /\ c <= persistedId \/ c <= txn.id => txn.applied[k] >= due[c][k]
         /\ c <= disk.id => disk.applied[k] >= due[c][k]

Unqueued(k) == \E c \in Clients : pending[c].key = k

\* An item of the key has still to reach the storage.
Outstanding(k) == Unqueued(k) \/ queue[k] # NoItem \/ writing[k] # NoItem

\* The row of a key is the one its entry names, unless it is being deleted or loaded.
RowIsKnown(k) ==
    \A r \in txn.rows : r.key = k =>
        \/ r \in warmup
        \/ Exists(k) /\ mem[k].id = r.row
        \/ cur.key = k /\ cur.item.op = "del" /\ cur.id = r.row

\* The row that an entry names, or a statement is about, is there and is the key's.
IdIsValid(k) ==
    /\ mem[k].id \in RowIds => \E r \in txn.rows : r.row = mem[k].id /\ r.key = k
    /\ cur.key = k /\ cur.id \in RowIds => \E r \in txn.rows : r.row = cur.id /\ r.key = k

\* A row id is asked for while the storage has the key's first item, and no longer.
IdFits(k) ==
    /\ cur.key # k => mem[k].id # PendingId
    /\ cur.key = k /\ cur.item.op = "set" =>
         mem[k].id = IF cur.id = NoId THEN PendingId ELSE cur.id
    /\ cur.key = k /\ cur.item.op = "del" =>
         \/ mem[k].id \in {NoId, cur.id}
         \/ mem[k].id = PendingId /\ cur.id = NoId
    /\ cur.key = k => cur.id # PendingId

\* The value of a dirty entry is the one of the key's newest item, and of no other.
DirtyIsQueued(k) ==
    LET Is(item) == item.op = "set" /\ item.cas = mem[k].cas
        Older(item) == item.cas # mem[k].cas
    IN  Live(k) /\ mem[k].dirty =>
          /\ cur.key = k => Older(cur.item)
          /\ \/ /\ \E c \in Clients : pending[c].key = k /\ Is(pending[c].item)
                /\ Older(queue[k]) /\ Older(writing[k])
             \/ ~Unqueued(k) /\ Is(queue[k]) /\ Older(writing[k])
             \/ ~Unqueued(k) /\ queue[k] = NoItem /\ Is(writing[k])

\* The value of a clean entry is stored or with the storage, and nothing is outstanding;
\* or it is about to expire, and has no row.
CleanIsLast(k) ==
    Live(k) /\ ~mem[k].dirty =>
        \/ mem[k].id = NoId /\ IsExpiring(k)
        \/ /\ mem[k].id # NoId /\ ~Outstanding(k)
           /\ IF cur.key = k THEN cur.item.op = "set" /\ cur.item.cas = mem[k].cas
                             ELSE Row(mem[k].id, k, mem[k].cas) \in txn.rows

\* A deleted entry has no row, or its last item deletes it.
GoneIsQueued(k) ==
    Exists(k) /\ mem[k].deleted =>
        \/ /\ Outstanding(k)
           /\ \/ IsExpiring(k)
              \/ ~Unqueued(k) /\ queue[k].op = "del"
              \/ ~Unqueued(k) /\ queue[k] = NoItem /\ writing[k].op = "del"
        \/ ~Outstanding(k) /\ cur.key = k /\ cur.item.op = "del"
        \/ ~Outstanding(k) /\ cur.key # k /\ RowsOf(k) = {}

\* One client at a time writes the key; a value not in memory is clean, and one that has
\* been read for it is the newest.
ValueFits(k) ==
    /\ \A c, d \in Clients : pending[c].key = k /\ pending[d].key = k => c = d
    /\ Live(k) /\ ~mem[k].resident => ~mem[k].dirty
    /\ ~SeparateReader /\ fetch.stage = "read" /\ fetch.key = k /\ Live(k) /\ ~mem[k].dirty =>
         fetch.data = mem[k].cas

KeyFits(k) ==
    /\ RowIsKnown(k) /\ IdIsValid(k) /\ IdFits(k)
    /\ DirtyIsQueued(k) /\ CleanIsLast(k) /\ GoneIsQueued(k) /\ ValueFits(k)

\* What ep.cc and flusher.cc keep true of entries, items, rows and checkpoints at every step
\* of a flush, a fetch, an expiry, a failed statement, a crash or a warmup: one row per key,
\* which the entry names, in memory the value last written, and each key's items applied in
\* their order.
EntriesFit ==
    /\ TypeOK /\ OneRowPerKey /\ (~SeparateReader => ResidentIsLatest)
    /\ BatchFits /\ RowsFit /\ WarmupFits /\ OrderFits /\ CheckpointsFit
    /\ \A k \in Keys \ harmed : KeyFits(k)
=============================================================================
