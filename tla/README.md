# TLA+ models of membase

This directory holds a verification project for membase: TLA+ modules translated
from the source, TLC configurations that check them on small instances, and TLAPS
proofs that hold for every instance. `PROJECT.json` is the index: which definition
models which lines, what each run checks, the hazards behind the properties, and
the theorems.

## The system and its parts

membase is a set of cooperating programs. A node runs memcached's daemon
(`memcached/daemon`), which loads `bucket_engine`, which loads one `ep-engine` (the
eventually persistent engine) per bucket. `ns_server` (Erlang) manages the cluster:
it assigns vbuckets (partitions) to nodes, moves them, and fails nodes over. `moxi`
is a client-side proxy. Replication between nodes is a TAP stream, which
`vbucketmigrator` or ns_server's `ebucketmigrator_srv` carries.

| Part | State it keeps | Operations | Talks to | What is hard |
|---|---|---|---|---|
| Checkpoint manager (`ep-engine/checkpoint.*`) | list of checkpoints per vbucket, each a deduplicated list of items; a persistence cursor, TAP cursors; counts and offsets | queue, open, close, remove, roll back, clear, register and remove a cursor, next item, all items | everything below | iterators into lists others erase from; running counts; ids chosen by another node |
| Persistence (`ep.cc`, `flusher.*`) | outgoing queue, transaction, last persisted checkpoint id | begin flush, flush some, requeue, complete, fetch, warm up | queue, hash table, storage | partial failure, values stale when written or fetched, restart |
| vbucket (`vbucket.*`) | state, pending operations, backfill phase | set state, add and fire pending operations | queue, front end | check-then-act over two locks; wakers that need the waiter's lock |
| Hash table (`stored-value.*`) | values: dirty, resident, locked, expired | set, delete, eject, restore | persistence, pager | changed and queued in two critical sections |
| TAP (`tapconnection.*`, `tapconnmap.*`, `backfill.cc`) | send log, acknowledgement window, per-vbucket stream state | next, request and process acks, roll back, reconnect, take over, checkpoint messages | queue, peers | lost, repeated and late acks; sequence numbers that wrap |
| Dispatcher (`dispatcher.*`) | ready and future queues, task states | schedule, wake, snooze, cancel, stop | every background task | lost wake-ups, shutdown |
| Pagers and remover (`item_pager.cc`, `htresizer.cc`, `checkpoint_remover.cc`) | none | periodic visits | hash table, queue | act on an answer that may be stale |
| Sync registry (`sync_registry.cc`) | listeners per kind of SYNC | register, key modified, deleted, replicated, abort, destroy | TAP, front end, dispatcher | event before registration, abort against last key, lifetime of listeners |
| bucket_engine | buckets, reference counts, per-connection data | create, delete, select, reserve, disconnect, shut down | memcached, engines | deletion with requests in flight |
| memcached daemon | worker threads, connections, pending I/O | call the engine, block, notify, close | engines | notifications from other threads |
| ns_server | configuration, master, vbucket maps, movers | elect, fail over, rebalance, replicate configuration | all nodes | partitions, timeouts, restarts |
| default_engine, moxi, libvbucket, libconflate | slabs, proxies | I/O | clients | upstream or I/O code, not modelled |

What makes each of them correct:

- checkpoint manager: no cursor dangles; a checkpoint is freed exactly when nobody
  reads it or anything before it; every reader gets every mutation that it has not been
  given, in its newest version; counts and offsets are exact;
- persistence: what is acknowledged as persisted is on disk, also after a restart; memory
  and disk agree once everything is written; a fetch brings no old value back;
- TAP: nothing is lost by a refusal or a reconnect; a replica closes a checkpoint only
  when it has all of it; a vbucket has one owner; the stream does not stall;
- blocked connections: each is woken, once, and is not woken by somebody who waits for it;
- bucket_engine: a handle outlives its users; nobody calls into a stopping engine;
  deletions and shutdowns end;
- dispatcher and flusher: a scheduled task runs; a cancelled one does not; stop terminates;
- ns_server: one master; one automatic failover, of a node that was down long enough.

## Modules

| Module | Models |
|---|---|
| `CheckpointManager` | `checkpoint.cc` and `.hh` as operators from a manager record to a manager record, one per public method. No variables. |
| `VBucketQueue` | The actors on one vbucket's queue, one action each: mutations, checkpoint and backfill messages (`TapConsumer`), `flush_all`, state changes, the flusher (`beginFlush`), TAP producers (register, remove, next, put back) and the checkpoint remover. |
| `UnifiedQueue` | The abstract specification: what the queue promises its readers. |
| `Flusher` | `flusher.cc`, and as much of `dispatcher.cc` and `ep.cc` as drives it: the dispatcher thread with the flusher's task and the vbucket snapshot, connection threads that pause, resume and mutate, and the thread that initializes and destroys the engine. |
| `Persistence` | The hash table of an active vbucket, the flush of single items and the storage's callbacks, transactions and commits, vbucket snapshots, expiry, eviction and background fetch, crash and warmup. |
| `TapStream` | A replication stream of one vbucket: producer, connection and consumer, with acknowledgements, refusals, reconnects and takeover. |
| `BlockedClients` | Operations on a pending vbucket, SYNC, and memcached's `notify_io_complete`, with the locks all of them take. |
| `BucketEngine` | `bucket_engine.c`: the table of buckets, handles and their counts, connections, reservations, deletion and the server's shutdown. |
| `AutoFailover` | `auto_failover.erl`, `auto_failover_logic.erl`, and the orchestrator, membership and rebalance as far as they meet it. |
| `MbMaster` | `mb_master.erl`: election, both modes of operation, changes of the node list. |
| `MC...` | One per specification that TLC runs: constants that a cfg cannot write. |
| `...Proofs` | Lemmas and theorems about `CheckpointManager`, `VBucketQueue`, `Flusher`, `Persistence`, `TapStream`, `BucketEngine`, `AutoFailover` and `MbMaster`. |

`VBucketQueue` composes `CheckpointManager` with its actors; the other modules take from
the queue what its refinement of `UnifiedQueue` promises: a flush gets the newest item of
every key (`Persistence`), a TAP cursor gets the items in order (`TapStream`), and
`Flusher` and `Persistence` are the two halves of a flush, when it runs and what it does.

### The queue

- Every pushed item, the dummy included, takes the next mutation id and goes to the
  tail, so a list is a set of mutation ids, an iterator is an id, and `++` and `--` are
  the next larger and smaller id of the checkpoint. A checkpoint is named by the id of
  its dummy, its first item. `begin()` of checkpoint `c` is `c`.
- `keyIndex` is not a variable: a key's entry is its one item in the checkpoint, which
  the invariant `UniqueKeys` justifies.
- `numItems`, `referenceCounter`, each checkpoint's `numItems`, the cursors' offsets and
  `mutationCounter` are kept, because the code updates them incrementally and could get
  them wrong. Offsets are integers: a subtraction that would wrap shows up as a
  negative number.
- `queue_op_set` and `queue_op_del` are one operation, which this code treats alike. A
  value is represented by its mutation id. The cas of an item is taken to grow with its
  mutation id, as it does when a key's writers queue in the order in which they changed
  the hash table.
- Time, memory pressure and whether the hash table is empty are inputs (`elapsed`,
  `highMem`, `htEmpty`), chosen freely at each step. `htEmpty` requires that every queued
  mutation has been taken by the flusher.
- Every public method holds `queueLock` throughout, so it is one step.
  `VBucket::setState` calls two of them, so it is three: the check, the setting of the id
  and the change of state; `vbsetMutex` keeps two of them apart. Handling
  INITIAL_VBUCKET_STREAM (`resetVBucket`, `setBackfillPhase`) is one step.
- `status` is `"abort"` after a failed assertion and `"undefined"` after a step whose
  result the language does not define; nothing happens after either. `event` records
  what a step handed out, for the refinement only.

`UnifiedQueue`, the abstract specification, has one variable that matters: `pending[n]`,
the keys whose newest mutation reader `n` is still owed. A mutation, once queued, adds its
key for every reader; a reader takes one key (TAP) or all of them (the flusher); only a
roll-back or a reset takes anything back. Checkpoints do not exist at this level. The
refinement mapping in `VBucketQueue` computes `pending` from the items right of the cursor.

### The flusher

- A thread is a record: where it is, and inside `transition_state` the state it wants and
  where it goes on. `transition_state` is four steps (`Check`, `WriteState`, `CancelTask`,
  `ScheduleTask`), since `_state` is a volatile that anybody writes between the check and
  the assignment; `taskMutex` is held from the third to the fourth.
- The flusher's tasks are numbered as they are made; `task` is `Flusher::task`, `queue`
  the ones in the dispatcher's two queues, `dead` the cancelled ones. `reschedule` queues
  a task again also when it was cancelled while it ran; the dispatcher drops it later.
- `Flusher::step` reads `_state` several times; each read is a step: the switch, the check
  after `flushSome`, and the one that decides whether the task runs again.
- `snapshot` is `highPriorityVbSnapshot`, which is set exactly while the snapshot's task is
  queued. It is set when the engine is initialized, when a vbucket is created, deleted or
  reset, when a flush completes, and again when a snapshot fails.
- Items move from `dirty` (behind the persistence cursors of `VBucketQueue`) to `writing`
  (`*flushQueue`) and from there to the storage or to `rejects`. `stored` are the items
  whose last mutation the storage has taken, whether or not it is committed. `flushSome`
  writes any nonempty part of the queue, which stands for the transaction size and
  preemption; after `commitSoon` also an empty one.
- A change waits for a scheduled snapshot, a deletion does not: `Deletes` are the keys
  that are only deleted.
- bucket_engine destroys an engine when no connection is inside it: `Serving` and the
  guard of `StopFlusher`.
- Left out: sleep times (`computeMinSleepTime`, `snooze`), `Flusher::wake`, which nothing
  calls, the snapshots of low priority, which the flusher does not look at, a vbucket that
  disappears while its items are being flushed, and the microsecond in which a snapshot and
  the flusher's task are due at the same time, where the code does not compare priorities.

### Persistence

- A mutation is its number, which is its CAS and its value. A value in the hash table has
  its CAS, the value it holds (`data`), its row id, and whether it is dirty, resident,
  deleted and volatile. A row is its id, key and CAS.
- A set is two steps, the change of the hash table and `queueDirty`, as in the code.
- `FlushSet` and `FlushDel` are `flushOneDelOrSet` up to the call of the storage, with the
  item in `cur`; `Insert`, `Update` and `DeleteRow` are the statement and its callback;
  `Redirty` is a failed statement with its callback; between the two a client can do
  anything. The order of keys within a batch is open (`optimizeWrites` sorts them).
- `txn` is what the storage's connection sees, `disk` what is committed. `Commit` may come
  whenever the transaction's size or preemption may end a batch. A snapshot writes the
  vbucket state and commits the transaction it shares with the items.
- Time has three values, before, within the expiry window of and after the expiry time of
  the volatile values.
- `SeparateReader` says whether fetches have a dispatcher and a connection of their own
  (`maxConcurrency`, `maxReaders` and `concurrentDB`, the default with write-ahead
  logging), or run on the flusher's, between two of its items.
- History: `queued` counts the items that were queued, and the `seq` of an item is its
  number; `due` is what a closed checkpoint promises. `harmed` are the keys that one of the
  faults listed under the observations below has hit, at the step where it hits: two
  writers of a key overlap (`Overlap`), a statement by row id hits another key's row
  (`Victims`), a fetch reads another key's row (`FetchRead`), a delete callback keeps the
  row id of a row that is gone, or a pending one (`DeleteRow`), a failed delete has
  forgotten its row id, or a failed set its value (`Redirty`).

### The TAP stream

- `Stream` is the source's unified queue from the cursor on, of which `avail` items exist.
- The producer's fields keep their names. A message carries its sequence number, event,
  position in `Stream` and whether it asks for an acknowledgement.
- `walkTapQueue` is one step per message, except that `complete()` and the event of low
  priority are two (`walk`), because a client may queue a mutation in between.
- The connection keeps the order and loses what is under way when it breaks. A consumer
  may refuse a mutation for now (the producer puts it into its queue again and suspends the
  stream) or for good (the producer cuts its log there and disconnects the stream).
  `Reconnect` is `TapConnMap::newProducer` with `rollback`; a producer
  that nobody takes up is reaped.
- `AckTimeout` is the reaper's rescue of a stream that waits too long for an
  acknowledgement.

### Blocked clients

- Every lock that a waker and a waiter share is there: the mutex of each worker, which
  memcached holds around a whole command, `pendingOpLock`, the registry's mutexes and each
  listener's. A thread that holds one and waits for another is a state.
- A worker's command goes through `CheckState`, `AddPendingOp` and `PushPendingOp`, or
  `Apply` and the walk over the listeners. SYNC goes through `Register`, `Tell` and
  `Enable`.
- The dispatcher without I/O runs one task at a time: `fireAllOps`, abort tasks and
  destructions. Acknowledgements are those of one replica, by the TAP thread.
- `Deadlocked` is a circle of threads each of which waits for a lock the next one holds.

### bucket_engine

- A step of a connection or of a shutdown thread is one critical section under the lock of
  a handle or of the table, with one exception: the shutdown thread keeps the lock of its
  handle while `notify_io_complete` waits for the mutex of the deleter's worker. The thread
  is then at `notify`, between `Announce` and `Notify`, and a connection whose next step
  takes this lock (`NextLock`) cannot take it (`CanLock`).
- `Places` are the points between critical sections at which another thread can come in;
  `find_bucket` and `create_bucket` are two of them.
- `mutex` is the mutex that memcached's threads hold around a command, from `BeginCommand`
  to `EndCommand`: `worker` is the thread `dispatch_conn_new` has given a connection to, and
  a reserved connection belongs to the TAP thread (`conn_add_tap_client`). A command that
  calls its engine several times counts as several commands. `handle_connect` and
  `handle_disconnect` run without the mutex, so they interleave with the commands of the
  same worker here, and a connection whose reservation is released counts as its worker's
  again: both give the model behaviours that the code does not have.
- `Deadlocked` is a circle of workers each of which waits for a handle whose shutdown thread
  waits for the mutex of the next.
- `engine` and `destroys` follow the proxied engine; destroying it releases the connections
  it has reserved, as ep-engine's `shutdownAllTapConnections` does.
- A reserved connection is a TAP stream, which sends no further command.
- Two histories name the handles whose count is known to be off: `harmed` (released
  twice) and `leaked` (one reference too many), see the observations.

### Automatic failover and master election

- A tick is one heartbeat period: `Timer` puts it into the mailbox and `Tick` handles it,
  up to the synchronous call of the orchestrator, whose answer is a step of its own.
  It reads the configuration (`auto_failover.erl:185`) and makes that call (`:214`) in one
  step, so that no ejection falls between the two.
  The server's variables are lost by `Crash`, except what `make_state_persistent` saved.
- `start_rebalance` reads the memberships, activates the nodes and then calls the
  orchestrator: three steps.
- In `MbMaster` a round is one heartbeat interval in which every node handles its timer
  and every heartbeat is delivered or lost. `age` is the time since `last_heard`. A node
  that dies of a heartbeat it has no clause for is restarted by its supervisor.

## Runs

| Run | Instance | Shows |
|---|---|---|
| `active_queue` | active vbucket, 2 symmetric keys, 9 mutation ids | `NoDanglingCursor`, `RefCountsExact`, `CountsExact` (`Lists`, and `WellFormed`, `NumItemsExact`, `OffsetExact` of `Exact`), `PendingIsResident`, `ImplementsUnifiedQueue` |
| `replica_queue` | active and replica, 1 key, checkpoint ids 0 to 2, 7 mutation ids | `IInv`, `CountsExact`, `ImplementsUnifiedQueue` |
| `promoted_after_end` | replica instance | violates `NeverAborts` |
| `flusher` | 1 item, 1 connection, 1 mutation, 2 requests, 1 vbucket change, 1 failure, both kinds of shutdown | `FlusherInv` (`NothingForgotten` among others), `StoppedMeansFlushed`, `OneLiveTask`, `NoLostWakeup`, `PausedWritesNothing`, `PauseTakesEffect`, `StopTakesEffect`, `DirtyIsStored` |
| `persistence` | 2 symmetric keys, 1 client, 3 mutations, the second of which expires, 1 checkpoint, 1 failing statement, 1 crash | `EntriesFit` (`OneRowPerKey`, `ResidentIsLatest`, `BatchFits`, `RowsFit`, `WarmupFits`, `OrderFits`, `CheckpointsFit`, `KeyFits`), `StoredWhenQuiet`, `CleanIsStored`, `CheckpointIsStored` |
| `stale_fetch` | 1 key, 2 mutations, separate reader | violates `ResidentIsLatest` |
| `tap_stream` | a checkpoint of 3 mutations and the next one, window and interval 2, 1 refusal, 2 reconnects, takeover, sequence numbers that wrap | `TapInv` (`LogIsBounded`, `CounterExact`, `QueuesFit`, `DeadBeforeActive`, `NumbersFit`, `WireFits`, `AnswersFit`, `AnswersDue`, `NackFirst`, `MarksCovered`), `NothingDropped`, `EndAfterItems`, `OneOwner`, `ItemsArrive`, `TakeoverEnds` |
| `blocked_clients` | 2 connections of 2 workers, 2 keys, 3 commands, 1 SYNC of both keys, 1 change of state | `WaitersFit` (`LocksFit`, `ConnsFit`, `NotifiersFit`, `ReferencesFit`, `OperationsFit`, `CountsFit`, `PushHasWaker`, `WaiterHasWaker`, `BlockedIsOwed`, `ListenersLive`), `SyncedAll`, `WokenOrDeadlocked`, `SyncIsAnswered` |
| `blocked_forever` | 2 connections of 1 worker, 2 sets | violates `PendingIsWoken` |
| `bucket_engine` | 2 connections of 1 worker or of 2, 2 names, 2 buckets | `HandlesFit` (`RefsCounted`, `HandleOutlivesUse`, `OneEnginePerName`, `DestroyedOnce`, `AssertionsHold` and the books of connections, threads, engines, the table and the mutexes), `CallsInLiveEngine`, `AnsweredOrDeadlocked`, `ShutdownEnds` |
| `auto_failover` | 4 nodes, 1 of them joining, threshold 2, 2 nodes down at a time, 2 events | `FailoverInv` (`AtMostOne`, `CountFits`, `RequestFits`, `StatesFit`), `FailsOverSafely` (`OnlyLongDown`, `EnoughLeft`), `DownIsFailedOver` |
| `mb_master` | 3 nodes, the last with a newer version, timeout 3 rounds, 1 fault | `MasterInv` (`MasterIsWanted`, `CandidateIsWanted`), `RivalsEnd`, `AgreesOrClashes` |

Every property is defined, with a comment, at the end of its module; a conjunction, whose
parts the table names in brackets, includes the types its module needs (`FailsOverSafely`
excepted). Deadlock is not
checked in any run: each model stops at its bounds, when the engine is gone, or after
an abort, and a circle of waiting threads is what `Deadlocked` states.

### The bounds and why they are enough

- Queue: one TAP name, `CheckpointMaxItems = 2` and `MaxCheckpoints = 2` (the smallest
  value the code accepts). `MaxMutationId` bounds the ids handed out between two resets and
  `MaxCheckpointId` the ids a message carries. Nine ids give a full closed checkpoint and a
  full open one, or three short ones, or one checkpoint whose two keys are overwritten
  five times on either side of each cursor. With seven ids and one key a replica reaches
  two checkpoints with a mutation each, a roll-back over both and a promotion.
- Flusher: the bounds count mutations, requests, vbucket changes and failures; everything
  the threads do with them is unbounded. One connection meets the dispatcher inside
  `transition_state`, and the shutdown meets the dispatcher; what several connections and
  items add is covered by the theorems, which hold for any number.
- Persistence: two keys show rows of one key mistaken for the other's; three mutations a
  set, a deletion and another set of one key, or a batch of two keys with a change of one
  while it is written. One failure and one crash fall between any two steps.
- TAP: the window holds two messages of the checkpoint's three mutations, so that it fills;
  it needs two reconnects for one to interrupt the resending of the other. Sequence
  numbers begin 4 below the modulus (the modulus is 1000 in place of 2^32, the same parity
  as the interval demands), so they wrap in every long behaviour.
- Blocked clients: two workers are the least for a circle of two; three commands allow a
  SYNC, a change and a deletion of its keys; one change of state suffices for an operation
  that is added before, during and after it.
- bucket_engine: two handles allow a bucket to be created again under the name of one that
  is being deleted; with two connections one can delete what the other uses. They are of
  one worker, where the deadlock below happens, or of two. `Sends` leaves out commands whose
  interleavings are the other connection's: the first attaches, creates and deletes, the
  second deletes and becomes a TAP stream; both call their engine, connect and hang up.
- Automatic failover: four nodes, so that a failover leaves enough for another to be
  possible, and one joins so that the size changes. Threshold 2 has every state of the
  decision. The two events are any of the operator's calls, rebalances, manual failovers
  and crashes.
- Election: three nodes give a master, a rival and a third to be heard by both; two
  versions give both orders of priority; the fault may come at any time and behaviours are
  infinite, so the nodes must agree again from every state it leaves.

## Fairness

The queue and `Persistence` have safety properties only. Everywhere else fairness is
assumed, weak with one exception, of threads, timers and mailboxes, and of nothing that a
client, an operator, a disk or a network decides:

- `Flusher`: the dispatcher thread, because it only sleeps until the earliest waketime,
  `schedule` and `reschedule` notify it, and a callback that runs comes to its next step;
  the thread that initializes and destroys the engine, which polls; a connection inside
  `transition_state`, where the mutex it waits for is held for two calls. The storage fails
  a bounded number of times: `DirtyIsStored` says nothing about a disk that fails forever.
  `StopTakesEffect` excludes the two races described below.
- `TapStream`: the producer is walked whenever it is not paused (`notifyIOThreadMain`
  wakes it), messages on a connection that holds arrive and are answered, the suspension
  and the acknowledgement timeout expire. Nothing makes a broken connection come back in
  time, so `ItemsArrive` and `TakeoverEnds` are about one that holds.
- `BlockedClients`: each worker, the TAP thread and the dispatcher, one condition per
  thread; the thread that changes the state goes on to schedule the notification.
- `BucketEngine`: a command that has begun continues, shutdown threads run, and an engine
  that is being destroyed releases its reserved connections. A shutdown thread runs under
  strong fairness, the only place where it is assumed: a worker gives up its mutex between
  any two commands, and a thread that waits for a mutex given up again and again gets it.
- `AutoFailover`: the timer fires, and the server and the orchestrator handle what is in
  their mailboxes. `DownIsFailedOver` is a statement about nodes that stay down for good.
- `MbMaster`: rounds go on. Faults are bounded, so every behaviour has a last one.

## Proofs

`VBucketQueueProofs` proves, for any keys, TAP connections, limits and number of
checkpoints, and whatever the messages say:

- `QueueInvariant`: `Spec => []IInv`;
- `QueueTypes`, `NoCursorDangles`, `ReferencesAreExact`, `UnreadIsResident`: its
  consequences `TypeOK`, `NoDanglingCursor`, `RefCountsExact` and `PendingIsResident`;
- `CountsAreExact`: `Spec => []CountsExact`;
- `QueueRefinesUnifiedQueue`: `Spec => ImplementsUnifiedQueue`, the refinement of
  `UnifiedQueue`.

Assumptions: `KeyAssumption` (the empty key is not a key), `NameAssumption` (finitely
many connections, none called as the persistence cursor), `LimitAssumption` (the ranges
`validateCheckpointMaxItemsParam` and `validateMaxCheckpointsParam` enforce, weakened)
and `BoundAssumption` (types of the bounds). TLC evaluates them in every run.

The inductive invariant. That no cursor dangles is not inductive: the remover frees
checkpoints by their counters, so `RefsExact` is needed; deduplication shifts a cursor left of
the erased item, which needs an item to the left, so `DummiesFirst` (the dummy stays first and
never has a key); a cursor standing on the erased item is recognised through the key's
only entry, so `UniqueKeys`; and new ids must be larger than all existing ones, and an
item in the list of an existing checkpoint, so `ItemsInOrder`. `Good(m)` is the
conjunction, with two parts more that the readers need: only mutations have keys
(`KeysOfMutations`) and only the last checkpoint may be open (`ClosedBefore`). The first part of the module shows for each operator that it takes `Good`
managers to `Good` managers, in three layers: pushing and closing (`PushBackLists`,
`CloseGood`, `AddNewGood`), single cursors (`MoveGood`, `NextItemGood`, `RegisterGood`,
`GetAllGood`) and whole-list operations (`QueueDirtyGood`, `RemoverGood`, `RollBackGood`),
the last with lemmas that count cursors when several of them move at once
(`CountsAdd`, `CountsRemove`, `ExchangeCount`). The second part has one step per action.

The refinement. `Pending(m)`, the refinement mapping, depends on the items with a key and
on the cursors' positions only, so each operator has a lemma about it beside the one
about `Good`: pushing a dummy, a start or an end changes nothing (`Keyless`), a cursor
that advances is given one key or none (`PassOne`, `NextItemPending`), the flusher
everything, because its walk ends at the last checkpoint (`GetAllPending`, from
`ClosedBefore`), a mutation is owed to every cursor although its predecessor is erased
and cursors are shifted (`QueueInOpenPending`), and the remover takes nothing from
anybody, because what a cursor has still to read lies in checkpoints that are referenced
(`UnreadStays`, which also gives `UnreadIsResident`). `NextRefines` maps each action to
its abstract step. For items of several checkpoints to compare like their checkpoints,
`ItemsInOrder` says that ids and checkpoints grow together.

The counts. Given `IInv`, `CountsExact` is inductive: `StepExact` has one step per
action. A checkpoint's shape (`WellFormed`: the dummy, the start, the mutations, and the
end of a closed one) is what makes the constants 1 and 2 that the code adds and subtracts
right. A sum over checkpoints is the size of the set of counted items in them
(`SumCounts`, `CheckpointSize`, `SizesCount`), so that freeing some of them subtracts
what they held. Offsets are compared with the items a cursor has read: what is pushed
comes after every cursor (`GrowsOffset`); in the open checkpoint every item without a key
stands before the mutations, so a cursor shifted off an erased item has read it and counts
down (`ShiftOffset`); what the remover frees has been read by every cursor
(`RemoveUnrefExact`); a roll-back leaves no item after the persistence cursor
(`RollBackExact`); and the offset computed for a new cursor is exact, or one too large
where a TAP cursor is placed in a closed last checkpoint (`StartOffsetExact`).

`FlusherProofs` proves, for any set of connections and items and any bounds,
`FlusherInvariant` (`Spec => []FlusherInv`) and from it `FlusherWakeup`,
`FlusherOneTask`, `FlusherInitializes`, `FlusherForgetsNothing`, `FlusherStops` and the
action property `FlusherPauses`. The assumption is `FlusherAssumption` (types, and that no
connection is called as one of the other threads).

That no wakeup is lost is not inductive: when the dispatcher's task ends without being
queued again, somebody else must have queued a newer one. `FlusherInv` therefore says what
each thread may be doing (`ThreadsFit`), that all tasks but the current one are cancelled
and the current one only by the holder of the mutex (`TasksFit`), that nobody else acts
before the vbucket states are loaded (`WarmupFirst`), when the flush queue exists
(`FlushFits`), which thread a state implies (`StatesFit`), and, the part the argument
hangs on, that a dispatcher which acts on an old state has a newer task waiting or a
thread about to queue one (`ActsOnState`). There is one lemma per action, with one step
per conjunct.

`PersistenceProofs` proves, for any keys, clients, mutations, failures, crashes and
volatile values, with a reader of its own or without:

- `EntriesInvariant`: `Spec => []EntriesFit`;
- `StoredAlways`, `CleanStoredAlways`, `CheckpointStoredAlways`: what is quiet, clean,
  or behind a committed checkpoint is stored;
- `LatestOnOneDispatcher`: `ResidentIsLatest` when fetches run on the flusher's
  dispatcher, the other half of what the run `stale_fetch` shows.

The assumption is `PersistenceAssumption` (types). None of the properties is inductive.
That a key has one row needs that the flusher knows the row id whenever there is a row
(`RowIsKnown`), that an id in an entry or a statement is a row of the key (`IdIsValid`),
and that the pending id, which keeps a second insert out, is there exactly while the
storage has the key's first item (`IdFits`). That what is clean is stored needs to be
said of what is dirty too: its newest item is on its way, behind no older one and before
no other (`DirtyIsQueued`, `GoneIsQueued`). `OrderFits` puts a key's items in line from
the queue over the batch and the statement to the storage, and `CheckpointsFit` says at
each of these places what the checkpoint ids there promise. All of it speaks of the keys
not in `harmed`, which grows in the steps that do the harm; so the proofs show that
these are the only faults of this kind that the model contains. There is a lemma per
action for its effect (`...Effect`), one per action for the key it is about (`...Keys`),
a frame for the others, and one per conjunct for what changes it. That a table has a
largest row id is induction on its size, done with the library's theorem that a relation
is well-founded (`NatLeast`, `LargestRow`).

`TapStreamProofs` proves, for any stream of items, window, interval and modulus,
`TapInvariant` (`Spec => []TapInv`), `NothingDroppedAlways` and `OneOwnerAlways`. The
assumptions are `StreamAssumption` (the ids of checkpoints grow) and `WindowAssumption`,
of which one part is more than types: the sequence numbers' range is larger than the
window by more than 3, in the code 2^32 over 10 * 1000 by default. The argument turns on
`processAck`, which cuts the log behind an acknowledged number: the numbers in the log
are in order counted back from the next one (`NumbersFit`, which makes the wrap harmless
and keeps the log within the window), what is on its way to the consumer is the log's
end (`WireFits`), the answers are about what comes before that (`AnswersFit`), and each
handled message that still matters has one (`AnswersDue`). So a cut takes nothing that
the replica lacks. A roll-back may start again from any place a checkpoint message or
the replica names, so everything before such a place must be held (`MarksCovered`).
`DeadBeforeActive` carries `OneOwner`. Enumerating what a refusal or a roll-back puts
back, in order, is induction on the number of positions (`SetInduction`,
`EnumerationExists`).

`EndAfterItemsUntilWrap` proves `EndAfterItems` for behaviours in which the sequence
numbers do not wrap (`NumbersGrow`, in the code the first 2^32 messages of a stream);
where they wrap among the mutations of a checkpoint it does not hold (see "What the code
gets wrong"). While `lastSeqNum` is not behind any mutation in the log (`Numbered`), a
checkpoint's end is queued only when nothing else is to be sent or acknowledged
(`AckedItems`, `CoveredApplied`), and from then on to the next checkpoint's start no
mutation is queued or in the log, and the next item to read, also after a roll-back, is
that start (`Between`, `RegisteredStart`). So a mutation reaches only an open checkpoint,
and a takeover's message that makes the vbucket active does too (`ActiveFirst`).

`BucketEngineProofs` proves, for any connections, names and number of handles,
`HandlesInvariant` (`Spec => []HandlesFit`) and `CallsInvariant`, for any workers and any
way of giving them connections too. The assumption is
`BucketEngineAssumption` (finitely many connections, a default name, a TAP thread that is
no worker). `BooksFit`, the part about handles, is inductive on its own; `MutexesFit`, that
a thread has its mutex for one command under way, is inductive beside it. A handle's count
equals the references that the table and the connections hold, so each step of a
connection is a change of a sum in one term (`RefsChange`, `CallsChange`); that no
engine is destroyed under a call needs what each thread has waited for (`ThreadsFit`),
which handles the table holds (`TableFits`), and what a connection may be doing with a
handle that is stopped (`ConnsFit`, `ClientsCounted`). The two histories except handles
released twice or never.

`AutoFailoverProofs` proves, for any cluster, threshold and number of events,
`FailoverInvariant` (`Spec => []FailoverInv`) and the action property `FailoverSafety`.
A node's state bounds how long it has been down and alone (`StatesFit`), which is what
`OnlyLongDown` needs; `RequestFits` says what a request under way knows of the cluster,
for `EnoughLeft`. `MbMasterProofs` proves `MasterInvariant` for any number of nodes and
any versions: that a master is wanted needs the same of a candidate. It also proves
`RivalsAlwaysEnd` (`Spec => []RivalsEnd`), with `TimeoutAssumption`: a node waits more
than two rounds for a master (five heartbeat intervals in the code). In undisturbed
rounds every master is heard by every node, so that after one full round no candidate is
about to take over while a master sends (`Reached`, `Young`); two masters that have heard
each other are both left only if they judged each other in different modes of operation,
and the change of mode is made once (`Marked`, `Judged`); in the same mode one of them
surrenders (`JudgedNormal`). The three rounds are needed: with four nodes a candidate may
take over in the round in which one of three masters surrenders, and the new pair change
mode in the next. The run has three nodes and sees two.

`BlockedClientsProofs` proves, for any connections, workers and keys and any bounds,
`WaitersInvariant` (`Spec => []WaitersFit`) and `SyncedAllAlways`. The assumption is
`ClientAssumption` (finitely many connections and keys, and that threads and locks have
names of their own). Locks do not carry the argument that a connection is woken once:
the vbucket and a listener's several threads share none. It needs to be said who may wake
whom. A listener may notify only while its connection is blocked, no two listeners for
one connection, and its mutex is held only for that (`NotifiersFit`); a connection in
`pendingOps`, or in what `fireAllOps` has still to wake, is there once, and has no such
listener (`OperationsFit`); so `BlockedIsOwed`. A connection's listener is its own and
not answered yet (`ConnsFit`). Whoever refers to a listener keeps it from being deleted
(`ReferencesFit`): the destructor waits for the mutex of the registry, which a walker
holds for its whole walk (`LocksFit`), and for the one dispatcher; so `ListenersLive`.
`setState` takes no lock, so that an operation may wait in a vbucket that is not pending
any more must be said of the step before it waits too (`PushHasWaker`). What a listener
has counted is among its keys (`CountsFit`), from which `SyncedAll` follows by counting.
`Parts` is the conjunction without the consequences. There is one lemma per kind of
change of connections and listeners (`Claiming`, `Waking`, `Firing`, ...), which says
what it leaves of these books, and one per action.

Only model-checked: `EndAfterItems` where the numbers wrap, which depends on the place
and so is not a theorem. The prover has no rules for fairness: all liveness properties
stay with TLC (`NoLostWakeup` and `FailsOverSafely` are safety properties).

## What the code gets wrong

Three runs end in a violation; `PROJECT.json` quotes under "findings" the statement of the
repository that each of them refutes:

- `promoted_after_end`: a replica promoted after CHECKPOINT_END and before the next
  CHECKPOINT_START has no open checkpoint, and the first client mutation fails the
  assertion in `queueDirty`;
- `stale_fetch`: with a reader of its own, a background fetch reads the committed old row
  of a value that has since been changed, marked clean, evicted and not yet committed, and
  puts the old value under the new CAS;
- `blocked_forever`: `fireAllOps` holds `pendingOpLock` and waits for the worker that waits
  for `pendingOpLock`.

Other observations, which the models contain (they behave like the code) and which the
passing properties make an exception for or do not speak about:

- queue: backfill on a vbucket whose items are all deleted starts without a reset
  (`ep.cc:886`) and gives the last of the old checkpoints id 0; from there two checkpoints
  can have one id, and `registerTAPCursor`, which compares ids, can pair one checkpoint
  with an iterator of the other; `VBucket::setState` can overwrite the id that a
  CHECKPOINT_START has just set (`vbucket.cc:118`); a TAP cursor placed in a closed last
  checkpoint reports a backlog that is one too small (`checkpoint.cc:335`);
- flusher: a graceful stop that finds a flush under way finishes that flush only
  (`flusher.cc:203`); the dispatcher's `paused`, checked before and written after a
  shutdown's `stopping`, makes the shutdown wait forever (`flusher.cc:86`); a flusher that
  begins to drain while a snapshot is scheduled rejects the same items forever, because
  the snapshot needs the thread it runs on (`ep.cc:1900`);
- persistence (`harmed`): a row id is all that ties an entry, a statement or a fetch to a
  row, and sqlite gives the id of a deleted last row to the next row it inserts. A delete
  callback that meets a value which was set again and has expired deletes it softly and
  keeps the id of the row that is gone (`ep.cc:1757`); when the id is another key's by now,
  the next update or delete hits that key's row, and `completeBGFetch` reads it without
  looking at the key (`ep.cc:927`); when it is the pending id, whatever is set next under
  the key is rejected by every flush. A delete
  that fails for an expiring value forgets its row id (`ep.cc:1848`); a value evicted
  between `markClean` and a failed statement is lost (`ep.cc:1907`); two writers of a key
  change the hash table and queue their items in two critical sections each, so that the
  older value may be queued, and stored, last (`ep.cc:600`, `ep.cc:1354`);
- TAP: after a reconnect the last mutation of a closed checkpoint is sent again without
  asking for an acknowledgement, and the stream waits at the checkpoint's end
  (`tapconnection.cc:368`); a mutation queued between `complete()` and the change to dead
  is not transferred by a takeover (`ep_engine.cc:1955`); the first acknowledgement
  after the sequence numbers wrap sets the number of the last mutation to 0
  (`tapconnection.cc:603`), so where they wrap among the mutations of a checkpoint, its
  CHECKPOINT_END is sent before these are acknowledged (`tapconnection.cc:1265`), and
  `EndAfterItems` fails; in the run they wrap before the first mutation;
- SYNC: a mutation that wakes a SYNC of a connection of its own worker locks a mutex it
  holds (`sync_registry.cc:351`); a key that is modified and deleted counts twice
  (`sync_registry.cc:243`); an acknowledgement of an older mutation counts for the newest
  value (`tapconnection.cc:1474`);
- bucket_engine: `engine_shutdown_thread` holds the lock of the handle while
  `notify_io_complete` locks the mutex of the worker of who has asked for the deletion
  (`bucket_engine.c:1414` to `:1421`, `memcached/daemon/thread.c:681`); that worker may be in
  a command of another connection of the bucket (`memcached.c:5274`), which waits for the
  lock in `get_engine_handle` (`bucket_engine.c:842`). The two wait for each other: the
  deletion is never answered, the worker serves nobody any more, and the shutdown of the
  server waits for it forever, although the deletion has a thread of its own so as not to
  block the workers (the comment at `bucket_engine.c:1356`). The model has this behaviour;
  `AnsweredOrDeadlocked` shows that nothing else keeps a deletion from being answered;
- bucket_engine: a reserved connection that is refused has its reference released twice,
  and the last release fails an assertion (`bucket_engine.c:844`); who deletes the bucket
  it is connected to leaves a reference behind (`bucket_engine.c:2206`), so the deleted
  handle is freed only when the server stops;
- automatic failover: a crash after the failover and before `make_state_persistent` allows
  a second one; a failover that is refused during a rebalance kills the server, which starts
  counting again; a tick in the mailbox when automatic failover is switched off does too; a
  rebalance may activate a node that was failed over since it read the memberships;
- election: a node that switches to normal mode and then hears a heartbeat without a
  version dies of it, and does so again after its restart for as long as such heartbeats
  come (`mb_master.erl:489`); a node removed from the list by a change it handles late
  dies of a master's heartbeat (`mb_master.erl:437`).

## Hazards no property covers

`PROJECT.json` lists the hazards of the modelled code. Six of them have no property there,
because the code does what is feared and the properties make an exception for it, or
because the model merges the steps; a note says which. The hazards below are known as well:

- `checkpoint.cc:664`, `:242`: a clear or a roll-back leaves `onlineUpdateCursor` in a
  deleted checkpoint, and `stopOnlineUpdate` subtracts 2 from an unsigned offset. Online
  update is not modelled.
- `checkpoint.cc:717`: a 64-bit checkpoint id is kept in an `int`; ids are small here.
- `ep.cc:1354`: the hash table is changed and the mutation queued in two critical sections;
  two writers of one key may queue in the opposite order. `Persistence` has the two steps
  and excepts such keys (`Overlap`); its run has one client, its theorems any number.
- `ep.cc:1232`: `getStoredValue` returns a pointer after its lock is released.
- `ep.cc:1812`: flush_all clears the hash tables while a batch is being written.
- `tapconnection.cc:1129`: CHECKPOINT_START after a backfill records id - 1 as persisted
  before the backfilled items are written. `Persistence` models an active vbucket.
- `tapconnection.cc:672`: a negative acknowledgement that is not in the log erases all of
  it; a consumer of this repository answers only what it was sent.
- `dispatcher.cc:191`: `completeNonDaemonTasks` holds the dispatcher's mutex while it runs a
  snapshot; one that fails schedules itself and locks that mutex a second time.
- `dispatcher.cc:243`: a lost notification delays a task to the next wake time.
- `bucket_engine.c:1077`: the disconnect callback is called without the lock, and the engine
  may be stopped before it runs. The code marks it `@todo`.
- `ns_cluster_membership.erl:98`: a rebalance reads the memberships and then activates
  nodes; one failed over in between is active again. The model has the two steps, and
  nothing in the repository says what should happen.

## Not modelled

- Online update and hot reload (`startOnlineUpdate` to `endHotReload`): `doOnlineUpdate` is
  false throughout. `int checkpointId` in `checkOpenCheckpoint_UNLOCKED`: ids stay small.
- Several vbuckets at once: their queues are independent; their shared transaction is that
  of `Persistence`, in which another vbucket's items are further keys.
- Backfill from disk, TAP deletions, opaque and flush messages, dumps (which the walk
  itself disconnects when nothing is left), streams without acknowledgements, and vbucket
  filters.
- Locked values, add, replace, append and CAS failures, which end before anything is
  queued; flush_all on disk; deletion of vbuckets and their tables; hash table resizing.
- SYNC on persistence, alone or combined.
- The dispatcher's sleeping, idle task and wake.
- ns_server's rebalance and vbucket movers, janitor, configuration replication, REST;
  the rest of memcached's connection state machine and the default engine (upstream
  code); moxi, libvbucket, vbucketmigrator and libconflate (I/O); restore and backup
  tools; third-party code (sqlite, libmemcached, sigar), tests and generated test suites,
  which make up nearly all of the repository's lines.
- Statistics, logging and memory accounting.

## Plan

Done: the queue, `Flusher`, `Persistence`, `TapStream`, `BlockedClients`, `BucketEngine`,
`AutoFailover`, `MbMaster`, and theorems about all of them. Left:

1. Online update as an extension of `CheckpointManager`.
2. SYNC on persistence, which joins `BlockedClients` to `Persistence`.
3. The rest of the dispatcher; ns_server's vbucket mover.
