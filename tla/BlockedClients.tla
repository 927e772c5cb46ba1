--------------------------- MODULE BlockedClients ---------------------------
(***************************************************************************)
(* Connections whose command the engine answers with ENGINE_EWOULDBLOCK,   *)
(* and what wakes them: operations on a pending vbucket (vbucket.cc), SYNC *)
(* on mutation and on replication (sync_registry.cc), and the front end's  *)
(* notify_io_complete (memcached/daemon/thread.c).                         *)
(*                                                                         *)
(* A worker thread of memcached holds its own mutex for as long as a       *)
(* command of one of its connections is in the engine, and whoever wakes a *)
(* connection takes the mutex of that connection's worker.  The locks and  *)
(* the order in which they are taken are therefore part of the model.      *)
(*                                                                         *)
(* There is one vbucket.  A deleted vbucket is a dead one: everybody who   *)
(* still refers to it finds it dead, and its successor has no waiters.     *)
(***************************************************************************)
EXTENDS Naturals, FiniteSets, Sequences

CONSTANTS
    Conns,          \* client connections
    Workers,        \* memcached's worker threads
    Worker,         \* the worker of each connection
    Keys,
    NoThread,       \* nobody holds the lock
    InitialState,   \* of the vbucket
    States,         \* the states the vbucket is put in
    Sends,          \* the kinds of command each connection sends
    SyncKeys,       \* the sets of keys that SYNC is asked about
    MaxRequests,    \* bound on the commands
    MaxSyncs,       \* bound on the SYNC commands among them
    MaxChanges      \* bound on the changes of the vbucket's state

ASSUME ClientAssumption ==
    /\ IsFiniteSet(Conns) /\ IsFiniteSet(Keys) /\ Worker \in [Conns -> Workers]
    /\ {"tap", "dispatcher", NoThread} \cap Conns = {} /\ NoThread \notin {"tap", "dispatcher"}
    /\ {"pendingOpLock", "mutationMutex", "replicationMutex"} \cap Workers = {}
    /\ States \subseteq {"active", "replica", "pending", "dead"}
    /\ Sends \in [Conns -> SUBSET {"set", "delete", "sync_mutation", "sync_rep"}]
    /\ SyncKeys \subseteq SUBSET Keys
    /\ {MaxRequests, MaxSyncs, MaxChanges} \subseteq Nat

Walkers == Conns \cup {"tap"}       \* the threads that walk the listeners
Threads == Walkers \cup {"dispatcher"}
Locks   == Workers \cup {"pendingOpLock", "mutationMutex", "replicationMutex"}
Ids     == 1..MaxSyncs              \* the SyncListener objects, as they are made

VARIABLES
    state,      \* VBucket::state
    changing,   \* setVBucketState has set it and has not scheduled the notification
    waiting,    \* VBucket::pendingOps
    value,      \* the hash table: for each key, whether it exists and has replicas
    tapLog,     \* the mutations sent to the replica and not acknowledged
    tap,        \* the key, if any, whose acknowledgement the TAP thread processes
    conn,       \* what each connection is doing
    listener,   \* the SyncListener objects made so far
    registry,   \* SyncRegistry: the listeners of each kind
    walk,       \* where a walker is in notifyListeners
    tasks,      \* the tasks of the dispatcher: notifications, aborts, destructions
    job,        \* what the dispatcher is running
    owner,      \* who holds each lock
    requests, changes

vars == <<state, changing, waiting, value, tapLog, tap, conn, listener, registry, walk,
          tasks, job, owner, requests, changes>>

Running == {"add", "push", "apply", "event", "walk", "register", "tell", "enable"}

Idle      == [pc |-> "idle", cmd |-> [op |-> "none", keys |-> {}], status |-> "none",
              specific |-> 0, listener |-> 0]
NoWalk    == [step |-> "none", todo |-> {}, at |-> 0]
NoJob     == [step |-> "none", code |-> "none", rest |-> <<>>, at |-> 0]

Commands(c) ==
    [op : Sends[c] \cap {"set", "delete"}, keys : {{k} : k \in Keys}]
        \cup [op : Sends[c] \cap {"sync_mutation", "sync_rep"}, keys : SyncKeys]

IsSync(cmd) == cmd.op \in {"sync_mutation", "sync_rep"}

\* The registry's mutex for the listeners of a kind.
Mutex(op) == IF op = "sync_rep" THEN "replicationMutex" ELSE "mutationMutex"

Init ==
    /\ state = InitialState
    /\ changing = FALSE
    /\ waiting = <<>>
    /\ value = [k \in Keys |-> [exists |-> TRUE, replicated |-> FALSE]]
    /\ tapLog = <<>>
    /\ tap = {}
    /\ conn = [c \in Conns |-> Idle]
    /\ listener = <<>>
    /\ registry = [op \in {"sync_mutation", "sync_rep"} |-> {}]
    /\ walk = [t \in Walkers |-> NoWalk]
    /\ tasks = [notify |-> 0, abort |-> {}, destroy |-> {}]
    /\ job = NoJob
    /\ owner = [l \in Locks |-> NoThread]
    /\ requests = 0
    /\ changes = 0

(***************************************************************************)
(* The front end.                                                          *)
(***************************************************************************)
Free(l) == owner[l] = NoThread

\* notify_io_complete: the connection is woken if it is still blocked, under its worker's mutex.
Woken(cs, c, code) ==
    IF cs[c].pc = "blocked" THEN [cs EXCEPT ![c].pc = "notified", ![c].status = code] ELSE cs

Goto(c, pc) == conn' = [conn EXCEPT ![c].pc = pc]

\* The command is answered, and the worker goes on with its other connections.
Answer(c) == conn' = [conn EXCEPT ![c] = Idle]

\* ENGINE_EWOULDBLOCK: the connection waits, its worker does not.
Block(c) == conn' = [conn EXCEPT ![c].pc = "blocked", ![c].listener = 0]

Leave(c, held) == owner' = [l \in Locks |-> IF l \in held \cup {Worker[c]} THEN NoThread ELSE owner[l]]

(***************************************************************************)
(* The test of the vbucket's state at the head of set, add, get and del,   *)
(* when a worker enters the engine with the command.                       *)
(***************************************************************************)
CheckState(c, cmd) ==
    IF state \in {"active", "pending"}
    THEN /\ conn' = [conn EXCEPT ![c].pc = IF state = "active" THEN "apply" ELSE "add",
                                ![c].cmd = cmd, ![c].status = "none"]
         /\ owner' = [owner EXCEPT ![Worker[c]] = c]
    ELSE Answer(c) /\ UNCHANGED owner

\* A SyncListener: keys without a value are not waited for.
Listener(c, cmd, keys) ==
    [cookie |-> c, op |-> cmd.op, keys |-> keys, modified |-> {}, deleted |-> {},
     replicated |-> {}, finished |-> FALSE, allowNotify |-> FALSE, mutex |-> NoThread,
     live |-> TRUE, answer |-> "none"]

\* EventuallyPersistentEngine::sync makes the listener and looks the keys up.
Lookup(c, cmd) ==
    LET keys == {k \in cmd.keys : value[k].exists}
        li   == Listener(c, cmd, keys)
        l    == Len(listener) + 1
    IN  /\ Len(listener) < MaxSyncs
        /\ IF keys = {}
           THEN /\ listener' = Append(listener, [li EXCEPT !.answer = "success"])
                /\ tasks' = [tasks EXCEPT !.destroy = @ \cup {l}]
                /\ Answer(c) /\ UNCHANGED owner
           ELSE /\ listener' = Append(listener, li)
                /\ conn' = [conn EXCEPT ![c].pc = "register", ![c].cmd = cmd, ![c].listener = l]
                /\ owner' = [owner EXCEPT ![Worker[c]] = c]
                /\ UNCHANGED tasks

\* A worker reads a command and calls the engine with it.
Request(c, cmd) ==
    /\ conn[c].pc = "idle" /\ Free(Worker[c]) /\ requests < MaxRequests
    /\ requests' = requests + 1
    /\ \/ IsSync(cmd) /\ Lookup(c, cmd)
       \/ ~IsSync(cmd) /\ CheckState(c, cmd) /\ UNCHANGED <<listener, tasks>>
    /\ UNCHANGED <<state, changing, waiting, value, tapLog, tap, registry, walk, job, changes>>

\* The answer to a SYNC, and SyncListener::destroy.
Answers(l) ==
    /\ listener' = [listener EXCEPT ![l].answer = IF listener[l].finished THEN "success" ELSE "tmpfail"]
    /\ tasks' = [tasks EXCEPT !.destroy = @ \cup {l}]

\* A worker finds a connection in its pending_io and goes on with its command.  A SYNC finds
\* its listener in the connection's engine-specific data and is answered according to it; an
\* operation starts over unless it was woken with an error.
Resume(c) ==
    LET l == conn[c].specific
    IN  /\ conn[c].pc = "notified" /\ Free(Worker[c])
        /\ \/ l # 0 /\ Answer(c) /\ Answers(l) /\ UNCHANGED owner
           \/ /\ l = 0 /\ UNCHANGED <<listener, tasks>>
              /\ IF conn[c].status = "success" THEN CheckState(c, conn[c].cmd)
                                               ELSE Answer(c) /\ UNCHANGED owner
        /\ UNCHANGED <<state, changing, waiting, value, tapLog, tap, registry, walk, job, requests,
                       changes>>

(***************************************************************************)
(* Operations of clients on the vbucket.                                   *)
(***************************************************************************)
\* Mutant of AddPendingOp: the state is not tested again under the lock.
AddUntested(c) ==
    /\ conn[c].pc = "add" /\ Free("pendingOpLock")
    /\ Goto(c, "push") /\ owner' = [owner EXCEPT !["pendingOpLock"] = c]
    /\ UNCHANGED <<state, changing, waiting, value, tapLog, tap, listener, registry,
                   walk, tasks, job, requests, changes>>

\* VBucket::addPendingOp: if the state has changed by now, the operation is done at once.
AddPendingOp(c) ==
    /\ conn[c].pc = "add" /\ Free("pendingOpLock")
    /\ IF state # "pending"
       THEN Goto(c, "apply") /\ UNCHANGED owner
       ELSE Goto(c, "push") /\ owner' = [owner EXCEPT !["pendingOpLock"] = c]
    /\ UNCHANGED <<state, changing, waiting, value, tapLog, tap, listener, registry,
                   walk, tasks, job, requests, changes>>

PushPendingOp(c) ==
    /\ conn[c].pc = "push"
    /\ waiting' = Append(waiting, c)
    /\ Block(c)
    /\ Leave(c, {"pendingOpLock"})
    /\ UNCHANGED <<state, changing, value, tapLog, tap, listener, registry, walk, tasks,
                   job, requests, changes>>

TheKey(c) == CHOOSE k \in Keys : conn[c].cmd.keys = {k}

\* The hash table is changed and the mutation queued for the replica, which is then sent it.
Apply(c) ==
    /\ conn[c].pc = "apply"
    /\ LET k == TheKey(c)
       IN  IF conn[c].cmd.op = "set"
           THEN /\ value' = [value EXCEPT ![k] = [exists |-> TRUE, replicated |-> FALSE]]
                /\ tapLog' = Append(tapLog, k)
                /\ Goto(c, "event") /\ UNCHANGED owner
           ELSE IF value[k].exists
           THEN /\ value' = [value EXCEPT ![k].exists = FALSE]
                /\ Goto(c, "event") /\ UNCHANGED <<owner, tapLog>>
           ELSE Answer(c) /\ Leave(c, {}) /\ UNCHANGED <<value, tapLog>>
    /\ UNCHANGED <<state, changing, waiting, tap, listener, registry, walk, tasks, job,
                   requests, changes>>

(***************************************************************************)
(* SYNC.                                                                   *)
(***************************************************************************)
\* addMutationListener, addReplicationListener.
Register(c) ==
    LET op == conn[c].cmd.op
    IN  /\ conn[c].pc = "register" /\ Free(Mutex(op))
        /\ registry' = [registry EXCEPT ![op] = @ \cup {conn[c].listener}]
        /\ Goto(c, IF op = "sync_rep" THEN "tell" ELSE "enable")
        /\ UNCHANGED <<state, changing, waiting, value, tapLog, tap, listener, walk, tasks,
                       job, owner, requests, changes>>

(***************************************************************************)
(* SyncListener::keySynced, in its two forms.  A SYNC on mutation is       *)
(* finished when it has counted as many changes as it has keys, and counts *)
(* a key's modification and its deletion separately.                       *)
(***************************************************************************)
Replicated(li, keys) ==
    LET done == li.replicated \cup (keys \cap li.keys)
    IN  [li EXCEPT !.replicated = done, !.finished = (Cardinality(done) = Cardinality(li.keys))]

\* Mutant of KeySynced: keys that the SYNC is not about are counted.
CountsAnyKey(li, k, deleted) ==
    IF li.op = "sync_rep" THEN Replicated(li, {k})
    ELSE LET mods == IF deleted THEN li.modified ELSE li.modified \cup {k}
             dels == IF deleted THEN li.deleted \cup {k} ELSE li.deleted
         IN  [li EXCEPT !.modified = mods, !.deleted = dels,
                        !.finished = (Cardinality(mods) + Cardinality(dels) = Cardinality(li.keys))]

KeySynced(li, k, deleted) ==
    IF k \notin li.keys THEN li
    ELSE IF li.op = "sync_rep" THEN Replicated(li, {k})
    ELSE LET mods == IF deleted THEN li.modified ELSE li.modified \cup {k}
             dels == IF deleted THEN li.deleted \cup {k} ELSE li.deleted
         IN  [li EXCEPT !.modified = mods, !.deleted = dels,
                        !.finished = (Cardinality(mods) + Cardinality(dels) = Cardinality(li.keys))]

Unlocked(l) == listener[l].mutex = NoThread

\* notifyListener: the keys that have been replicated already.
Tell(c) ==
    LET l == conn[c].listener
    IN  /\ conn[c].pc = "tell" /\ Unlocked(l)
        /\ listener' = [listener EXCEPT ![l] = Replicated(@, {k \in Keys : value[k].replicated})]
        /\ Goto(c, "enable")
        /\ UNCHANGED <<state, changing, waiting, value, tapLog, tap, registry, walk, tasks,
                       job, owner, requests, changes>>

\* Mutant of Enable: the abort task is not scheduled.
EnableForever(c) ==
    LET l == conn[c].listener
    IN  /\ conn[c].pc = "enable" /\ Unlocked(l)
        /\ Leave(c, {})
        /\ IF listener[l].finished
           THEN Answer(c) /\ Answers(l)
           ELSE /\ Block(c)
                /\ listener' = [listener EXCEPT ![l].allowNotify = TRUE]
                /\ UNCHANGED tasks
        /\ UNCHANGED <<state, changing, waiting, value, tapLog, tap, registry, walk, job, requests,
                       changes>>

\* maybeEnableNotifyIOComplete, and the answer if the SYNC is finished already.
Enable(c) ==
    LET l == conn[c].listener
    IN  /\ conn[c].pc = "enable" /\ Unlocked(l)
        /\ Leave(c, {})
        /\ IF listener[l].finished
           THEN Answer(c) /\ Answers(l)
           ELSE /\ Block(c)
                /\ listener' = [listener EXCEPT ![l].allowNotify = TRUE]
                /\ tasks' = [tasks EXCEPT !.abort = @ \cup {l}]
        /\ UNCHANGED <<state, changing, waiting, value, tapLog, tap, registry, walk, job, requests,
                       changes>>

(***************************************************************************)
(* SyncRegistry::notifyListeners, by the worker that changed a key and by  *)
(* the TAP thread that has the acknowledgement of one, under the mutex of  *)
(* the kind of listeners concerned.                                        *)
(***************************************************************************)
Kind(t)      == IF t = "tap" THEN "sync_rep" ELSE "sync_mutation"
SyncedKey(t) == IF t = "tap" THEN CHOOSE k \in Keys : tap = {k} ELSE TheKey(t)
IsDelete(t)  == t # "tap" /\ conn[t].cmd.op = "delete"

\* processAck: the item is acknowledged, and the value the hash table holds now takes the credit.
Acknowledge ==
    /\ tapLog # <<>> /\ tap = {} /\ walk["tap"] = NoWalk
    /\ tapLog' = Tail(tapLog)
    /\ LET k == Head(tapLog)
       IN  IF value[k].exists
           THEN /\ value' = [value EXCEPT ![k].replicated = TRUE]
                /\ tap' = {k}
           ELSE UNCHANGED <<value, tap>>
    /\ UNCHANGED <<state, changing, waiting, conn, listener, registry, walk, tasks, job,
                   owner, requests, changes>>

StartWalk(t) ==
    /\ walk[t] = NoWalk /\ Free(Mutex(Kind(t)))
    /\ IF t = "tap" THEN tap # {} /\ UNCHANGED conn
                    ELSE conn[t].pc = "event" /\ Goto(t, "walk")
    /\ owner' = [owner EXCEPT ![Mutex(Kind(t))] = t]
    /\ walk' = [walk EXCEPT ![t] = [step |-> "next", todo |-> registry[Kind(t)], at |-> 0]]
    /\ UNCHANGED <<state, changing, waiting, value, tapLog, tap, listener, registry, tasks,
                   job, requests, changes>>

EndWalk(t) ==
    /\ walk[t].step = "next" /\ walk[t].todo = {}
    /\ walk' = [walk EXCEPT ![t] = NoWalk]
    /\ IF t = "tap"
       THEN /\ tap' = {} /\ UNCHANGED conn
            /\ owner' = [owner EXCEPT !["replicationMutex"] = NoThread]
       ELSE Answer(t) /\ Leave(t, {"mutationMutex"}) /\ UNCHANGED tap
    /\ UNCHANGED <<state, changing, waiting, value, tapLog, listener, registry, tasks, job,
                   requests, changes>>

\* The next listener is told of the key; finished ones are passed over.
Synced(t) ==
    /\ walk[t].step = "next"
    /\ \E l \in walk[t].todo :
         LET li == IF listener[l].finished THEN listener[l]
                   ELSE KeySynced(listener[l], SyncedKey(t), IsDelete(t))
         IN  /\ listener[l].finished \/ Unlocked(l)
             /\ listener' = [listener EXCEPT ![l] = li]
             /\ walk' = [walk EXCEPT ![t].todo = @ \ {l}, ![t].at = l,
                                    ![t].step = IF li # listener[l] /\ li.finished THEN "claim"
                                                                                  ELSE "next"]
    /\ UNCHANGED <<state, changing, waiting, value, tapLog, tap, conn, registry, tasks, job, owner,
                   requests, changes>>

(***************************************************************************)
(* maybeNotifyIOComplete holds the listener's mutex while it wakes the     *)
(* connection; allowNotify makes sure that only one thread does.           *)
(***************************************************************************)
Claims(l, t) ==
    /\ listener' = [listener EXCEPT ![l].mutex = t]
    /\ conn' = [conn EXCEPT ![listener[l].cookie].specific = l]

Wakes(l) ==
    /\ Free(Worker[listener[l].cookie])
    /\ conn' = Woken(conn, listener[l].cookie, "success")
    /\ listener' = [listener EXCEPT ![l].mutex = NoThread, ![l].allowNotify = FALSE]

Erased(t, l) ==
    /\ registry' = [registry EXCEPT ![Kind(t)] = @ \ {l}]
    /\ walk' = [walk EXCEPT ![t].step = "next"]

Claim(t) ==
    LET l == walk[t].at
    IN  /\ walk[t].step = "claim" /\ Unlocked(l)
        /\ IF listener[l].allowNotify
           THEN Claims(l, t) /\ walk' = [walk EXCEPT ![t].step = "wake"] /\ UNCHANGED registry
           ELSE Erased(t, l) /\ UNCHANGED <<listener, conn>>
        /\ UNCHANGED <<state, changing, waiting, value, tapLog, tap, tasks, job, owner,
                       requests, changes>>

Wake(t) ==
    LET l == walk[t].at
    IN  /\ walk[t].step = "wake"
        /\ Wakes(l)
        /\ Erased(t, l)
        /\ tasks' = [tasks EXCEPT !.abort = @ \ {l}]
        /\ UNCHANGED <<state, changing, waiting, value, tapLog, tap, job, owner, requests,
                       changes>>

(***************************************************************************)
(* The dispatcher without I/O runs one task at a time.  A SYNC's abort     *)
(* task runs over and over until the SYNC is finished or has timed out;    *)
(* only that last run is a step.                                           *)
(***************************************************************************)
\* VBucket::fireAllOps reads the state up to twice.
FireAllOps ==
    /\ job = NoJob /\ tasks.notify > 0 /\ Free("pendingOpLock")
    /\ tasks' = [tasks EXCEPT !.notify = @ - 1]
    /\ owner' = [owner EXCEPT !["pendingOpLock"] = "dispatcher"]
    /\ job' = IF state = "active"
              THEN [NoJob EXCEPT !.step = "wake", !.code = "success", !.rest = waiting]
              ELSE [NoJob EXCEPT !.step = "second"]
    /\ UNCHANGED <<state, changing, waiting, value, tapLog, tap, conn, listener, registry, walk,
                   requests, changes>>

\* Mutant of FireOrNot: only an active vbucket wakes its operations.
FireNot ==
    /\ job.step = "second"
    /\ job' = NoJob /\ owner' = [owner EXCEPT !["pendingOpLock"] = NoThread]
    /\ UNCHANGED <<state, changing, waiting, value, tapLog, tap, conn, listener, registry,
                   walk, tasks, requests, changes>>

FireOrNot ==
    /\ job.step = "second"
    /\ IF state = "pending"
       THEN job' = NoJob /\ owner' = [owner EXCEPT !["pendingOpLock"] = NoThread]
       ELSE /\ job' = [job EXCEPT !.step = "wake", !.code = "not_my_vbucket", !.rest = waiting]
            /\ UNCHANGED owner
    /\ UNCHANGED <<state, changing, waiting, value, tapLog, tap, conn, listener, registry,
                   walk, tasks, requests, changes>>

FireOne ==
    /\ job.step = "wake" /\ job.rest # <<>> /\ Free(Worker[Head(job.rest)])
    /\ conn' = Woken(conn, Head(job.rest), job.code)
    /\ job' = [job EXCEPT !.rest = Tail(@)]
    /\ UNCHANGED <<state, changing, waiting, value, tapLog, tap, listener, registry, walk,
                   tasks, owner, requests, changes>>

Fired ==
    /\ job.step = "wake" /\ job.rest = <<>>
    /\ waiting' = <<>>
    /\ job' = NoJob
    /\ owner' = [owner EXCEPT !["pendingOpLock"] = NoThread]
    /\ UNCHANGED <<state, changing, value, tapLog, tap, conn, listener, registry, walk,
                   tasks, requests, changes>>

\* SyncAbortCallback, when the SYNC is finished or its time is over.
RunAbort(l) ==
    /\ job = NoJob /\ l \in tasks.abort
    /\ tasks' = [tasks EXCEPT !.abort = @ \ {l}]
    /\ job' = IF listener[l].finished THEN NoJob ELSE [NoJob EXCEPT !.step = "abort", !.at = l]
    /\ UNCHANGED <<state, changing, waiting, value, tapLog, tap, conn, listener, registry,
                   walk, owner, requests, changes>>

Abort ==
    /\ job.step = "abort" /\ Unlocked(job.at)
    /\ IF listener[job.at].allowNotify
       THEN Claims(job.at, "dispatcher") /\ job' = [job EXCEPT !.step = "abort_wake"]
       ELSE job' = NoJob /\ UNCHANGED <<listener, conn>>
    /\ UNCHANGED <<state, changing, waiting, value, tapLog, tap, registry, walk, tasks,
                   owner, requests, changes>>

AbortWakes ==
    /\ job.step = "abort_wake"
    /\ Wakes(job.at)
    /\ job' = NoJob
    /\ UNCHANGED <<state, changing, waiting, value, tapLog, tap, registry, walk, tasks,
                   owner, requests, changes>>

\* All that is remembered of a deleted listener is its answer.
Deleted(li) == [li EXCEPT !.keys = {}, !.modified = {}, !.deleted = {}, !.replicated = {},
                          !.finished = FALSE, !.live = FALSE]

\* SyncDestructionCallback cancels the abort task; the destructor then leaves the registry.
Destroy(l) ==
    LET op == listener[l].op
    IN  /\ job = NoJob /\ l \in tasks.destroy /\ Free(Mutex(op))
        /\ tasks' = [tasks EXCEPT !.destroy = @ \ {l}, !.abort = @ \ {l}]
        /\ registry' = [registry EXCEPT ![op] = @ \ {l}]
        /\ listener' = [listener EXCEPT ![l] = Deleted(@)]
        /\ UNCHANGED <<state, changing, waiting, value, tapLog, tap, conn, walk, job, owner, requests,
                       changes>>

(***************************************************************************)
(* EventuallyPersistentStore::setVBucketState changes the state and then   *)
(* schedules the notification; neither step takes pendingOpLock.           *)
(***************************************************************************)
SetState(to) ==
    /\ ~changing /\ changes < MaxChanges
    /\ state' = to
    /\ changing' = TRUE
    /\ changes' = changes + 1
    /\ UNCHANGED <<waiting, value, tapLog, tap, conn, listener, registry, walk, tasks, job,
                   owner, requests>>

ScheduleNotify ==
    /\ changing
    /\ changing' = FALSE
    /\ tasks' = [tasks EXCEPT !.notify = @ + 1]
    /\ UNCHANGED <<state, waiting, value, tapLog, tap, conn, listener, registry, walk, job,
                   owner, requests, changes>>

-----------------------------------------------------------------------------
Walks(t) == StartWalk(t) \/ EndWalk(t) \/ Synced(t) \/ Claim(t) \/ Wake(t)

WorkerStep(c) ==
    Resume(c) \/ AddPendingOp(c) \/ PushPendingOp(c) \/ Apply(c) \/ Register(c)
        \/ Tell(c) \/ Enable(c) \/ Walks(c)

DispatcherStep ==
    \/ FireAllOps \/ FireOrNot \/ FireOne \/ Fired \/ Abort \/ AbortWakes
    \/ \E l \in Ids : RunAbort(l) \/ Destroy(l)

Next ==
    \/ \E c \in Conns : WorkerStep(c) \/ \E cmd \in Commands(c) : Request(c, cmd)
    \/ Acknowledge \/ Walks("tap")
    \/ DispatcherStep
    \/ (\E to \in States : SetState(to)) \/ ScheduleNotify

(***************************************************************************)
(* The threads run whenever they can; the dispatcher gets to every task,   *)
(* since each of its tasks ends.  Nothing makes a client send a command, a *)
(* vbucket change or a replica acknowledge.                                *)
(***************************************************************************)
Fairness ==
    /\ \A c \in Conns : WF_vars(WorkerStep(c))
    /\ WF_vars(Walks("tap"))
    /\ WF_vars(DispatcherStep)
    /\ WF_vars(ScheduleNotify)

Spec == Init /\ [][Next]_vars /\ Fairness

-----------------------------------------------------------------------------
ConnRecord ==
    [pc : Running \cup {"idle", "blocked", "notified"},
     cmd : [op : {"none", "set", "delete", "sync_mutation", "sync_rep"}, keys : SUBSET Keys],
     status : {"none", "success", "not_my_vbucket"}, specific : Nat, listener : Nat]

ListenerRecord ==
    [cookie : Conns, op : {"sync_mutation", "sync_rep"}, keys : SUBSET Keys,
     modified : SUBSET Keys, deleted : SUBSET Keys, replicated : SUBSET Keys,
     finished : BOOLEAN, allowNotify : BOOLEAN, mutex : Threads \cup {NoThread},
     live : BOOLEAN, answer : {"none", "success", "tmpfail"}]

(***************************************************************************)
(* Types and bounds: pendingOps holds no more than the connections, and a  *)
(* notification is scheduled for a change of the state.                    *)
(***************************************************************************)
TypeOK ==
    /\ state \in States \cup {InitialState} /\ changing \in BOOLEAN
    /\ waiting \in Seq(Conns) /\ Len(waiting) <= Cardinality(Conns)
    /\ conn \in [Conns -> ConnRecord]
    /\ listener \in Seq(ListenerRecord) /\ Len(listener) <= MaxSyncs
    /\ registry \in [{"sync_mutation", "sync_rep"} -> SUBSET DOMAIN listener]
    /\ walk \in [Walkers -> [step : {"none", "next", "claim", "wake"},
                             todo : SUBSET DOMAIN listener, at : Nat]]
    /\ tasks \in [notify : Nat, abort : SUBSET DOMAIN listener, destroy : SUBSET DOMAIN listener]
    /\ job \in [step : {"none", "second", "wake", "abort", "abort_wake"},
                code : {"none", "success", "not_my_vbucket"}, rest : Seq(Conns), at : Nat]
    /\ owner \in [Locks -> Threads \cup {NoThread}]
    /\ changes \in 0..MaxChanges /\ requests \in 0..MaxRequests
    /\ tasks.notify + (IF changing THEN 1 ELSE 0) <= changes

\* A lock is held by who is at a step that holds it.
LocksFit ==
    /\ \A c \in Conns : /\ conn[c].pc \in Running <=> owner[Worker[c]] = c
                        /\ conn[c].pc = "push" <=> owner["pendingOpLock"] = c
                        /\ conn[c].pc = "walk" <=> walk[c].step # "none"
    /\ job.step \in {"second", "wake"} <=> owner["pendingOpLock"] = "dispatcher"
    /\ \A t \in Walkers : /\ walk[t].step # "none" <=> owner[Mutex(Kind(t))] = t
                          /\ walk[t].step = "none" => walk[t] = NoWalk

\* The thread that holds the lock t waits for; NoThread if t waits for none.
Blocker(t) ==
    IF t = "dispatcher"
    THEN CASE job.step = "wake" /\ job.rest # <<>>  -> owner[Worker[Head(job.rest)]]
           [] job.step = "abort"                    -> listener[job.at].mutex
           [] job.step = "abort_wake"               -> owner[Worker[listener[job.at].cookie]]
           [] OTHER                                 -> NoThread
    ELSE CASE walk[t].step = "claim"                -> listener[walk[t].at].mutex
           [] walk[t].step = "wake"                 -> owner[Worker[listener[walk[t].at].cookie]]
           [] walk[t].step = "next"                 ->
                IF walk[t].todo = {} \/ \E l \in walk[t].todo : listener[l].finished \/ Unlocked(l)
                THEN NoThread ELSE listener[CHOOSE l \in walk[t].todo : TRUE].mutex
           [] t = "tap"                             -> owner["replicationMutex"]
           [] conn[t].pc = "add"                    -> owner["pendingOpLock"]
           [] conn[t].pc = "event"                  -> owner["mutationMutex"]
           [] conn[t].pc = "register"               -> owner[Mutex(conn[t].cmd.op)]
           [] conn[t].pc \in {"tell", "enable"}     -> listener[conn[t].listener].mutex
           [] OTHER                                 -> NoThread

\* Some threads wait for each other in a circle.
Deadlocked ==
    LET stuck == {t \in Threads : Blocker(t) # NoThread}
    IN  \E S \in SUBSET stuck \ {{}} : \A t \in S : Blocker(t) \in S

(***************************************************************************)
(* No wakeup is lost: while an operation waits in a vbucket that is not    *)
(* pending any more, its notification is scheduled, about to be, or        *)
(* running, although setState does not take the lock under which           *)
(* addPendingOp reads the state.                                           *)
(***************************************************************************)
WaiterHasWaker ==
    waiting # <<>> /\ state # "pending" =>
        changing \/ tasks.notify > 0 \/ job.step \in {"second", "wake"}

\* The operations that fireAllOps has still to wake.
StillWaiting == IF job.step = "wake" THEN job.rest ELSE waiting

(***************************************************************************)
(* A blocked connection is owed exactly one notification, by the vbucket   *)
(* or by a SyncListener, and nobody else is owed any: neither an abort     *)
(* that races with the last key, nor a listener finished before            *)
(* ENGINE_EWOULDBLOCK was returned, loses it or repeats it.                *)
(***************************************************************************)
BlockedIsOwed ==
    \A c \in Conns :
        Cardinality({i \in DOMAIN StillWaiting : StillWaiting[i] = c})
          + Cardinality({l \in DOMAIN listener : /\ listener[l].live /\ listener[l].allowNotify
                                                 /\ listener[l].cookie = c})
        = IF conn[c].pc = "blocked" THEN 1 ELSE 0

(***************************************************************************)
(* Nobody is left with a SyncListener that has been deleted: not the       *)
(* registry, a thread that walks it, the abort task or the connection.     *)
(***************************************************************************)
ListenersLive ==
    \A l \in DOMAIN listener :
        \/ listener[l].live
        \/ /\ \A op \in DOMAIN registry : l \notin registry[op]
           /\ l \notin tasks.abort \cup tasks.destroy
           /\ \A t \in Walkers : /\ walk[t].step \in {"claim", "wake"} => walk[t].at # l
                                /\ l \notin walk[t].todo
           /\ job.step \in {"abort", "abort_wake"} => job.at # l
           /\ \A c \in Conns : l \notin {conn[c].listener, conn[c].specific}

\* An operation is about to wait, or waits, only with somebody to wake it.
PushHasWaker ==
    (\E c \in Conns : conn[c].pc = "push") /\ state # "pending" => changing \/ tasks.notify > 0

\* An operation that waits is blocked, is in pendingOps once and has no SyncListener.
OperationsFit ==
    /\ \A i, j \in DOMAIN waiting : waiting[i] = waiting[j] => i = j
    /\ \A i, j \in DOMAIN StillWaiting : StillWaiting[i] = StillWaiting[j] => i = j
    /\ \A i \in DOMAIN StillWaiting :
         /\ conn[StillWaiting[i]].pc = "blocked" /\ conn[StillWaiting[i]].specific = 0
         /\ \A l \in DOMAIN listener : listener[l].cookie = StillWaiting[i] => ~listener[l].allowNotify
    /\ \A c \in Conns : conn[c].pc = "blocked" =>
         \/ \E i \in DOMAIN StillWaiting : StillWaiting[i] = c
         \/ \E l \in DOMAIN listener : listener[l].allowNotify /\ listener[l].cookie = c

\* What l is to its connection until it is answered.
Serves(l, c) ==
    l \in DOMAIN listener /\ listener[l].live /\ listener[l].answer = "none" /\ listener[l].cookie = c

\* A connection refers to a listener of its own that it has not been answered from.
ConnsFit ==
    \A c \in Conns :
        LET r == conn[c]
        IN  /\ r.pc = "idle" => r = Idle
            /\ r.pc \in {"register", "tell", "enable"} <=> r.listener # 0
            /\ r.specific # 0 => r.pc \in {"blocked", "notified"}
            /\ r.listener # 0 => /\ Serves(r.listener, c) /\ listener[r.listener].op = r.cmd.op
                                 /\ ~listener[r.listener].allowNotify
            /\ r.specific # 0 => /\ Serves(r.specific, c)
                                 /\ r.pc = "blocked" => listener[r.specific].mutex # NoThread

\* Only a listener whose connection is blocked may notify, no two of them for one connection,
\* and its mutex is held only for that.
NotifiersFit ==
    \A l \in DOMAIN listener :
        LET li == listener[l]
        IN  /\ li.allowNotify => li.live /\ li.answer = "none" /\ conn[li.cookie].pc = "blocked"
            /\ \A m \in DOMAIN listener :
                 li.allowNotify /\ listener[m].allowNotify /\ li.cookie = listener[m].cookie => m = l
            /\ li.mutex # NoThread => li.allowNotify /\ conn[li.cookie].specific = l

\* Whoever refers to a listener keeps it from being deleted.
ReferencesFit ==
    /\ \A op \in DOMAIN registry, l \in DOMAIN listener :
         l \in registry[op] => listener[l].live /\ listener[l].op = op
    /\ \A l \in tasks.abort : listener[l].live
    /\ \A l \in tasks.destroy : listener[l].live /\ listener[l].answer # "none"
    /\ \A t \in Walkers :
         /\ \A l \in walk[t].todo : listener[l].live /\ listener[l].op = Kind(t)
         /\ walk[t].step \in {"claim", "wake"} =>
              /\ walk[t].at \in DOMAIN listener
              /\ listener[walk[t].at].live /\ listener[walk[t].at].op = Kind(t)
         /\ walk[t].step = "wake" => listener[walk[t].at].mutex = t
    /\ job.step \in {"abort", "abort_wake"} => job.at \in DOMAIN listener /\ listener[job.at].live
    /\ job.step = "abort_wake" => listener[job.at].mutex = "dispatcher"

\* What a SyncListener has counted.
CountsFit ==
    \A l \in DOMAIN listener :
        LET li == listener[l]
        IN  /\ li.modified \cup li.deleted \cup li.replicated \subseteq li.keys
            /\ li.finished =>
                 \/ li.replicated = li.keys
                 \/ Cardinality(li.modified) + Cardinality(li.deleted) = Cardinality(li.keys)
            /\ li.live /\ li.answer = "success" => li.finished \/ li.keys = {}

(***************************************************************************)
(* A SYNC that succeeds has seen every key it was asked about, unless one  *)
(* of them was both changed and deleted and so counted twice.              *)
(***************************************************************************)
SyncedAll ==
    \A l \in DOMAIN listener :
        listener[l].live /\ listener[l].answer = "success" =>
            LET li == listener[l]
            IN  \/ li.keys \subseteq li.modified \cup li.deleted \cup li.replicated
                \/ li.modified \cap li.deleted # {}

(***************************************************************************)
(* The operations that wait for a pending vbucket have all been woken some *)
(* time after it stopped being pending, unless the threads are deadlocked. *)
(***************************************************************************)
WokenOrDeadlocked ==
    (waiting # <<>> /\ state # "pending") ~> (waiting = <<>> \/ state = "pending" \/ Deadlocked)

(***************************************************************************)
(* Every SYNC is answered, at the latest when its time is over, unless the *)
(* threads are deadlocked.                                                 *)
(***************************************************************************)
SyncIsAnswered ==
    \A l \in Ids :
        l \in DOMAIN listener ~> \/ l \in DOMAIN listener /\ listener[l].answer # "none"
                                \/ Deadlocked

(***************************************************************************)
(* NotifyVBStateChangeCallback wakes up the connections blocked on a       *)
(* pending vbucket when its state changes.  The code does not: fireAllOps  *)
(* holds pendingOpLock while it waits for the mutex of a worker that waits *)
(* for pendingOpLock.                                                      *)
(***************************************************************************)
PendingIsWoken == (waiting # <<>> /\ state # "pending") ~> (waiting = <<>> \/ state = "pending")

\* The books of blocked connections that vbucket.cc and sync_registry.cc keep with no lock
\* in common: who waits has somebody to wake it, once, and a listener in use exists.
WaitersFit ==
    /\ TypeOK /\ LocksFit /\ ConnsFit /\ NotifiersFit /\ ReferencesFit /\ OperationsFit
    /\ CountsFit /\ PushHasWaker /\ WaiterHasWaker /\ BlockedIsOwed /\ ListenersLive
=============================================================================
