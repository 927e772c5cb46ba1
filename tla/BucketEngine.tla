----------------------------- MODULE BucketEngine -----------------------------
(***************************************************************************)
(* bucket_engine: the table of buckets, the reference counts of their      *)
(* handles, the connections that call into the engines, reserved           *)
(* connections, the deletion of a bucket by its own thread, and the        *)
(* shutdown of the whole server.                                           *)
(*                                                                         *)
(* A step of a connection or of a shutdown thread is one critical section  *)
(* under the lock of a handle or of the table, but for the one in which a  *)
(* shutdown thread waits, with the lock of its handle, for the mutex of    *)
(* the worker thread of who has asked for the deletion.  A worker holds    *)
(* its mutex around a whole command.                                       *)
(***************************************************************************)
EXTENDS Integers, FiniteSets

CONSTANTS Conns,         \* the connections of memcached
          Sends,         \* the commands that each of them sends, besides calls to its engine
          Names,         \* names of buckets
          Workers,       \* memcached's worker threads
          Tap,           \* its thread for TAP streams
          Dispatched,    \* the ways in which dispatch_conn_new may give connections to workers
          Default,       \* default_bucket_name
          AutoCreate,    \* auto_create
          MaxHandles     \* bound: buckets ever created

None == 0

ASSUME BucketEngineAssumption ==
    /\ Default \in Names /\ Sends \in [Conns -> SUBSET {"attach", "create", "delete", "tap"}]
    /\ Dispatched \subseteq [Conns -> Workers] /\ Tap \notin Workers
    /\ None \notin Conns \cup Names /\ AutoCreate \in BOOLEAN
    /\ MaxHandles \in Nat \ {0} /\ IsFiniteSet(Conns)

Handles == 1 .. MaxHandles

VARIABLES
    peh,          \* per handle: the proxied_engine_handle
    table,        \* per name, the handle in the hash table of engines
    conn,         \* per connection: its engine_specific and where its thread is
    worker,       \* per connection, the worker that it has been given to
    mutex,        \* per thread, the connection for whose command it holds its mutex
    counter,      \* shutdown.bucket_counter
    shutdown,     \* the global shutdown: no, in_progress or done
    aborted,      \* an assertion has failed
    harmed,       \* history: handles with a reference released twice
    leaked        \* history: handles with a reference that nobody holds

vars == <<peh, table, conn, worker, mutex, counter, shutdown, aborted, harmed, leaked>>

Threads == Workers \cup {Tap}

\* A connection is between commands, before create_bucket, in set_engine_handle with the
\* looked up handle in tmp (set, old, tmp), in handle_delete_bucket, about to call the
\* engine, in it, refused, in conn_closing and handle_disconnect (closing, callback,
\* release), waits in pending_close, or is blocked by a deletion that it has asked for.
Places == {"off", "idle", "create", "set", "old", "tmp", "delete", "calling", "inside",
           "refused", "closing", "callback", "release", "pending", "blocked", "answered"}

HandleRecords ==
    [name : Names, ref : Int, clients : Nat, cookie : Conns \cup {None},
     state : {"unused", "null", "running", "stop_requested", "stopping", "stopped", "freed"},
     engine : {"none", "alive", "destroying", "destroyed"}, destroys : Nat,
     thread : {"none", "start", "destroy", "unlink", "announce", "notify", "wait", "end"}]

ConnRecords ==
    [at : Places, name : Names \cup {None}, es : BOOLEAN, peh : Handles \cup {None}, tmp : Handles \cup {None},
     old : Handles \cup {None}, reserved : 0 .. 1, notified : BOOLEAN]

\* The types of worker and mutex are in MutexesFit.
TypeOK ==
    /\ peh \in [Handles -> HandleRecords]
    /\ table \in [Names -> Handles \cup {None}]
    /\ conn \in [Conns -> ConnRecords]
    /\ counter \in Nat /\ shutdown \in {"no", "in_progress", "done"}
    /\ aborted \in BOOLEAN /\ harmed \subseteq Handles /\ leaked \subseteq Handles

-----------------------------------------------------------------------------
(* References *)

\* Mutant: the shutdown does not wait for the calls in the engine.
StartedAtOnce(r) ==
    IF r.state = "stop_requested" THEN [r EXCEPT !.state = "stopping", !.thread = "start"] ELSE r

\* maybe_start_engine_shutdown_LOCKED.
Started(r) ==
    IF r.clients = 0 /\ r.state = "stop_requested"
    THEN [r EXCEPT !.state = "stopping", !.thread = "start"] ELSE r

\* release_handle_locked.
Dropped(r) == Started([r EXCEPT !.ref = @ - 1])

\* The handle whose lock the next step of a connection takes, where the handle's thread
\* may be holding it: the thread has unlinked the handle, and nobody calls its engine.
NextLock(c) ==
    CASE conn[c].at \in {"set", "tmp", "delete", "refused"} -> conn[c].tmp
      [] conn[c].at = "old" -> conn[c].old
      [] conn[c].at \in {"calling", "closing", "release"} -> conn[c].peh
      [] OTHER -> None

\* No thread that notifies holds it.
CanLock(c) == NextLock(c) # None => peh[NextLock(c)].thread # "notify"

\* release_handle, with its assertion, which allows for no handle.
Release(h) ==
    /\ peh' = IF h = None THEN peh ELSE [peh EXCEPT ![h] = Dropped(@)]
    /\ aborted' = (aborted \/ (h # None /\ peh[h].ref <= 0))

\* retain_handle succeeds.
Retained(h) == h # None /\ peh[h].state = "running"

Alive == ~aborted /\ shutdown = "no"

Move(c, to) == conn' = [conn EXCEPT ![c].at = to]

\* conn->thread: conn_add_tap_client gives the stream of a reserved connection to Tap.
Thread(c) == IF conn[c].reserved = 1 THEN Tap ELSE worker[c]

\* LOCK_THREAD and UNLOCK_THREAD around a command.  handle_connect and handle_disconnect
\* run without the mutex, and interleave with the commands of the same worker here.
BeginCommand(c) == mutex[Thread(c)] = None /\ mutex' = [mutex EXCEPT ![Thread(c)] = c]

EndCommand(c) == mutex' = [w \in Threads |-> IF mutex[w] = c THEN None ELSE mutex[w]]

-----------------------------------------------------------------------------
(* Attaching a connection to a bucket: handle_connect, handle_auth, SELECT *)

\* The handle that create_bucket takes.
Unused(h) == peh[h].state = "unused" /\ \A g \in Handles : g < h => peh[g].state # "unused"

\* create_bucket in the table: a reference for the table and one for the creator.
Created(h, name) ==
    [peh EXCEPT ![h].name = name, ![h].ref = 2, ![h].state = "running", ![h].engine = "alive"]

\* find_bucket; when the bucket is not there and creates is TRUE, create_bucket follows.
Lookup(c, name, creates, r) ==
    \/ /\ Retained(table[name])
       /\ peh' = [peh EXCEPT ![table[name]].ref = @ + 1]
       /\ conn' = [conn EXCEPT ![c] = [r EXCEPT !.at = "set", !.tmp = table[name]]]
    \/ /\ ~Retained(table[name])
       /\ conn' = [conn EXCEPT ![c] = IF creates THEN [r EXCEPT !.at = "create", !.name = name]
                                      ELSE [r EXCEPT !.at = "set"]]
       /\ UNCHANGED peh

\* create_bucket fails when somebody else has created the bucket, the one that is being
\* deleted is still there, or the engine cannot be loaded.
Create(c) ==
    /\ Alive /\ conn[c].at = "create"
    /\ \/ /\ table[conn[c].name] = None
          /\ \E h \in Handles :
               /\ Unused(h)
               /\ peh' = Created(h, conn[c].name) /\ table' = [table EXCEPT ![conn[c].name] = h]
               /\ conn' = [conn EXCEPT ![c].at = "set", ![c].name = None, ![c].tmp = h]
       \/ /\ conn' = [conn EXCEPT ![c].at = "set", ![c].name = None]
          /\ UNCHANGED <<peh, table>>
    /\ UNCHANGED <<worker, mutex, counter, shutdown, aborted, harmed, leaked>>

\* handle_connect.
Connect(c) ==
    /\ Alive /\ conn[c].at = "off"
    /\ Lookup(c, Default, AutoCreate,
              [conn[c] EXCEPT !.es = TRUE, !.peh = None, !.notified = FALSE])
    /\ UNCHANGED <<table, worker, mutex, counter, shutdown, aborted, harmed, leaked>>

\* handle_auth, which may create the bucket, and handle_select_bucket, which does not.
\* A reserved connection is a TAP stream and sends no command.
Attach(c, name, creates) ==
    /\ Alive /\ "attach" \in Sends[c] /\ conn[c].at = "idle" /\ conn[c].es /\ conn[c].reserved = 0
    /\ BeginCommand(c) /\ Lookup(c, name, creates, conn[c])
    /\ UNCHANGED <<table, worker, counter, shutdown, aborted, harmed, leaked>>

\* set_engine_handle retains the new handle, which may have been stopped since ...
SetEngineHandle(c) ==
    LET h == conn[c].tmp
    IN  /\ Alive /\ conn[c].at = "set" /\ CanLock(c)
        /\ peh' = IF Retained(h) THEN [peh EXCEPT ![h].ref = @ + 1] ELSE peh
        /\ conn' = [conn EXCEPT ![c].at = IF conn[c].peh = None THEN "tmp" ELSE "old",
                                ![c].old = conn[c].peh,
                                ![c].peh = IF Retained(h) THEN h ELSE None]
        /\ UNCHANGED <<table, worker, mutex, counter, shutdown, aborted, harmed, leaked>>

\* ... and releases the old one.
ReleaseOld(c) ==
    /\ Alive /\ conn[c].at = "old" /\ CanLock(c)
    /\ Release(conn[c].old)
    /\ conn' = [conn EXCEPT ![c].at = "tmp", ![c].old = None]
    /\ UNCHANGED <<table, worker, mutex, counter, shutdown, harmed, leaked>>

\* The caller releases what find_bucket or create_bucket gave it, and the command ends.
ReleaseTemporary(c) ==
    /\ Alive /\ conn[c].at = "tmp" /\ CanLock(c)
    /\ Release(conn[c].tmp) /\ EndCommand(c)
    /\ conn' = [conn EXCEPT ![c].at = "idle", ![c].tmp = None]
    /\ UNCHANGED <<table, worker, counter, shutdown, harmed, leaked>>

\* handle_create_bucket; it fails when the name is in the table.
CreateBucket(c, name) ==
    /\ Alive /\ "create" \in Sends[c] /\ conn[c].at = "idle" /\ conn[c].es /\ conn[c].reserved = 0
    /\ table[name] = None /\ BeginCommand(c)
    /\ \E h \in Handles :
         /\ Unused(h)
         /\ peh' = Created(h, name) /\ table' = [table EXCEPT ![name] = h]
         /\ conn' = [conn EXCEPT ![c].at = "tmp", ![c].tmp = h]
    /\ UNCHANGED <<worker, counter, shutdown, aborted, harmed, leaked>>

-----------------------------------------------------------------------------
(* Calls into an engine *)

\* A command that calls the engine once begins; one that calls it more often counts as
\* several.
Call(c) ==
    /\ Alive /\ conn[c].at = "idle" /\ conn[c].es /\ BeginCommand(c) /\ Move(c, "calling")
    /\ UNCHANGED <<peh, table, worker, counter, shutdown, aborted, harmed, leaked>>

\* get_engine_handle: a call is let in, or the connection loses its engine.
Enter(c) ==
    LET h == conn[c].peh
    IN  /\ Alive /\ conn[c].at = "calling" /\ CanLock(c)
        /\ \/ h = None /\ Move(c, "closing") /\ EndCommand(c) /\ UNCHANGED <<peh, harmed>>
           \/ /\ h # None /\ peh[h].state = "running"
              /\ peh' = [peh EXCEPT ![h].clients = @ + 1]
              /\ Move(c, "inside") /\ UNCHANGED <<mutex, harmed>>
           \/ /\ h # None /\ peh[h].state # "running"
              /\ conn' = IF conn[c].reserved = 0
                         THEN [conn EXCEPT ![c].at = "refused", ![c].tmp = h,
                                           ![c].es = FALSE, ![c].peh = None]
                         ELSE [conn EXCEPT ![c].at = "refused", ![c].tmp = h]
              /\ harmed' = IF conn[c].reserved = 0 THEN harmed ELSE harmed \cup {h}
              /\ UNCHANGED <<peh, mutex>>
        /\ UNCHANGED <<table, worker, counter, shutdown, aborted, leaked>>

\* The rest of get_engine_handle: release_handle, also when the connection is reserved
\* and keeps its pointer.  The caller returns ENGINE_DISCONNECT.
Refused(c) ==
    /\ Alive /\ conn[c].at = "refused" /\ CanLock(c)
    /\ Release(conn[c].tmp) /\ EndCommand(c)
    /\ conn' = [conn EXCEPT ![c].at = "closing", ![c].tmp = None]
    /\ UNCHANGED <<table, worker, counter, shutdown, harmed, leaked>>

\* Mutant: the last call does not start the shutdown.
LeavesQuietly(c) ==
    /\ Alive /\ conn[c].at = "inside"
    /\ peh' = [peh EXCEPT ![conn[c].peh].clients = @ - 1]
    /\ Move(c, "idle") /\ EndCommand(c)
    /\ UNCHANGED <<table, worker, counter, shutdown, aborted, harmed, leaked>>

\* release_engine_handle.
Leave(c) ==
    LET h == conn[c].peh
    IN  /\ Alive /\ conn[c].at = "inside"
        /\ peh' = [peh EXCEPT ![h] = Started([peh[h] EXCEPT !.clients = @ - 1])]
        /\ Move(c, "idle") /\ EndCommand(c)
        /\ UNCHANGED <<table, worker, counter, shutdown, aborted, harmed, leaked>>

\* bucket_engine_reserve_cookie, called by the engine for the connection it serves.
Reserve(c) ==
    LET h == conn[c].peh
    IN  /\ Alive /\ "tap" \in Sends[c] /\ conn[c].at = "inside" /\ conn[c].reserved = 0
        /\ peh[h].state = "running"
        /\ peh' = [peh EXCEPT ![h].ref = @ + 1]
        /\ conn' = [conn EXCEPT ![c].reserved = 1]
        /\ UNCHANGED <<table, worker, mutex, counter, shutdown, aborted, harmed, leaked>>

\* bucket_engine_release_cookie, called by a thread of the engine: another TAP
\* connection takes the stream over, the stream is reaped, or the engine is destroyed.
ReleaseCookie(c) ==
    LET h == conn[c].peh
        last == conn[c].notified
        left == peh[h].ref - (IF last THEN 1 ELSE 0)
        r == [peh[h] EXCEPT !.ref = left - 1]
    IN  /\ ~aborted /\ conn[c].reserved = 1 /\ peh[h].engine \in {"alive", "destroying"}
        /\ shutdown # "done"
        /\ conn' = IF last THEN [conn EXCEPT ![c].reserved = 0, ![c].es = FALSE, ![c].peh = None]
                   ELSE [conn EXCEPT ![c].reserved = 0]
        /\ peh' = [peh EXCEPT ![h] = IF left = 1 THEN Started(r) ELSE r]
        /\ aborted' = (left <= 0)
        /\ UNCHANGED <<table, worker, mutex, counter, shutdown, harmed, leaked>>

-----------------------------------------------------------------------------
(* Disconnecting *)

\* The client hangs up.
HangUp(c) ==
    /\ Alive /\ conn[c].at = "idle" /\ Move(c, "closing")
    /\ UNCHANGED <<peh, table, worker, mutex, counter, shutdown, aborted, harmed, leaked>>

\* handle_disconnect without an engine_specific or a bucket, or up to the callback,
\* which a stopped engine does not get.  conn_closing leaves a reserved one pending.
Disconnect(c) ==
    LET h == conn[c].peh
    IN  /\ Alive /\ conn[c].at = "closing" /\ CanLock(c)
        /\ IF ~conn[c].es \/ h = None
           THEN conn' = [conn EXCEPT ![c].at = "off", ![c].es = FALSE]
           ELSE Move(c, IF peh[h].state = "running" THEN "callback" ELSE "release")
        /\ UNCHANGED <<peh, table, worker, mutex, counter, shutdown, aborted, harmed, leaked>>

\* The callback runs without the lock.
Callback(c) ==
    /\ Alive /\ conn[c].at = "callback" /\ Move(c, "release")
    /\ UNCHANGED <<peh, table, worker, mutex, counter, shutdown, aborted, harmed, leaked>>

\* The rest of handle_disconnect.
Disconnected(c) ==
    LET h == conn[c].peh
    IN  /\ Alive /\ conn[c].at = "release" /\ CanLock(c)
        /\ IF conn[c].reserved = 0
           THEN /\ Release(h)
                /\ conn' = [conn EXCEPT ![c].at = "off", ![c].es = FALSE, ![c].peh = None]
           ELSE /\ conn' = [conn EXCEPT ![c].at = "pending", ![c].notified = TRUE]
                /\ UNCHANGED <<peh, aborted>>
        /\ UNCHANGED <<table, worker, mutex, counter, shutdown, harmed, leaked>>

\* A worker thread closes a connection in pending_close that is not reserved any more.
ClosePending(c) ==
    /\ Alive /\ conn[c].at = "pending" /\ conn[c].reserved = 0 /\ Move(c, "off")
    /\ UNCHANGED <<peh, table, worker, mutex, counter, shutdown, aborted, harmed, leaked>>

-----------------------------------------------------------------------------
(* Deleting a bucket *)

\* handle_delete_bucket: find_bucket; it answers not found when there is none ...
FindToDelete(c, name) ==
    LET h == table[name]
    IN  /\ Alive /\ "delete" \in Sends[c] /\ conn[c].at = "idle" /\ conn[c].es /\ conn[c].reserved = 0
        /\ BeginCommand(c) /\ Retained(h)
        /\ peh' = [peh EXCEPT ![h].ref = @ + 1]
        /\ conn' = [conn EXCEPT ![c].at = "delete", ![c].tmp = h]
        /\ UNCHANGED <<table, worker, counter, shutdown, aborted, harmed, leaked>>

\* ... and then stops the bucket, drops the main reference and its own, and detaches
\* the connection, whose reference it keeps counting.
DeleteBucket(c) ==
    LET h == conn[c].tmp
        found == peh[h].state = "running"
        stopped == [peh[h] EXCEPT !.cookie = c, !.state = "stop_requested"]
        own == conn[c].peh = h
    IN  /\ Alive /\ conn[c].at = "delete" /\ CanLock(c) /\ EndCommand(c)
        /\ peh' = [peh EXCEPT ![h] = IF found THEN Dropped(Dropped(stopped)) ELSE Dropped(@)]
        /\ aborted' = (peh[h].ref < IF found THEN 2 ELSE 1)
        /\ conn' = [conn EXCEPT ![c].at = IF found THEN "blocked" ELSE "idle", ![c].tmp = None,
                                ![c].peh = IF own THEN None ELSE @]
        /\ leaked' = IF own THEN leaked \cup {h} ELSE leaked
        /\ UNCHANGED <<table, worker, counter, shutdown, harmed>>

\* The command runs again after notify_io_complete, and is answered.
Answered(c) ==
    /\ Alive /\ conn[c].at = "answered" /\ mutex[worker[c]] = None /\ Move(c, "idle")
    /\ UNCHANGED <<peh, table, worker, mutex, counter, shutdown, aborted, harmed, leaked>>

-----------------------------------------------------------------------------
(* engine_shutdown_thread *)

Step(h, from) == peh[h].thread = from /\ ~aborted /\ UNCHANGED <<worker, mutex, harmed, leaked, shutdown>>

\* The thread enters the count, or leaves the engine to the shutdown of the server.
ThreadStarts(h) ==
    /\ Step(h, "start")
    /\ IF shutdown = "no"
       THEN counter' = counter + 1 /\ peh' = [peh EXCEPT ![h].thread = "destroy"]
       ELSE peh' = [peh EXCEPT ![h].thread = "end"] /\ UNCHANGED counter
    /\ UNCHANGED <<table, conn, aborted>>

\* The sanity checks, and the engine begins to stop.
DestroyEngine(h) ==
    /\ Step(h, "destroy") /\ peh[h].engine = "alive"
    /\ aborted' = (peh[h].state # "stopping" \/ peh[h].clients # 0)
    /\ peh' = [peh EXCEPT ![h].engine = "destroying"]
    /\ UNCHANGED <<table, conn, counter>>

\* destroy returns; it has released the connections that the engine had reserved.
EngineDestroyed(h) ==
    /\ Step(h, "destroy") /\ peh[h].engine = "destroying"
    /\ \A c \in Conns : conn[c].peh = h => conn[c].reserved = 0
    /\ peh' = [peh EXCEPT ![h].engine = "destroyed", ![h].destroys = @ + 1, ![h].thread = "unlink"]
    /\ UNCHANGED <<table, conn, counter, aborted>>

\* genhash_delete_all with engine_hash_free.
Unlink(h) ==
    /\ Step(h, "unlink")
    /\ aborted' = (table[peh[h].name] # h)
    /\ table' = [table EXCEPT ![peh[h].name] = None]
    /\ peh' = [peh EXCEPT ![h].state = "null", ![h].thread = "announce"]
    /\ UNCHANGED <<conn, counter>>

\* The bucket is stopped.  The thread keeps the lock of the handle ...
Announce(h) ==
    /\ Step(h, "announce")
    /\ peh' = [peh EXCEPT ![h].state = "stopped", ![h].thread = "notify"]
    /\ UNCHANGED <<table, conn, counter, aborted>>

\* ... while notify_io_complete takes the mutex of the worker of who asked for the
\* deletion, and wakes it.
Notify(h) ==
    /\ Step(h, "notify")
    /\ \A c \in Conns : peh[h].cookie = c => mutex[worker[c]] = None
    /\ peh' = [peh EXCEPT ![h].thread = "wait"]
    /\ conn' = [c \in Conns |-> IF peh[h].cookie = c /\ conn[c].at = "blocked"
                                THEN [conn[c] EXCEPT !.at = "answered"] ELSE conn[c]]
    /\ UNCHANGED <<table, counter, aborted>>

\* Mutant: the thread does not wait for the references.
FreesAtOnce(h) == TRUE

\* Mutant: the shutdown of the server does not end the wait.
WaitsForAll(h) == peh[h].ref <= 0

\* The references are gone, or the server shuts down.
MayFree(h) == peh[h].ref <= 0 \/ shutdown # "no"

FreeHandle(h) ==
    /\ Step(h, "wait") /\ MayFree(h)
    /\ peh' = [peh EXCEPT ![h].state = "freed", ![h].thread = "end", ![h].cookie = None]
    /\ counter' = counter - 1
    /\ UNCHANGED <<table, conn, aborted>>

-----------------------------------------------------------------------------
(* bucket_destroy *)

\* memcached has joined its worker threads.
ShutdownServer ==
    /\ Alive /\ \A c \in Conns : conn[c].at \in {"off", "idle", "pending", "blocked", "answered"}
    /\ shutdown' = "in_progress"
    /\ UNCHANGED <<peh, table, conn, worker, mutex, counter, aborted, harmed, leaked>>

\* When no bucket's own thread is left the engines in the table are destroyed.
DestroyAll ==
    /\ shutdown = "in_progress" /\ ~aborted /\ counter = 0
    /\ shutdown' = "done"
    /\ peh' = [h \in Handles |->
                 IF table[peh[h].name] = h
                 THEN [peh[h] EXCEPT !.engine = "destroyed", !.destroys = @ + 1] ELSE peh[h]]
    /\ UNCHANGED <<table, conn, worker, mutex, counter, aborted, harmed, leaked>>

-----------------------------------------------------------------------------
Init ==
    /\ peh = [h \in Handles |-> [name |-> Default, ref |-> 0, clients |-> 0, cookie |-> None,
                                 state |-> "unused", engine |-> "none", destroys |-> 0,
                                 thread |-> "none"]]
    /\ table = [n \in Names |-> None]
    /\ conn = [c \in Conns |-> [at |-> "off", name |-> None, es |-> FALSE, peh |-> None, tmp |-> None,
                                old |-> None, reserved |-> 0, notified |-> FALSE]]
    /\ worker \in Dispatched /\ mutex = [w \in Threads |-> None]
    /\ counter = 0 /\ shutdown = "no" /\ aborted = FALSE /\ harmed = {} /\ leaked = {}

\* What the connection's thread does when it has begun a command.
Continue(c) ==
    \/ Create(c) \/ SetEngineHandle(c) \/ ReleaseOld(c) \/ ReleaseTemporary(c)
    \/ Enter(c) \/ Refused(c) \/ Leave(c) \/ Disconnect(c) \/ Callback(c) \/ Disconnected(c)
    \/ ClosePending(c) \/ DeleteBucket(c) \/ Answered(c)

Command(c) ==
    \/ Connect(c) \/ Call(c) \/ Reserve(c) \/ HangUp(c)
    \/ \E name \in Names : \/ Attach(c, name, FALSE) \/ Attach(c, name, AutoCreate)
                           \/ CreateBucket(c, name) \/ FindToDelete(c, name)

ShutdownThread(h) ==
    \/ ThreadStarts(h) \/ DestroyEngine(h) \/ EngineDestroyed(h)
    \/ Unlink(h) \/ Announce(h) \/ Notify(h) \/ FreeHandle(h)

Next ==
    \/ \E c \in Conns : Continue(c) \/ Command(c) \/ ReleaseCookie(c)
    \/ \E h \in Handles : ShutdownThread(h)
    \/ ShutdownServer \/ DestroyAll

\* Threads run, calls return, and an engine that is destroyed releases its connections.
\* A thread that waits for a mutex which is released again and again gets it.
Fairness ==
    /\ \A c \in Conns : /\ WF_vars(Continue(c))
                        /\ WF_vars(conn[c].peh # None /\ peh[conn[c].peh].engine = "destroying"
                                   /\ ReleaseCookie(c))
    /\ \A h \in Handles : SF_vars(ShutdownThread(h))
    /\ WF_vars(DestroyAll)

Spec == Init /\ [][Next]_vars /\ Fairness

-----------------------------------------------------------------------------
(* Properties *)

\* The references that somebody holds: the table's until the bucket is deleted, those
\* of connections and of commands under way, and those of reservations.
Refs(h) ==
      (IF peh[h].state = "running" THEN 1 ELSE 0)
    + Cardinality({c \in Conns : conn[c].peh = h})
    + Cardinality({c \in Conns : conn[c].tmp = h})
    + Cardinality({c \in Conns : conn[c].old = h})
    + Cardinality({c \in Conns : conn[c].peh = h /\ conn[c].reserved = 1})

\* peh->refcount is the number of references that retain_handle, create_bucket and
\* reserve_cookie have given and nobody has returned, but for the two flaws that the
\* histories record.
RefsCounted ==
    \A h \in Handles \ harmed :
       Refs(h) <= peh[h].ref /\ (h \notin leaked => peh[h].ref = Refs(h))

\* No connection holds a pointer to a handle that engine_shutdown_thread has freed.
HandleOutlivesUse ==
    \A c \in Conns : \A h \in {conn[c].peh, conn[c].tmp, conn[c].old} \ {None} :
       peh[h].state = "freed" => h \in harmed \/ shutdown # "no"

\* A call is only in an engine that has not begun to stop: get_engine_handle counts the
\* clients that the shutdown waits for.
CallsInLiveEngine ==
    \A c \in Conns : conn[c].at = "inside" => peh[conn[c].peh].engine = "alive"

\* Two engines of one name are never alive at once: a bucket is created again only when
\* the engine of the deleted one is gone.
OneEnginePerName ==
    \A g, h \in Handles : g # h /\ peh[g].name = peh[h].name
                          => {peh[g].engine, peh[h].engine} \cap {"none", "destroyed"} # {}

\* An engine is destroyed once, by its own thread or by the shutdown of the server, and
\* none is left when that is done.
DestroyedOnce ==
    \A h \in Handles : /\ peh[h].destroys <= 1
                       /\ shutdown = "done" => peh[h].engine \in {"none", "destroyed"}

\* The thread w holds its mutex for a command that waits for the lock of a handle, and the
\* shutdown thread that has this lock waits for the mutex of v.
WaitsFor(w, v) ==
    \E c, d \in Conns :
       LET h == NextLock(c)
       IN  mutex[w] = c /\ ~CanLock(c) /\ peh[h].cookie = d /\ worker[d] = v

\* Worker threads wait for each other, or one for itself, in a circle.
Deadlocked ==
    LET stuck == {w \in Workers : mutex[w] # None /\ ~CanLock(mutex[w])}
    IN  \E S \in SUBSET stuck \ {{}} : \A w \in S : \E v \in S : WaitsFor(w, v)

\* Who has deleted a bucket (handle_delete_bucket) gets an answer: somebody starts the
\* shutdown thread, whichever call leaves the engine last, and it gets to its notification,
\* unless it and a worker each hold the lock that the other waits for.
AnsweredOrDeadlocked ==
    \A c \in Conns : conn[c].at = "blocked" ~>
                     \/ conn[c].at # "blocked" \/ shutdown # "no" \/ aborted
                     \/ Deadlocked

\* The shutdown of the server (bucket_destroy) ends: threads that wait for references of
\* connections nobody serves any more give up.
ShutdownEnds == shutdown = "in_progress" ~> (shutdown = "done" \/ aborted)

\* The assertions of release_handle, engine_shutdown_thread, handle_delete_bucket and
\* release_cookie hold, unless a reserved connection was refused.
AssertionsHold == aborted => harmed # {}

\* Which of its fields a connection uses where its thread is.
ConnFits(r) ==
    /\ r.tmp # None => r.at \in {"set", "old", "tmp", "delete", "refused"}
    /\ r.old # None => r.at = "old"
    /\ r.at = "delete" => r.tmp # None
    /\ r.at = "create" => r.name # None
    /\ r.at = "inside" => r.peh # None
    /\ ~r.es => r.peh = None
    /\ r.at = "off" => ~r.es
    /\ r.at \in {"create", "set"} => r.es
    /\ r.reserved = 1 => /\ r.peh # None
                         /\ r.at \in {"idle", "calling", "inside", "refused", "closing", "callback",
                                      "release", "pending"}
    /\ r.notified => r.at \in {"off", "pending"}
    /\ r.at = "pending" => r.notified /\ (r.reserved = 0 => ~r.es)

\* It points to handles that create_bucket has filled in.
ConnsFit ==
    \A c \in Conns : /\ ConnFits(conn[c])
                     /\ \A h \in {conn[c].peh, conn[c].tmp, conn[c].old} \ {None} :
                          peh[h].state # "unused"

\* The threads of the server's shutdown have found no command under way.
ShutdownFits ==
    shutdown # "no" =>
       \A c \in Conns : conn[c].at \in {"off", "idle", "pending", "blocked", "answered"}

\* The calls that a handle counts.
ClientsCounted ==
    \A h \in Handles :
       peh[h].clients = Cardinality({c \in Conns : conn[c].at = "inside" /\ conn[c].peh = h})

\* A bucket's thread, its state and its calls.
ThreadsFit ==
    \A h \in Handles :
       LET r == peh[h]
       IN  /\ r.thread = "none" <=> r.state \in {"unused", "running", "stop_requested"}
           /\ r.thread \in {"start", "destroy", "unlink"} => r.state = "stopping"
           /\ r.thread = "announce" => r.state = "null"
           /\ r.thread \in {"notify", "wait"} => r.state = "stopped"
           /\ r.thread = "end" => \/ r.state = "freed"
                                  \/ r.state = "stopping" /\ shutdown # "no"
           /\ r.state \notin {"running", "stop_requested"} => r.clients = 0

\* The engine behind a handle, until the server has destroyed all of them.
EnginesFit ==
    \A h \in Handles :
       LET r == peh[h]
       IN  /\ r.destroys = IF r.engine = "destroyed" THEN 1 ELSE 0
           /\ shutdown = "done" => r.engine \in {"none", "destroyed"}
           /\ shutdown # "done" =>
                r.engine = CASE r.state = "unused" -> "none"
                             [] r.state \in {"null", "stopped", "freed"} -> "destroyed"
                             [] r.state \in {"running", "stop_requested"} -> "alive"
                             [] r.state = "stopping" ->
                                  IF r.thread = "unlink" THEN "destroyed"
                                  ELSE IF r.thread = "destroy" /\ r.engine = "destroying"
                                  THEN "destroying" ELSE "alive"

\* The table holds the buckets whose engine exists or has just been destroyed.
InTable(r) == r.state \in {"running", "stop_requested", "stopping"}

TableFits ==
    /\ \A h \in Handles : InTable(peh[h]) => table[peh[h].name] = h
    /\ \A n \in Names : table[n] # None => peh[table[n]].name = n /\ InTable(peh[table[n]])

\* Threads that the shutdown of the server waits for.
Busy == {h \in Handles : peh[h].thread \in {"destroy", "unlink", "announce", "notify", "wait"}}

BusyCounted == counter = Cardinality(Busy) /\ (shutdown = "done" => counter = 0)

\* The places of a connection whose worker may be in a command for it.
InCommand == {"create", "set", "old", "tmp", "delete", "calling", "inside", "refused"}

\* A thread holds its mutex for one connection, of its own and in a command, and for a
\* connection one thread at most does: a command that blocks or ends gives it back.
MutexesFit ==
    /\ worker \in Dispatched /\ mutex \in [Threads -> Conns \cup {None}]
    /\ \A w \in Threads : mutex[w] # None =>
          /\ conn[mutex[w]].at \in InCommand /\ w \in {worker[mutex[w]], Tap}
          /\ \A v \in Threads : mutex[v] = mutex[w] => v = w

\* The handles of bucket_engine.c through create, select, reserve, delete, hang-up and
\* shutdown: counted, not freed under a user, one engine of a name, destroyed once, and
\* no assertion fails.  With what connections, threads, engines and the table have to do
\* with each other it is inductive.
BooksFit ==
    /\ TypeOK /\ RefsCounted /\ HandleOutlivesUse /\ OneEnginePerName /\ DestroyedOnce
    /\ AssertionsHold /\ ConnsFit /\ ShutdownFits /\ ClientsCounted /\ ThreadsFit
    /\ EnginesFit /\ TableFits /\ BusyCounted

\* And the mutexes of the threads.
HandlesFit == BooksFit /\ MutexesFit
=============================================================================
