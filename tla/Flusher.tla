------------------------------ MODULE Flusher ------------------------------
(***************************************************************************)
(* The flusher of one bucket and the threads that drive it.  The           *)
(* dispatcher thread runs the flusher's task, one step at a time; the      *)
(* connection threads pause and resume it; the thread that destroys the    *)
(* engine stops it and waits.  _state is a volatile that all of them read  *)
(* and write: transition_state checks it, writes it and replaces the       *)
(* flusher's task in three steps, and only the last is under a mutex.      *)
(*                                                                         *)
(* The other task that matters runs on the same dispatcher: the high       *)
(* priority vbucket snapshot, because the flusher rejects every item while *)
(* one is scheduled.                                                       *)
(***************************************************************************)
EXTENDS Naturals, FiniteSets

CONSTANTS Items,           \* the keys
          Deletes,         \* the keys that are only ever deleted
          Controls,        \* the connection threads
          WaitForWarmup,   \* wait_for_warmup
          Forces,          \* bound: the values of destroy's force flag that are tried
          MaxMutations,    \* bound: mutations the connections make
          MaxRequests,     \* bound: pause and resume requests
          MaxSnapshots,    \* bound: vbucket changes that schedule a snapshot
          MaxFailures      \* bound: times the storage fails or an item is too young

\* The dispatcher's thread, and the thread that initializes and destroys the engine.
Dispatcher == "dispatcher"
Destroyer == "destroyer"
Threads == Controls \cup {Dispatcher, Destroyer}
Nobody == "nobody"

ASSUME FlusherAssumption ==
    /\ Deletes \subseteq Items
    /\ Controls \cap {Dispatcher, Destroyer, Nobody} = {}
    /\ WaitForWarmup \in BOOLEAN
    /\ Forces \subseteq BOOLEAN
    /\ {MaxMutations, MaxRequests, MaxSnapshots, MaxFailures} \subseteq Nat

VARIABLES fstate,         \* Flusher::_state
          force,          \* Flusher::forceShutdownReceived
          vbStateLoaded,  \* Flusher::vbStateLoaded
          task,           \* Flusher::task, tasks are numbered as they are made
          taskMutex,      \* the thread that holds Flusher::taskMutex
          queue,          \* the flusher's tasks in futureQueue and readyQueue
          dead,           \* the tasks that were cancelled
          dstate,         \* Dispatcher::state
          run,            \* the flusher task that the dispatcher runs
          draining,       \* that task is in Flusher::completeFlush
          snapshot,       \* highPriorityVbSnapshot, and the task is queued
          th,             \* where each thread is
          dirty,          \* items that the persistence cursors have yet to reach
          flushing,       \* flushQueue # NULL
          writing,        \* *flushQueue
          rejects,        \* *rejectQueue
          stored,         \* items whose last mutation the storage has taken
          commitSoon,     \* the transaction's _remaining was set to 0
          spent           \* how much of each bound is used

storeVars == <<dirty, flushing, writing, rejects, stored, commitSoon>>
taskVars == <<task, taskMutex, queue, dead>>
vars == <<fstate, force, vbStateLoaded, taskVars, dstate, run, draining, snapshot, th,
          storeVars, spent>>

FlusherStates == {"initializing", "running", "pausing", "paused", "stopping", "stopped"}

TransitionPcs == {"check", "write", "lock", "schedule"}
DispatcherPcs == {"step", "initialize", "warmup", "dump", "begin", "some", "pauseCheck", "finish",
                  "flushed", "again", "done", "snapshot", "exited"}
DestroyerPcs == {"wait", "stopDispatcher", "join", "deleted"}
Pcs == {"idle", "starting"} \cup TransitionPcs \cup DispatcherPcs \cup DestroyerPcs

TypeOK ==
    /\ fstate \in FlusherStates
    /\ force \in BOOLEAN /\ vbStateLoaded \in BOOLEAN /\ draining \in BOOLEAN
    /\ snapshot \in BOOLEAN /\ flushing \in BOOLEAN /\ commitSoon \in BOOLEAN
    /\ task \in Nat /\ run \in Nat
    /\ queue \subseteq Nat /\ dead \subseteq Nat
    /\ taskMutex \in Threads \cup {Nobody}
    /\ dstate \in {"running", "stopping", "stopped"}
    /\ th \in [Threads -> [pc : Pcs, to : FlusherStates, next : Pcs]]
    /\ dirty \subseteq Items /\ writing \subseteq Items
    /\ rejects \subseteq Items /\ stored \subseteq Items
    /\ spent \in [{"mutations", "requests", "snapshots", "failures"} -> Nat]

At(self, pc) == th[self].pc = pc

\* A thread outside transition_state.
Outside(pc) == [pc |-> pc, to |-> "initializing", next |-> "idle"]

Goto(self, pc) == th' = [th EXCEPT ![self] = Outside(pc)]

\* The flusher is started in the constructor of the store: its first task is
\* queued before any connection can reach the engine.
Init ==
    /\ fstate = "initializing" /\ force = FALSE /\ vbStateLoaded = FALSE
    /\ task = 1 /\ queue = {1} /\ dead = {} /\ taskMutex = Nobody
    /\ dstate = "running" /\ run = 0 /\ draining = FALSE /\ snapshot = FALSE
    /\ th = [self \in Threads |-> Outside(IF self = Destroyer THEN "starting" ELSE "idle")]
    /\ dirty = {} /\ flushing = FALSE /\ writing = {} /\ rejects = {} /\ stored = Items
    /\ commitSoon = FALSE
    /\ spent = [b \in {"mutations", "requests", "snapshots", "failures"} |-> 0]

Spend(b) == spent' = [spent EXCEPT ![b] = @ + 1]

-----------------------------------------------------------------------------
(* Flusher::transition_state *)

Transitions ==
    {<<"initializing", "running">>, <<"initializing", "stopping">>,
     <<"running", "pausing">>, <<"running", "stopping">>, <<"pausing", "paused">>,
     <<"stopping", "stopped">>, <<"paused", "running">>, <<"paused", "stopping">>,
     <<"pausing", "stopping">>}

\* Mutants: a transition is missing from the table.
CannotPause(from, to) == <<from, to>> \in Transitions \ {<<"pausing", "paused">>}
CannotStop(from, to) == <<from, to>> \in Transitions \ {<<"stopping", "stopped">>}

ValidTransition(from, to) == <<from, to>> \in Transitions

\* The call: the thread goes on at next when the transition returns.
TransitionState(self, to, next) ==
    th' = [th EXCEPT ![self] = [pc |-> "check", to |-> to, next |-> next]]

Advance(self, pc) ==
    th' = [th EXCEPT ![self] = [pc |-> pc, to |-> th[self].to, next |-> th[self].next]]

\* Where stopFlusher goes when the transition was refused.
Refused(self) == IF self = Destroyer THEN "stopDispatcher" ELSE th[self].next

Check(self) ==
    /\ At(self, "check")
    /\ \/ (force \/ ValidTransition(fstate, th[self].to)) /\ Advance(self, "write")
       \/ ~force /\ ~ValidTransition(fstate, th[self].to) /\ Goto(self, Refused(self))
    /\ UNCHANGED <<fstate, force, vbStateLoaded, taskVars, dstate, run, draining, snapshot,
                   storeVars, spent>>

WriteState(self) ==
    /\ At(self, "write")
    /\ fstate' = th[self].to
    /\ Advance(self, "lock")
    /\ UNCHANGED <<force, vbStateLoaded, taskVars, dstate, run, draining, snapshot, storeVars,
                   spent>>

\* Mutant: the task is replaced without the mutex.
CancelUnlocked(self) ==
    /\ At(self, "lock")
    /\ dead' = dead \cup {task}
    /\ Advance(self, "schedule")
    /\ UNCHANGED <<fstate, force, vbStateLoaded, task, taskMutex, queue, dstate, run, draining,
                   snapshot, storeVars, spent>>

CancelTask(self) ==
    /\ At(self, "lock")
    /\ taskMutex = Nobody
    /\ taskMutex' = self
    /\ dead' = dead \cup {task}
    /\ Advance(self, "schedule")
    /\ UNCHANGED <<fstate, force, vbStateLoaded, task, queue, dstate, run, draining, snapshot,
                   storeVars, spent>>

\* Mutant: no task is queued while one is running.
ScheduleWhenIdle(self) ==
    /\ At(self, "schedule")
    /\ task' = task + 1
    /\ queue' = queue \cup IF run = 0 THEN {task + 1} ELSE {}
    /\ taskMutex' = Nobody
    /\ Goto(self, th[self].next)
    /\ UNCHANGED <<fstate, force, vbStateLoaded, dead, dstate, run, draining, snapshot,
                   storeVars, spent>>

ScheduleTask(self) ==
    /\ At(self, "schedule")
    /\ task' = task + 1
    /\ queue' = queue \cup {task + 1}
    /\ taskMutex' = Nobody
    /\ Goto(self, th[self].next)
    /\ UNCHANGED <<fstate, force, vbStateLoaded, dead, dstate, run, draining, snapshot,
                   storeVars, spent>>

Transition(self) == Check(self) \/ WriteState(self) \/ CancelTask(self) \/ ScheduleTask(self)

-----------------------------------------------------------------------------
(* The connection threads *)

\* What EventuallyPersistentEngine::initialize waits for.
Initialized == IF WaitForWarmup THEN fstate # "initializing" ELSE vbStateLoaded

\* initialize schedules a snapshot and returns.
EngineInitialized ==
    /\ At(Destroyer, "starting")
    /\ Initialized
    /\ snapshot' = TRUE
    /\ Goto(Destroyer, "idle")
    /\ UNCHANGED <<fstate, force, vbStateLoaded, taskVars, dstate, run, draining, storeVars,
                   spent>>

\* Connections call in after initialize and before the bucket is destroyed.
Serving == At(Destroyer, "idle")

\* A connection changes an item and the persistence cursor has something to flush.
Mutate(i) ==
    /\ Serving
    /\ spent["mutations"] < MaxMutations
    /\ Spend("mutations")
    /\ dirty' = dirty \cup {i}
    /\ stored' = stored \ {i}
    /\ UNCHANGED <<fstate, force, vbStateLoaded, taskVars, dstate, run, draining, snapshot, th,
                   flushing, writing, rejects, commitSoon>>

PauseFlusher(c) ==
    /\ Serving /\ At(c, "idle")
    /\ spent["requests"] < MaxRequests
    /\ Spend("requests")
    /\ commitSoon' = TRUE
    /\ TransitionState(c, "pausing", "idle")
    /\ UNCHANGED <<fstate, force, vbStateLoaded, taskVars, dstate, run, draining, snapshot,
                   dirty, flushing, writing, rejects, stored>>

ResumeFlusher(c) ==
    /\ Serving /\ At(c, "idle")
    /\ spent["requests"] < MaxRequests
    /\ Spend("requests")
    /\ TransitionState(c, "running", "idle")
    /\ UNCHANGED <<fstate, force, vbStateLoaded, taskVars, dstate, run, draining, snapshot,
                   storeVars>>

\* A connection creates, deletes or resets a vbucket.
ScheduleVBSnapshot ==
    /\ Serving
    /\ spent["snapshots"] < MaxSnapshots
    /\ Spend("snapshots")
    /\ snapshot' = TRUE
    /\ UNCHANGED <<fstate, force, vbStateLoaded, taskVars, dstate, run, draining, th, storeVars>>

-----------------------------------------------------------------------------
(* The thread that destroys the engine *)

\* bucket_engine destroys the engine when no connection is inside it.
StopFlusher(isForceShutdown) ==
    /\ Serving /\ \A c \in Controls : At(c, "idle")
    /\ force' = isForceShutdown
    /\ TransitionState(Destroyer, IF isForceShutdown THEN "stopped" ELSE "stopping",
                       IF isForceShutdown THEN "stopDispatcher" ELSE "wait")
    /\ UNCHANGED <<fstate, vbStateLoaded, taskVars, dstate, run, draining, snapshot, storeVars,
                   spent>>

FlusherWait ==
    /\ At(Destroyer, "wait")
    /\ fstate = "stopped"
    /\ Goto(Destroyer, "stopDispatcher")
    /\ UNCHANGED <<fstate, force, vbStateLoaded, taskVars, dstate, run, draining, snapshot,
                   storeVars, spent>>

DispatcherStop ==
    /\ At(Destroyer, "stopDispatcher")
    /\ dstate' = "stopping"
    /\ Goto(Destroyer, "join")
    /\ UNCHANGED <<fstate, force, vbStateLoaded, taskVars, run, draining, snapshot, storeVars,
                   spent>>

DeleteFlusher ==
    /\ At(Destroyer, "join")
    /\ At(Dispatcher, "exited")
    /\ Goto(Destroyer, "deleted")
    /\ UNCHANGED <<fstate, force, vbStateLoaded, taskVars, dstate, run, draining, snapshot,
                   storeVars, spent>>

-----------------------------------------------------------------------------
(* The dispatcher thread: its loop *)

DropTask(t) ==
    /\ At(Dispatcher, "idle") /\ dstate = "running"
    /\ t \in queue /\ t \in dead
    /\ queue' = queue \ {t}
    /\ UNCHANGED <<fstate, force, vbStateLoaded, task, taskMutex, dead, dstate, run, draining,
                   snapshot, th, storeVars, spent>>

\* A snapshot that is due has the better priority.
RunTask(t) ==
    /\ At(Dispatcher, "idle") /\ dstate = "running" /\ ~snapshot
    /\ t \in queue /\ t \notin dead
    /\ queue' = queue \ {t}
    /\ run' = t
    /\ Goto(Dispatcher, "step")
    /\ UNCHANGED <<fstate, force, vbStateLoaded, task, taskMutex, dead, dstate, draining,
                   snapshot, storeVars, spent>>

RunSnapshot ==
    /\ At(Dispatcher, "idle") /\ dstate = "running" /\ snapshot
    /\ snapshot' = FALSE
    /\ Goto(Dispatcher, "snapshot")
    /\ UNCHANGED <<fstate, force, vbStateLoaded, taskVars, dstate, run, draining, storeVars,
                   spent>>

\* A snapshot that fails is scheduled again.
SnapshotVBuckets ==
    /\ At(Dispatcher, "snapshot")
    /\ Goto(Dispatcher, "idle")
    /\ \/ UNCHANGED <<snapshot, spent>>
       \/ /\ spent["failures"] < MaxFailures
          /\ Spend("failures")
          /\ snapshot' = TRUE
    /\ UNCHANGED <<fstate, force, vbStateLoaded, taskVars, dstate, run, draining, storeVars>>

\* The flusher's tasks are daemons and are dropped.  A last snapshot runs unless the
\* shutdown is forced; one that fails there is not queued again.
DispatcherExit ==
    /\ At(Dispatcher, "idle") /\ dstate = "stopping"
    /\ queue' = {}
    /\ snapshot' = (snapshot /\ force)
    /\ dstate' = "stopped"
    /\ Goto(Dispatcher, "exited")
    /\ UNCHANGED <<fstate, force, vbStateLoaded, task, taskMutex, dead, run, draining,
                   storeVars, spent>>

\* Mutant: a task that asks to run again is not queued.
EndForGood ==
    /\ At(Dispatcher, "again") \/ At(Dispatcher, "done")
    /\ run' = 0
    /\ draining' = FALSE
    /\ Goto(Dispatcher, "idle")
    /\ UNCHANGED <<fstate, force, vbStateLoaded, taskVars, dstate, snapshot, storeVars, spent>>

\* The task's callback returned: true queues the task again.
EndTask ==
    /\ \/ At(Dispatcher, "again") /\ queue' = queue \cup {run}
       \/ At(Dispatcher, "done") /\ UNCHANGED queue
    /\ run' = 0
    /\ draining' = FALSE
    /\ Goto(Dispatcher, "idle")
    /\ UNCHANGED <<fstate, force, vbStateLoaded, task, taskMutex, dead, dstate, snapshot,
                   storeVars, spent>>

-----------------------------------------------------------------------------
(* The dispatcher thread: Flusher::step *)

Step ==
    /\ At(Dispatcher, "step")
    /\ \/ /\ fstate = "initializing"
          /\ Goto(Dispatcher, "initialize")
          /\ UNCHANGED draining
       \/ /\ fstate \in {"paused", "stopped"}
          /\ Goto(Dispatcher, "done")
          /\ UNCHANGED draining
       \/ /\ fstate = "pausing"
          /\ TransitionState(Dispatcher, "paused", "done")
          /\ UNCHANGED draining
       \/ /\ fstate = "running"
          /\ Goto(Dispatcher, "begin")
          /\ UNCHANGED draining
       \/ /\ fstate = "stopping"
          /\ Goto(Dispatcher, "begin")
          /\ draining' = TRUE
    /\ UNCHANGED <<fstate, force, vbStateLoaded, taskVars, dstate, run, snapshot, storeVars,
                   spent>>

Initialize ==
    /\ At(Dispatcher, "initialize")
    /\ vbStateLoaded' = FALSE
    /\ Goto(Dispatcher, "warmup")
    /\ UNCHANGED <<fstate, force, taskVars, dstate, run, draining, snapshot, storeVars, spent>>

\* Warmup loads the vbucket states, then the items.
LoadVBStates ==
    /\ At(Dispatcher, "warmup")
    /\ vbStateLoaded' = TRUE
    /\ Goto(Dispatcher, "dump")
    /\ UNCHANGED <<fstate, force, taskVars, dstate, run, draining, snapshot, storeVars, spent>>

FinishWarmup ==
    /\ At(Dispatcher, "dump")
    /\ TransitionState(Dispatcher, "running", "again")
    /\ UNCHANGED <<fstate, force, vbStateLoaded, taskVars, dstate, run, draining, snapshot,
                   storeVars, spent>>

\* The first part of doFlush: beginFlush, when no flush is under way.  Its queue has
\* nothing in it when the persistence cursors have only checkpoint boundaries to pass.
BeginFlush ==
    /\ At(Dispatcher, "begin")
    /\ \/ /\ flushing
          /\ Goto(Dispatcher, "some")
          /\ UNCHANGED <<dirty, flushing, writing>>
       \/ /\ ~flushing /\ dirty = {}
          /\ Goto(Dispatcher, "flushed")
          /\ UNCHANGED <<dirty, flushing, writing>>
       \/ /\ ~flushing
          /\ flushing' = TRUE
          /\ writing' = writing \cup dirty
          /\ dirty' = {}
          /\ Goto(Dispatcher, "some")
    /\ UNCHANGED <<fstate, force, vbStateLoaded, taskVars, dstate, run, draining, snapshot,
                   rejects, stored, commitSoon, spent>>

\* The storage takes the items of a batch that are not rejected.
WriteBatch(batch, rejected) ==
    /\ writing' = writing \ batch
    /\ rejects' = rejects \cup rejected
    /\ stored' = stored \cup ((batch \ rejected) \ dirty)

\* flushSome.  A transaction that does not begin rejects everything; otherwise a
\* batch is written.  Items are rejected because a snapshot is scheduled or the
\* storage fails or they are too young; a deletion does not wait for the snapshot.  The
\* batch may be empty only after commitSoon.
FlushSome ==
    /\ At(Dispatcher, "some")
    /\ \/ /\ writing = {}
          /\ Goto(Dispatcher, "finish")
          /\ UNCHANGED <<writing, rejects, stored, commitSoon, spent>>
       \/ /\ writing # {}
          /\ Goto(Dispatcher, "pauseCheck")
          /\ commitSoon' = FALSE
          /\ \/ \E batch \in SUBSET writing :
                  /\ batch # {} \/ commitSoon
                  /\ WriteBatch(batch, IF snapshot THEN batch \ Deletes ELSE {})
                  /\ UNCHANGED spent
             \/ /\ spent["failures"] < MaxFailures
                /\ Spend("failures")
                /\ \E batch \in SUBSET writing : \E rejected \in SUBSET batch :
                     /\ rejected # {}
                     /\ snapshot => batch \ Deletes \subseteq rejected
                     /\ WriteBatch(batch, rejected)
    /\ UNCHANGED <<fstate, force, vbStateLoaded, taskVars, dstate, run, draining, snapshot,
                   dirty, flushing>>

\* Mutant: a paused flusher goes on with the flush.
PauseAndFlush ==
    /\ At(Dispatcher, "pauseCheck")
    /\ \/ fstate = "pausing" /\ TransitionState(Dispatcher, "paused", "begin")
       \/ fstate # "pausing" /\ Goto(Dispatcher, "finish")
    /\ UNCHANGED <<fstate, force, vbStateLoaded, taskVars, dstate, run, draining, snapshot,
                   storeVars, spent>>

PauseCheck ==
    /\ At(Dispatcher, "pauseCheck")
    /\ \/ fstate = "pausing" /\ TransitionState(Dispatcher, "paused", "finish")
       \/ fstate # "pausing" /\ Goto(Dispatcher, "finish")
    /\ UNCHANGED <<fstate, force, vbStateLoaded, taskVars, dstate, run, draining, snapshot,
                   storeVars, spent>>

\* Mutant: a flush is complete although items were rejected.
QueueEmpty == writing = {}

FlushComplete == writing = {} /\ rejects = {}

\* The rest of doFlush: requeue the rejects, or complete the flush, which schedules
\* a snapshot of the checkpoint ids that are now persisted.
FinishFlush ==
    /\ At(Dispatcher, "finish")
    /\ Goto(Dispatcher, "flushed")
    /\ \/ /\ writing # {}
          /\ UNCHANGED <<writing, rejects, flushing, snapshot>>
       \/ /\ writing = {} /\ ~FlushComplete
          /\ writing' = rejects
          /\ rejects' = {}
          /\ UNCHANGED <<flushing, snapshot>>
       \/ /\ FlushComplete
          /\ flushing' = FALSE
          /\ snapshot' = TRUE
          /\ UNCHANGED <<writing, rejects>>
    /\ UNCHANGED <<fstate, force, vbStateLoaded, taskVars, dstate, run, draining,
                   dirty, stored, commitSoon, spent>>

\* Mutant: a flusher that stops calls doFlush once.
DrainOnce == FALSE

\* The loop of Flusher::completeFlush.
DrainOn == flushing

\* Back in step, or in that loop.
FlushReturned ==
    /\ At(Dispatcher, "flushed")
    /\ \/ draining /\ DrainOn /\ Goto(Dispatcher, "begin")
       \/ draining /\ ~DrainOn /\ TransitionState(Dispatcher, "stopped", "done")
       \/ ~draining /\ fstate = "running" /\ Goto(Dispatcher, "again")
       \/ ~draining /\ fstate # "running" /\ Goto(Dispatcher, "done")
    /\ UNCHANGED <<fstate, force, vbStateLoaded, taskVars, dstate, run, draining, snapshot,
                   storeVars, spent>>

DoFlush == BeginFlush \/ FlushSome \/ PauseCheck \/ FinishFlush \/ FlushReturned

-----------------------------------------------------------------------------

DispatcherNext ==
    \/ Transition(Dispatcher)
    \/ \E t \in queue : DropTask(t) \/ RunTask(t)
    \/ RunSnapshot \/ SnapshotVBuckets \/ DispatcherExit \/ EndTask
    \/ Step \/ Initialize \/ LoadVBStates \/ FinishWarmup
    \/ DoFlush

DestroyerNext ==
    EngineInitialized \/ Transition(Destroyer) \/ FlusherWait \/ DispatcherStop \/ DeleteFlusher

Next ==
    \/ DispatcherNext
    \/ DestroyerNext
    \/ \E c \in Controls : Transition(c) \/ PauseFlusher(c) \/ ResumeFlusher(c)
    \/ \E isForceShutdown \in Forces : StopFlusher(isForceShutdown)
    \/ \E i \in Items : Mutate(i)
    \/ ScheduleVBSnapshot

\* Threads that have something to do go on doing it: the dispatcher never blocks
\* with a task due, and a call into transition_state returns.  Nobody has to make a
\* request.
Fairness ==
    /\ WF_vars(DispatcherNext)
    /\ WF_vars(DestroyerNext)
    /\ \A c \in Controls : WF_vars(Transition(c))

Spec == Init /\ [][Next]_vars /\ Fairness

-----------------------------------------------------------------------------
(* Properties *)

\* flusher.cc:111 asserts that the task which initializes the flusher is the
\* flusher's current one: no connection replaces it before the vbucket states are
\* loaded, so a second task never starts a second warmup.
InitializesOwnTask == At(Dispatcher, "initialize") => run = task

\* Of the flusher's tasks at most one is not cancelled, the one Flusher::task names:
\* concurrent transitions never leave two tasks that both flush.
OneLiveTask == (queue \cup ({run} \ {0})) \ dead \subseteq {task}

\* The pcs at which the dispatcher has yet to act on _state for the task it runs.
Stepping == (DispatcherPcs \ {"done", "snapshot", "exited"}) \cup TransitionPcs

\* No wakeup is lost: while the flusher has something to do its current task is
\* queued or being run, or a transition is about to queue one.  A transition that
\* loses a race leaves this to the one that wins.
NoLostWakeup ==
    fstate \notin {"paused", "stopped"} /\ dstate = "running" =>
        \/ task \in queue \ dead
        \/ run = task /\ th[Dispatcher].pc \in Stepping
        \/ \E self \in Threads : At(self, "lock") \/ At(self, "schedule")

\* An item whose last mutation is not stored is still in one of the queues: neither
\* a failed transaction, a rejected item nor the end of a flush loses one.
NothingForgotten == Items \subseteq stored \cup dirty \cup writing \cup rejects

\* A flusher that was stopped and not forced has finished the flush it was in.
StoppedMeansFlushed == fstate = "stopped" /\ ~force => ~flushing

\* A paused flusher hands nothing to the storage: pause waits for the batch that is
\* being written, and a flush that was preempted rests until resume.
PausedWritesNothing == [][fstate = "paused" => stored' \subseteq stored]_vars

\* A flusher that is asked to pause does not stay in pausing, whatever races it.
PauseTakesEffect == fstate = "pausing" ~> fstate # "pausing"

\* A flusher that stops comes to its end, unless a transition that was checked before
\* the stop has yet to write its state, or a snapshot is waiting for the dispatcher.
StopTakesEffect ==
    (/\ fstate = "stopping" /\ ~snapshot
     /\ \A self \in Threads : At(self, "write") => th[self].to = "stopping")
    ~> fstate = "stopped"

\* As long as the flusher and its dispatcher run, what is changed is stored in the end.
DirtyIsStored ==
    \A i \in Items : fstate = "running" /\ i \notin stored
                       ~> i \in stored \/ fstate # "running" \/ dstate # "running"

-----------------------------------------------------------------------------
(* The inductive invariant *)

Transiting(self) == th[self].pc \in TransitionPcs

Replacing(self) == At(self, "lock") \/ At(self, "schedule")

\* What each thread may be doing.
ThreadsFit ==
    /\ \A c \in Controls :
         IF Transiting(c) THEN th[c].next = "idle" /\ th[c].to \in {"pausing", "running"}
                          ELSE At(c, "idle")
    /\ IF Transiting(Dispatcher)
       THEN <<th[Dispatcher].to, th[Dispatcher].next>> \in
              {<<"running", "again">>, <<"paused", "done">>, <<"paused", "finish">>,
               <<"stopped", "done">>}
       ELSE th[Dispatcher].pc \in DispatcherPcs \cup {"idle"}
    /\ IF Transiting(Destroyer)
       THEN <<th[Destroyer].to, th[Destroyer].next>> =
              IF force THEN <<"stopped", "stopDispatcher">> ELSE <<"stopping", "wait">>
       ELSE th[Destroyer].pc \in DestroyerPcs \cup {"starting", "idle"}
    /\ ~At(Destroyer, "idle") => \A c \in Controls : At(c, "idle")
    /\ th[Destroyer].pc \in {"starting", "idle"} => ~force
    /\ dstate = "running" => th[Dispatcher].pc # "exited"
    /\ dstate # "running" => th[Destroyer].pc \in {"join", "deleted"}

\* Every task but the current one is cancelled, and the current one is only while the
\* thread that holds the mutex is about to replace it.
TasksFit ==
    /\ \A self \in Threads : taskMutex = self <=> At(self, "schedule")
    /\ queue \subseteq 1 .. task
    /\ 1 .. (task - 1) \subseteq dead /\ dead \subseteq 1 .. task
    /\ task > 0 /\ (task \in dead <=> taskMutex # Nobody)
    /\ IF th[Dispatcher].pc \in {"idle", "snapshot", "exited"} THEN run = 0 ELSE run \in 1 .. task

\* Until warmup has loaded the vbucket states the dispatcher is alone.
WarmupFirst ==
    /\ th[Dispatcher].pc \in {"initialize", "warmup", "dump"} => ~draining
    /\ th[Dispatcher].pc \in {"initialize", "warmup"} =>
         fstate = "initializing" /\ ~vbStateLoaded
    /\ fstate = "initializing" =>
         /\ task = 1 /\ taskMutex = Nobody
         /\ \A self \in Threads : ~Replacing(self)
         /\ vbStateLoaded => \/ At(Dispatcher, "dump")
                             \/ Transiting(Dispatcher) /\ th[Dispatcher].to = "running"
         /\ ~vbStateLoaded => /\ \A c \in Controls : At(c, "idle")
                              /\ At(Destroyer, "starting")
                              /\ th[Dispatcher].pc \in {"idle", "step", "initialize", "warmup"}
                              /\ ~snapshot

FlushPcs == {"begin", "some", "pauseCheck", "finish", "flushed"}

\* flushQueue and rejectQueue are NULL between two flushes.
FlushFits ==
    /\ ~flushing => writing = {} /\ rejects = {}
    /\ th[Dispatcher].pc \in {"some", "pauseCheck", "finish"} => flushing
    /\ Transiting(Dispatcher) /\ th[Dispatcher].next = "finish" => flushing
    /\ Transiting(Dispatcher) /\ th[Dispatcher].to = "stopped" => draining /\ ~flushing

\* The destroyer has written the state.
Stopped == th[Destroyer].pc \in {"lock", "schedule"} \cup DestroyerPcs

\* What the states say about the threads that write them.
StatesFit ==
    /\ fstate = "stopping" => ~force /\ Stopped
    /\ draining => ~force /\ Stopped
    /\ draining => \/ /\ fstate = "stopping"
                      /\ th[Dispatcher].pc \in FlushPcs \cup {"check", "write"}
                   \/ /\ fstate = "stopped"
                      /\ Replacing(Dispatcher) \/ At(Dispatcher, "done")
    /\ draining /\ Transiting(Dispatcher) => th[Dispatcher].to = "stopped"
    /\ fstate = "paused" => th[Dispatcher].pc \notin {"begin", "some", "pauseCheck"}
    /\ fstate = "stopped" /\ ~force =>
         th[Dispatcher].pc \notin FlushPcs /\ ~flushing

\* The current task or somebody about to queue one will see _state as it is now.
SeenLater == task \in queue \ dead \/ \E self \in Threads : Replacing(self)

\* The state that the dispatcher acts on; when it has changed, it is seen later.
ActsOnState ==
    fstate \notin {"paused", "stopped"} /\ dstate = "running" /\ ~SeenLater =>
        /\ th[Dispatcher].pc \in FlushPcs => fstate = IF draining THEN "stopping" ELSE "running"
        /\ At(Dispatcher, "check") /\ th[Dispatcher].to = "paused" => fstate = "pausing"

FlusherInv ==
    /\ TypeOK /\ ThreadsFit /\ TasksFit /\ WarmupFirst /\ FlushFits /\ StatesFit
    /\ ActsOnState /\ NoLostWakeup /\ NothingForgotten
=============================================================================
