------------------------------- MODULE MbMaster -------------------------------
(***************************************************************************)
(* The election of the cluster's master node by mb_master: heartbeats,     *)
(* priorities by version and name, the two modes of operation, takeover,   *)
(* surrender, changes of the list of wanted nodes, crashes and restarts,   *)
(* and lost heartbeats.                                                    *)
(*                                                                         *)
(* Time is counted in heartbeat intervals: in every round each node that   *)
(* runs handles its timer once, and a heartbeat is delivered or lost       *)
(* within the round.  A node is its name, a number.                        *)
(***************************************************************************)
EXTENDS Integers, FiniteSets

CONSTANTS N,             \* the nodes are 1 .. N
          Version,       \* per node, the version it runs
          Timeout,       \* TIMEOUT in heartbeat intervals
          MaxFaults      \* bound: crashes, lost heartbeats and changes of nodes_wanted

ASSUME MbMasterAssumption ==
    /\ N \in Nat \ {0} /\ Timeout \in Nat \ {0} /\ MaxFaults \in Nat
    /\ Version \in [1 .. N -> Nat]

\* In the code TIMEOUT is five intervals; with one, every candidate would take over at
\* every timer.
ASSUME TimeoutAssumption == Timeout > 2

Nodes == 1 .. N

NoMaster == 0

VARIABLES
    wanted,          \* nodes_wanted of the configuration
    fsm,             \* per node: down, candidate, master or worker
    master,          \* per node, the master it knows
    peers, newPeers, \* per node; no peers: undefined
    age,             \* per node, the intervals since last_heard
    net,             \* heartbeats: [from, to, kind, versioned]
    events,          \* nodes that have not handled the last change of nodes_wanted
    ticked,          \* nodes that have handled this round's timer
    faults,
    clash,           \* history: a process has just died of a heartbeat it cannot compare
    rivals           \* history: the rounds with two masters since the last fault

vars == <<wanted, fsm, master, peers, newPeers, age, net, events, ticked, faults, clash, rivals>>

Messages == [from : Nodes, to : Nodes, kind : {"candidate", "master"}, versioned : BOOLEAN]

TypeOK ==
    /\ wanted \subseteq Nodes
    /\ fsm \in [Nodes -> {"down", "candidate", "master", "worker"}]
    /\ master \in [Nodes -> Nodes \cup {NoMaster}]
    /\ peers \in [Nodes -> SUBSET Nodes] /\ newPeers \in [Nodes -> SUBSET Nodes]
    /\ age \in [Nodes -> 0 .. Timeout]
    /\ net \subseteq Messages /\ events \subseteq Nodes /\ ticked \subseteq Nodes
    /\ faults \in 0 .. MaxFaults /\ clash \in BOOLEAN /\ rivals \in 0 .. 4

-----------------------------------------------------------------------------
(* Mode, priority and peers *)

\* choose_mode; every change of the peers chooses it again.
Normal(ps, np, n) == ps = {n} \/ np = ps

\* Mutant: of two nodes with one version none has the higher priority.
ByVersionOnly(n, m) == Version[m] > Version[n]

\* higher_priority_node in normal mode.
HigherVersion(n, m) == Version[m] > Version[n] \/ (Version[m] = Version[n] /\ m < n)

\* higher_priority_node for node n with the new peers np; the heartbeat is comparable.
HigherPriority(n, np, msg) ==
    IF Normal(peers[n], np, n) THEN HigherVersion(n, msg.from) ELSE msg.from < n

\* In normal mode there is no clause for a heartbeat without a version.
Incomparable(n, np, msg) == Normal(peers[n], np, n) /\ ~msg.versioned

\* update_new_peers.
UpdateNewPeers(n, m) == IF m \in peers[n] THEN newPeers[n] \cup {m} ELSE newPeers[n]

Set(f, n, v) == [f EXCEPT ![n] = v]

\* An interval more since last_heard, which nothing but the timeout reads.
Aged(n) == IF age[n] < Timeout THEN age[n] + 1 ELSE Timeout

\* init: the state of a process that starts, and its timer with it.
Start(n) ==
    /\ fsm' = Set(fsm, n, IF n \notin wanted THEN "worker"
                          ELSE IF wanted = {n} THEN "master" ELSE "candidate")
    /\ master' = Set(master, n, IF wanted = {n} THEN n ELSE NoMaster)
    /\ peers' = Set(peers, n, IF n \in wanted THEN wanted ELSE {})
    /\ newPeers' = Set(newPeers, n, {n})
    /\ age' = Set(age, n, 0)
    /\ ticked' = ticked \cup {n}
    /\ events' = events \ {n}

-----------------------------------------------------------------------------
(* The timer *)

\* send_heartbeat, to the nodes that are connected.
Heartbeats(n, to, kind) ==
    {[from |-> n, to |-> m, kind |-> kind, versioned |-> Normal(peers[n], newPeers[n], n)] :
       m \in {m \in to \ {n} : fsm[m] # "down"}}

\* A candidate takes over when it has heard of no master and no higher priority in time.
TickCandidate(n) ==
    /\ n \notin ticked /\ fsm[n] = "candidate"
    /\ net' = net \cup Heartbeats(n, peers[n], "candidate")
    /\ ticked' = ticked \cup {n}
    /\ age' = Set(age, n, Aged(n))
    /\ IF Aged(n) >= Timeout
       THEN fsm' = Set(fsm, n, "master") /\ master' = Set(master, n, n)
       ELSE UNCHANGED <<fsm, master>>
    /\ clash' = FALSE
    /\ UNCHANGED <<wanted, peers, newPeers, events, faults, rivals>>

TickMaster(n) ==
    /\ n \notin ticked /\ fsm[n] = "master"
    /\ net' = net \cup Heartbeats(n, wanted, "master")
    /\ ticked' = ticked \cup {n}
    /\ master' = Set(master, n, n)
    /\ age' = Set(age, n, Aged(n))
    /\ clash' = FALSE
    /\ UNCHANGED <<wanted, fsm, peers, newPeers, events, faults, rivals>>

TickWorker(n) ==
    /\ n \notin ticked /\ fsm[n] = "worker"
    /\ ticked' = ticked \cup {n}
    /\ age' = Set(age, n, Aged(n))
    /\ clash' = FALSE
    /\ UNCHANGED <<wanted, fsm, master, peers, newPeers, net, events, faults, rivals>>

\* The next interval begins when the last one's heartbeats have arrived.
NextRound ==
    /\ net = {} /\ events = {} /\ \A n \in Nodes : fsm[n] = "down" \/ n \in ticked
    /\ ticked' = {}
    /\ rivals' = IF Cardinality({n \in Nodes : fsm[n] = "master"}) < 2 THEN 0
                 ELSE IF rivals < 4 THEN rivals + 1 ELSE 4
    /\ clash' = FALSE
    /\ UNCHANGED <<wanted, fsm, master, peers, newPeers, age, net, events, faults>>

-----------------------------------------------------------------------------
(* Heartbeats received *)

Received(msg) == msg \in net /\ UNCHANGED <<wanted, faults, rivals>>

\* The process dies of what it has received and its supervisor starts it again; what
\* else is in its mailbox, rest of the heartbeats or a part of it, is lost.
Dies(n, rest) ==
    /\ Start(n) /\ clash' = TRUE
    /\ net' \in {rest, {msg \in rest : msg.to # n}}

\* What the node does not change when it has heard a heartbeat.
Heard(msg) == net' = net \ {msg} /\ clash' = FALSE /\ UNCHANGED <<peers, ticked, events>>

\* Mutant: a candidate keeps the first master it has heard of.
KeepsFirstMaster(msg) ==
    LET n == msg.to
    IN  /\ fsm[n] = "candidate" /\ msg.kind = "master" /\ Received(msg)
        /\ newPeers' = Set(newPeers, n, UpdateNewPeers(n, msg.from))
        /\ age' = Set(age, n, 0)
        /\ master' = IF master[n] = NoMaster THEN Set(master, n, msg.from) ELSE master
        /\ Heard(msg) /\ UNCHANGED fsm

\* candidate, of a master.
CandidateHearsMaster(msg) ==
    LET n == msg.to
        known == master[n] = msg.from \/ msg.from \in peers[n]
    IN  /\ fsm[n] = "candidate" /\ msg.kind = "master" /\ Received(msg)
        /\ newPeers' = Set(newPeers, n, UpdateNewPeers(n, msg.from))
        /\ age' = IF known THEN Set(age, n, 0) ELSE age
        /\ master' = IF known THEN Set(master, n, msg.from) ELSE master
        /\ Heard(msg) /\ UNCHANGED fsm

\* candidate, of a candidate.
CandidateHearsCandidate(msg) ==
    LET n == msg.to
        np == UpdateNewPeers(n, msg.from)
    IN  /\ fsm[n] = "candidate" /\ msg.kind = "candidate" /\ Received(msg)
        /\ IF msg.from \in peers[n] /\ Incomparable(n, np, msg)
           THEN Dies(n, net \ {msg})
           ELSE /\ newPeers' = Set(newPeers, n, np)
                /\ age' = IF msg.from \in peers[n] /\ HigherPriority(n, np, msg)
                          THEN Set(age, n, 0) ELSE age
                /\ Heard(msg) /\ UNCHANGED <<fsm, master>>

\* master, of a master: it surrenders to one of higher priority.
MasterHearsMaster(msg) ==
    LET n == msg.to
        np == UpdateNewPeers(n, msg.from)
    IN  /\ fsm[n] = "master" /\ msg.kind = "master" /\ Received(msg)
        /\ IF msg.from \in peers[n] /\ Incomparable(n, np, msg)
           THEN Dies(n, net \ {msg})
           ELSE /\ newPeers' = Set(newPeers, n, np)
                /\ age' = IF msg.from \in peers[n] THEN Set(age, n, 0) ELSE age
                /\ fsm' = IF msg.from \in peers[n] /\ HigherPriority(n, np, msg)
                          THEN Set(fsm, n, "candidate") ELSE fsm
                /\ Heard(msg) /\ UNCHANGED master

MasterHearsCandidate(msg) ==
    LET n == msg.to
    IN  /\ fsm[n] = "master" /\ msg.kind = "candidate" /\ Received(msg)
        /\ newPeers' = Set(newPeers, n, UpdateNewPeers(n, msg.from))
        /\ age' = Set(age, n, 0)
        /\ Heard(msg) /\ UNCHANGED <<fsm, master>>

\* A worker that started as one has no list of peers to look the sender up in.
WorkerHears(msg) ==
    LET n == msg.to
    IN  /\ fsm[n] = "worker" /\ Received(msg)
        /\ IF msg.kind = "master" /\ peers[n] = {}
           THEN Dies(n, net \ {msg})
           ELSE /\ newPeers' = IF msg.kind = "master"
                               THEN Set(newPeers, n, UpdateNewPeers(n, msg.from)) ELSE newPeers
                /\ age' = IF msg.kind = "master" THEN Set(age, n, 0) ELSE age
                /\ master' = IF msg.kind = "master" THEN Set(master, n, msg.from) ELSE master
                /\ Heard(msg) /\ UNCHANGED fsm

-----------------------------------------------------------------------------
(* The list of peers, and faults *)

\* Mutant: a master that is not wanted any more goes on.
KeepsMastership(n) == fsm[n]

\* The state after a change of the list of peers.
StateOf(n) ==
    CASE fsm[n] = "master" -> IF n \in wanted THEN "master" ELSE "worker"
      [] fsm[n] # "master" -> IF wanted = {n} THEN "master"
                              ELSE IF n \in wanted THEN "candidate" ELSE "worker"

\* {peers, Peers}; a worker that started as one has no list to compare it with.
NewList(n) ==
    /\ n \in events /\ fsm[n] # "down"
    /\ IF peers[n] = {}
       THEN Dies(n, net)
       ELSE /\ events' = events \ {n}
            /\ peers' = Set(peers, n, wanted)
            /\ newPeers' = IF peers[n] = wanted THEN newPeers
                           ELSE Set(newPeers, n, newPeers[n] \cap wanted)
            /\ fsm' = Set(fsm, n, StateOf(n))
            /\ master' = IF fsm[n] # "master" /\ wanted = {n} THEN Set(master, n, n) ELSE master
            /\ clash' = FALSE
            /\ UNCHANGED <<age, net, ticked>>
    /\ UNCHANGED <<wanted, faults, rivals>>

Fault == faults < MaxFaults /\ faults' = faults + 1 /\ clash' = FALSE /\ rivals' = 0

\* A node joins the cluster or is ejected from it.
ChangeWanted(n) ==
    /\ Fault /\ events = {}
    /\ wanted' = IF n \in wanted THEN wanted \ {n} ELSE wanted \cup {n}
    /\ wanted' # {}
    /\ events' = {m \in Nodes : fsm[m] # "down"}
    /\ UNCHANGED <<fsm, master, peers, newPeers, age, net, ticked>>

Crash(n) ==
    /\ Fault /\ fsm[n] # "down"
    /\ fsm' = Set(fsm, n, "down")
    /\ net' = {msg \in net : msg.to # n}
    /\ events' = events \ {n}
    /\ UNCHANGED <<wanted, master, peers, newPeers, age, ticked>>

Restart(n) ==
    /\ fsm[n] = "down" /\ n \in wanted /\ Start(n) /\ clash' = FALSE
    /\ UNCHANGED <<wanted, net, faults, rivals>>

Lose(msg) ==
    /\ Fault /\ msg \in net
    /\ net' = net \ {msg}
    /\ UNCHANGED <<wanted, fsm, master, peers, newPeers, age, events, ticked>>

-----------------------------------------------------------------------------
\* The nodes of a cluster are started at once; the last one may be yet to join it.
Init ==
    /\ wanted \in {Nodes, Nodes \ {N}}
    /\ fsm = [n \in Nodes |-> IF n \notin wanted THEN "down"
                              ELSE IF wanted = {n} THEN "master" ELSE "candidate"]
    /\ master = [n \in Nodes |-> IF wanted = {n} THEN n ELSE NoMaster]
    /\ peers = [n \in Nodes |-> IF n \in wanted THEN wanted ELSE {}]
    /\ newPeers = [n \in Nodes |-> {n}] /\ age = [n \in Nodes |-> 0]
    /\ net = {} /\ events = {} /\ ticked = {} /\ faults = 0 /\ clash = FALSE /\ rivals = 0

Handle(msg) ==
    \/ CandidateHearsMaster(msg) \/ CandidateHearsCandidate(msg)
    \/ MasterHearsMaster(msg) \/ MasterHearsCandidate(msg) \/ WorkerHears(msg)

Work ==
    \/ \E n \in Nodes : TickCandidate(n) \/ TickMaster(n) \/ TickWorker(n) \/ NewList(n) \/ Restart(n)
    \/ \E msg \in net : Handle(msg)
    \/ NextRound

Next ==
    \/ Work
    \/ \E n \in Nodes : ChangeWanted(n) \/ Crash(n)
    \/ \E msg \in net : Lose(msg)

Spec == Init /\ [][Next]_vars /\ WF_vars(Work)

-----------------------------------------------------------------------------
(* Properties *)

Masters == {n \in Nodes : fsm[n] = "master"}

\* Two masters do not stay: when no heartbeat is lost and no node dies, joins or leaves, all
\* but one surrender or start again before the fourth round ends.  It takes more than one
\* because by higher_priority_node both may judge the other lower while they change from
\* one mode of operation to the other, and because a candidate may take over meanwhile.
RivalsEnd == rivals <= 3

\* A node that the configuration does not name any more is master only until it has
\* handled the change ({peers, Peers}), whatever heartbeats come first.
MasterIsWanted == \A n \in Masters : n \in wanted \/ n \in events

\* No node of the cluster runs.
NoneRuns == \A n \in wanted : fsm[n] = "down"

\* The running nodes of the cluster agree on one master.
Agreed == \E m \in Masters : Masters = {m} /\ \A n \in wanted : fsm[n] = "down" \/ master[n] = m

\* The running nodes come to agree again after every fault, unless heartbeats that
\* cannot be compared kill their processes over and over.
AgreesOrClashes == []<>(Agreed \/ NoneRuns) \/ []<>clash

\* Who may come to be master: a candidate, too, is wanted or is about to learn that it is
\* not, so that the timeout of candidate (handle_info, send_heartbeat) makes no other master.
CandidateIsWanted == \A n \in Nodes : fsm[n] = "candidate" => n \in wanted \/ n \in events

\* Between any two messages of mb_master: a master is a node of the cluster or about to
\* learn that it is not, so is a candidate, and the state keeps its shape.
MasterInv == TypeOK /\ MasterIsWanted /\ CandidateIsWanted
=============================================================================
