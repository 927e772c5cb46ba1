----------------------------- MODULE AutoFailover -----------------------------
(***************************************************************************)
(* Automatic failover of the cluster manager: the singleton auto_failover, *)
(* its decision logic, the orchestrator that carries a failover out, and   *)
(* what happens around them: nodes that stop and come back, the operator   *)
(* who switches it on and off, rebalances, failovers by hand, and the      *)
(* server's crash and restart from the configuration.                      *)
(*                                                                         *)
(* A tick is one heartbeat period.  E-mails and log entries are left out.  *)
(***************************************************************************)
EXTENDS Integers, FiniteSets

CONSTANTS Nodes, NoNode,
          Joining,           \* nodes that may wait for a rebalance to become active
          DownThreshold,     \* the timeout in heartbeat periods
          MaxDown,           \* bound: nodes down at a time
          MaxEvents          \* bound: the operator's calls, failovers and rebalances, and crashes

ASSUME AutoFailoverAssumption ==
    /\ NoNode \notin Nodes /\ IsFiniteSet(Nodes) /\ Joining \subseteq Nodes
    /\ DownThreshold \in Nat \ {0}
    /\ MaxDown \in Nat /\ MaxEvents \in Nat

VARIABLES
    \* the cluster
    active, failed,  \* nodes whose membership is active, inactiveFailed
    down,            \* nodes that ns_doctor reports as down
    rebalance,       \* [stage, keep, eject]: the rebalance and the nodes it was asked for
    requests,        \* the failovers in the orchestrator's mailbox
    \* the server
    enabled,         \* tick_ref is set
    logic,           \* auto_failover_logic_state is defined
    states,          \* nodes_states: per node [state, counter], "none" if it has none
    count,
    tick,            \* a tick is in the mailbox
    asked,           \* the node whose failover the tick waits for
    reply,           \* the orchestrator's answer
    cfg,             \* auto_failover_cfg: [enabled, count]
    events,
    downFor,         \* history: per node, for how many ticks in a row it has been down
    aloneFor,        \* history: for how many of the last ticks it was the only one
    autos, lost,     \* history: automatic failovers since the count was reset, and those
                     \* whose count was lost
    overtaken        \* history: a failover by hand came between decision and failover

cluster == <<active, failed, down, rebalance>>

server == <<enabled, logic, states, count, tick, asked, cfg>>

history == <<downFor, aloneFor, autos, lost, overtaken>>

vars == <<cluster, requests, reply, server, events, history>>

None == [state |-> "none", counter |-> 0]

NodeStates == [state : {"none", "up", "half_down", "nearly_down", "failover"},
               counter : 0 .. DownThreshold]

\* Ticks from a node's first absence to its failover.
TicksDown == DownThreshold + (IF DownThreshold = 1 THEN 3 ELSE 2)

NoRebalance == [stage |-> "none", keep |-> {}, eject |-> {}]

TypeOK ==
    /\ active \subseteq Nodes /\ failed \subseteq Nodes \ active /\ down \subseteq Nodes
    /\ rebalance \in [stage : {"none", "read", "activated", "running"},
                      keep : SUBSET Nodes, eject : SUBSET Nodes]
    /\ requests \subseteq Nodes
    /\ enabled \in BOOLEAN /\ logic \in BOOLEAN
    /\ states \in [Nodes -> NodeStates]
    /\ count \in 0 .. 1 /\ tick \in BOOLEAN /\ asked \in Nodes \cup {NoNode}
    /\ reply \in {"none", "ok", "rebalancing"}
    /\ cfg \in [enabled : BOOLEAN, count : 0 .. 1]
    /\ events \in 0 .. MaxEvents
    /\ downFor \in [Nodes -> 0 .. TicksDown] /\ aloneFor \in [Nodes -> 0 .. 2]
    /\ autos \in Nat /\ lost \in Nat /\ overtaken \in BOOLEAN

Unknown == [n \in Nodes |-> None]

Zeros == [n \in Nodes |-> 0]

Init ==
    /\ active \in {Nodes, Nodes \ Joining} /\ failed = {} /\ down = {} /\ rebalance = NoRebalance /\ requests = {}
    /\ enabled = FALSE /\ logic = FALSE /\ states = Unknown /\ count = 0
    /\ tick = FALSE /\ asked = NoNode /\ reply = "none"
    /\ cfg = [enabled |-> FALSE, count |-> 0]
    /\ events = 0
    /\ downFor = Zeros /\ aloneFor = Zeros /\ autos = 0 /\ lost = 0 /\ overtaken = FALSE

-----------------------------------------------------------------------------
(* auto_failover_logic *)

\* Mutant: other nodes that are down do not matter.
IgnoresOthers(s, alone, sizeChanged) ==
    CASE s.state \in {"none", "up"} -> [s EXCEPT !.state = "half_down"]
      [] s.state \notin {"none", "up"} /\ sizeChanged -> [state |-> "half_down", counter |-> 0]
      [] s.state = "half_down" /\ ~sizeChanged ->
           IF s.counter + 1 >= DownThreshold - 1
           THEN [state |-> "nearly_down", counter |-> 0] ELSE [s EXCEPT !.counter = @ + 1]
      [] s.state = "nearly_down" /\ ~sizeChanged ->
           IF s.counter + 1 >= 2 THEN [s EXCEPT !.state = "failover"]
           ELSE [s EXCEPT !.counter = @ + 1]
      [] OTHER -> s

\* increment_down_state: another tick in which the node is down.
IncrementDownState(s, alone, sizeChanged) ==
    CASE s.state \in {"none", "up"} -> [s EXCEPT !.state = "half_down"]
      [] s.state \notin {"none", "up"} /\ sizeChanged -> [state |-> "half_down", counter |-> 0]
      [] s.state = "half_down" /\ ~sizeChanged ->
           IF s.counter + 1 >= DownThreshold - 1
           THEN [state |-> "nearly_down", counter |-> 0] ELSE [s EXCEPT !.counter = @ + 1]
      [] s.state = "nearly_down" /\ ~sizeChanged ->
           IF ~alone THEN [s EXCEPT !.counter = 0]
           ELSE IF s.counter + 1 >= 2 THEN [s EXCEPT !.state = "failover"]
           ELSE [s EXCEPT !.counter = @ + 1]
      [] OTHER -> s

\* process_frame: the new nodes_states.
ProcessFrame(downNodes) ==
    LET sizeChanged == Cardinality({n \in Nodes : states[n].state # "none"}) # Cardinality(active)
        alone == Cardinality(downNodes) = 1
    IN  [n \in Nodes |->
           IF n \notin active THEN None
           ELSE IF n \notin downNodes THEN [state |-> "up", counter |-> 0]
           ELSE IncrementDownState(states[n], alone, sizeChanged)]

\* The failover that a frame asks for.
FailoverActions(downNodes, newStates) ==
    {n \in downNodes : /\ downNodes = {n} /\ newStates[n].state = "failover"
                       /\ Cardinality(active) > 2}

-----------------------------------------------------------------------------
(* auto_failover *)

\* Mutant: the logic state is not initialised.
RestartWithoutLogic(config) ==
    /\ enabled' = config.enabled /\ logic' = FALSE /\ count' = config.count
    /\ states' = Unknown /\ tick' = FALSE /\ asked' = NoNode /\ cfg' = config
    /\ downFor' = Zeros /\ aloneFor' = Zeros

\* init: the state that the configuration holds; enabling again writes the same back.
Restart(config) ==
    /\ enabled' = config.enabled /\ logic' = config.enabled /\ count' = config.count
    /\ states' = Unknown /\ tick' = FALSE /\ asked' = NoNode /\ cfg' = config
    /\ downFor' = Zeros /\ aloneFor' = Zeros

\* timer:send_interval.
Timer ==
    /\ enabled /\ ~tick
    /\ tick' = TRUE
    /\ UNCHANGED <<cluster, requests, reply, enabled, logic, states, count, asked, cfg, events,
                   history>>

NextDownFor(downNodes) ==
    [n \in Nodes |-> IF n \notin downNodes THEN 0
                     ELSE IF downFor[n] < TicksDown THEN downFor[n] + 1 ELSE TicksDown]

NextAloneFor(downNodes) ==
    [n \in Nodes |-> IF downNodes # {n} THEN 0
                     ELSE IF aloneFor[n] < 2 THEN aloneFor[n] + 1 ELSE 2]

\* Mutant: the count is not looked at.
AlwaysAllowed == TRUE

\* With a count of one, the maximum, the failover is only reported.
CountAllows == count # 1

\* A tick: the frame, and for a failover the call of the orchestrator, which has by then
\* handled a call of a server that crashed.
Tick ==
    LET downNodes == down \cap active
        newStates == ProcessFrame(downNodes)
        failovers == FailoverActions(downNodes, newStates)
    IN  /\ tick /\ asked = NoNode /\ logic
        /\ tick' = FALSE /\ states' = newStates
        /\ downFor' = NextDownFor(downNodes) /\ aloneFor' = NextAloneFor(downNodes)
        /\ failovers # {} => requests = {}
        /\ IF failovers # {} /\ CountAllows
           THEN /\ asked' = CHOOSE n \in failovers : TRUE
                /\ requests' = requests \cup failovers
                /\ overtaken' = FALSE
           ELSE UNCHANGED <<asked, requests, overtaken>>
        /\ UNCHANGED <<cluster, reply, enabled, logic, count, cfg, events, autos, lost>>

\* A tick sent before a disable finds no logic state, and the server crashes.
TickWithoutLogic ==
    /\ tick /\ asked = NoNode /\ ~logic
    /\ Restart(cfg)
    /\ UNCHANGED <<cluster, requests, reply, events, autos, lost, overtaken>>

\* The rest of the tick: the count is increased and saved.
FailoverDone ==
    /\ asked # NoNode /\ reply = "ok"
    /\ count' = count + 1
    /\ cfg' = [enabled |-> enabled, count |-> count + 1]
    /\ asked' = NoNode /\ reply' = "none"
    /\ UNCHANGED <<cluster, requests, enabled, logic, states, tick, events, history>>

\* The answer does not match ok = ns_orchestrator:failover(Node).
FailoverRefused ==
    /\ asked # NoNode /\ reply = "rebalancing"
    /\ reply' = "none"
    /\ Restart(cfg)
    /\ UNCHANGED <<cluster, requests, events, autos, lost, overtaken>>

Event == events < MaxEvents /\ events' = events + 1

\* A call waits for the tick that is being handled.
Call == asked = NoNode /\ Event

Enable ==
    /\ Call
    /\ enabled' = TRUE /\ logic' = TRUE /\ states' = Unknown
    /\ cfg' = [enabled |-> TRUE, count |-> count]
    /\ downFor' = Zeros /\ aloneFor' = Zeros
    /\ UNCHANGED <<cluster, requests, reply, count, tick, asked, autos,
                   lost, overtaken>>

\* The timer is cancelled; a tick that is in the mailbox stays.
Disable ==
    /\ Call /\ enabled
    /\ enabled' = FALSE /\ logic' = FALSE /\ states' = Unknown
    /\ cfg' = [enabled |-> FALSE, count |-> count]
    /\ UNCHANGED <<cluster, requests, reply, count, tick, asked,
                   history>>

ResetCount ==
    /\ Call
    /\ count' = 0 /\ logic' = TRUE /\ states' = Unknown
    /\ cfg' = [enabled |-> enabled, count |-> 0]
    /\ downFor' = Zeros /\ aloneFor' = Zeros /\ autos' = 0 /\ lost' = 0
    /\ UNCHANGED <<cluster, requests, reply, enabled, tick, asked,
                   overtaken>>

\* The server dies, alone or with the orchestrator, and is started again.
Crash ==
    /\ Event
    /\ lost' = IF reply = "ok" THEN lost + 1 ELSE lost
    /\ reply' = "none"
    /\ requests' \in {requests, {}}
    /\ Restart(cfg)
    /\ UNCHANGED <<cluster, autos, overtaken>>

-----------------------------------------------------------------------------
(* ns_orchestrator, ns_cluster_membership and the nodes *)

\* idle and rebalancing: the node's membership changes, or the failover is refused.
Failover(n) ==
    /\ n \in requests
    /\ requests' = requests \ {n}
    /\ IF rebalance.stage = "running"
       THEN /\ reply' = IF asked = n THEN "rebalancing" ELSE reply
            /\ UNCHANGED <<active, failed, autos, lost>>
       ELSE /\ active' = active \ {n} /\ failed' = failed \cup {n}
            /\ reply' = IF asked = n THEN "ok" ELSE reply
            /\ autos' = autos + 1
            /\ lost' = IF asked = n THEN lost ELSE lost + 1
    /\ UNCHANGED <<down, rebalance, server, events, downFor, aloneFor, overtaken>>

\* The operator fails a node over.
ManualFailover(n) ==
    /\ n \in active /\ rebalance.stage # "running" /\ Event
    /\ active' = active \ {n} /\ failed' = failed \cup {n}
    /\ overtaken' = (overtaken \/ requests # {})
    /\ UNCHANGED <<down, rebalance, requests, reply, server, downFor,
                   aloneFor, autos, lost>>

\* start_rebalance reads the memberships ...
ReadMembership(eject) ==
    /\ rebalance.stage = "none" /\ Event
    /\ Nodes \ (failed \cup eject) # {}
    /\ rebalance' = [stage |-> "read", keep |-> Nodes \ (failed \cup eject), eject |-> eject \ failed]
    /\ UNCHANGED <<active, failed, down, requests, reply, server, history>>

\* ... activates the nodes to keep ...
Activate ==
    /\ rebalance.stage = "read"
    /\ active' = active \cup rebalance.keep
    /\ failed' = failed \ rebalance.keep
    /\ rebalance' = [rebalance EXCEPT !.stage = "activated"]
    /\ UNCHANGED <<down, requests, reply, server, events, history>>

\* ... and asks the orchestrator to begin.
StartRebalance ==
    /\ rebalance.stage = "activated"
    /\ rebalance' = [rebalance EXCEPT !.stage = "running"]
    /\ UNCHANGED <<active, failed, down, requests, reply, server, events, history>>

\* It ejects nodes when it succeeds.  Its end is a message too, handled after the failovers
\* that were asked for before it.
EndRebalance(succeeds) ==
    /\ rebalance.stage = "running" /\ requests = {}
    /\ active' = IF succeeds THEN active \ rebalance.eject ELSE active
    /\ rebalance' = NoRebalance
    /\ UNCHANGED <<failed, down, requests, reply, server, events, history>>

NodeDown(n) ==
    /\ n \notin down /\ Cardinality(down) < MaxDown
    /\ down' = down \cup {n}
    /\ UNCHANGED <<active, failed, rebalance, requests, reply, server, events, history>>

NodeUp(n) ==
    /\ n \in down
    /\ down' = down \ {n}
    /\ UNCHANGED <<active, failed, rebalance, requests, reply, server, events, history>>

-----------------------------------------------------------------------------
Next ==
    \/ Timer \/ Tick \/ TickWithoutLogic \/ FailoverDone \/ FailoverRefused
    \/ Enable \/ Disable \/ ResetCount \/ Crash
    \/ \E n \in Nodes : Failover(n) \/ ManualFailover(n) \/ NodeDown(n) \/ NodeUp(n)
    \/ \E eject \in {{}} \cup {{n} : n \in Nodes} : ReadMembership(eject)
    \/ Activate \/ StartRebalance \/ \E succeeds \in BOOLEAN : EndRebalance(succeeds)

\* The timer fires, and the server and the orchestrator handle what is in their mailboxes.
Fairness ==
    /\ WF_vars(Timer) /\ WF_vars(Tick) /\ WF_vars(TickWithoutLogic)
    /\ WF_vars(FailoverDone) /\ WF_vars(FailoverRefused)
    /\ \A n \in Nodes : WF_vars(Failover(n))

Spec == Init /\ [][Next]_vars

FairSpec == Spec /\ Fairness

-----------------------------------------------------------------------------
(* Properties *)

\* No more than one node is failed over automatically until the count is reset, however
\* ticks, manual failovers, rebalances and restarts of the server interleave, other than
\* those whose count a crash has lost before make_state_persistent.
AtMostOne == autos <= 1 + lost

\* A node whose failover process_frame decides has been down in every tick of the timeout
\* and two more, whatever joined, left, was enabled or restarted meanwhile, and alone in
\* the last two.
OnlyLongDown ==
    [][asked' # asked /\ asked' # NoNode =>
         downFor'[asked'] = TicksDown /\ aloneFor'[asked'] = 2]_vars

\* An automatic failover leaves two nodes at least, although the orchestrator carries it
\* out later than process_frame counted them, unless a failover by hand overtook it.
EnoughLeft ==
    [][autos' = autos + 1 /\ ~overtaken => Cardinality(active') >= 2]_vars

\* A node that is down for good, alone in a cluster that can do without it, is failed over:
\* the count of its ticks survives or begins again after every interruption.
DownIsFailedOver ==
    \A n \in Nodes :
      ~<>[](/\ n \in active /\ down \cap active = {n} /\ Cardinality(active) > 2
            /\ enabled /\ count = 0 /\ rebalance.stage # "running")

\* The count and what the configuration has of it, against the failovers that happened.
CountFits ==
    /\ cfg.count = count
    /\ autos = lost + count + (IF reply = "ok" THEN 1 ELSE 0)
    /\ asked # NoNode => count = 0

\* The call of the orchestrator that a tick waits for, and what the cluster can lose.
RequestFits ==
    /\ \A m, n \in requests : m = n
    /\ reply # "none" => asked # NoNode /\ asked \notin requests
    /\ requests # {} /\ ~overtaken => Cardinality(active) >= 3

\* Nodes that the last tick has found active.
Known == {n \in Nodes : states[n].state # "none"}

\* What a node's state says of the ticks before; "failover" stays only where the failover
\* is under way, not allowed, or not possible in a cluster of two.
StateFits(s, n) ==
    /\ s.state \in {"none", "up"} => s.counter = 0
    /\ s.state = "half_down" => downFor[n] >= s.counter + 1
    /\ s.state = "nearly_down" => /\ s.counter <= 1 /\ aloneFor[n] >= s.counter
                                  /\ downFor[n] >= TicksDown - 2 + s.counter
    /\ s.state = "failover" => asked # NoNode \/ count = 1 \/ Cardinality(Known) <= 2

StatesFit == \A n \in Nodes : StateFits(states[n], n)

\* The count of automatic failovers holds over every restart and reset of the server
\* (auto_failover:init, make_state_persistent), and its state keeps its shape: the states
\* of the nodes tell of the ticks, and the call of the orchestrator of its answer.
FailoverInv == TypeOK /\ AtMostOne /\ CountFits /\ RequestFits /\ StatesFit

\* process_frame decides a failover, and the orchestrator carries it out later, only of a
\* node that was down for long, alone at last, and that the cluster can do without.
FailsOverSafely == OnlyLongDown /\ EnoughLeft
=============================================================================
