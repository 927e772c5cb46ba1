-------------------------- MODULE AutoFailoverProofs --------------------------
(***************************************************************************)
(* Automatic failover for any cluster, any timeout and any number of       *)
(* events: FailoverInv is inductive, and with it a failover is decided and *)
(* carried out only where FailsOverSafely says.                            *)
(***************************************************************************)
EXTENDS AutoFailover, FiniteSetTheorems, TLAPS

\* The switches are Booleans; a fact of its own because the provers that do sets and
\* arithmetic do not decide Booleans.
Switches == enabled \in BOOLEAN /\ logic \in BOOLEAN /\ tick \in BOOLEAN /\ overtaken \in BOOLEAN

LEMMA SwitchesType ==
    ASSUME FailoverInv, [Next]_vars
    PROVE  Switches'
<1>1. Switches /\ cfg.enabled \in BOOLEAN
  BY DEF FailoverInv, TypeOK, Switches
<1>2. CASE Timer \/ Tick \/ TickWithoutLogic \/ FailoverDone \/ FailoverRefused
  BY <1>1, <1>2 DEF Switches, Timer, Tick, TickWithoutLogic, FailoverDone, FailoverRefused, Restart,
     history
<1>3. CASE Enable \/ Disable \/ ResetCount \/ Crash
  BY <1>1, <1>3 DEF Switches, Enable, Disable, ResetCount, Crash, Restart, history
<1>4. ASSUME NEW n \in Nodes, Failover(n) \/ ManualFailover(n) \/ NodeDown(n) \/ NodeUp(n)
      PROVE  Switches'
  BY <1>1, <1>4 DEF Switches, Failover, ManualFailover, NodeDown, NodeUp, server, history
<1>5. ASSUME NEW eject, ReadMembership(eject) PROVE Switches'
  BY <1>1, <1>5 DEF Switches, ReadMembership, server, history
<1>6. CASE Activate \/ StartRebalance
  BY <1>1, <1>6 DEF Switches, Activate, StartRebalance, server, history
<1>7. ASSUME NEW succeeds, EndRebalance(succeeds) PROVE Switches'
  BY <1>1, <1>7 DEF Switches, EndRebalance, server, history
<1>8. CASE UNCHANGED vars
  BY <1>1, <1>8 DEF Switches, vars, server, history
<1> QED  BY <1>2, <1>3, <1>4, <1>5, <1>6, <1>7, <1>8 DEF Next

\* What the count says of the failovers.
LEMMA AtMostOneLemma ==
    ASSUME TypeOK, CountFits, RequestFits
    PROVE  AtMostOne
BY DEF TypeOK, CountFits, RequestFits, AtMostOne

\* A server that starts again, or whose states are reset, knows of no node.
LEMMA UnknownFits ==
    ASSUME states' = Unknown
    PROVE  StatesFit'
BY DEF Unknown, StatesFit, StateFits, None

\* States and their histories stay.
LEMMA StatesKept ==
    ASSUME StatesFit, UNCHANGED <<states, downFor, aloneFor>>,
           \/ UNCHANGED <<asked, count>>
           \/ count' = 1
    PROVE  StatesFit'
<1>1. Known' = Known
  BY DEF Known
<1> QED  BY <1>1 DEF StatesFit, StateFits

-----------------------------------------------------------------------------
(* The server *)

LEMMA ZerosType == Zeros \in [Nodes -> 0 .. TicksDown] /\ Zeros \in [Nodes -> 0 .. 2]
                   /\ Unknown \in [Nodes -> NodeStates] /\ TicksDown \in Nat /\ TicksDown >= 3
<1>1. TicksDown \in Nat /\ TicksDown >= 3
  BY AutoFailoverAssumption DEF TicksDown
<1>2. None \in NodeStates
  BY AutoFailoverAssumption DEF None, NodeStates
<1> QED  BY <1>1, <1>2 DEF Zeros, Unknown

LEMMA RestartInv ==
    ASSUME FailoverInv, Switches', Restart(cfg), UNCHANGED cluster, reply' = "none",
           events' \in 0 .. MaxEvents, requests' \in SUBSET requests, UNCHANGED <<autos, overtaken>>,
           lost' = lost + (IF reply = "ok" THEN 1 ELSE 0)
    PROVE  FailoverInv'
<1>1. TypeOK'
  BY ZerosType DEF FailoverInv, TypeOK, Switches, Restart, cluster
<1>2. CountFits'
  BY DEF FailoverInv, TypeOK, CountFits, Restart
<1>3. RequestFits'
  BY DEF FailoverInv, RequestFits, cluster
<1>4. StatesFit'
  BY UnknownFits DEF Restart
<1> QED  BY <1>1, <1>2, <1>3, <1>4, AtMostOneLemma, PTL DEF FailoverInv

LEMMA RestartsInv ==
    ASSUME FailoverInv, Switches', TickWithoutLogic \/ FailoverRefused \/ Crash
    PROVE  FailoverInv'
<1>1. CASE TickWithoutLogic
  <2>1. reply = "none" /\ lost \in Nat /\ events \in 0 .. MaxEvents
    BY <1>1 DEF TickWithoutLogic, FailoverInv, RequestFits, TypeOK
  <2> QED  BY <1>1, <2>1, RestartInv DEF TickWithoutLogic
<1>2. CASE FailoverRefused
  <2>1. lost \in Nat /\ events \in 0 .. MaxEvents
    BY DEF FailoverInv, TypeOK
  <2> QED  BY <1>2, <2>1, RestartInv DEF FailoverRefused
<1>3. CASE Crash
  <2>1. lost \in Nat /\ events' \in 0 .. MaxEvents /\ requests' \in SUBSET requests
    BY <1>3, AutoFailoverAssumption DEF FailoverInv, TypeOK, Crash, Event
  <2> QED  BY <1>3, <2>1, RestartInv DEF Crash
<1> QED  BY <1>1, <1>2, <1>3

LEMMA FailoverDoneInv ==
    ASSUME FailoverInv, Switches', FailoverDone
    PROVE  FailoverInv'
<1>1. count = 0 /\ count' = 1 /\ reply' = "none" /\ asked' = NoNode
  BY DEF FailoverDone, FailoverInv, CountFits
<1>2. TypeOK'
  BY <1>1 DEF FailoverDone, FailoverInv, TypeOK, Switches, cluster, history
<1>3. CountFits'
  BY <1>1 DEF FailoverDone, FailoverInv, CountFits, TypeOK, history
<1>4. RequestFits'
  BY <1>1 DEF FailoverDone, FailoverInv, RequestFits, cluster, history
<1>5. StatesFit'
  BY <1>1, StatesKept DEF FailoverDone, FailoverInv, history
<1> QED  BY <1>2, <1>3, <1>4, <1>5, AtMostOneLemma, PTL DEF FailoverInv

LEMMA CallsInv ==
    ASSUME FailoverInv, Switches', Enable \/ Disable \/ ResetCount
    PROVE  FailoverInv'
<1> USE DEF Call, Event, cluster, history
<1>1. events' \in 0 .. MaxEvents /\ states' = Unknown /\ asked = NoNode /\ asked' = NoNode
  BY AutoFailoverAssumption DEF FailoverInv, TypeOK, Enable, Disable, ResetCount
<1>2. reply = "none" /\ reply' = "none"
  BY <1>1 DEF FailoverInv, RequestFits, Enable, Disable, ResetCount
<1>3. TypeOK'
  <2>1. CASE Enable
    BY <1>1, <2>1, ZerosType DEF FailoverInv, TypeOK, Switches, Enable
  <2>2. CASE Disable
    BY <1>1, <2>2, ZerosType DEF FailoverInv, TypeOK, Switches, Disable
  <2>3. CASE ResetCount
    BY <1>1, <2>3, ZerosType DEF FailoverInv, TypeOK, Switches, ResetCount
  <2> QED  BY <2>1, <2>2, <2>3
<1>4. CountFits'
  BY <1>1, <1>2 DEF FailoverInv, CountFits, Enable, Disable, ResetCount
<1>5. RequestFits'
  BY <1>1, <1>2 DEF FailoverInv, RequestFits, Enable, Disable, ResetCount
<1>6. StatesFit'
  BY <1>1, UnknownFits
<1> QED  BY <1>3, <1>4, <1>5, <1>6, AtMostOneLemma, PTL DEF FailoverInv

LEMMA TimerInv ==
    ASSUME FailoverInv, Switches', Timer
    PROVE  FailoverInv'
<1>1. TypeOK'
  BY DEF FailoverInv, TypeOK, Switches, Timer, cluster, history
<1>2. CountFits' /\ RequestFits'
  BY DEF FailoverInv, CountFits, RequestFits, Timer, cluster, history
<1>3. StatesFit'
  BY StatesKept DEF FailoverInv, Timer, history
<1> QED  BY <1>1, <1>2, <1>3, AtMostOneLemma, PTL DEF FailoverInv

-----------------------------------------------------------------------------
(* The cluster *)

\* Steps of the cluster leave the server alone.
LEMMA ClusterFrame ==
    ASSUME FailoverInv, UNCHANGED <<server, downFor, aloneFor>>
    PROVE  StatesFit'
BY StatesKept DEF FailoverInv, server

LEMMA ActiveFinite ==
    ASSUME FailoverInv
    PROVE  IsFiniteSet(active) /\ Cardinality(active) \in Nat
BY AutoFailoverAssumption, FS_Subset, FS_CardinalityType DEF FailoverInv, TypeOK

LEMMA FailoverStepInv ==
    ASSUME FailoverInv, Switches', NEW n \in Nodes, Failover(n)
    PROVE  FailoverInv'
<1>1. TypeOK'
  BY DEF FailoverInv, TypeOK, Switches, Failover, server
<1>2. requests' = {} /\ (asked = n => reply = "none" /\ count = 0)
  <2>1. n \in requests /\ n \in Nodes
    BY DEF Failover
  <2>2. asked = n => asked # NoNode
    BY <2>1, AutoFailoverAssumption
  <2> QED  BY <2>1, <2>2 DEF FailoverInv, RequestFits, CountFits, Failover
<1>3. CountFits'
  BY <1>2 DEF FailoverInv, CountFits, TypeOK, Failover, server
<1>4. RequestFits'
  <2>1. asked = n => asked # NoNode
    BY AutoFailoverAssumption
  <2> QED  BY <1>2, <2>1 DEF FailoverInv, RequestFits, Failover, server
<1>5. StatesFit'
  BY ClusterFrame DEF Failover
<1> QED  BY <1>1, <1>3, <1>4, <1>5, AtMostOneLemma, PTL DEF FailoverInv

LEMMA ManualFailoverInv ==
    ASSUME FailoverInv, Switches', NEW n \in Nodes, ManualFailover(n)
    PROVE  FailoverInv'
<1>1. TypeOK'
  BY AutoFailoverAssumption DEF FailoverInv, TypeOK, Switches, ManualFailover, Event, server
<1>2. CountFits'
  BY DEF FailoverInv, CountFits, ManualFailover, server
<1>3. requests # {} => overtaken'
  BY DEF ManualFailover
<1>4. RequestFits'
  BY <1>3 DEF FailoverInv, RequestFits, ManualFailover, server
<1>5. StatesFit'
  BY ClusterFrame DEF ManualFailover
<1> QED  BY <1>1, <1>2, <1>4, <1>5, AtMostOneLemma, PTL DEF FailoverInv

LEMMA NodesInv ==
    ASSUME FailoverInv, Switches', NEW n \in Nodes, NodeDown(n) \/ NodeUp(n)
    PROVE  FailoverInv'
<1>1. TypeOK'
  BY DEF FailoverInv, TypeOK, Switches, NodeDown, NodeUp, server, history
<1>2. CountFits' /\ RequestFits'
  BY DEF FailoverInv, CountFits, RequestFits, NodeDown, NodeUp, server, history
<1>3. StatesFit'
  BY ClusterFrame DEF NodeDown, NodeUp, history
<1> QED  BY <1>1, <1>2, <1>3, AtMostOneLemma, PTL DEF FailoverInv

LEMMA ReadMembershipInv ==
    ASSUME FailoverInv, Switches', NEW eject \in SUBSET Nodes, ReadMembership(eject)
    PROVE  FailoverInv'
<1>1. TypeOK'
  BY AutoFailoverAssumption DEF FailoverInv, TypeOK, Switches, ReadMembership, Event, server, history
<1>2. CountFits' /\ RequestFits'
  BY DEF FailoverInv, CountFits, RequestFits, ReadMembership, server, history
<1>3. StatesFit'
  BY ClusterFrame DEF ReadMembership, history
<1> QED  BY <1>1, <1>2, <1>3, AtMostOneLemma, PTL DEF FailoverInv

LEMMA RebalanceInv ==
    ASSUME FailoverInv, Switches', Activate \/ StartRebalance \/ EndRebalance(TRUE) \/ EndRebalance(FALSE)
    PROVE  FailoverInv'
<1>1. TypeOK'
  <2>1. CASE Activate
    BY <2>1 DEF FailoverInv, TypeOK, Switches, Activate, server, history
  <2>2. CASE StartRebalance
    BY <2>2 DEF FailoverInv, TypeOK, Switches, StartRebalance, server, history
  <2>3. CASE EndRebalance(TRUE) \/ EndRebalance(FALSE)
    BY <2>3 DEF FailoverInv, TypeOK, Switches, EndRebalance, NoRebalance, server, history
  <2> QED  BY <2>1, <2>2, <2>3
<1>2. CountFits'
  BY DEF FailoverInv, CountFits, Activate, StartRebalance, EndRebalance, server, history
<1>3. RequestFits'
  <2>1. CASE Activate
    <3>1. active \subseteq active' /\ IsFiniteSet(active')
      BY <1>1, <2>1, AutoFailoverAssumption, FS_Subset DEF Activate, TypeOK
    <3>2. Cardinality(active) <= Cardinality(active') /\ Cardinality(active') \in Nat
      BY <3>1, FS_Subset, FS_CardinalityType
    <3> QED  BY <2>1, <3>2, ActiveFinite DEF FailoverInv, RequestFits, Activate, server, history
  <2>2. CASE StartRebalance
    BY <2>2 DEF FailoverInv, RequestFits, StartRebalance, server, history
  <2>3. CASE EndRebalance(TRUE) \/ EndRebalance(FALSE)
    BY <2>3 DEF FailoverInv, RequestFits, EndRebalance, server, history
  <2> QED  BY <2>1, <2>2, <2>3
<1>4. StatesFit'
  BY ClusterFrame DEF Activate, StartRebalance, EndRebalance, history
<1> QED  BY <1>1, <1>2, <1>3, <1>4, AtMostOneLemma, PTL DEF FailoverInv

-----------------------------------------------------------------------------
(* A tick *)

\* increment_down_state keeps to the states, and takes its time.
LEMMA IncrementDownStateFacts ==
    ASSUME NEW s \in NodeStates, NEW alone, NEW sizeChanged, NEW d \in 0 .. TicksDown, NEW a \in 0 .. 2,
           alone \in BOOLEAN, sizeChanged \in BOOLEAN,
           s.state \in {"none", "up"} => s.counter = 0,
           s.state = "half_down" => d >= s.counter + 1,
           s.state = "nearly_down" => s.counter <= 1 /\ a >= s.counter /\ d >= TicksDown - 2 + s.counter,
           NEW dd \in 0 .. TicksDown, dd = (IF d < TicksDown THEN d + 1 ELSE TicksDown),
           NEW aa \in 0 .. 2, alone => aa = (IF a < 2 THEN a + 1 ELSE 2)
    PROVE  LET t == IncrementDownState(s, alone, sizeChanged)
           IN  /\ t \in NodeStates /\ t.state \in {"half_down", "nearly_down", "failover"}
               /\ t.state = "half_down" => dd >= t.counter + 1
               /\ t.state = "nearly_down" => /\ t.counter <= 1 /\ aa >= t.counter
                                            /\ dd >= TicksDown - 2 + t.counter
               /\ t.state = "failover" =>
                    \/ s.state = "failover" /\ ~sizeChanged
                    \/ alone /\ dd = TicksDown /\ aa = 2
<1> DEFINE t == IncrementDownState(s, alone, sizeChanged)
<1>0. /\ DownThreshold \in Nat \ {0} /\ TicksDown \in Nat /\ TicksDown >= 4
      /\ TicksDown >= DownThreshold + 2 /\ (DownThreshold >= 2 => TicksDown = DownThreshold + 2)
  BY AutoFailoverAssumption DEF TicksDown
<1>1. s.counter \in 0 .. DownThreshold /\ s.state \in {"none", "up", "half_down", "nearly_down", "failover"}
  BY DEF NodeStates
<1>2. CASE s.state \in {"none", "up"}
  <2>1. t = [s EXCEPT !.state = "half_down"]
    BY <1>2 DEF IncrementDownState
  <2>2. t \in NodeStates /\ t.state = "half_down" /\ t.counter = 0
    BY <1>2, <2>1 DEF NodeStates
  <2> QED  BY <1>0, <2>2
<1>3. CASE s.state \notin {"none", "up"} /\ sizeChanged
  <2>1. t = [state |-> "half_down", counter |-> 0]
    BY <1>3 DEF IncrementDownState
  <2>2. t \in NodeStates /\ t.state = "half_down" /\ t.counter = 0
    BY <1>0, <2>1 DEF NodeStates
  <2> QED  BY <1>0, <2>2
<1>4. CASE s.state = "half_down" /\ ~sizeChanged
  <2>1. CASE s.counter + 1 >= DownThreshold - 1
    <3>1. t = [state |-> "nearly_down", counter |-> 0]
      BY <1>4, <2>1 DEF IncrementDownState
    <3>2. t \in NodeStates /\ t.state = "nearly_down" /\ t.counter = 0
      BY <1>0, <3>1 DEF NodeStates
    <3>3. dd >= TicksDown - 2
      BY <1>0, <1>1, <1>4, <2>1 DEF TicksDown
    <3> QED  BY <1>0, <3>2, <3>3
  <2>2. CASE ~(s.counter + 1 >= DownThreshold - 1)
    <3>1. t = [s EXCEPT !.counter = @ + 1]
      BY <1>4, <2>2 DEF IncrementDownState
    <3>2. t \in NodeStates /\ t.state = "half_down" /\ t.counter = s.counter + 1
      BY <1>0, <1>1, <1>4, <2>2, <3>1 DEF NodeStates
    <3> QED  BY <1>0, <1>1, <1>4, <2>2, <3>2
  <2> QED  BY <2>1, <2>2
<1>5. CASE s.state = "nearly_down" /\ ~sizeChanged
  <2>1. CASE ~alone
    <3>1. t = [s EXCEPT !.counter = 0]
      BY <1>5, <2>1 DEF IncrementDownState
    <3>2. t \in NodeStates /\ t.state = "nearly_down" /\ t.counter = 0
      BY <1>0, <1>5, <3>1 DEF NodeStates
    <3> QED  BY <1>0, <1>1, <1>5, <3>2
  <2>2. CASE alone /\ s.counter + 1 >= 2
    <3>1. t = [s EXCEPT !.state = "failover"]
      BY <1>5, <2>2 DEF IncrementDownState
    <3>2. t \in NodeStates /\ t.state = "failover"
      BY <3>1 DEF NodeStates
    <3>3. dd = TicksDown /\ aa = 2
      BY <1>0, <1>1, <1>5, <2>2
    <3> QED  BY <2>2, <3>2, <3>3
  <2>3. CASE alone /\ ~(s.counter + 1 >= 2)
    <3>1. t = [s EXCEPT !.counter = @ + 1]
      BY <1>5, <2>3 DEF IncrementDownState
    <3>2. s.counter = 0 /\ s.counter + 1 = 1 /\ 1 \in 0 .. DownThreshold
      BY <1>0, <1>1, <2>3
    <3>3. t \in NodeStates /\ t.state = "nearly_down" /\ t.counter = 1
      BY <1>5, <3>1, <3>2 DEF NodeStates
    <3>4. d >= TicksDown - 2 /\ aa = (IF a < 2 THEN a + 1 ELSE 2)
      BY <1>0, <1>5, <2>3, <3>2
    <3>5. dd >= TicksDown - 1 /\ aa >= 1
      BY <1>0, <3>4
    <3> QED  BY <1>0, <3>3, <3>5
  <2> QED  BY <2>1, <2>2, <2>3
<1>6. CASE s.state = "failover" /\ ~sizeChanged
  <2>1. t = s
    BY <1>6 DEF IncrementDownState
  <2> QED  BY <1>6, <2>1
<1> QED  BY <1>1, <1>2, <1>3, <1>4, <1>5, <1>6

DownNodes == down \cap active

SizeChanged == Cardinality(Known) # Cardinality(active)

\* What a tick makes of the nodes' states.
LEMMA TickStates ==
    ASSUME FailoverInv, Tick
    PROVE  /\ states' = ProcessFrame(DownNodes)
           /\ states' \in [Nodes -> NodeStates] /\ Known' = active
           /\ downFor' \in [Nodes -> 0 .. TicksDown] /\ aloneFor' \in [Nodes -> 0 .. 2]
           /\ \A n \in Nodes \ active : states'[n] = None
           /\ \A n \in active \ DownNodes : states'[n] = [state |-> "up", counter |-> 0]
           /\ \A n \in DownNodes :
                 LET t == states'[n]
                 IN  /\ t.state \in {"half_down", "nearly_down", "failover"}
                     /\ t.state = "half_down" => downFor'[n] >= t.counter + 1
                     /\ t.state = "nearly_down" => /\ t.counter <= 1 /\ aloneFor'[n] >= t.counter
                                                  /\ downFor'[n] >= TicksDown - 2 + t.counter
                     /\ t.state = "failover" =>
                          \/ states[n].state = "failover" /\ ~SizeChanged
                          \/ DownNodes = {n} /\ downFor'[n] = TicksDown /\ aloneFor'[n] = 2
<1> DEFINE D == DownNodes
           alone == Cardinality(D) = 1
<1>1. /\ states' = ProcessFrame(D) /\ downFor' = NextDownFor(D) /\ aloneFor' = NextAloneFor(D)
  BY DEF Tick, DownNodes
<1>2. /\ states \in [Nodes -> NodeStates] /\ active \subseteq Nodes /\ D \subseteq active
      /\ downFor \in [Nodes -> 0 .. TicksDown] /\ aloneFor \in [Nodes -> 0 .. 2]
      /\ TicksDown \in Nat
  BY ZerosType DEF FailoverInv, TypeOK, DownNodes
<1> HIDE DEF D
<1>3. /\ downFor' \in [Nodes -> 0 .. TicksDown] /\ aloneFor' \in [Nodes -> 0 .. 2]
      /\ \A n \in D : downFor'[n] = (IF downFor[n] < TicksDown THEN downFor[n] + 1 ELSE TicksDown)
      /\ \A n \in D : D = {n} => aloneFor'[n] = (IF aloneFor[n] < 2 THEN aloneFor[n] + 1 ELSE 2)
  BY <1>1, <1>2 DEF NextDownFor, NextAloneFor
<1>4. \A n \in D : alone => D = {n}
  <2>1. IsFiniteSet(D)
    BY <1>2, AutoFailoverAssumption, FS_Subset
  <2>2. alone => \E x : D = {x}
    BY <2>1, FS_Singleton
  <2> QED  BY <2>2
<1>5. \A n \in Nodes : states'[n] = IF n \notin active THEN None
                                   ELSE IF n \notin D THEN [state |-> "up", counter |-> 0]
                                   ELSE IncrementDownState(states[n], alone, SizeChanged)
  BY <1>1 DEF ProcessFrame, SizeChanged, Known
<1> HIDE DEF alone
<1>6. alone \in BOOLEAN /\ SizeChanged \in BOOLEAN
  BY DEF alone, SizeChanged
<1>7. ASSUME NEW n \in D
      PROVE  LET t == states'[n]
             IN  /\ t \in NodeStates
                 /\ t.state \in {"half_down", "nearly_down", "failover"}
                 /\ t.state = "half_down" => downFor'[n] >= t.counter + 1
                 /\ t.state = "nearly_down" => /\ t.counter <= 1 /\ aloneFor'[n] >= t.counter
                                              /\ downFor'[n] >= TicksDown - 2 + t.counter
                 /\ t.state = "failover" =>
                      \/ states[n].state = "failover" /\ ~SizeChanged
                      \/ alone /\ downFor'[n] = TicksDown /\ aloneFor'[n] = 2
  <2>1. /\ n \in Nodes /\ states[n] \in NodeStates /\ downFor[n] \in 0 .. TicksDown
        /\ aloneFor[n] \in 0 .. 2 /\ downFor'[n] \in 0 .. TicksDown /\ aloneFor'[n] \in 0 .. 2
    BY <1>2, <1>3
  <2>2. /\ states[n].state \in {"none", "up"} => states[n].counter = 0
        /\ states[n].state = "half_down" => downFor[n] >= states[n].counter + 1
        /\ states[n].state = "nearly_down" => /\ states[n].counter <= 1 /\ aloneFor[n] >= states[n].counter
                                             /\ downFor[n] >= TicksDown - 2 + states[n].counter
    BY <2>1 DEF FailoverInv, StatesFit, StateFits
  <2>3. states'[n] = IncrementDownState(states[n], alone, SizeChanged)
    BY <1>2, <1>5, <2>1
  <2>4. alone => aloneFor'[n] = (IF aloneFor[n] < 2 THEN aloneFor[n] + 1 ELSE 2)
    BY <1>3, <1>4
  <2>5. downFor'[n] = (IF downFor[n] < TicksDown THEN downFor[n] + 1 ELSE TicksDown)
    BY <1>3
  <2> QED  BY <1>6, <2>1, <2>2, <2>3, <2>4, <2>5, IncrementDownStateFacts
<1>8. \A n \in Nodes : states'[n] \in NodeStates
  <2>1. None \in NodeStates /\ [state |-> "up", counter |-> 0] \in NodeStates
    BY AutoFailoverAssumption DEF None, NodeStates
  <2> QED  BY <1>5, <1>7, <2>1
<1>9. states' \in [Nodes -> NodeStates]
  <2>1. states' = [n \in Nodes |-> states'[n]]
    BY <1>1 DEF ProcessFrame
  <2> QED  BY <1>8, <2>1
<1>10. Known' = active
  <2>1. \A n \in Nodes : states'[n].state = "none" <=> n \notin active
    <3>1. ASSUME NEW n \in Nodes, n \notin active PROVE states'[n].state = "none"
      BY <1>5, <3>1 DEF None
    <3>2. ASSUME NEW n \in Nodes, n \in active, n \notin D PROVE states'[n].state # "none"
      BY <1>5, <3>2
    <3>3. ASSUME NEW n \in D PROVE states'[n].state # "none"
      BY <1>7
    <3> QED  BY <3>1, <3>2, <3>3
  <2> QED  BY <1>2, <2>1 DEF Known
<1>11. \A n \in Nodes \ active : states'[n] = None
  BY <1>5
<1>12. \A n \in active \ D : states'[n] = [state |-> "up", counter |-> 0]
  BY <1>2, <1>5
<1> QED  BY <1>1, <1>3, <1>4, <1>7, <1>9, <1>10, <1>11, <1>12 DEF D

\* The failover that a tick decides is of the one node that is down, and of none whose
\* state was left over from before.
LEMMA TickDecides ==
    ASSUME FailoverInv, Tick, NEW n \in FailoverActions(DownNodes, states'), CountAllows
    PROVE  /\ n \in Nodes /\ DownNodes = {n} /\ FailoverActions(DownNodes, states') = {n}
           /\ downFor'[n] = TicksDown /\ aloneFor'[n] = 2 /\ Cardinality(active) >= 3
<1>1. /\ n \in DownNodes /\ DownNodes = {n} /\ states'[n].state = "failover" /\ Cardinality(active) > 2
      /\ FailoverActions(DownNodes, states') = {n}
  BY DEF FailoverActions
<1>2. n \in Nodes /\ Cardinality(active) \in Nat /\ asked = NoNode /\ count # 1
  BY <1>1, ActiveFinite DEF DownNodes, FailoverInv, TypeOK, Tick, CountAllows
<1>3. \/ states[n].state = "failover" /\ ~SizeChanged
      \/ downFor'[n] = TicksDown /\ aloneFor'[n] = 2
  BY <1>1, TickStates
<1>4. ~(states[n].state = "failover" /\ ~SizeChanged)
  <2>1. ASSUME states[n].state = "failover" PROVE Cardinality(Known) <= 2
    BY <1>2, <2>1 DEF FailoverInv, StatesFit, StateFits
  <2> QED  BY <1>1, <1>2, <2>1 DEF SizeChanged
<1> QED  BY <1>1, <1>2, <1>3, <1>4

LEMMA TickInv ==
    ASSUME FailoverInv, Switches', Tick
    PROVE  FailoverInv'
<1> DEFINE F == FailoverActions(DownNodes, states')
<1>1. /\ states' \in [Nodes -> NodeStates] /\ Known' = active
      /\ downFor' \in [Nodes -> 0 .. TicksDown] /\ aloneFor' \in [Nodes -> 0 .. 2]
  BY TickStates
<1>2. /\ asked = NoNode /\ reply = "none" /\ (F # {} => requests = {})
      /\ UNCHANGED <<active, failed, down, rebalance, reply, enabled, logic, count, cfg, events, autos, lost>>
  BY DEF FailoverInv, RequestFits, Tick, DownNodes, cluster
<1>3. IF F # {} /\ CountAllows
      THEN /\ asked' = CHOOSE n \in F : TRUE
           /\ requests' = requests \cup F
           /\ overtaken' = FALSE
      ELSE UNCHANGED <<asked, requests, overtaken>>
  BY DEF Tick, DownNodes
<1> HIDE DEF F
<1>4. \/ /\ F # {} /\ CountAllows /\ requests = {} /\ overtaken' = FALSE
         /\ \E n \in Nodes : asked' = n /\ requests' = {n} /\ Cardinality(active) >= 3
      \/ ~(F # {} /\ CountAllows) /\ UNCHANGED <<asked, requests, overtaken>>
  <2>1. CASE F # {} /\ CountAllows
    <3>1. PICK n \in F : TRUE
      BY <2>1
    <3>2. n \in Nodes /\ F = {n} /\ Cardinality(active) >= 3
      BY <2>1, <3>1, TickDecides DEF F
    <3>3. (CHOOSE m \in F : TRUE) = n
      BY <3>2
    <3> QED  BY <1>2, <1>3, <2>1, <3>2, <3>3
  <2>2. CASE ~(F # {} /\ CountAllows)
    BY <1>3, <2>2
  <2> QED  BY <2>1, <2>2
<1>5. TypeOK'
  <2>1. requests' \subseteq Nodes /\ asked' \in Nodes \cup {NoNode}
    BY <1>4 DEF FailoverInv, TypeOK
  <2> QED  BY <1>1, <1>2, <2>1 DEF FailoverInv, TypeOK, Switches
<1>6. CountFits'
  BY <1>2, <1>4 DEF FailoverInv, CountFits, TypeOK, CountAllows
<1>7. RequestFits'
  BY <1>2, <1>4 DEF FailoverInv, RequestFits
<1>8. StatesFit'
  <2>1. ASSUME NEW n \in Nodes PROVE StateFits(states[n], n)'
    <3>1. CASE n \notin active
      BY <3>1, TickStates DEF StateFits, None
    <3>2. CASE n \in active \ DownNodes
      BY <3>2, TickStates DEF StateFits
    <3>3. CASE n \in DownNodes
      <4>1. ASSUME states'[n].state = "failover"
            PROVE  asked' # NoNode \/ count' = 1 \/ Cardinality(Known)' <= 2
        <5>1. SUFFICES ASSUME count # 1, ~(Cardinality(active) <= 2)
                       PROVE  asked' # NoNode
          BY <1>1, <1>2
        <5>2. Cardinality(active) \in Nat
          BY ActiveFinite
        <5>3. ~(states[n].state = "failover" /\ ~SizeChanged)
          BY <1>2, <5>1, <5>2 DEF FailoverInv, StatesFit, StateFits, SizeChanged
        <5>4. DownNodes = {n}
          BY <3>3, <4>1, <5>3, TickStates
        <5>5. n \in F
          BY <4>1, <5>1, <5>2, <5>4 DEF F, FailoverActions
        <5> QED  BY <1>4, <5>1, <5>5, AutoFailoverAssumption DEF CountAllows
      <4>2. LET t == states'[n]
            IN  /\ t.state \in {"half_down", "nearly_down", "failover"}
                /\ t.state = "half_down" => downFor'[n] >= t.counter + 1
                /\ t.state = "nearly_down" => /\ t.counter <= 1 /\ aloneFor'[n] >= t.counter
                                             /\ downFor'[n] >= TicksDown - 2 + t.counter
        BY <3>3, TickStates
      <4> QED  BY <4>1, <4>2 DEF StateFits
    <3> QED  BY <3>1, <3>2, <3>3 DEF DownNodes
  <2> QED  BY <2>1 DEF StatesFit
<1> QED  BY <1>5, <1>6, <1>7, <1>8, AtMostOneLemma, PTL DEF FailoverInv

-----------------------------------------------------------------------------
LEMMA InitInv == Init => FailoverInv
<1> SUFFICES ASSUME Init PROVE FailoverInv
  OBVIOUS
<1>1. TypeOK
  <2>1. Switches
    BY DEF Init, Switches
  <2>2. active \subseteq Nodes /\ failed \subseteq Nodes \ active /\ down \subseteq Nodes
    BY DEF Init
  <2>3. NoRebalance \in [stage : {"none", "read", "activated", "running"},
                         keep : SUBSET Nodes, eject : SUBSET Nodes]
    BY DEF NoRebalance
  <2>4. cfg \in [enabled : BOOLEAN, count : 0 .. 1] /\ events \in 0 .. MaxEvents
    BY AutoFailoverAssumption DEF Init
  <2> QED  BY <2>1, <2>2, <2>3, <2>4, ZerosType DEF Init, TypeOK, Switches
<1>2. CountFits /\ RequestFits
  BY DEF Init, CountFits, RequestFits
<1>3. StatesFit
  BY DEF Init, Unknown, None, StatesFit, StateFits
<1> QED  BY <1>1, <1>2, <1>3, AtMostOneLemma DEF FailoverInv

LEMMA NextInv ==
    ASSUME FailoverInv, [Next]_vars
    PROVE  FailoverInv'
<1>1. Switches'
  BY SwitchesType
<1>2. CASE Timer \/ Tick \/ TickWithoutLogic \/ FailoverDone \/ FailoverRefused
  BY <1>1, <1>2, TimerInv, TickInv, RestartsInv, FailoverDoneInv
<1>3. CASE Enable \/ Disable \/ ResetCount \/ Crash
  BY <1>1, <1>3, CallsInv, RestartsInv
<1>4. ASSUME NEW n \in Nodes, Failover(n) \/ ManualFailover(n) \/ NodeDown(n) \/ NodeUp(n)
      PROVE  FailoverInv'
  BY <1>1, <1>4, FailoverStepInv, ManualFailoverInv, NodesInv
<1>5. ASSUME NEW eject \in {{}} \cup {{n} : n \in Nodes}, ReadMembership(eject) PROVE FailoverInv'
  BY <1>1, <1>5, ReadMembershipInv
<1>6. CASE Activate \/ StartRebalance \/ EndRebalance(TRUE) \/ EndRebalance(FALSE)
  BY <1>1, <1>6, RebalanceInv
<1>7. CASE UNCHANGED vars
  <2>1. UNCHANGED <<cluster, requests, reply, server, events, history>>
    BY <1>7 DEF vars
  <2>2. TypeOK'
    BY <1>1, <2>1 DEF FailoverInv, TypeOK, Switches, cluster, server, history
  <2>3. CountFits' /\ RequestFits'
    BY <2>1 DEF FailoverInv, CountFits, RequestFits, cluster, server, history
  <2>4. StatesFit'
    BY <2>1, ClusterFrame DEF history
  <2> QED  BY <2>2, <2>3, <2>4, AtMostOneLemma, PTL DEF FailoverInv
<1> QED  BY <1>2, <1>3, <1>4, <1>5, <1>6, <1>7 DEF Next

\* auto_failover fails over one node at most until its count is reset, apart from those
\* whose count a crash before make_state_persistent has lost: for any cluster and timeout.
THEOREM FailoverInvariant == Spec => []FailoverInv
BY InitInv, NextInv, PTL DEF Spec

\* Only Tick asks for a failover.
LEMMA OnlyTickAsks ==
    ASSUME FailoverInv, [Next]_vars, asked' # asked, asked' # NoNode
    PROVE  Tick
<1>1. CASE Timer \/ TickWithoutLogic \/ FailoverDone \/ FailoverRefused
  BY <1>1 DEF Timer, TickWithoutLogic, FailoverDone, FailoverRefused, Restart
<1>2. CASE Enable \/ Disable \/ ResetCount \/ Crash
  BY <1>2 DEF Enable, Disable, ResetCount, Crash, Restart
<1>3. ASSUME NEW n \in Nodes, Failover(n) \/ ManualFailover(n) \/ NodeDown(n) \/ NodeUp(n)
      PROVE  FALSE
  BY <1>3 DEF Failover, ManualFailover, NodeDown, NodeUp, server
<1>4. ASSUME NEW eject, ReadMembership(eject) PROVE FALSE
  BY <1>4 DEF ReadMembership, server
<1>5. CASE Activate \/ StartRebalance
  BY <1>5 DEF Activate, StartRebalance, server
<1>6. ASSUME NEW succeeds, EndRebalance(succeeds) PROVE FALSE
  BY <1>6 DEF EndRebalance, server
<1>7. CASE UNCHANGED vars
  BY <1>7 DEF vars, server
<1> QED  BY <1>1, <1>2, <1>3, <1>4, <1>5, <1>6, <1>7 DEF Next

\* Only the orchestrator carries an automatic failover out.
LEMMA OnlyFailoverCounts ==
    ASSUME FailoverInv, [Next]_vars, autos' = autos + 1
    PROVE  \E n \in Nodes : Failover(n)
<1>0. autos \in Nat
  BY DEF FailoverInv, TypeOK
<1>1. CASE Timer \/ Tick \/ TickWithoutLogic \/ FailoverDone \/ FailoverRefused
  BY <1>0, <1>1 DEF Timer, Tick, TickWithoutLogic, FailoverDone, FailoverRefused, history
<1>2. CASE Enable \/ Disable \/ ResetCount \/ Crash
  BY <1>0, <1>2 DEF Enable, Disable, ResetCount, Crash, history
<1>3. ASSUME NEW n \in Nodes, ManualFailover(n) \/ NodeDown(n) \/ NodeUp(n)
      PROVE  FALSE
  BY <1>0, <1>3 DEF ManualFailover, NodeDown, NodeUp, history
<1>4. ASSUME NEW eject, ReadMembership(eject) PROVE FALSE
  BY <1>0, <1>4 DEF ReadMembership, history
<1>5. CASE Activate \/ StartRebalance
  BY <1>0, <1>5 DEF Activate, StartRebalance, history
<1>6. ASSUME NEW succeeds, EndRebalance(succeeds) PROVE FALSE
  BY <1>0, <1>6 DEF EndRebalance, history
<1>7. CASE UNCHANGED vars
  BY <1>0, <1>7 DEF vars, history
<1> QED  BY <1>1, <1>2, <1>3, <1>4, <1>5, <1>6, <1>7 DEF Next

LEMMA OnlyLongDownStep ==
    ASSUME FailoverInv, [Next]_vars, asked' # asked, asked' # NoNode
    PROVE  downFor'[asked'] = TicksDown /\ aloneFor'[asked'] = 2
<1> DEFINE F == FailoverActions(DownNodes, states')
<1>1. Tick
  BY OnlyTickAsks
<1>2. F # {} /\ CountAllows /\ asked' = CHOOSE n \in F : TRUE
  BY <1>1 DEF Tick, DownNodes
<1>3. asked' \in F
  BY <1>2
<1> QED  BY <1>1, <1>2, <1>3, TickDecides

LEMMA EnoughLeftStep ==
    ASSUME FailoverInv, [Next]_vars, autos' = autos + 1, ~overtaken
    PROVE  Cardinality(active') >= 2
<1>1. PICK n \in Nodes : Failover(n)
  BY OnlyFailoverCounts
<1>2. n \in requests /\ Cardinality(active) >= 3 /\ active' \in {active, active \ {n}}
  BY <1>1 DEF Failover, FailoverInv, RequestFits
<1>3. IsFiniteSet(active) /\ Cardinality(active) \in Nat
  BY ActiveFinite
<1>4. Cardinality(active \ {n}) \in {Cardinality(active), Cardinality(active) - 1}
  BY <1>3, FS_RemoveElement
<1>5. CASE active' = active
  BY <1>2, <1>3, <1>5
<1>6. CASE active' = active \ {n}
  BY <1>2, <1>3, <1>4, <1>6
<1> QED  BY <1>2, <1>5, <1>6

\* process_frame decides a failover only of a node that was down in every tick of the
\* timeout and two more, and alone in the last two; and the orchestrator, however late,
\* leaves two nodes unless a failover by hand overtook it.
THEOREM FailoverSafety == Spec => FailsOverSafely
<1>1. FailoverInv /\ [Next]_vars =>
        (asked' # asked /\ asked' # NoNode => downFor'[asked'] = TicksDown /\ aloneFor'[asked'] = 2)
  BY OnlyLongDownStep
<1>2. FailoverInv /\ [Next]_vars => (autos' = autos + 1 /\ ~overtaken => Cardinality(active') >= 2)
  BY EnoughLeftStep
<1> QED  BY <1>1, <1>2, FailoverInvariant, PTL DEF Spec, FailsOverSafely, OnlyLongDown, EnoughLeft
=============================================================================
