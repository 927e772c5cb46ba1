--------------------------- MODULE MbMasterProofs ---------------------------
(***************************************************************************)
(* The election's safety for any number of nodes, any versions and any     *)
(* number of faults: MasterInv is inductive, and with RivalsInv, which     *)
(* follows a rivalry from round to round, so is its end.                   *)
(***************************************************************************)
EXTENDS MbMaster, FiniteSetTheorems, TLAPS

USE DEF Set

\* A process that starts becomes master or candidate only of a cluster that wants it.
LEMMA StartInv ==
    ASSUME MasterInv, NEW n \in Nodes, Start(n), UNCHANGED <<wanted, faults, rivals>>,
           net' \subseteq net, clash' \in BOOLEAN
    PROVE  MasterInv'
<1>1. TypeOK'
  BY MbMasterAssumption DEF MasterInv, TypeOK, Start
<1>2. MasterIsWanted' /\ CandidateIsWanted'
  BY DEF MasterInv, TypeOK, MasterIsWanted, CandidateIsWanted, Masters, Start
<1> QED  BY <1>1, <1>2 DEF MasterInv

\* What a process dies of leaves at most a part of the heartbeats on their way.
LEMMA DiesInv ==
    ASSUME MasterInv, NEW n \in Nodes, NEW rest \in SUBSET net, Dies(n, rest),
           UNCHANGED <<wanted, faults, rivals>>
    PROVE  MasterInv'
<1>1. net' \subseteq net /\ clash' \in BOOLEAN /\ Start(n)
  BY DEF Dies
<1> QED  BY <1>1, StartInv

\* Heartbeats are messages between nodes.
LEMMA HeartbeatsType ==
    ASSUME TypeOK, NEW n \in Nodes, NEW to \in SUBSET Nodes, NEW kind \in {"candidate", "master"}
    PROVE  Heartbeats(n, to, kind) \subseteq Messages
<1>1. Normal(peers[n], newPeers[n], n) \in BOOLEAN
  BY DEF Normal
<1> QED  BY <1>1 DEF Heartbeats, Messages

\* The history of clashes is a Boolean; it is a fact of its own because the provers that do
\* sets and arithmetic do not decide Booleans.
LEMMA ClashType ==
    ASSUME MasterInv, [Next]_vars
    PROVE  clash' \in BOOLEAN
BY DEF MasterInv, TypeOK, vars, Next, Work, TickCandidate, TickMaster, TickWorker, NextRound,
   NewList, Restart, Dies, Handle, CandidateHearsMaster, CandidateHearsCandidate,
   MasterHearsMaster, MasterHearsCandidate, WorkerHears, Heard, ChangeWanted, Crash, Lose, Fault

LEMMA TickInv ==
    ASSUME MasterInv, clash' \in BOOLEAN, NEW n \in Nodes, TickCandidate(n) \/ TickMaster(n) \/ TickWorker(n)
    PROVE  MasterInv'
<1>1. Aged(n) \in 0 .. Timeout
  BY MbMasterAssumption DEF MasterInv, TypeOK, Aged
<1>2. CASE TickCandidate(n)
  <2>1. Heartbeats(n, peers[n], "candidate") \subseteq Messages
    BY HeartbeatsType DEF MasterInv, TypeOK
  <2>2. TypeOK'
    BY <1>1, <1>2, <2>1 DEF MasterInv, TypeOK, TickCandidate
  <2>3. MasterIsWanted' /\ CandidateIsWanted'
    BY <1>2 DEF MasterInv, TypeOK, MasterIsWanted, CandidateIsWanted, Masters, TickCandidate
  <2> QED  BY <2>2, <2>3 DEF MasterInv
<1>3. CASE TickMaster(n)
  <2>1. Heartbeats(n, wanted, "master") \subseteq Messages
    BY HeartbeatsType DEF MasterInv, TypeOK
  <2>2. TypeOK'
    BY <1>1, <1>3, <2>1 DEF MasterInv, TypeOK, TickMaster
  <2>3. MasterIsWanted' /\ CandidateIsWanted'
    BY <1>3 DEF MasterInv, MasterIsWanted, CandidateIsWanted, Masters, TickMaster
  <2> QED  BY <2>2, <2>3 DEF MasterInv
<1>4. CASE TickWorker(n)
  <2>1. TypeOK'
    BY <1>1, <1>4 DEF MasterInv, TypeOK, TickWorker
  <2>2. MasterIsWanted' /\ CandidateIsWanted'
    BY <1>4 DEF MasterInv, MasterIsWanted, CandidateIsWanted, Masters, TickWorker
  <2> QED  BY <2>1, <2>2 DEF MasterInv
<1> QED  BY <1>2, <1>3, <1>4

\* A heartbeat makes no master and no candidate of anybody but a master that surrenders.
LEMMA HandleInv ==
    ASSUME MasterInv, clash' \in BOOLEAN, NEW msg \in net, Handle(msg)
    PROVE  MasterInv'
<1> DEFINE n == msg.to
<1>0. age \in [Nodes -> 0 .. Timeout] /\ 0 \in 0 .. Timeout
  BY MbMasterAssumption DEF MasterInv, TypeOK
<1>1. msg \in Messages /\ n \in Nodes /\ msg.from \in Nodes
  BY DEF MasterInv, TypeOK, Messages
<1>2. UpdateNewPeers(n, msg.from) \in SUBSET Nodes
  BY <1>1 DEF MasterInv, TypeOK, UpdateNewPeers
<1>3. net \ {msg} \in SUBSET net
  OBVIOUS
<1>4. ASSUME Dies(n, net \ {msg}), Received(msg)
      PROVE  MasterInv'
  BY <1>1, <1>3, <1>4, DiesInv DEF Received
<1>5. CASE CandidateHearsMaster(msg)
  <2>1. TypeOK'
    BY <1>1, <1>2, <1>5, MbMasterAssumption DEF MasterInv, TypeOK, CandidateHearsMaster, Received, Heard
  <2>2. MasterIsWanted' /\ CandidateIsWanted'
    BY <1>5 DEF MasterInv, MasterIsWanted, CandidateIsWanted, Masters, CandidateHearsMaster,
       Received, Heard
  <2> QED  BY <2>1, <2>2 DEF MasterInv
<1>6. CASE CandidateHearsCandidate(msg) /\ ~Dies(n, net \ {msg})
  <2>3. /\ newPeers' \in {newPeers, [newPeers EXCEPT ![n] = UpdateNewPeers(n, msg.from)]}
        /\ age' \in {age, [age EXCEPT ![n] = 0]}
        /\ fsm' = fsm
        /\ master' \in {master, [master EXCEPT ![n] = msg.from]}
        /\ net' \subseteq net /\ UNCHANGED <<wanted, peers, ticked, events, faults, rivals>>
    BY <1>6 DEF CandidateHearsCandidate, Received, Heard
  <2>4. newPeers' \in [Nodes -> SUBSET Nodes]
    BY <1>1, <1>2, <2>3 DEF MasterInv, TypeOK
  <2>5. age' \in [Nodes -> 0 .. Timeout]
    BY <1>1, <1>0, <2>3
  <2>6. /\ fsm' \in [Nodes -> {"down", "candidate", "master", "worker"}]
        /\ master' \in [Nodes -> Nodes \cup {NoMaster}]
    BY <1>1, <2>3 DEF MasterInv, TypeOK
  <2>1. TypeOK'
    BY <2>3, <2>4, <2>5, <2>6 DEF MasterInv, TypeOK
  <2>2. MasterIsWanted' /\ CandidateIsWanted'
    BY <1>6 DEF MasterInv, MasterIsWanted, CandidateIsWanted, Masters,
       CandidateHearsCandidate, Received, Heard
  <2> QED  BY <2>1, <2>2 DEF MasterInv
<1>7. CASE MasterHearsMaster(msg) /\ ~Dies(n, net \ {msg})
  <2>3. /\ newPeers' \in {newPeers, [newPeers EXCEPT ![n] = UpdateNewPeers(n, msg.from)]}
        /\ age' \in {age, [age EXCEPT ![n] = 0]}
        /\ fsm' \in {fsm, [fsm EXCEPT ![n] = "candidate"]}
        /\ master' \in {master, [master EXCEPT ![n] = msg.from]}
        /\ net' \subseteq net /\ UNCHANGED <<wanted, peers, ticked, events, faults, rivals>>
    BY <1>7 DEF MasterHearsMaster, Received, Heard
  <2>4. newPeers' \in [Nodes -> SUBSET Nodes]
    BY <1>1, <1>2, <2>3 DEF MasterInv, TypeOK
  <2>5. age' \in [Nodes -> 0 .. Timeout]
    BY <1>1, <1>0, <2>3
  <2>6. /\ fsm' \in [Nodes -> {"down", "candidate", "master", "worker"}]
        /\ master' \in [Nodes -> Nodes \cup {NoMaster}]
    BY <1>1, <2>3 DEF MasterInv, TypeOK
  <2>1. TypeOK'
    BY <2>3, <2>4, <2>5, <2>6 DEF MasterInv, TypeOK
  <2>2. MasterIsWanted' /\ CandidateIsWanted'
    BY <1>1, <1>7 DEF MasterInv, TypeOK, MasterIsWanted, CandidateIsWanted, Masters,
       MasterHearsMaster, Received, Heard
  <2> QED  BY <2>1, <2>2 DEF MasterInv
<1>8. CASE MasterHearsCandidate(msg)
  <2>1. TypeOK'
    BY <1>1, <1>2, <1>8, MbMasterAssumption DEF MasterInv, TypeOK, MasterHearsCandidate, Received, Heard
  <2>2. MasterIsWanted' /\ CandidateIsWanted'
    BY <1>8 DEF MasterInv, MasterIsWanted, CandidateIsWanted, Masters, MasterHearsCandidate,
       Received, Heard
  <2> QED  BY <2>1, <2>2 DEF MasterInv
<1>9. CASE WorkerHears(msg) /\ ~Dies(n, net \ {msg})
  <2>3. /\ newPeers' \in {newPeers, [newPeers EXCEPT ![n] = UpdateNewPeers(n, msg.from)]}
        /\ age' \in {age, [age EXCEPT ![n] = 0]}
        /\ fsm' = fsm
        /\ master' \in {master, [master EXCEPT ![n] = msg.from]}
        /\ net' \subseteq net /\ UNCHANGED <<wanted, peers, ticked, events, faults, rivals>>
    BY <1>9 DEF WorkerHears, Received, Heard
  <2>4. newPeers' \in [Nodes -> SUBSET Nodes]
    BY <1>1, <1>2, <2>3 DEF MasterInv, TypeOK
  <2>5. age' \in [Nodes -> 0 .. Timeout]
    BY <1>1, <1>0, <2>3
  <2>6. /\ fsm' \in [Nodes -> {"down", "candidate", "master", "worker"}]
        /\ master' \in [Nodes -> Nodes \cup {NoMaster}]
    BY <1>1, <2>3 DEF MasterInv, TypeOK
  <2>1. TypeOK'
    BY <2>3, <2>4, <2>5, <2>6 DEF MasterInv, TypeOK
  <2>2. MasterIsWanted' /\ CandidateIsWanted'
    BY <1>9 DEF MasterInv, MasterIsWanted, CandidateIsWanted, Masters, WorkerHears,
       Received, Heard
  <2> QED  BY <2>1, <2>2 DEF MasterInv
<1>10. Handle(msg) => Received(msg)
  BY DEF Handle, CandidateHearsMaster, CandidateHearsCandidate, MasterHearsMaster,
     MasterHearsCandidate, WorkerHears
<1> QED  BY <1>4, <1>5, <1>6, <1>7, <1>8, <1>9, <1>10 DEF Handle

LEMMA NewListInv ==
    ASSUME MasterInv, clash' \in BOOLEAN, NEW n \in Nodes, NewList(n)
    PROVE  MasterInv'
<1>1. CASE peers[n] = {}
  <2>1. Dies(n, net) /\ UNCHANGED <<wanted, faults, rivals>>
    BY <1>1 DEF NewList
  <2> QED  BY <2>1, DiesInv
<1>2. CASE peers[n] # {}
  <2>1. StateOf(n) \in {"master", "candidate", "worker"} /\ (StateOf(n) # "worker" => n \in wanted)
    BY DEF StateOf
  <2>2. TypeOK'
    BY <1>2, <2>1 DEF MasterInv, TypeOK, NewList
  <2>3. MasterIsWanted' /\ CandidateIsWanted'
    BY <1>2, <2>1 DEF MasterInv, TypeOK, MasterIsWanted, CandidateIsWanted, Masters, NewList
  <2> QED  BY <2>2, <2>3 DEF MasterInv
<1> QED  BY <1>1, <1>2

\* A change of the list reaches every node that runs.
LEMMA FaultInv ==
    ASSUME MasterInv, clash' \in BOOLEAN,
           \/ \E n \in Nodes : ChangeWanted(n) \/ Crash(n)
           \/ \E msg \in net : Lose(msg)
    PROVE  MasterInv'
<1>1. ASSUME NEW n \in Nodes, ChangeWanted(n)
      PROVE  MasterInv'
  <2>1. TypeOK'
    BY <1>1, MbMasterAssumption DEF MasterInv, TypeOK, ChangeWanted, Fault
  <2>2. MasterIsWanted' /\ CandidateIsWanted'
    BY <1>1 DEF MasterInv, TypeOK, MasterIsWanted, CandidateIsWanted, Masters, ChangeWanted
  <2> QED  BY <2>1, <2>2 DEF MasterInv
<1>2. ASSUME NEW n \in Nodes, Crash(n)
      PROVE  MasterInv'
  <2>1. TypeOK'
    BY <1>2, MbMasterAssumption DEF MasterInv, TypeOK, Crash, Fault
  <2>2. MasterIsWanted' /\ CandidateIsWanted'
    BY <1>2 DEF MasterInv, TypeOK, MasterIsWanted, CandidateIsWanted, Masters, Crash
  <2> QED  BY <2>1, <2>2 DEF MasterInv
<1>3. ASSUME NEW msg \in net, Lose(msg)
      PROVE  MasterInv'
  <2>1. TypeOK'
    BY <1>3, MbMasterAssumption DEF MasterInv, TypeOK, Lose, Fault
  <2>2. MasterIsWanted' /\ CandidateIsWanted'
    BY <1>3 DEF MasterInv, MasterIsWanted, CandidateIsWanted, Masters, Lose
  <2> QED  BY <2>1, <2>2 DEF MasterInv
<1> QED  BY <1>1, <1>2, <1>3

LEMMA NextInv ==
    ASSUME MasterInv, [Next]_vars
    PROVE  MasterInv'
<1>0. clash' \in BOOLEAN
  BY ClashType
<1>1. ASSUME NEW n \in Nodes, Restart(n)
      PROVE  MasterInv'
  BY <1>0, <1>1, StartInv DEF Restart
<1>2. CASE NextRound
  <2>1. TypeOK'
    BY <1>0, <1>2 DEF MasterInv, TypeOK, NextRound
  <2>2. MasterIsWanted' /\ CandidateIsWanted'
    BY <1>2 DEF MasterInv, MasterIsWanted, CandidateIsWanted, Masters, NextRound
  <2> QED  BY <2>1, <2>2 DEF MasterInv
<1>3. CASE UNCHANGED vars
  BY <1>3 DEF MasterInv, TypeOK, MasterIsWanted, CandidateIsWanted, Masters, vars
<1> QED  BY <1>0, <1>1, <1>2, <1>3, TickInv, HandleInv, NewListInv, FaultInv DEF Next, Work

\* Whatever heartbeats cross a change of the node list, are lost or kill their receiver,
\* a node that the configuration does not want is master, or a candidate that may become
\* master, only until it has handled the change: for clusters of any size.
THEOREM MasterInvariant == Spec => []MasterInv
<1>1. ASSUME Init PROVE MasterInv
  <2>1. clash \in BOOLEAN
    BY <1>1 DEF Init
  <2>2. TypeOK
    BY <1>1, <2>1, MbMasterAssumption DEF Init, TypeOK
  <2>3. MasterIsWanted /\ CandidateIsWanted
    BY <1>1 DEF Init, MasterIsWanted, CandidateIsWanted, Masters
  <2> QED  BY <2>2, <2>3 DEF MasterInv
<1> QED  BY <1>1, NextInv, PTL DEF Spec

-----------------------------------------------------------------------------
(***************************************************************************)
(* The end of rivalry.  Two masters judge each other at most twice: once   *)
(* while one of them changes its mode of operation, and once, with the     *)
(* same verdict, after both have.  Before that there is a round in which   *)
(* new masters may appear; from then on the heartbeats of those that are   *)
(* masters keep every candidate young.                                     *)
(***************************************************************************)

\* A node that runs and has handled the last change of the list is what the list makes it.
PeersFit ==
    \A n \in Nodes : fsm[n] # "down" /\ n \notin events =>
        IF n \in wanted THEN fsm[n] \in {"candidate", "master"} /\ peers[n] = wanted
        ELSE fsm[n] = "worker"

\* Nobody changes the list, which has more than one node.
Calm == /\ events = {} /\ \A n \in Nodes : wanted # {n}
        /\ \A msg \in net : msg.from \in wanted

\* No master has had its timer in this round.
Unreached == (\E m \in Masters : m \notin ticked) /\ \A msg \in net : msg.kind # "master"

\* A master has, and every candidate has heard of it or will.
Reached ==
    \A c \in Nodes : fsm[c] = "candidate" =>
        \/ \E msg \in net : msg.kind = "master" /\ msg.to = c
        \/ age[c] = 0 \/ (age[c] = 1 /\ c \in ticked)

\* No candidate takes over in this round.
Young == \A c \in Nodes : fsm[c] = "candidate" => age[c] <= 1 \/ (age[c] = 2 /\ c \in ticked)

IsNormal(n) == Normal(peers[n], newPeers[n], n)

\* p has handled the heartbeat that the master q has sent in this round.
HasHeard(p, q) ==
    q \in ticked /\ \A msg \in net : ~(msg.kind = "master" /\ msg.from = q /\ msg.to = p)

\* A versioned heartbeat of a master is one of a master in normal mode.
Marked ==
    \A msg \in net : msg.kind = "master" /\ msg.versioned /\ msg.from \in Masters => IsNormal(msg.from)

\* A master that has stayed has judged the other lower, by name or, both in normal mode, by
\* version.
Judged ==
    \A p, q \in Masters : p # q /\ HasHeard(p, q) =>
        p < q \/ (IsNormal(p) /\ IsNormal(q) /\ ~HigherVersion(p, q))

\* All masters are in normal mode, and one that has stayed has judged the other's version.
JudgedNormal ==
    /\ \A p \in Masters : IsNormal(p)
    /\ \A p, q \in Masters : p # q /\ HasHeard(p, q) => ~HigherVersion(p, q)

\* What the rounds since the last fault have led to.
RivalsInv ==
    /\ rivals > 0 => Calm /\ (Unreached \/ Reached)
    /\ rivals > 1 => Young /\ Judged /\ Marked
    /\ rivals > 2 => JudgedNormal
    /\ RivalsEnd

\* A process starts as its list says.
LEMMA StartPeers ==
    ASSUME MasterInv, PeersFit, NEW n \in Nodes, Start(n), wanted' = wanted
    PROVE  PeersFit'
BY DEF MasterInv, TypeOK, PeersFit, Start

LEMMA PeersStep ==
    ASSUME MasterInv, PeersFit, [Next]_vars
    PROVE  PeersFit'
<1>1. ASSUME NEW n \in Nodes, TickCandidate(n) \/ TickMaster(n) \/ TickWorker(n)
      PROVE  PeersFit'
  BY <1>1 DEF MasterInv, TypeOK, PeersFit, TickCandidate, TickMaster, TickWorker
<1>2. ASSUME NEW n \in Nodes, NewList(n)
      PROVE  PeersFit'
  <2>1. CASE peers[n] = {}
    <3>1. Start(n) /\ wanted' = wanted
      BY <1>2, <2>1 DEF NewList, Dies
    <3> QED  BY <3>1, StartPeers
  <2>2. CASE peers[n] # {}
    <3>1. IF n \in wanted THEN StateOf(n) \in {"candidate", "master"} ELSE StateOf(n) = "worker"
      BY DEF StateOf
    <3>2. /\ events' = events \ {n} /\ peers' = [peers EXCEPT ![n] = wanted]
          /\ fsm' = [fsm EXCEPT ![n] = StateOf(n)] /\ wanted' = wanted
      BY <1>2, <2>2 DEF NewList
    <3> QED  BY <3>1, <3>2 DEF MasterInv, TypeOK, PeersFit
  <2> QED  BY <2>1, <2>2
<1>3. ASSUME NEW n \in Nodes, Restart(n)
      PROVE  PeersFit'
  BY <1>3, StartPeers DEF Restart
<1>4. ASSUME NEW msg \in net, Handle(msg)
      PROVE  PeersFit'
  <2>1. msg.to \in Nodes /\ wanted' = wanted
    BY <1>4 DEF MasterInv, TypeOK, Messages, Handle, Received, CandidateHearsMaster,
       CandidateHearsCandidate, MasterHearsMaster, MasterHearsCandidate, WorkerHears
  <2>2. CASE Dies(msg.to, net \ {msg})
    BY <2>1, <2>2, StartPeers DEF Dies
  <2>3. CASE ~Dies(msg.to, net \ {msg})
    <3>1. /\ UNCHANGED <<peers, events>>
          /\ fsm' \in {fsm, [fsm EXCEPT ![msg.to] = "candidate"]}
          /\ fsm' # fsm => fsm[msg.to] = "master"
      BY <1>4, <2>3 DEF Handle, Heard, CandidateHearsMaster, CandidateHearsCandidate,
         MasterHearsMaster, MasterHearsCandidate, WorkerHears
    <3> QED  BY <2>1, <3>1 DEF MasterInv, TypeOK, PeersFit
  <2> QED  BY <2>2, <2>3
<1>5. CASE NextRound
  BY <1>5 DEF PeersFit, NextRound
<1>6. ASSUME NEW n \in Nodes, ChangeWanted(n) \/ Crash(n)
      PROVE  PeersFit'
  BY <1>6 DEF MasterInv, TypeOK, PeersFit, ChangeWanted, Crash
<1>7. ASSUME NEW msg \in net, Lose(msg)
      PROVE  PeersFit'
  BY <1>7 DEF PeersFit, Lose
<1>8. CASE UNCHANGED vars
  BY <1>8 DEF PeersFit, vars
<1> QED  BY <1>1, <1>2, <1>3, <1>4, <1>5, <1>6, <1>7, <1>8 DEF Next, Work

\* A master that hears of more peers does not leave normal mode.
LEMMA StaysNormal ==
    ASSUME NEW p \in Nodes, IsNormal(p), peers'[p] = peers[p], NEW m \in Nodes,
           newPeers'[p] \in {newPeers[p], UpdateNewPeers(p, m)}
    PROVE  IsNormal(p)'
BY DEF IsNormal, Normal, UpdateNewPeers

\* A process that starts, with others in the cluster, is young and no master.
LEMMA StartRivals ==
    ASSUME MasterInv, PeersFit, RivalsInv, rivals > 0, NEW n \in Nodes, Start(n),
           net' \subseteq net, \A msg \in net : msg \in net' \/ msg.to = n,
           fsm[n] = "master" => \E msg \in net : msg.kind = "master",
           UNCHANGED <<wanted, rivals>>
    PROVE  RivalsInv'
<1> USE DEF MasterInv, TypeOK
<1>1. Calm
  BY DEF RivalsInv
<1>2. /\ Calm'
      /\ fsm' \in [Nodes -> {"down", "candidate", "master", "worker"}]
      /\ fsm'[n] \in {"candidate", "worker"} /\ age'[n] = 0
      /\ \A m \in Nodes \ {n} : /\ fsm'[m] = fsm[m] /\ age'[m] = age[m] /\ peers'[m] = peers[m]
                                /\ newPeers'[m] = newPeers[m]
      /\ ticked' = ticked \cup {n}
  BY <1>1, MbMasterAssumption DEF Calm, Start
<1>3. (Unreached \/ Reached)'
  <2>1. CASE Unreached
    BY <1>2, <2>1 DEF Unreached, Masters
  <2>2. CASE Reached
    BY <1>2, <2>2 DEF Reached
  <2> QED  BY <2>1, <2>2 DEF RivalsInv
<1>4. Masters' \subseteq Masters \ {n}
  BY <1>2 DEF Masters
<1>5. \A p \in Masters' : IsNormal(p)' <=> IsNormal(p)
  BY <1>2, <1>4 DEF IsNormal, Normal, Masters
<1>6. \A p, q \in Masters' : HasHeard(p, q)' => HasHeard(p, q)
  BY <1>2, <1>4 DEF HasHeard, Masters
<1>7. ASSUME rivals > 1 PROVE Young' /\ Judged' /\ Marked'
  <2>1. Young /\ Judged /\ Marked
    BY <1>7 DEF RivalsInv
  <2>2. Young'
    BY <1>2, <2>1 DEF Young
  <2>3. Judged'
    BY <1>4, <1>5, <1>6, <2>1 DEF Judged
  <2>4. Marked'
    BY <1>4, <1>5, <2>1 DEF Marked
  <2> QED  BY <2>2, <2>3, <2>4
<1>8. ASSUME rivals > 2 PROVE JudgedNormal'
  <2>1. JudgedNormal
    BY <1>8 DEF RivalsInv
  <2> QED  BY <1>4, <1>5, <1>6, <2>1 DEF JudgedNormal
<1> QED  BY <1>2, <1>3, <1>7, <1>8 DEF RivalsInv, RivalsEnd

\* A timer that fires while rivals are about: it makes no master but in the first round,
\* and a master reaches all others that run.
LEMMA TickRivals ==
    ASSUME MasterInv, PeersFit, RivalsInv, rivals > 0, NEW n \in Nodes,
           TickCandidate(n) \/ TickMaster(n) \/ TickWorker(n)
    PROVE  RivalsInv'
<1> USE DEF MasterInv, TypeOK
<1>1. Calm
  BY DEF RivalsInv
<1>2. \A c \in Nodes : fsm[c] \in {"candidate", "master"} => c \in wanted /\ peers[c] = wanted
  BY <1>1 DEF Calm, PeersFit
<1>3. /\ n \notin ticked /\ ticked' = ticked \cup {n} /\ age' = [age EXCEPT ![n] = Aged(n)]
      /\ UNCHANGED <<wanted, peers, newPeers, events, rivals>>
  BY DEF TickCandidate, TickMaster, TickWorker
<1>4. CASE TickMaster(n)
  <2>1. fsm' = fsm /\ fsm[n] = "master" /\ n \in wanted
    BY <1>2, <1>4 DEF TickMaster
  <2>2. /\ net \subseteq net' /\ \A msg \in net' : msg \in net \/ msg \in Heartbeats(n, wanted, "master")
        /\ \A msg \in net' \ net : msg.from = n /\ (msg.versioned <=> IsNormal(n))
        /\ \A m \in wanted \ {n} : fsm[m] # "down" =>
             \E msg \in net' : msg.kind = "master" /\ msg.from = n /\ msg.to = m
    <3>1. net' = net \cup Heartbeats(n, wanted, "master")
      BY <1>4 DEF TickMaster
    <3>2. \A msg \in Heartbeats(n, wanted, "master") : msg.from = n /\ (msg.versioned <=> IsNormal(n))
      BY DEF Heartbeats, IsNormal
    <3>3. ASSUME NEW m \in wanted \ {n}, fsm[m] # "down"
          PROVE  \E msg \in Heartbeats(n, wanted, "master") :
                   msg.kind = "master" /\ msg.from = n /\ msg.to = m
      <4> DEFINE msg == [from |-> n, to |-> m, kind |-> "master", versioned |-> IsNormal(n)]
      <4>1. m \in {k \in wanted \ {n} : fsm[k] # "down"}
        BY <3>3
      <4>2. msg \in Heartbeats(n, wanted, "master")
        BY <4>1 DEF Heartbeats, IsNormal
      <4> QED  BY <4>2
    <3> QED  BY <3>1, <3>2, <3>3
  <2>3. Calm'
    BY <1>1, <1>3, <2>1, <2>2 DEF Calm
  <2>4. Reached'
    <3> SUFFICES ASSUME NEW c \in Nodes, fsm'[c] = "candidate"
                 PROVE  \E msg \in net' : msg.kind = "master" /\ msg.to = c
      BY DEF Reached
    <3>1. c # n /\ c \in wanted /\ fsm[c] # "down"
      BY <1>2, <2>1
    <3> QED  BY <2>2, <3>1
  <2>5. Masters' = Masters /\ \A p \in Masters : IsNormal(p)' <=> IsNormal(p)
    BY <1>3, <2>1 DEF Masters, IsNormal, Normal
  <2>6. \A p, q \in Masters : p # q /\ HasHeard(p, q)' => HasHeard(p, q)
    <3> SUFFICES ASSUME NEW p \in Masters, NEW q \in Masters, p # q, HasHeard(p, q)'
                 PROVE  HasHeard(p, q)
      OBVIOUS
    <3>1. p \in wanted /\ fsm[p] # "down"
      BY <1>2 DEF Masters
    <3>2. q # n
      BY <2>2, <3>1 DEF HasHeard
    <3> QED  BY <1>3, <2>2, <3>2 DEF HasHeard
  <2>7. ASSUME rivals > 1 PROVE Young' /\ Judged' /\ Marked'
    <3>1. Young /\ Judged /\ Marked
      BY <2>7 DEF RivalsInv
    <3>2. Young'
      BY <1>3, <2>1, <3>1 DEF Young
    <3>3. Judged'
      BY <2>5, <2>6, <3>1 DEF Judged
    <3>4. Marked'
      BY <2>2, <2>5, <3>1 DEF Marked
    <3> QED  BY <3>2, <3>3, <3>4
  <2>8. ASSUME rivals > 2 PROVE JudgedNormal'
    BY <2>5, <2>6, <2>8 DEF RivalsInv, JudgedNormal
  <2> QED  BY <1>3, <2>3, <2>4, <2>7, <2>8 DEF RivalsInv, RivalsEnd
<1>5. CASE TickCandidate(n) \/ TickWorker(n)
  <2>1. /\ fsm[n] # "master" /\ net \subseteq net'
        /\ \A msg \in net' \ net : msg.kind = "candidate" /\ msg.from = n /\ n \in wanted
    BY <1>2, <1>5 DEF TickCandidate, TickWorker, Heartbeats
  <2>2. /\ fsm' \in {fsm, [fsm EXCEPT ![n] = "master"]}
        /\ fsm' # fsm => Aged(n) >= Timeout /\ fsm[n] = "candidate"
    BY <1>5 DEF TickCandidate, TickWorker
  <2>3. Calm'
    BY <1>1, <1>3, <2>1 DEF Calm
  <2>4. (Unreached \/ Reached)'
    <3>1. CASE Unreached
      <4>1. PICK m \in Masters : m \notin ticked
        BY <3>1 DEF Unreached
      <4>2. m \in Masters' /\ m \notin ticked'
        BY <1>3, <2>1, <2>2, <4>1 DEF Masters
      <4> QED  BY <2>1, <3>1, <4>2 DEF Unreached
    <3>2. CASE Reached
      <4> SUFFICES ASSUME NEW c \in Nodes, fsm'[c] = "candidate",
                          \A msg \in net' : ~(msg.kind = "master" /\ msg.to = c)
                   PROVE  age'[c] = 0 \/ (age'[c] = 1 /\ c \in ticked')
        BY DEF Reached
      <4>1. fsm[c] = "candidate" /\ (age[c] = 0 \/ (age[c] = 1 /\ c \in ticked))
        BY <2>1, <2>2, <3>2 DEF Reached
      <4> QED  BY <1>3, <4>1, MbMasterAssumption DEF Aged
    <3> QED  BY <3>1, <3>2 DEF RivalsInv
  <2>5. ASSUME rivals > 1
        PROVE  /\ Young' /\ Judged' /\ Marked'
               /\ fsm' = fsm /\ \A p, q \in Masters : HasHeard(p, q)' => HasHeard(p, q)
    <3>1. Young /\ Judged /\ Marked
      BY <2>5 DEF RivalsInv
    <3>2. fsm' = fsm
      BY <1>3, <2>2, <3>1, MbMasterAssumption, TimeoutAssumption DEF Young, Aged
    <3>3. Young'
      BY <1>3, <3>1, <3>2, MbMasterAssumption DEF Young, Aged
    <3>4. Masters' = Masters /\ \A p \in Masters : IsNormal(p)' <=> IsNormal(p)
      BY <1>3, <3>2 DEF Masters, IsNormal, Normal
    <3>5. \A p, q \in Masters : HasHeard(p, q)' => HasHeard(p, q)
      BY <1>3, <2>1 DEF HasHeard, Masters
    <3>6. Judged'
      BY <3>1, <3>4, <3>5 DEF Judged
    <3>7. Marked'
      BY <2>1, <3>1, <3>4 DEF Marked
    <3> QED  BY <3>2, <3>3, <3>5, <3>6, <3>7
  <2>6. ASSUME rivals > 2 PROVE JudgedNormal'
    <3>1. JudgedNormal /\ rivals > 1
      BY <2>6 DEF RivalsInv
    <3> QED  BY <1>3, <2>5, <3>1 DEF JudgedNormal, Masters, IsNormal, Normal
  <2> QED  BY <1>3, <2>3, <2>4, <2>5, <2>6 DEF RivalsInv, RivalsEnd
<1> QED  BY <1>4, <1>5

\* What a heartbeat does to a node that survives it.
LEMMA HearEffect ==
    ASSUME MasterInv, PeersFit, Calm, NEW msg \in net, Handle(msg), ~Dies(msg.to, net \ {msg})
    PROVE  /\ net' = net \ {msg} /\ UNCHANGED <<wanted, peers, events, ticked, rivals>>
           /\ fsm' \in {fsm, [fsm EXCEPT ![msg.to] = "candidate"]}
           /\ age' \in {age, [age EXCEPT ![msg.to] = 0]}
           /\ newPeers' \in {newPeers, [newPeers EXCEPT ![msg.to] = UpdateNewPeers(msg.to, msg.from)]}
           /\ fsm'[msg.to] = "candidate" /\ msg.kind = "master" => age'[msg.to] = 0
           /\ fsm' # fsm => fsm[msg.to] = "master" /\ msg.kind = "master"
           /\ fsm'[msg.to] = "master" /\ msg.kind = "master" =>
                /\ ~Incomparable(msg.to, newPeers'[msg.to], msg)
                /\ ~HigherPriority(msg.to, newPeers'[msg.to], msg)
<1> DEFINE n == msg.to
<1> USE DEF MasterInv, TypeOK
<1>1. msg.from \in Nodes /\ n \in Nodes /\ msg.from \in wanted
  BY DEF Messages, Calm
<1>2. fsm[n] \in {"candidate", "master"} => msg.from \in peers[n]
  BY <1>1 DEF PeersFit, Calm
<1>3. CASE CandidateHearsMaster(msg)
  BY <1>1, <1>2, <1>3 DEF CandidateHearsMaster, Received, Heard
<1>4. CASE CandidateHearsCandidate(msg)
  BY <1>1, <1>2, <1>4 DEF CandidateHearsCandidate, Received, Heard
<1>5. CASE MasterHearsMaster(msg)
  BY <1>1, <1>2, <1>5 DEF MasterHearsMaster, Received, Heard
<1>6. CASE MasterHearsCandidate(msg)
  BY <1>1, <1>2, <1>6 DEF MasterHearsCandidate, Received, Heard
<1>7. CASE WorkerHears(msg)
  BY <1>1, <1>2, <1>7 DEF WorkerHears, Received, Heard
<1> QED  BY <1>3, <1>4, <1>5, <1>6, <1>7 DEF Handle

\* Versions and names order the nodes.
LEMMA VersionsOrder ==
    ASSUME NEW p \in Nodes, NEW q \in Nodes, p # q
    PROVE  HigherVersion(p, q) \/ HigherVersion(q, p)
BY MbMasterAssumption DEF HigherVersion, Nodes

LEMMA HearRivals ==
    ASSUME MasterInv, PeersFit, RivalsInv, rivals > 0,
           NEW msg \in net, Handle(msg), ~Dies(msg.to, net \ {msg})
    PROVE  RivalsInv'
<1> DEFINE n == msg.to
<1> USE DEF MasterInv, TypeOK
<1>1. Calm
  BY DEF RivalsInv
<1>2. msg.from \in Nodes /\ n \in Nodes
  BY DEF Messages
<1>3. /\ net' = net \ {msg} /\ UNCHANGED <<wanted, peers, events, ticked, rivals>>
      /\ fsm' \in {fsm, [fsm EXCEPT ![n] = "candidate"]}
      /\ age' \in {age, [age EXCEPT ![n] = 0]}
      /\ newPeers' \in {newPeers, [newPeers EXCEPT ![n] = UpdateNewPeers(n, msg.from)]}
      /\ fsm'[n] = "candidate" /\ msg.kind = "master" => age'[n] = 0
      /\ fsm' # fsm => fsm[n] = "master" /\ msg.kind = "master"
      /\ fsm'[n] = "master" /\ msg.kind = "master" =>
           ~Incomparable(n, newPeers'[n], msg) /\ ~HigherPriority(n, newPeers'[n], msg)
  BY <1>1, HearEffect
<1>4. Calm'
  BY <1>1, <1>3 DEF Calm
<1>5. (Unreached \/ Reached)'
  <2>1. CASE Unreached
    BY <1>3, <2>1 DEF Unreached, Masters
  <2>2. CASE Reached
    <3> SUFFICES ASSUME NEW c \in Nodes, fsm'[c] = "candidate"
                 PROVE  \/ \E m \in net' : m.kind = "master" /\ m.to = c
                        \/ age'[c] = 0 \/ (age'[c] = 1 /\ c \in ticked')
      BY DEF Reached
    <3>1. CASE c = n /\ msg.kind = "master"
      BY <1>3, <3>1
    <3>2. CASE ~(c = n /\ msg.kind = "master")
      <4>1. fsm[c] = "candidate" /\ age'[c] \in {age[c], 0}
        BY <1>2, <1>3, <3>2
      <4> QED  BY <1>3, <2>2, <3>2, <4>1 DEF Reached
    <3> QED  BY <3>1, <3>2
  <2> QED  BY <2>1, <2>2 DEF RivalsInv
<1>6. Masters' \subseteq Masters
  BY <1>2, <1>3 DEF Masters
<1>7. ASSUME NEW p \in Masters, IsNormal(p) PROVE IsNormal(p)'
  BY <1>2, <1>3, <1>7, StaysNormal DEF Masters
\* A pair of which one has just heard the other.
<1>8. ASSUME NEW p \in Masters', NEW q \in Masters', p # q, HasHeard(p, q)', ~HasHeard(p, q)
      PROVE  /\ p = n /\ q = msg.from /\ msg.kind = "master"
             /\ IF IsNormal(p)' THEN msg.versioned /\ ~HigherVersion(p, q) ELSE p < q
  <2>1. p = n /\ q = msg.from /\ msg.kind = "master" /\ fsm'[n] = "master"
    BY <1>3, <1>8 DEF HasHeard, Masters
  <2>2. ~Incomparable(n, newPeers'[n], msg) /\ ~HigherPriority(n, newPeers'[n], msg)
    BY <1>3, <2>1
  <2>3. IsNormal(n)' <=> Normal(peers[n], newPeers'[n], n)
    BY <1>3 DEF IsNormal
  <2>4. IF IsNormal(n)' THEN msg.versioned /\ ~HigherVersion(n, msg.from) ELSE ~(msg.from < n)
    BY <2>2, <2>3 DEF Incomparable, HigherPriority
  <2>5. p \in Int /\ q \in Int
    BY <1>2, <2>1, MbMasterAssumption DEF Nodes
  <2> QED  BY <1>8, <2>1, <2>4, <2>5
<1>9. ASSUME rivals > 1 PROVE Young' /\ Judged' /\ Marked'
  <2>1. Young /\ Judged /\ Marked
    BY <1>9 DEF RivalsInv
  <2>2. Young'
    <3> SUFFICES ASSUME NEW c \in Nodes, fsm'[c] = "candidate"
                 PROVE  age'[c] <= 1 \/ (age'[c] = 2 /\ c \in ticked)
      BY <1>3 DEF Young
    <3>1. CASE fsm[c] = "candidate"
      BY <1>2, <1>3, <2>1, <3>1 DEF Young
    <3>2. CASE fsm[c] # "candidate"
      BY <1>2, <1>3, <3>2
    <3> QED  BY <3>1, <3>2
  <2>3. Marked'
    BY <1>3, <1>6, <1>7, <2>1 DEF Marked
  <2>4. ASSUME NEW p \in Masters', NEW q \in Masters', p # q, HasHeard(p, q)'
        PROVE  p < q \/ (IsNormal(p)' /\ IsNormal(q)' /\ ~HigherVersion(p, q))
    <3>1. CASE HasHeard(p, q)
      BY <1>6, <1>7, <2>1, <2>4, <3>1 DEF Judged
    <3>2. CASE ~HasHeard(p, q)
      <4>1. /\ q = msg.from /\ msg.kind = "master"
            /\ IF IsNormal(p)' THEN msg.versioned /\ ~HigherVersion(p, q) ELSE p < q
        BY <1>8, <2>4, <3>2
      <4>2. msg.versioned => IsNormal(q)'
        BY <1>6, <1>7, <2>1, <4>1 DEF Marked
      <4> QED  BY <4>1, <4>2
    <3> QED  BY <3>1, <3>2
  <2>5. Judged'
    BY <2>4 DEF Judged, HigherVersion
  <2> QED  BY <2>2, <2>3, <2>5
<1>10. ASSUME rivals > 2 PROVE JudgedNormal'
  <2>1. JudgedNormal
    BY <1>10 DEF RivalsInv
  <2>2. \A p \in Masters' : IsNormal(p)'
    BY <1>6, <1>7, <2>1 DEF JudgedNormal
  <2>3. ASSUME NEW p \in Masters', NEW q \in Masters', p # q, HasHeard(p, q)'
        PROVE  ~HigherVersion(p, q)
    <3>1. CASE HasHeard(p, q)
      BY <1>6, <2>1, <2>3, <3>1 DEF JudgedNormal
    <3>2. CASE ~HasHeard(p, q)
      BY <1>8, <2>2, <2>3, <3>2
    <3> QED  BY <3>1, <3>2
  <2> QED  BY <2>2, <2>3 DEF JudgedNormal, HigherVersion
<1> QED  BY <1>3, <1>4, <1>5, <1>9, <1>10 DEF RivalsInv, RivalsEnd

\* At the end of a round everybody has heard everybody.  The masters of the second round
\* are in normal mode by then, and those of the third would each judge the other lower.
LEMMA RoundRivals ==
    ASSUME MasterInv, PeersFit, RivalsInv, NextRound
    PROVE  RivalsInv'
<1> USE DEF MasterInv, TypeOK
<1>1. /\ net = {} /\ events = {} /\ \A n \in Nodes : fsm[n] = "down" \/ n \in ticked
      /\ ticked' = {} /\ UNCHANGED <<wanted, fsm, peers, newPeers, age, net, events>>
  BY DEF NextRound
<1>2. CASE Cardinality(Masters) < 2
  BY <1>2 DEF NextRound, Masters, RivalsInv, RivalsEnd
<1>3. CASE ~(Cardinality(Masters) < 2)
  <2>1. rivals' = IF rivals < 4 THEN rivals + 1 ELSE 4
    BY <1>3 DEF NextRound, Masters
  <2>2. PICK p \in Masters, q \in Masters : p # q
    <3>1. Masters # {}
      <4>1. Masters = {} => Cardinality(Masters) = 0
        BY FS_EmptySet, Zenon
      <4> QED  BY <1>3, <4>1
    <3>2. ASSUME NEW p \in Masters PROVE Masters # {p}
      <4>1. Cardinality({p}) = 1
        BY FS_Singleton
      <4> QED  BY <1>3, <4>1
    <3> QED  BY <3>1, <3>2
  <2>3. Calm'
    <3>1. p \in wanted /\ q \in wanted
      BY <1>1, <2>2 DEF MasterIsWanted
    <3> QED  BY <1>1, <2>2, <3>1 DEF Calm
  <2>4. Unreached'
    BY <1>1, <2>2 DEF Unreached, Masters
  <2>5. ASSUME rivals > 0 PROVE Young'
    <3>1. Reached
      BY <1>1, <2>5 DEF RivalsInv, Unreached, Masters
    <3> QED  BY <1>1, <3>1 DEF Young, Reached
  <2>6. Judged' /\ Marked'
    BY <1>1 DEF Judged, Marked, HasHeard
  <2>7. \A r, s \in Masters : HasHeard(r, s)
    BY <1>1 DEF HasHeard, Masters
  <2>8. ASSUME rivals > 1 PROVE JudgedNormal'
    <3>1. ASSUME NEW r \in Masters PROVE IsNormal(r)
      <4>1. PICK s \in Masters : s # r
        BY <2>2
      <4>2. r \in Int /\ s \in Int
        BY MbMasterAssumption DEF Masters, Nodes
      <4> QED  BY <2>7, <2>8, <4>1, <4>2, VersionsOrder DEF RivalsInv, Judged, Masters
    <3> QED  BY <1>1, <3>1 DEF JudgedNormal, HasHeard, Masters, IsNormal, Normal
  <2>9. ~(rivals > 2)
    BY <2>2, <2>7, VersionsOrder DEF RivalsInv, JudgedNormal, Masters
  <2> QED  BY <2>1, <2>3, <2>4, <2>5, <2>6, <2>8, <2>9 DEF RivalsInv, RivalsEnd
<1> QED  BY <1>2, <1>3

LEMMA RivalsStep ==
    ASSUME MasterInv, PeersFit, RivalsInv, [Next]_vars
    PROVE  RivalsInv'
<1>1. CASE rivals' = 0
  BY <1>1 DEF RivalsInv, RivalsEnd
<1>2. CASE NextRound
  BY <1>2, RoundRivals
<1>3. CASE UNCHANGED vars
  BY <1>3 DEF vars, RivalsInv, RivalsEnd, Calm, Unreached, Reached, Young, Judged, Marked,
     JudgedNormal, HasHeard, IsNormal, Masters
<1>4. CASE Work /\ ~NextRound /\ rivals' # 0
  <2>1. rivals' = rivals
    BY <1>4 DEF Work, TickCandidate, TickMaster, TickWorker, NewList, Restart, Handle, Received,
       CandidateHearsMaster, CandidateHearsCandidate, MasterHearsMaster, MasterHearsCandidate,
       WorkerHears
  <2>2. rivals > 0 /\ Calm
    BY <1>4, <2>1 DEF MasterInv, TypeOK, RivalsInv
  <2>3. ASSUME NEW n \in Nodes, TickCandidate(n) \/ TickMaster(n) \/ TickWorker(n)
        PROVE  RivalsInv'
    BY <2>2, <2>3, TickRivals
  <2>4. ASSUME NEW n \in Nodes, NewList(n)
        PROVE  FALSE
    BY <2>2, <2>4 DEF NewList, Calm
  <2>5. ASSUME NEW n \in Nodes, Restart(n)
        PROVE  RivalsInv'
    BY <2>2, <2>5, StartRivals DEF Restart
  <2>6. ASSUME NEW msg \in net, Handle(msg)
        PROVE  RivalsInv'
    <3>1. CASE Dies(msg.to, net \ {msg})
      <4>1. msg.to \in Nodes
        BY DEF MasterInv, TypeOK, Messages
      <4>2. Start(msg.to) /\ net' \subseteq net /\ \A m \in net : m \in net' \/ m.to = msg.to
        BY <3>1 DEF Dies
      <4>3. fsm'[msg.to] # "master"
        BY <2>2, <4>1, <4>2 DEF MasterInv, TypeOK, Calm, Start
      <4>4. wanted' = wanted /\ (fsm[msg.to] = "master" /\ fsm' # fsm => msg.kind = "master")
        BY <2>6 DEF Handle, Received, CandidateHearsMaster, CandidateHearsCandidate,
           MasterHearsMaster, MasterHearsCandidate, WorkerHears
      <4> QED  BY <2>1, <2>2, <4>1, <4>2, <4>3, <4>4, StartRivals
    <3>2. CASE ~Dies(msg.to, net \ {msg})
      BY <2>2, <2>6, <3>2, HearRivals
    <3> QED  BY <3>1, <3>2
  <2> QED  BY <1>4, <2>3, <2>4, <2>5, <2>6 DEF Work
<1>5. CASE Next /\ ~Work
  BY <1>1, <1>5 DEF Next, ChangeWanted, Crash, Lose, Fault
<1> QED  BY <1>1, <1>2, <1>3, <1>4, <1>5

\* For any number of nodes, any versions and any number of faults: when no heartbeat is lost
\* any more and no node dies, joins or leaves, two masters outlive at most three rounds.
THEOREM RivalsAlwaysEnd == Spec => []RivalsEnd
<1>1. ASSUME Init PROVE PeersFit /\ RivalsInv
  <2>1. PeersFit
    BY <1>1 DEF Init, PeersFit
  <2>2. RivalsInv
    BY <1>1 DEF Init, RivalsInv, RivalsEnd
  <2> QED  BY <2>1, <2>2
<1>2. MasterInv /\ PeersFit /\ RivalsInv /\ [Next]_vars => PeersFit' /\ RivalsInv'
  BY PeersStep, RivalsStep
<1>3. RivalsInv => RivalsEnd
  BY DEF RivalsInv
<1> QED  BY <1>1, <1>2, <1>3, MasterInvariant, PTL DEF Spec
=============================================================================
