------------------------ MODULE BlockedClientsProofs ------------------------
(***************************************************************************)
(* The books of blocked connections, for any connections, workers and keys *)
(* and every bound: a lock is held by who is at a step that holds it, a    *)
(* blocked connection is owed exactly one notification, nobody refers to a *)
(* listener that has been deleted, and a SYNC that succeeds has seen all   *)
(* of its keys.  Parts is the inductive invariant.                         *)
(***************************************************************************)
EXTENDS BlockedClients, FiniteSetTheorems, SequenceTheorems, TLAPS

Parts ==
    /\ TypeOK /\ LocksFit /\ ConnsFit /\ NotifiersFit /\ ReferencesFit /\ OperationsFit
    /\ CountsFit /\ PushHasWaker /\ WaiterHasWaker

-----------------------------------------------------------------------------
(* What a change of one connection, of one listener and of a lock does *)

Pcs == Running \cup {"idle", "blocked", "notified"}

OthersStay(c) == \A d \in Conns : d # c => conn'[d] = conn[d]

\* The types of the fields.
LEMMA ConnTypes ==
    ASSUME TypeOK, NEW c \in Conns
    PROVE  /\ conn[c] \in ConnRecord /\ conn[c].pc \in Pcs
           /\ conn[c].specific \in Nat /\ conn[c].listener \in Nat
           /\ conn[c].cmd.op \in {"none", "set", "delete", "sync_mutation", "sync_rep"}
           /\ conn[c].cmd.keys \in SUBSET Keys
           /\ conn[c].status \in {"none", "success", "not_my_vbucket"}
BY DEF TypeOK, ConnRecord, Pcs

LEMMA IdleType == Idle \in ConnRecord
BY DEF Idle, ConnRecord, Running

LEMMA GotoEffect ==
    ASSUME TypeOK, NEW c \in Conns, NEW pc \in Pcs, Goto(c, pc)
    PROVE  /\ conn' \in [Conns -> ConnRecord] /\ OthersStay(c)
           /\ conn'[c].pc = pc /\ conn'[c].cmd = conn[c].cmd
           /\ conn'[c].specific = conn[c].specific /\ conn'[c].listener = conn[c].listener
<1>1. conn \in [Conns -> ConnRecord] /\ conn[c] \in ConnRecord
  BY DEF TypeOK
<1> DEFINE r == [conn[c] EXCEPT !.pc = pc]
<1>2. /\ r \in ConnRecord /\ r.pc = pc /\ r.cmd = conn[c].cmd
      /\ r.specific = conn[c].specific /\ r.listener = conn[c].listener
  BY <1>1 DEF ConnRecord, Pcs
<1>3. conn' = [conn EXCEPT ![c] = r]
  BY DEF Goto
<1> HIDE DEF r
<1> QED  BY <1>1, <1>2, <1>3 DEF OthersStay

LEMMA AnswerEffect ==
    ASSUME TypeOK, NEW c \in Conns, Answer(c)
    PROVE  conn' \in [Conns -> ConnRecord] /\ OthersStay(c) /\ conn'[c] = Idle
BY IdleType DEF TypeOK, Answer, OthersStay

LEMMA BlockEffect ==
    ASSUME TypeOK, NEW c \in Conns, Block(c)
    PROVE  /\ conn' \in [Conns -> ConnRecord] /\ OthersStay(c)
           /\ conn'[c].pc = "blocked" /\ conn'[c].cmd = conn[c].cmd
           /\ conn'[c].specific = conn[c].specific /\ conn'[c].listener = 0
<1>1. conn \in [Conns -> ConnRecord] /\ conn[c] \in ConnRecord
  BY DEF TypeOK
<1> DEFINE r == [conn[c] EXCEPT !.pc = "blocked", !.listener = 0]
<1>2. /\ r \in ConnRecord /\ r.pc = "blocked" /\ r.cmd = conn[c].cmd
      /\ r.specific = conn[c].specific /\ r.listener = 0
  BY <1>1 DEF ConnRecord
<1>3. conn' = [conn EXCEPT ![c] = r]
  BY <1>1 DEF Block
<1> HIDE DEF r
<1> QED  BY <1>1, <1>2, <1>3 DEF OthersStay

LEMMA WokenEffect ==
    ASSUME TypeOK, NEW c \in Conns, NEW code \in {"success", "not_my_vbucket"},
           conn[c].pc = "blocked", conn' = Woken(conn, c, code)
    PROVE  /\ conn' \in [Conns -> ConnRecord] /\ OthersStay(c)
           /\ conn'[c].pc = "notified" /\ conn'[c].cmd = conn[c].cmd
           /\ conn'[c].specific = conn[c].specific /\ conn'[c].listener = conn[c].listener
<1>1. conn \in [Conns -> ConnRecord] /\ conn[c] \in ConnRecord
  BY DEF TypeOK
<1> DEFINE r == [conn[c] EXCEPT !.pc = "notified", !.status = code]
<1>2. /\ r \in ConnRecord /\ r.pc = "notified" /\ r.cmd = conn[c].cmd
      /\ r.specific = conn[c].specific /\ r.listener = conn[c].listener
  BY <1>1 DEF ConnRecord
<1>3. conn' = [conn EXCEPT ![c] = r]
  BY <1>1 DEF Woken
<1> HIDE DEF r
<1> QED  BY <1>1, <1>2, <1>3 DEF OthersStay

Plain(r) ==
    /\ r.pc \notin {"blocked", "register", "tell", "enable"} /\ r.specific = 0 /\ r.listener = 0
    /\ r.pc = "idle" => r = Idle

LEMMA IdlePlain == Plain(Idle) /\ Idle.pc = "idle"
BY DEF Plain, Idle

\* CheckState: the operation goes on or is answered, and its worker is taken or left alone.
LEMMA CheckEffect ==
    ASSUME TypeOK, NEW c \in Conns, NEW cmd, conn[c].specific = 0, conn[c].listener = 0,
           cmd \in [op : {"none", "set", "delete", "sync_mutation", "sync_rep"}, keys : SUBSET Keys],
           CheckState(c, cmd)
    PROVE  /\ conn' \in [Conns -> ConnRecord] /\ OthersStay(c) /\ Plain(conn'[c])
           /\ \/ conn'[c].pc \in {"add", "apply"} /\ owner' = [owner EXCEPT ![Worker[c]] = c]
              \/ conn'[c].pc = "idle" /\ owner' = owner
<1>1. conn \in [Conns -> ConnRecord] /\ conn[c] \in ConnRecord
  BY DEF TypeOK
<1>2. CASE state \in {"active", "pending"}
  <2> DEFINE pc == IF state = "active" THEN "apply" ELSE "add"
             r  == [conn[c] EXCEPT !.pc = pc, !.cmd = cmd, !.status = "none"]
  <2>1. /\ r \in ConnRecord /\ r.pc = pc /\ r.specific = 0 /\ r.listener = 0
    BY <1>1 DEF ConnRecord, Running
  <2>2. conn' = [conn EXCEPT ![c] = r] /\ owner' = [owner EXCEPT ![Worker[c]] = c]
    BY <1>1, <1>2 DEF CheckState
  <2>3. pc \in {"add", "apply"}
    OBVIOUS
  <2> HIDE DEF pc, r
  <2> QED  BY <1>1, <2>1, <2>2, <2>3 DEF OthersStay, Plain
<1>3. CASE state \notin {"active", "pending"}
  <2>1. Answer(c) /\ owner' = owner
    BY <1>3 DEF CheckState
  <2> QED  BY <2>1, AnswerEffect, IdlePlain
<1> QED  BY <1>2, <1>3

ListenersStay(l) ==
    /\ listener' \in Seq(ListenerRecord) /\ Len(listener') = Len(listener)
    /\ DOMAIN listener' = DOMAIN listener
    /\ \A m \in DOMAIN listener : m # l => listener'[m] = listener[m]

LEMMA ListenerTypes ==
    ASSUME TypeOK, NEW l \in DOMAIN listener
    PROVE  /\ listener[l] \in ListenerRecord /\ listener[l].cookie \in Conns
           /\ listener[l].op \in {"sync_mutation", "sync_rep"}
           /\ l \in Nat /\ l # 0 /\ DOMAIN listener = 1 .. Len(listener) /\ Len(listener) \in Nat
<1>1. listener \in Seq(ListenerRecord)
  BY DEF TypeOK
<1>2. /\ DOMAIN listener = 1 .. Len(listener) /\ Len(listener) \in Nat
      /\ listener[l] \in ListenerRecord
  BY <1>1
<1> QED  BY <1>2 DEF ListenerRecord

LEMMA ListenerUpdate ==
    ASSUME TypeOK, NEW l \in DOMAIN listener, NEW r \in ListenerRecord,
           listener' = [listener EXCEPT ![l] = r]
    PROVE  ListenersStay(l) /\ listener'[l] = r
<1>1. listener \in Seq(ListenerRecord)
  BY DEF TypeOK
<1> QED  BY <1>1 DEF ListenersStay

\* Fields of a listener that do not count keys.
Alike(li, mi) ==
    /\ li.cookie = mi.cookie /\ li.op = mi.op /\ li.live = mi.live /\ li.answer = mi.answer
    /\ li.allowNotify = mi.allowNotify /\ li.mutex = mi.mutex

\* Fields of a listener that count keys.
CountsAlike(li, mi) ==
    /\ li.keys = mi.keys /\ li.modified = mi.modified /\ li.deleted = mi.deleted
    /\ li.replicated = mi.replicated /\ li.finished = mi.finished

LEMMA AnswersEffect ==
    ASSUME TypeOK, NEW l \in DOMAIN listener, Answers(l)
    PROVE  /\ ListenersStay(l) /\ CountsAlike(listener'[l], listener[l])
           /\ listener'[l].cookie = listener[l].cookie /\ listener'[l].op = listener[l].op
           /\ listener'[l].live = listener[l].live /\ listener'[l].mutex = listener[l].mutex
           /\ listener'[l].allowNotify = listener[l].allowNotify
           /\ listener'[l].answer # "none"
           /\ listener'[l].answer = "success" => listener[l].finished
           /\ tasks' = [tasks EXCEPT !.destroy = @ \cup {l}]
<1> DEFINE a == IF listener[l].finished THEN "success" ELSE "tmpfail"
           r == [listener[l] EXCEPT !.answer = a]
<1>1. listener[l] \in ListenerRecord
  BY ListenerTypes
<1>2. /\ r \in ListenerRecord /\ CountsAlike(r, listener[l]) /\ r.answer = a
      /\ r.cookie = listener[l].cookie /\ r.op = listener[l].op
      /\ r.live = listener[l].live /\ r.mutex = listener[l].mutex
      /\ r.allowNotify = listener[l].allowNotify
  BY <1>1 DEF ListenerRecord, CountsAlike
<1>3. a # "none" /\ (a = "success" => listener[l].finished)
  OBVIOUS
<1>4. listener' = [listener EXCEPT ![l] = r] /\ tasks' = [tasks EXCEPT !.destroy = @ \cup {l}]
  BY DEF Answers
<1> HIDE DEF a, r
<1>5. ListenersStay(l) /\ listener'[l] = r
  BY <1>2, <1>4, ListenerUpdate
<1> QED  BY <1>2, <1>3, <1>4, <1>5

\* The locks have names of their own.
LEMMA LockNames ==
    /\ \A c \in Conns : /\ Worker[c] \in Locks /\ c \in Walkers /\ c \in Threads
                        /\ Worker[c] \notin {"pendingOpLock", "mutationMutex", "replicationMutex"}
                        /\ c # NoThread /\ c # "tap" /\ c # "dispatcher"
                        /\ Kind(c) = "sync_mutation" /\ Mutex(Kind(c)) = "mutationMutex"
    /\ {"pendingOpLock", "mutationMutex", "replicationMutex"} \subseteq Locks
    /\ "tap" \in Walkers /\ NoThread \notin Threads
    /\ Kind("tap") = "sync_rep" /\ Mutex(Kind("tap")) = "replicationMutex"
    /\ \A t \in Walkers : t \in Threads /\ t # "dispatcher" /\ t # NoThread
    /\ Walkers = Conns \cup {"tap"}
BY ClientAssumption DEF Locks, Walkers, Threads, Kind, Mutex

LEMMA EnterEffect ==
    ASSUME TypeOK, NEW c \in Conns, owner' = [owner EXCEPT ![Worker[c]] = c]
    PROVE  /\ owner' \in [Locks -> Threads \cup {NoThread}] /\ owner'[Worker[c]] = c
           /\ \A k \in Locks : k # Worker[c] => owner'[k] = owner[k]
BY LockNames DEF TypeOK

LEMMA LeaveEffect ==
    ASSUME TypeOK, NEW c \in Conns, NEW held, Leave(c, held)
    PROVE  /\ owner' \in [Locks -> Threads \cup {NoThread}]
           /\ \A k \in Locks : k = Worker[c] \/ k \in held => owner'[k] = NoThread
           /\ \A k \in Locks : ~(k = Worker[c] \/ k \in held) => owner'[k] = owner[k]
BY DEF TypeOK, Leave

-----------------------------------------------------------------------------
(* Kinds of steps: what they leave of the books of connections and listeners *)

\* A connection that waits for nobody goes from one step of an operation to another.
LEMMA OperationMoves ==
    ASSUME Parts, NEW c \in Conns, conn' \in [Conns -> ConnRecord], OthersStay(c),
           Plain(conn[c]), Plain(conn'[c]), UNCHANGED <<listener, job, waiting>>
    PROVE  ConnsFit' /\ NotifiersFit' /\ OperationsFit' /\ CountsFit'
<1>1. CountsFit'
  BY DEF Parts, CountsFit
<1>2. \A l \in DOMAIN listener : listener[l].cookie \in Conns
  BY ListenerTypes DEF Parts
<1>3. NotifiersFit'
  BY <1>2 DEF Parts, NotifiersFit, Plain, OthersStay, ConnsFit
<1>4. ConnsFit'
  BY DEF Parts, ConnsFit, Serves, Plain, OthersStay
<1>5. \A i \in DOMAIN StillWaiting : StillWaiting[i] \in Conns
  BY DEF Parts, TypeOK, StillWaiting
<1>6. OperationsFit'
  BY <1>5 DEF Parts, OperationsFit, StillWaiting, Plain, OthersStay
<1> QED  BY <1>1, <1>3, <1>4, <1>6

\* A listener counts keys.
LEMMA ListenerCounts ==
    ASSUME Parts, NEW l \in DOMAIN listener, ListenersStay(l), Alike(listener'[l], listener[l]),
           UNCHANGED <<conn, job, waiting>>
    PROVE  ConnsFit' /\ NotifiersFit' /\ OperationsFit'
<1>1. \A m \in DOMAIN listener : Alike(listener'[m], listener[m])
  BY DEF ListenersStay, Alike
<1>2. DOMAIN listener' = DOMAIN listener
  BY DEF ListenersStay
<1>3. NotifiersFit'
  BY <1>1, <1>2 DEF Parts, NotifiersFit, Alike
<1>4. ConnsFit'
  BY <1>1, <1>2 DEF Parts, ConnsFit, Serves, Alike
<1>5. OperationsFit'
  <2>1. \A i \in DOMAIN StillWaiting : StillWaiting[i] \in Conns
    BY DEF Parts, TypeOK, StillWaiting
  <2> QED  BY <1>1, <1>2, <2>1 DEF Parts, OperationsFit, StillWaiting, Alike
<1> QED  BY <1>3, <1>4, <1>5

\* A connection that registers its SYNC moves on, and its listener may count keys.
LEMMA RegistrantMoves ==
    ASSUME Parts, NEW c \in Conns, conn' \in [Conns -> ConnRecord], OthersStay(c),
           conn[c].pc \in {"register", "tell", "enable"},
           conn'[c].pc \in {"register", "tell", "enable"}, conn'[c].cmd = conn[c].cmd,
           conn'[c].specific = conn[c].specific, conn'[c].listener = conn[c].listener,
           ListenersStay(conn[c].listener),
           Alike(listener'[conn[c].listener], listener[conn[c].listener]),
           UNCHANGED <<job, waiting>>
    PROVE  ConnsFit' /\ NotifiersFit' /\ OperationsFit'
<1> DEFINE l == conn[c].listener
<1>1. l # 0 /\ l \in DOMAIN listener
  BY DEF Parts, ConnsFit, Serves
<1>2. \A m \in DOMAIN listener : Alike(listener'[m], listener[m]) /\ listener[m].cookie \in Conns
  BY ListenerTypes DEF ListenersStay, Alike, Parts
<1>3. DOMAIN listener' = DOMAIN listener
  BY DEF ListenersStay
<1>4. NotifiersFit'
  BY <1>2, <1>3 DEF Parts, NotifiersFit, Alike, OthersStay
<1>5. ConnsFit'
  <2> SUFFICES ASSUME NEW d \in Conns PROVE ConnsFit!(d)'
    BY DEF ConnsFit
  <2>1. CASE d = c
    BY <1>1, <1>2, <1>3, <2>1 DEF Parts, ConnsFit, Serves, Alike, Idle
  <2>2. CASE d # c
    BY <1>2, <1>3, <2>2 DEF Parts, ConnsFit, Serves, Alike, OthersStay
  <2> QED  BY <2>1, <2>2
<1>6. OperationsFit'
  <2>1. \A i \in DOMAIN StillWaiting : StillWaiting[i] \in Conns
    BY DEF Parts, TypeOK, StillWaiting
  <2> QED  BY <1>2, <1>3, <2>1 DEF Parts, OperationsFit, StillWaiting, Alike, OthersStay
<1> QED  BY <1>4, <1>5, <1>6

\* A listener is answered, and its connection goes on with nothing.
LEMMA Answering ==
    ASSUME Parts, NEW c \in Conns, conn' \in [Conns -> ConnRecord], OthersStay(c), conn'[c] = Idle,
           NEW l \in DOMAIN listener, Serves(l, c), ~listener[l].allowNotify,
           conn[c].pc # "blocked", Answers(l), UNCHANGED <<job, waiting>>
    PROVE  ConnsFit' /\ NotifiersFit' /\ OperationsFit' /\ CountsFit'
<1>1. /\ ListenersStay(l) /\ CountsAlike(listener'[l], listener[l])
      /\ listener'[l].cookie = listener[l].cookie /\ listener'[l].op = listener[l].op
      /\ listener'[l].live = listener[l].live /\ listener'[l].mutex = listener[l].mutex
      /\ listener'[l].allowNotify = listener[l].allowNotify
      /\ listener'[l].answer = "success" => listener[l].finished
  BY AnswersEffect DEF Parts
<1>2. /\ DOMAIN listener' = DOMAIN listener
      /\ \A m \in DOMAIN listener : m # l => listener'[m] = listener[m]
  BY <1>1 DEF ListenersStay
<1>3. \A m \in DOMAIN listener : /\ listener[m].cookie \in Conns
                                 /\ listener'[m].cookie = listener[m].cookie
                                 /\ listener'[m].allowNotify = listener[m].allowNotify
  BY <1>1, <1>2, ListenerTypes DEF Parts
<1>4. NotifiersFit'
  <2> SUFFICES ASSUME NEW m \in DOMAIN listener PROVE NotifiersFit!(m)'
    BY <1>2 DEF NotifiersFit
  <2>1. CASE m = l
    BY <1>1, <1>2, <2>1 DEF Parts, NotifiersFit
  <2>2. CASE m # l
    BY <1>2, <1>3, <2>2 DEF Parts, NotifiersFit, OthersStay
  <2> QED  BY <2>1, <2>2
<1>5. ConnsFit'
  <2> SUFFICES ASSUME NEW d \in Conns PROVE ConnsFit!(d)'
    BY DEF ConnsFit
  <2>1. CASE d = c
    BY <2>1 DEF Idle
  <2>2. CASE d # c
    <3>1. conn'[d] = conn[d] /\ ~Serves(l, d)
      BY <2>2 DEF OthersStay, Serves
    <3>2. \A m \in DOMAIN listener : Serves(m, d) => m # l
      BY <3>1
    <3> QED  BY <1>2, <3>1, <3>2 DEF Parts, ConnsFit, Serves
  <2> QED  BY <2>1, <2>2
<1>6. OperationsFit'
  <2>1. \A i \in DOMAIN StillWaiting : StillWaiting[i] \in Conns
    BY DEF Parts, TypeOK, StillWaiting
  <2>2. conn'[c].pc # "blocked"
    BY DEF Idle
  <2> QED  BY <1>2, <1>3, <2>1, <2>2 DEF Parts, OperationsFit, StillWaiting, OthersStay
<1>7. CountsFit'
  <2> SUFFICES ASSUME NEW m \in DOMAIN listener PROVE CountsFit!(m)'
    BY <1>2 DEF CountsFit
  <2>1. CASE m = l
    BY <1>1, <2>1 DEF Parts, CountsFit, CountsAlike
  <2>2. CASE m # l
    BY <1>2, <2>2 DEF Parts, CountsFit
  <2> QED  BY <2>1, <2>2
<1> QED  BY <1>4, <1>5, <1>6, <1>7

\* An operation enters pendingOps, which nobody is firing.
LEMMA Pushing ==
    ASSUME Parts, NEW c \in Conns, conn' \in [Conns -> ConnRecord], OthersStay(c),
           conn[c].pc = "push", conn'[c].pc = "blocked", conn'[c].specific = conn[c].specific,
           conn'[c].listener = 0, job.step # "wake", waiting' = Append(waiting, c),
           UNCHANGED <<listener, job>>
    PROVE  ConnsFit' /\ NotifiersFit' /\ OperationsFit' /\ CountsFit'
<1>1. CountsFit'
  BY DEF Parts, CountsFit
<1>2. \A l \in DOMAIN listener : listener[l].cookie \in Conns
  BY ListenerTypes DEF Parts
<1>3. conn[c].specific = 0 /\ conn[c].listener = 0
  BY DEF Parts, ConnsFit
<1>4. NotifiersFit'
  BY <1>2 DEF Parts, NotifiersFit, OthersStay
<1>5. ConnsFit'
  <2> SUFFICES ASSUME NEW d \in Conns PROVE ConnsFit!(d)'
    BY DEF ConnsFit
  <2>1. CASE d = c
    BY <1>3, <2>1 DEF Serves
  <2>2. CASE d # c
    BY <2>2 DEF Parts, ConnsFit, Serves, OthersStay
  <2> QED  BY <2>1, <2>2
<1>6. OperationsFit'
  <2>1. /\ waiting \in Seq(Conns) /\ waiting' \in Seq(Conns) /\ Len(waiting') = Len(waiting) + 1
        /\ waiting'[Len(waiting) + 1] = c
        /\ \A i \in DOMAIN waiting : waiting'[i] = waiting[i]
        /\ DOMAIN waiting = 1 .. Len(waiting) /\ DOMAIN waiting' = 1 .. (Len(waiting) + 1)
        /\ Len(waiting) \in Nat
    BY DEF Parts, TypeOK
  <2>2. StillWaiting = waiting /\ StillWaiting' = waiting'
    BY DEF StillWaiting
  <2>3. \A i \in DOMAIN waiting : waiting[i] \in Conns /\ waiting[i] # c
    BY <2>1, <2>2 DEF Parts, OperationsFit
  <2>4. \A i \in DOMAIN waiting' : i \in DOMAIN waiting \/ i = Len(waiting) + 1
    BY <2>1
  <2>5. \A i, j \in DOMAIN waiting' : waiting'[i] = waiting'[j] => i = j
    BY <2>1, <2>2, <2>3, <2>4 DEF Parts, OperationsFit
  <2>6. \A l \in DOMAIN listener : listener[l].cookie = c => ~listener[l].allowNotify
    BY DEF Parts, NotifiersFit
  <2>7. \A i \in DOMAIN waiting' :
          /\ conn'[waiting'[i]].pc = "blocked" /\ conn'[waiting'[i]].specific = 0
          /\ \A l \in DOMAIN listener : listener[l].cookie = waiting'[i] => ~listener[l].allowNotify
    BY <1>3, <2>1, <2>2, <2>3, <2>4, <2>6 DEF Parts, OperationsFit, OthersStay
  <2>8. \A d \in Conns : conn'[d].pc = "blocked" =>
           \/ \E i \in DOMAIN waiting' : waiting'[i] = d
           \/ \E l \in DOMAIN listener : listener[l].allowNotify /\ listener[l].cookie = d
    <3> SUFFICES ASSUME NEW d \in Conns, conn'[d].pc = "blocked"
                 PROVE  \/ \E i \in DOMAIN waiting' : waiting'[i] = d
                        \/ \E l \in DOMAIN listener : listener[l].allowNotify /\ listener[l].cookie = d
      OBVIOUS
    <3>1. CASE d = c
      BY <2>1, <3>1
    <3>2. CASE d # c
      <4>1. \A i \in DOMAIN waiting : i \in DOMAIN waiting'
        BY <2>1
      <4> QED  BY <2>1, <2>2, <3>2, <4>1 DEF Parts, OperationsFit, OthersStay
    <3> QED  BY <3>1, <3>2
  <2> QED  BY <2>2, <2>5, <2>7, <2>8 DEF OperationsFit
<1> QED  BY <1>1, <1>4, <1>5, <1>6

\* fireAllOps wakes the next operation.
LEMMA Firing ==
    ASSUME Parts, job.step = "wake", job.rest # <<>>, job'.step = "wake", job'.rest = Tail(job.rest),
           conn' \in [Conns -> ConnRecord], OthersStay(Head(job.rest)),
           conn'[Head(job.rest)].pc = "notified",
           conn'[Head(job.rest)].specific = conn[Head(job.rest)].specific,
           conn'[Head(job.rest)].listener = conn[Head(job.rest)].listener,
           UNCHANGED <<listener, waiting>>
    PROVE  ConnsFit' /\ NotifiersFit' /\ OperationsFit' /\ CountsFit'
<1> DEFINE c == Head(job.rest)
           rest == job.rest
<1>1. CountsFit'
  BY DEF Parts, CountsFit
<1>2. \A l \in DOMAIN listener : listener[l].cookie \in Conns
  BY ListenerTypes DEF Parts
<1>3. /\ rest \in Seq(Conns) /\ Len(rest) \in Nat /\ Len(rest) > 0 /\ c = rest[1]
      /\ DOMAIN rest = 1 .. Len(rest) /\ DOMAIN Tail(rest) = 1 .. (Len(rest) - 1)
      /\ \A i \in 1 .. (Len(rest) - 1) : Tail(rest)[i] = rest[i + 1]
  <2>1. rest \in Seq(Conns) /\ rest # <<>>
    BY DEF Parts, TypeOK
  <2> QED  BY <2>1
<1>4. StillWaiting = rest /\ StillWaiting' = Tail(rest)
  BY DEF StillWaiting
<1> HIDE DEF rest
<1>5. /\ c \in Conns /\ conn[c].pc = "blocked" /\ conn[c].specific = 0
      /\ \A l \in DOMAIN listener : listener[l].cookie = c => ~listener[l].allowNotify
  BY <1>3, <1>4 DEF Parts, OperationsFit
<1>6. NotifiersFit'
  <2> SUFFICES ASSUME NEW m \in DOMAIN listener PROVE NotifiersFit!(m)'
    BY DEF NotifiersFit
  <2>1. CASE listener[m].cookie = c
    BY <1>5, <2>1 DEF Parts, NotifiersFit
  <2>2. CASE listener[m].cookie # c
    BY <1>2, <2>2 DEF Parts, NotifiersFit, OthersStay
  <2> QED  BY <2>1, <2>2
<1>7. ConnsFit'
  <2> SUFFICES ASSUME NEW d \in Conns PROVE ConnsFit!(d)'
    BY DEF ConnsFit
  <2>1. CASE d = c
    <3>1. conn[c].listener = 0
      BY <1>5 DEF Parts, ConnsFit
    <3> QED  BY <1>5, <2>1, <3>1 DEF Parts, ConnsFit, Serves
  <2>2. CASE d # c
    BY <2>2 DEF Parts, ConnsFit, Serves, OthersStay
  <2> QED  BY <2>1, <2>2
<1>8. OperationsFit'
  <2>1. \A i \in DOMAIN rest : rest[i] \in Conns
    BY <1>3
  <2>2. \A i \in DOMAIN Tail(rest) : i + 1 \in DOMAIN rest /\ Tail(rest)[i] = rest[i + 1] /\ i + 1 # 1
    BY <1>3
  <2>3. \A i, j \in DOMAIN rest : rest[i] = rest[j] => i = j
    BY <1>4 DEF Parts, OperationsFit
  <2>4. \A i, j \in DOMAIN Tail(rest) : Tail(rest)[i] = Tail(rest)[j] => i = j
    <3> SUFFICES ASSUME NEW i \in DOMAIN Tail(rest), NEW j \in DOMAIN Tail(rest),
                        Tail(rest)[i] = Tail(rest)[j]
                 PROVE  i = j
      OBVIOUS
    <3>1. i + 1 = j + 1
      BY <2>2, <2>3
    <3> QED  BY <1>3, <3>1
  <2>5. \A i \in DOMAIN Tail(rest) : Tail(rest)[i] # c
    BY <1>3, <2>2, <2>3
  <2>6. \A i \in DOMAIN Tail(rest) :
          /\ conn'[Tail(rest)[i]].pc = "blocked" /\ conn'[Tail(rest)[i]].specific = 0
          /\ \A l \in DOMAIN listener :
               listener[l].cookie = Tail(rest)[i] => ~listener[l].allowNotify
    BY <1>4, <2>1, <2>2, <2>5 DEF Parts, OperationsFit, OthersStay
  <2>7. ASSUME NEW d \in Conns, conn'[d].pc = "blocked"
        PROVE  \/ \E i \in DOMAIN Tail(rest) : Tail(rest)[i] = d
               \/ \E l \in DOMAIN listener : listener[l].allowNotify /\ listener[l].cookie = d
    <3>1. d # c /\ conn[d].pc = "blocked"
      BY <2>7 DEF OthersStay
    <3>2. CASE \E i \in DOMAIN rest : rest[i] = d
      <4>1. PICK i \in DOMAIN rest : rest[i] = d
        BY <3>2
      <4>2. i - 1 \in DOMAIN Tail(rest) /\ Tail(rest)[i - 1] = rest[i]
        BY <1>3, <3>1, <4>1
      <4> QED  BY <4>1, <4>2
    <3>3. CASE ~ \E i \in DOMAIN rest : rest[i] = d
      BY <1>4, <3>1, <3>3 DEF Parts, OperationsFit
    <3> QED  BY <3>2, <3>3
  <2>8. \A i, j \in DOMAIN waiting : waiting[i] = waiting[j] => i = j
    BY DEF Parts, OperationsFit
  <2> QED  BY <1>4, <2>4, <2>6, <2>7, <2>8 DEF OperationsFit
<1> QED  BY <1>1, <1>6, <1>7, <1>8

Enables(l) == listener' = [listener EXCEPT ![l].allowNotify = TRUE]

\* maybeEnableNotifyIOComplete: the connection blocks and its listener may notify it.
LEMMA Enabling ==
    ASSUME Parts, NEW c \in Conns, conn' \in [Conns -> ConnRecord], OthersStay(c),
           conn[c].pc = "enable", conn'[c].pc = "blocked", conn'[c].specific = conn[c].specific,
           conn'[c].listener = 0,
           NEW l, l = conn[c].listener, listener[l].mutex = NoThread,
           Enables(l), UNCHANGED <<job, waiting>>
    PROVE  /\ ListenersStay(l) /\ listener'[l].live /\ listener'[l].op = listener[l].op
           /\ listener'[l].answer = listener[l].answer /\ listener'[l].mutex = listener[l].mutex
           /\ ConnsFit' /\ NotifiersFit' /\ OperationsFit' /\ CountsFit'
<1>1. /\ Serves(l, c) /\ l \in DOMAIN listener /\ listener[l].op = conn[c].cmd.op
      /\ ~listener[l].allowNotify /\ conn[c].specific = 0
  BY DEF Parts, ConnsFit, Serves
<1> DEFINE r == [listener[l] EXCEPT !.allowNotify = TRUE]
<1>2. listener[l] \in ListenerRecord
  BY <1>1, ListenerTypes DEF Parts
<1>3. /\ r \in ListenerRecord /\ r.allowNotify = TRUE /\ r.mutex = NoThread /\ r.cookie = c
      /\ r.op = listener[l].op /\ r.live = TRUE /\ r.answer = "none" /\ CountsAlike(r, listener[l])
  BY <1>1, <1>2 DEF ListenerRecord, CountsAlike, Serves
<1>4. listener' = [listener EXCEPT ![l] = r]
  BY DEF Enables
<1> HIDE DEF r
<1>5. ListenersStay(l) /\ listener'[l] = r
  BY <1>1, <1>3, <1>4, ListenerUpdate DEF Parts
<1>6. /\ DOMAIN listener' = DOMAIN listener
      /\ \A m \in DOMAIN listener : m # l => listener'[m] = listener[m]
  BY <1>5 DEF ListenersStay
<1>7. \A m \in DOMAIN listener : listener[m].cookie \in Conns /\ listener'[m].cookie = listener[m].cookie
  BY <1>1, <1>3, <1>5, <1>6, ListenerTypes DEF Parts, Serves
<1>8. \A m \in DOMAIN listener : listener[m].cookie = c => ~listener[m].allowNotify
  BY DEF Parts, NotifiersFit
<1>9. NotifiersFit'
  <2> SUFFICES ASSUME NEW m \in DOMAIN listener PROVE NotifiersFit!(m)'
    BY <1>6 DEF NotifiersFit
  <2>1. CASE m = l
    BY <1>3, <1>5, <1>6, <1>7, <1>8, <2>1
  <2>2. CASE m # l
    <3>1. listener'[m] = listener[m] /\ listener[m].cookie \in Conns
      BY <1>6, <1>7, <2>2
    <3>2. listener[m].cookie = c => listener[m].mutex = NoThread
      BY <1>8 DEF Parts, NotifiersFit
    <3>3. \A n \in DOMAIN listener : /\ listener'[n].allowNotify => n = l \/ listener[n].allowNotify
                                     /\ listener'[n].cookie = listener[n].cookie
      BY <1>6, <1>7
    <3> QED  BY <1>3, <1>5, <1>6, <1>8, <3>1, <3>2, <3>3 DEF Parts, NotifiersFit, OthersStay
  <2> QED  BY <2>1, <2>2
<1>10. ConnsFit'
  <2> SUFFICES ASSUME NEW d \in Conns PROVE ConnsFit!(d)'
    BY DEF ConnsFit
  <2>1. CASE d = c
    BY <1>1, <2>1 DEF Serves
  <2>2. CASE d # c
    <3>1. conn'[d] = conn[d] /\ ~Serves(l, d)
      BY <1>1, <2>2 DEF OthersStay, Serves
    <3>2. \A m \in DOMAIN listener : Serves(m, d) => m # l
      BY <3>1
    <3> QED  BY <1>6, <3>1, <3>2 DEF Parts, ConnsFit, Serves
  <2> QED  BY <2>1, <2>2
<1>11. OperationsFit'
  <2>1. \A i \in DOMAIN StillWaiting : StillWaiting[i] \in Conns
    BY DEF Parts, TypeOK, StillWaiting
  <2>2. \A i \in DOMAIN StillWaiting : StillWaiting[i] # c
    BY DEF Parts, OperationsFit
  <2>3. \A m \in DOMAIN listener : listener[m].cookie # c => listener'[m] = listener[m]
    BY <1>1, <1>6 DEF Serves
  <2>4. \A d \in Conns : conn'[d].pc = "blocked" =>
          \/ \E i \in DOMAIN StillWaiting : StillWaiting[i] = d
          \/ \E m \in DOMAIN listener : listener'[m].allowNotify /\ listener'[m].cookie = d
    BY <1>1, <1>3, <1>5, <1>7, <2>3 DEF Parts, OperationsFit, OthersStay
  <2>5. \A i \in DOMAIN StillWaiting :
          /\ conn'[StillWaiting[i]].pc = "blocked" /\ conn'[StillWaiting[i]].specific = 0
          /\ \A m \in DOMAIN listener :
               listener'[m].cookie = StillWaiting[i] => ~listener'[m].allowNotify
    BY <1>7, <2>1, <2>2, <2>3 DEF Parts, OperationsFit, OthersStay
  <2>6. StillWaiting' = StillWaiting
    BY DEF StillWaiting
  <2> QED  BY <1>6, <2>4, <2>5, <2>6 DEF Parts, OperationsFit
<1>12. CountsFit'
  <2> SUFFICES ASSUME NEW m \in DOMAIN listener PROVE CountsFit!(m)'
    BY <1>6 DEF CountsFit
  <2>1. CASE m = l
    BY <1>3, <1>5, <2>1 DEF Parts, CountsFit, CountsAlike
  <2>2. CASE m # l
    BY <1>6, <2>2 DEF Parts, CountsFit
  <2> QED  BY <2>1, <2>2
<1> QED  BY <1>1, <1>3, <1>5, <1>9, <1>10, <1>11, <1>12 DEF Serves

\* Nothing changes of what fireAllOps has still to wake.
FiringStays ==
    (job'.step = "wake" <=> job.step = "wake") /\ (job.step = "wake" => job'.rest = job.rest)

\* A thread takes a listener's mutex to notify its connection.
LEMMA Claiming ==
    ASSUME Parts, NEW l \in DOMAIN listener, listener[l].allowNotify, listener[l].mutex = NoThread,
           NEW t \in Threads, Claims(l, t), FiringStays, UNCHANGED waiting
    PROVE  /\ ListenersStay(l) /\ listener'[l].mutex = t /\ listener'[l].live = listener[l].live
           /\ listener'[l].op = listener[l].op /\ listener'[l].answer = listener[l].answer
           /\ conn' \in [Conns -> ConnRecord]
           /\ \A c \in Conns : conn'[c].pc = conn[c].pc
           /\ ConnsFit' /\ NotifiersFit' /\ OperationsFit' /\ CountsFit'
<1> PICK c \in Conns : c = listener[l].cookie
  BY ListenerTypes DEF Parts
<1> DEFINE r == [listener[l] EXCEPT !.mutex = t]
           q == [conn[c] EXCEPT !.specific = l]
<1>1. listener[l] \in ListenerRecord /\ l \in Nat /\ l # 0
  BY ListenerTypes DEF Parts
<1>2. /\ listener[l].live /\ listener[l].answer = "none" /\ conn[c].pc = "blocked"
      /\ \A m \in DOMAIN listener : listener[m].allowNotify /\ listener[m].cookie = c => m = l
  BY DEF Parts, NotifiersFit
<1>3. /\ r \in ListenerRecord /\ r.mutex = t /\ r.cookie = c /\ r.op = listener[l].op
      /\ r.allowNotify = listener[l].allowNotify /\ r.allowNotify = TRUE
      /\ r.live = listener[l].live /\ r.live = TRUE
      /\ r.answer = "none" /\ CountsAlike(r, listener[l])
  BY <1>1, <1>2 DEF ListenerRecord, CountsAlike
<1>4. conn \in [Conns -> ConnRecord] /\ conn[c] \in ConnRecord
  BY <1>1 DEF Parts, TypeOK
<1>5. /\ q \in ConnRecord /\ q.pc = "blocked" /\ q.specific = l /\ q.listener = conn[c].listener
  BY <1>1, <1>2, <1>4 DEF ConnRecord
<1>6. listener' = [listener EXCEPT ![l] = r] /\ conn' = [conn EXCEPT ![c] = q]
  BY DEF Claims
<1> HIDE DEF r, q
<1>7. ListenersStay(l) /\ listener'[l] = r
  BY <1>3, <1>6, ListenerUpdate DEF Parts
<1>8. /\ DOMAIN listener' = DOMAIN listener
      /\ \A m \in DOMAIN listener : m # l => listener'[m] = listener[m]
  BY <1>7 DEF ListenersStay
<1>9. conn' \in [Conns -> ConnRecord] /\ conn'[c] = q /\ OthersStay(c)
  BY <1>1, <1>4, <1>5, <1>6 DEF OthersStay
<1>10. \A d \in Conns : conn'[d].pc = conn[d].pc
  BY <1>2, <1>5, <1>9 DEF OthersStay
<1>11. \A m \in DOMAIN listener : /\ listener[m].cookie \in Conns
                                  /\ listener'[m].cookie = listener[m].cookie
                                  /\ listener'[m].allowNotify = listener[m].allowNotify
  BY <1>3, <1>7, <1>8, ListenerTypes DEF Parts
<1>12. NotifiersFit'
  <2> SUFFICES ASSUME NEW m \in DOMAIN listener PROVE NotifiersFit!(m)'
    BY <1>8 DEF NotifiersFit
  <2>1. CASE m = l
    BY <1>2, <1>3, <1>5, <1>7, <1>8, <1>9, <1>11, <2>1
  <2>2. CASE m # l
    <3>1. listener'[m] = listener[m]
      BY <1>8, <2>2
    <3>2. listener[m].mutex # NoThread => listener[m].cookie # c
      BY <1>2, <2>2 DEF Parts, NotifiersFit
    <3> QED  BY <1>8, <1>10, <1>11, <1>9, <3>1, <3>2 DEF Parts, NotifiersFit, OthersStay
  <2> QED  BY <2>1, <2>2
<1>13. ConnsFit'
  <2> SUFFICES ASSUME NEW d \in Conns PROVE ConnsFit!(d)'
    BY DEF ConnsFit
  <2>1. CASE d = c
    <3>1. conn[c].listener = 0
      BY <1>1, <1>2 DEF Parts, ConnsFit
    <3>2. Serves(l, c)'
      BY <1>3, <1>7, <1>8 DEF Serves
    <3>3. t # NoThread
      BY LockNames
    <3> QED  BY <1>3, <1>5, <1>7, <1>9, <2>1, <3>1, <3>2, <3>3
  <2>2. CASE d # c
    <3>1. conn'[d] = conn[d] /\ ~Serves(l, d)
      BY <1>9, <2>2 DEF OthersStay, Serves
    <3>2. \A m \in DOMAIN listener : Serves(m, d) => m # l
      BY <3>1
    <3> QED  BY <1>8, <3>1, <3>2 DEF Parts, ConnsFit, Serves
  <2> QED  BY <2>1, <2>2
<1>14. OperationsFit'
  <2>1. \A i \in DOMAIN StillWaiting : StillWaiting[i] \in Conns
    BY DEF Parts, TypeOK, StillWaiting
  <2>2. \A i \in DOMAIN StillWaiting : StillWaiting[i] # c
    BY DEF Parts, OperationsFit
  <2>3. StillWaiting' = StillWaiting
    BY DEF StillWaiting, FiringStays
  <2> QED  BY <1>8, <1>9, <1>10, <1>11, <2>1, <2>2, <2>3 DEF Parts, OperationsFit, OthersStay
<1>15. CountsFit'
  <2> SUFFICES ASSUME NEW m \in DOMAIN listener PROVE CountsFit!(m)'
    BY <1>8 DEF CountsFit
  <2>1. CASE m = l
    BY <1>2, <1>3, <1>7, <2>1 DEF Parts, CountsFit, CountsAlike
  <2>2. CASE m # l
    BY <1>8, <2>2 DEF Parts, CountsFit
  <2> QED  BY <2>1, <2>2
<1> QED  BY <1>2, <1>3, <1>7, <1>9, <1>10, <1>12, <1>13, <1>14, <1>15

\* The connection of a listener is woken, and the listener's mutex released.
LEMMA Waking ==
    ASSUME Parts, NEW l \in DOMAIN listener, listener[l].mutex # NoThread, Wakes(l),
           FiringStays, UNCHANGED waiting
    PROVE  /\ ListenersStay(l) /\ listener'[l].live = listener[l].live
           /\ listener'[l].op = listener[l].op /\ listener'[l].answer = listener[l].answer
           /\ conn' \in [Conns -> ConnRecord]
           /\ \A d \in Conns : conn'[d].pc = conn[d].pc
                                 \/ (conn[d].pc = "blocked" /\ conn'[d].pc = "notified")
           /\ ConnsFit' /\ NotifiersFit' /\ OperationsFit' /\ CountsFit'
<1> PICK c \in Conns : c = listener[l].cookie
  BY ListenerTypes DEF Parts
<1> DEFINE r == [listener[l] EXCEPT !.mutex = NoThread, !.allowNotify = FALSE]
<1>1. listener[l] \in ListenerRecord /\ l \in Nat /\ l # 0
  BY ListenerTypes DEF Parts
<1>2. /\ listener[l].allowNotify /\ listener[l].live /\ listener[l].answer = "none"
      /\ conn[c].pc = "blocked" /\ conn[c].specific = l
      /\ \A m \in DOMAIN listener : listener[m].allowNotify /\ listener[m].cookie = c => m = l
  BY DEF Parts, NotifiersFit
<1>3. /\ r \in ListenerRecord /\ r.mutex = NoThread /\ r.cookie = c /\ r.op = listener[l].op
      /\ r.allowNotify = FALSE /\ r.live = listener[l].live
      /\ r.answer = "none" /\ CountsAlike(r, listener[l])
  BY <1>1, <1>2 DEF ListenerRecord, CountsAlike
<1>4. listener' = [listener EXCEPT ![l] = r] /\ conn' = Woken(conn, c, "success")
  BY DEF Wakes
<1> HIDE DEF r
<1>5. ListenersStay(l) /\ listener'[l] = r
  BY <1>3, <1>4, ListenerUpdate DEF Parts
<1>6. /\ DOMAIN listener' = DOMAIN listener
      /\ \A m \in DOMAIN listener : m # l => listener'[m] = listener[m]
  BY <1>5 DEF ListenersStay
<1>7. /\ conn' \in [Conns -> ConnRecord] /\ OthersStay(c) /\ conn'[c].pc = "notified"
      /\ conn'[c].specific = l /\ conn'[c].listener = conn[c].listener
  BY <1>2, <1>4, WokenEffect DEF Parts
<1>8. \A m \in DOMAIN listener : /\ listener[m].cookie \in Conns
                                 /\ listener'[m].cookie = listener[m].cookie
                                 /\ m # l => listener'[m].allowNotify = listener[m].allowNotify
  BY <1>3, <1>5, <1>6, ListenerTypes DEF Parts
<1>9. NotifiersFit'
  <2> SUFFICES ASSUME NEW m \in DOMAIN listener PROVE NotifiersFit!(m)'
    BY <1>6 DEF NotifiersFit
  <2>1. CASE m = l
    BY <1>3, <1>5, <2>1
  <2>2. CASE m # l
    <3>1. listener'[m] = listener[m]
      BY <1>6, <2>2
    <3>2. listener[m].allowNotify => listener[m].cookie # c
      BY <1>2, <2>2
    <3>3. listener[m].mutex # NoThread => listener[m].allowNotify
      BY DEF Parts, NotifiersFit
    <3>4. \A n \in DOMAIN listener : /\ listener'[n].allowNotify => listener[n].allowNotify
                                     /\ listener'[n].cookie = listener[n].cookie
      BY <1>3, <1>5, <1>8
    <3> QED  BY <1>6, <1>7, <1>8, <3>1, <3>2, <3>3, <3>4 DEF Parts, NotifiersFit, OthersStay
  <2> QED  BY <2>1, <2>2
<1>10. ConnsFit'
  <2> SUFFICES ASSUME NEW d \in Conns PROVE ConnsFit!(d)'
    BY DEF ConnsFit
  <2>1. CASE d = c
    <3>1. conn[c].listener = 0
      BY <1>1, <1>2 DEF Parts, ConnsFit
    <3>2. Serves(l, c)'
      BY <1>2, <1>3, <1>5, <1>6 DEF Serves
    <3> QED  BY <1>7, <2>1, <3>1, <3>2
  <2>2. CASE d # c
    <3>1. conn'[d] = conn[d] /\ ~Serves(l, d)
      BY <1>7, <2>2 DEF OthersStay, Serves
    <3>2. \A m \in DOMAIN listener : Serves(m, d) => m # l
      BY <3>1
    <3> QED  BY <1>6, <3>1, <3>2 DEF Parts, ConnsFit, Serves
  <2> QED  BY <2>1, <2>2
<1>11. OperationsFit'
  <2>1. \A i \in DOMAIN StillWaiting : StillWaiting[i] \in Conns
    BY DEF Parts, TypeOK, StillWaiting
  <2>2. \A i \in DOMAIN StillWaiting : StillWaiting[i] # c
    BY <1>2 DEF Parts, OperationsFit
  <2>3. StillWaiting' = StillWaiting
    BY DEF StillWaiting, FiringStays
  <2>4. \A d \in Conns : conn'[d].pc = "blocked" =>
          \/ \E i \in DOMAIN StillWaiting : StillWaiting[i] = d
          \/ \E m \in DOMAIN listener : listener'[m].allowNotify /\ listener'[m].cookie = d
    <3> SUFFICES ASSUME NEW d \in Conns, conn'[d].pc = "blocked"
                 PROVE  \/ \E i \in DOMAIN StillWaiting : StillWaiting[i] = d
                        \/ \E m \in DOMAIN listener : listener'[m].allowNotify /\ listener'[m].cookie = d
      OBVIOUS
    <3>1. d # c /\ conn[d].pc = "blocked"
      BY <1>7 DEF OthersStay
    <3>2. CASE \E m \in DOMAIN listener : listener[m].allowNotify /\ listener[m].cookie = d
      <4>1. PICK m \in DOMAIN listener : listener[m].allowNotify /\ listener[m].cookie = d
        BY <3>2
      <4>2. m # l /\ listener'[m] = listener[m]
        BY <1>6, <3>1, <4>1
      <4> QED  BY <4>1, <4>2
    <3> QED  BY <3>1, <3>2 DEF Parts, OperationsFit
  <2>5. \A m \in DOMAIN listener : listener'[m].allowNotify => listener[m].allowNotify
    BY <1>3, <1>5, <1>8
  <2> QED  BY <1>6, <1>7, <1>8, <2>1, <2>2, <2>3, <2>4, <2>5 DEF Parts, OperationsFit, OthersStay
<1>12. CountsFit'
  <2> SUFFICES ASSUME NEW m \in DOMAIN listener PROVE CountsFit!(m)'
    BY <1>6 DEF CountsFit
  <2>1. CASE m = l
    BY <1>2, <1>3, <1>5, <2>1 DEF Parts, CountsFit, CountsAlike
  <2>2. CASE m # l
    BY <1>6, <2>2 DEF Parts, CountsFit
  <2> QED  BY <2>1, <2>2
<1>13. \A d \in Conns : conn'[d].pc = conn[d].pc
                          \/ (conn[d].pc = "blocked" /\ conn'[d].pc = "notified")
  <2>1. conn[c].pc = "blocked" /\ conn'[c].pc = "notified"
    BY <1>2, <1>7
  <2>2. \A d \in Conns : d # c => conn'[d].pc = conn[d].pc
    BY <1>7 DEF OthersStay
  <2> QED  BY <2>1, <2>2
<1> QED  BY <1>2, <1>3, <1>5, <1>7, <1>9, <1>10, <1>11, <1>12, <1>13

\* A listener is made, for a connection that is idle.
LEMMA AppendEffect ==
    ASSUME TypeOK, NEW r \in ListenerRecord, listener' = Append(listener, r)
    PROVE  LET l == Len(listener) + 1
           IN  /\ listener' \in Seq(ListenerRecord) /\ Len(listener') = l
               /\ DOMAIN listener' = DOMAIN listener \cup {l} /\ l \notin DOMAIN listener
               /\ l \in Nat /\ l # 0 /\ listener'[l] = r
               /\ \A m \in DOMAIN listener : listener'[m] = listener[m] /\ m # l
<1>1. listener \in Seq(ListenerRecord)
  BY DEF TypeOK
<1> QED  BY <1>1

LEMMA Making ==
    ASSUME Parts, NEW c \in Conns, conn' \in [Conns -> ConnRecord], OthersStay(c), conn[c] = Idle,
           NEW r \in ListenerRecord, listener' = Append(listener, r),
           r.cookie = c, r.live = TRUE, r.allowNotify = FALSE, r.mutex = NoThread,
           r.modified = {}, r.deleted = {}, r.replicated = {}, r.finished = FALSE,
           \/ conn'[c] = Idle /\ r.answer = "success" /\ r.keys = {}
           \/ /\ conn'[c].pc = "register" /\ conn'[c].specific = 0 /\ r.answer = "none"
              /\ conn'[c].cmd.op = r.op /\ conn'[c].listener = Len(listener) + 1,
           UNCHANGED <<job, waiting>>
    PROVE  ConnsFit' /\ NotifiersFit' /\ OperationsFit' /\ CountsFit'
<1> PICK l \in Nat : l = Len(listener) + 1
  BY AppendEffect DEF Parts
<1>1. /\ DOMAIN listener' = DOMAIN listener \cup {l} /\ l \notin DOMAIN listener
      /\ l # 0 /\ listener'[l] = r
      /\ \A m \in DOMAIN listener : listener'[m] = listener[m] /\ m # l
  BY AppendEffect DEF Parts
<1>2. \A m \in DOMAIN listener : listener[m].cookie \in Conns
  BY ListenerTypes DEF Parts
<1>3. conn'[c].pc # "blocked" /\ conn[c].pc # "blocked"
  BY DEF Idle
<1>4. NotifiersFit'
  <2> SUFFICES ASSUME NEW m \in DOMAIN listener' PROVE NotifiersFit!(m)'
    BY DEF NotifiersFit
  <2>1. CASE m = l
    BY <1>1, <2>1
  <2>2. CASE m # l
    <3>1. m \in DOMAIN listener /\ listener'[m] = listener[m]
      BY <1>1, <2>2
    <3>2. listener[m].cookie = c => ~listener[m].allowNotify /\ listener[m].mutex = NoThread
      BY <1>3, <3>1 DEF Parts, NotifiersFit
    <3>3. \A n \in DOMAIN listener' :
            listener'[n].allowNotify => n \in DOMAIN listener /\ listener'[n] = listener[n]
      BY <1>1
    <3> QED  BY <1>2, <3>1, <3>2, <3>3 DEF Parts, NotifiersFit, OthersStay
  <2> QED  BY <2>1, <2>2
<1>5. ConnsFit'
  <2> SUFFICES ASSUME NEW d \in Conns PROVE ConnsFit!(d)'
    BY DEF ConnsFit
  <2>1. CASE d = c
    BY <1>1, <2>1 DEF Serves, Idle
  <2>2. CASE d # c
    <3>1. conn'[d] = conn[d]
      BY <2>2 DEF OthersStay
    <3>2. \A m \in DOMAIN listener : listener'[m] = listener[m]
      BY <1>1
    <3>3. DOMAIN listener \subseteq DOMAIN listener'
      BY <1>1
    <3> QED  BY <3>1, <3>2, <3>3 DEF Parts, ConnsFit, Serves
  <2> QED  BY <2>1, <2>2
<1>6. OperationsFit'
  <2>1. \A i \in DOMAIN StillWaiting : StillWaiting[i] \in Conns /\ StillWaiting[i] # c
    BY <1>3 DEF Parts, TypeOK, StillWaiting, OperationsFit
  <2>2. StillWaiting' = StillWaiting
    BY DEF StillWaiting
  <2>3. \A n \in DOMAIN listener' :
          listener'[n].allowNotify => n \in DOMAIN listener /\ listener'[n] = listener[n]
    BY <1>1
  <2>4. \A i \in DOMAIN StillWaiting :
         /\ conn'[StillWaiting[i]].pc = "blocked" /\ conn'[StillWaiting[i]].specific = 0
         /\ \A n \in DOMAIN listener' :
              listener'[n].cookie = StillWaiting[i] => ~listener'[n].allowNotify
    BY <2>1, <2>3 DEF Parts, OperationsFit, OthersStay
  <2>5. \A d \in Conns : conn'[d].pc = "blocked" =>
          \/ \E i \in DOMAIN StillWaiting : StillWaiting[i] = d
          \/ \E n \in DOMAIN listener' : listener'[n].allowNotify /\ listener'[n].cookie = d
    BY <1>1, <1>3 DEF Parts, OperationsFit, OthersStay
  <2> QED  BY <2>2, <2>4, <2>5 DEF Parts, OperationsFit
<1>7. CountsFit'
  <2> SUFFICES ASSUME NEW m \in DOMAIN listener' PROVE CountsFit!(m)'
    BY DEF CountsFit
  <2>1. CASE m = l
    BY <1>1, <2>1
  <2>2. CASE m # l
    BY <1>1, <2>2 DEF Parts, CountsFit
  <2> QED  BY <2>1, <2>2
<1> QED  BY <1>4, <1>5, <1>6, <1>7

\* An answered listener is deleted.
LEMMA Deleting ==
    ASSUME Parts, NEW l \in tasks.destroy, UNCHANGED <<conn, job, waiting>>,
           NEW r \in ListenerRecord, r = Deleted(listener[l]), listener' = [listener EXCEPT ![l] = r]
    PROVE  /\ ListenersStay(l) /\ listener'[l].op = listener[l].op
           /\ ConnsFit' /\ NotifiersFit' /\ OperationsFit' /\ CountsFit'
<1>1. l \in DOMAIN listener /\ listener[l].live /\ listener[l].answer # "none"
  BY DEF Parts, TypeOK, ReferencesFit
<1>2. listener[l] \in ListenerRecord
  BY <1>1, ListenerTypes DEF Parts
<1>3. /\ r.cookie = listener[l].cookie /\ r.op = listener[l].op /\ r.live = FALSE
      /\ r.answer = listener[l].answer /\ r.mutex = listener[l].mutex
      /\ r.allowNotify = listener[l].allowNotify /\ r.finished = FALSE
      /\ r.modified = {} /\ r.deleted = {} /\ r.replicated = {} /\ r.keys = {}
  BY <1>2 DEF ListenerRecord, Deleted
<1>4. ListenersStay(l) /\ listener'[l] = r
  BY <1>1, ListenerUpdate DEF Parts
<1>5. /\ DOMAIN listener' = DOMAIN listener
      /\ \A m \in DOMAIN listener : m # l => listener'[m] = listener[m]
  BY <1>4 DEF ListenersStay
<1>6. \A m \in DOMAIN listener : /\ listener[m].cookie \in Conns
                                 /\ listener'[m].cookie = listener[m].cookie
                                 /\ listener'[m].allowNotify = listener[m].allowNotify
                                 /\ listener'[m].mutex = listener[m].mutex
  BY <1>3, <1>4, <1>5, ListenerTypes DEF Parts
<1>7. ~listener[l].allowNotify /\ listener[l].mutex = NoThread
  BY <1>1 DEF Parts, NotifiersFit
<1>8. NotifiersFit'
  <2> SUFFICES ASSUME NEW m \in DOMAIN listener PROVE NotifiersFit!(m)'
    BY <1>5 DEF NotifiersFit
  <2>1. CASE m = l
    BY <1>6, <1>7, <2>1
  <2>2. CASE m # l
    BY <1>5, <1>6, <2>2 DEF Parts, NotifiersFit
  <2> QED  BY <2>1, <2>2
<1>9. ConnsFit'
  <2> SUFFICES ASSUME NEW d \in Conns PROVE ConnsFit!(d)'
    BY DEF ConnsFit
  <2>1. ~Serves(l, d)
    BY <1>1 DEF Serves
  <2>2. \A m \in DOMAIN listener : Serves(m, d) => m # l
    BY <2>1
  <2> QED  BY <1>5, <2>1, <2>2 DEF Parts, ConnsFit, Serves
<1>10. OperationsFit'
  <2>1. StillWaiting' = StillWaiting
    BY DEF StillWaiting
  <2> QED  BY <1>5, <1>6, <2>1 DEF Parts, OperationsFit
<1>11. CountsFit'
  <2> SUFFICES ASSUME NEW m \in DOMAIN listener PROVE CountsFit!(m)'
    BY <1>5 DEF CountsFit
  <2>1. CASE m = l
    BY <1>3, <1>4, <2>1
  <2>2. CASE m # l
    BY <1>5, <2>2 DEF Parts, CountsFit
  <2> QED  BY <2>1, <2>2
<1> QED  BY <1>3, <1>4, <1>8, <1>9, <1>10, <1>11

-----------------------------------------------------------------------------
(* Kinds of steps: what they leave of locks, references and wakers *)

LEMMA LocksStay ==
    ASSUME Parts, UNCHANGED owner,
           \A c \in Conns : /\ conn'[c].pc \in Running <=> conn[c].pc \in Running
                            /\ conn'[c].pc = "push" <=> conn[c].pc = "push"
                            /\ conn'[c].pc = "walk" <=> conn[c].pc = "walk",
           \A t \in Walkers : walk'[t] = walk[t] \/ (walk[t].step # "none" /\ walk'[t].step # "none"),
           job'.step \in {"second", "wake"} <=> job.step \in {"second", "wake"}
    PROVE  LocksFit'
<1>1. Conns \subseteq Walkers
  BY LockNames
<1> QED  BY <1>1 DEF Parts, LocksFit

\* A worker takes its own mutex to go on with a command.
LEMMA LocksEnter ==
    ASSUME Parts, NEW c \in Conns, OthersStay(c), Free(Worker[c]),
           owner' = [owner EXCEPT ![Worker[c]] = c],
           conn[c].pc \notin Running, conn'[c].pc \in Running \ {"push", "walk"},
           UNCHANGED <<walk, job>>
    PROVE  LocksFit'
<1>1. /\ owner'[Worker[c]] = c /\ owner[Worker[c]] = NoThread
      /\ \A k \in Locks : k # Worker[c] => owner'[k] = owner[k]
  BY EnterEffect DEF Parts, Free
<1>2. \A k \in {"pendingOpLock", "mutationMutex", "replicationMutex"} : owner'[k] = owner[k]
  BY <1>1, LockNames
<1>3. \A t \in Walkers : owner'[Mutex(Kind(t))] = owner[Mutex(Kind(t))]
  BY <1>2, LockNames
<1>4. \A d \in Conns : d # c => (owner'[Worker[d]] = d <=> owner[Worker[d]] = d)
  BY <1>1, LockNames
<1>5. conn'[c].pc # "push" /\ conn'[c].pc # "walk" /\ conn[c].pc # "push" /\ conn[c].pc # "walk"
  BY DEF Running
<1>6. \A d \in Conns : LocksFit!1!(d)'
  <2> TAKE d \in Conns
  <2>1. CASE d = c
    BY <1>1, <1>2, <1>5, <2>1 DEF Parts, LocksFit
  <2>2. CASE d # c
    BY <1>2, <1>4, <2>2 DEF Parts, LocksFit, OthersStay
  <2> QED  BY <2>1, <2>2
<1>7. job'.step \in {"second", "wake"} <=> owner'["pendingOpLock"] = "dispatcher"
  BY <1>2 DEF Parts, LocksFit
<1>8. \A t \in Walkers : LocksFit!3!(t)'
  BY <1>3 DEF Parts, LocksFit
<1> QED  BY <1>6, <1>7, <1>8 DEF LocksFit

\* A worker lets go of its mutex.
LEMMA LocksLeave ==
    ASSUME Parts, NEW c \in Conns, OthersStay(c), Leave(c, {}),
           conn[c].pc \in Running \ {"push", "walk"}, conn'[c].pc \notin Running,
           UNCHANGED <<walk, job>>
    PROVE  LocksFit'
<1>1. /\ owner'[Worker[c]] = NoThread /\ owner[Worker[c]] = c
      /\ \A k \in Locks : k # Worker[c] => owner'[k] = owner[k]
  BY LeaveEffect, LockNames DEF Parts, LocksFit
<1>2. \A k \in {"pendingOpLock", "mutationMutex", "replicationMutex"} : owner'[k] = owner[k]
  BY <1>1, LockNames
<1>3. \A t \in Walkers : owner'[Mutex(Kind(t))] = owner[Mutex(Kind(t))]
  BY <1>2, LockNames
<1>4. \A d \in Conns : d # c => (owner'[Worker[d]] = d <=> owner[Worker[d]] = d)
  BY <1>1, LockNames
<1>5. conn'[c].pc # "push" /\ conn'[c].pc # "walk" /\ conn[c].pc # "push" /\ conn[c].pc # "walk"
  BY DEF Running
<1>6. \A d \in Conns : LocksFit!1!(d)'
  <2> TAKE d \in Conns
  <2>1. CASE d = c
    BY <1>1, <1>2, <1>5, <2>1, LockNames DEF Parts, LocksFit
  <2>2. CASE d # c
    BY <1>2, <1>4, <2>2 DEF Parts, LocksFit, OthersStay
  <2> QED  BY <2>1, <2>2
<1>7. job'.step \in {"second", "wake"} <=> owner'["pendingOpLock"] = "dispatcher"
  BY <1>2 DEF Parts, LocksFit
<1>8. \A t \in Walkers : LocksFit!3!(t)'
  BY <1>3 DEF Parts, LocksFit
<1> QED  BY <1>6, <1>7, <1>8 DEF LocksFit

\* A step that adds no reference, deletes no listener and takes no mutex away.
LEMMA ReferencesStay ==
    ASSUME Parts, DOMAIN listener \subseteq DOMAIN listener',
           \A m \in DOMAIN listener :
             /\ listener'[m].live = listener[m].live /\ listener'[m].op = listener[m].op
             /\ listener[m].answer # "none" => listener'[m].answer # "none"
             /\ listener[m].mutex # NoThread => listener'[m].mutex = listener[m].mutex,
           tasks'.abort = tasks.abort, tasks'.destroy = tasks.destroy, UNCHANGED <<registry, walk, job>>
    PROVE  ReferencesFit'
<1>1. /\ \A op \in DOMAIN registry : registry[op] \subseteq DOMAIN listener
      /\ tasks.abort \subseteq DOMAIN listener /\ tasks.destroy \subseteq DOMAIN listener
      /\ \A t \in Walkers : walk[t].todo \subseteq DOMAIN listener
  BY DEF Parts, TypeOK
<1>2. "dispatcher" # NoThread /\ \A t \in Walkers : t # NoThread
  BY LockNames, ClientAssumption
<1>3. \A op \in DOMAIN registry, l \in DOMAIN listener' :
        l \in registry[op] => listener'[l].live /\ listener'[l].op = op
  BY <1>1 DEF Parts, ReferencesFit
<1>4. /\ \A l \in tasks.abort : listener'[l].live
      /\ \A l \in tasks.destroy : listener'[l].live /\ listener'[l].answer # "none"
  BY <1>1 DEF Parts, ReferencesFit
<1>5. ASSUME NEW t \in Walkers
      PROVE  /\ \A l \in walk[t].todo : listener'[l].live /\ listener'[l].op = Kind(t)
             /\ walk[t].step \in {"claim", "wake"} =>
                  /\ walk[t].at \in DOMAIN listener'
                  /\ listener'[walk[t].at].live /\ listener'[walk[t].at].op = Kind(t)
             /\ walk[t].step = "wake" => listener'[walk[t].at].mutex = t
  BY <1>1, <1>2 DEF Parts, ReferencesFit
<1>6. /\ job.step \in {"abort", "abort_wake"} => job.at \in DOMAIN listener' /\ listener'[job.at].live
      /\ job.step = "abort_wake" => listener'[job.at].mutex = "dispatcher"
  BY <1>2 DEF Parts, ReferencesFit
<1> QED  BY <1>3, <1>4, <1>5, <1>6 DEF ReferencesFit

\* A step that neither changes the vbucket's state nor queues an operation.
LEMMA WakersStay ==
    ASSUME Parts, \A c \in Conns : conn'[c].pc = "push" => conn[c].pc = "push",
           tasks'.notify = tasks.notify, UNCHANGED <<state, changing, waiting>>,
           job.step \in {"second", "wake"} => job'.step \in {"second", "wake"}
    PROVE  PushHasWaker' /\ WaiterHasWaker'
BY DEF Parts, PushHasWaker, WaiterHasWaker

-----------------------------------------------------------------------------
(* The steps of the clients' operations *)

LEMMA PlainConn ==
    ASSUME Parts, NEW c \in Conns,
           \/ conn[c].pc \in {"idle", "add", "push", "apply", "event", "walk"}
           \/ conn[c].pc = "notified" /\ conn[c].specific = 0
    PROVE  Plain(conn[c])
BY DEF Parts, ConnsFit, Plain

\* A step of an operation that changes nothing of what blocked connections depend on.
LEMMA OperationStep ==
    ASSUME Parts, NEW c \in Conns, conn' \in [Conns -> ConnRecord], OthersStay(c),
           Plain(conn[c]), Plain(conn'[c]), TypeOK', LocksFit',
           conn'[c].pc = "push" => state = "pending",
           UNCHANGED <<listener, job, waiting, registry, walk, tasks, state, changing>>
    PROVE  Parts'
<1>1. ConnsFit' /\ NotifiersFit' /\ OperationsFit' /\ CountsFit'
  BY OperationMoves
<1>2. ReferencesFit'
  BY ReferencesStay
<1>3. PushHasWaker' /\ WaiterHasWaker'
  BY DEF Parts, PushHasWaker, WaiterHasWaker, OthersStay
<1> QED  BY <1>1, <1>2, <1>3 DEF Parts

LEMMA RequestParts ==
    ASSUME Parts, NEW c \in Conns, NEW cmd \in Commands(c), Request(c, cmd)
    PROVE  Parts'
<1>1. /\ conn[c].pc = "idle" /\ Free(Worker[c]) /\ requests' = requests + 1 /\ requests < MaxRequests
      /\ UNCHANGED <<state, changing, waiting, value, tapLog, tap, registry, walk, job, changes>>
  BY DEF Request
<1>2. conn[c] = Idle
  BY <1>1 DEF Parts, ConnsFit
<1>3. /\ cmd \in [op : {"none", "set", "delete", "sync_mutation", "sync_rep"}, keys : SUBSET Keys]
      /\ IsSync(cmd) => cmd.op \in {"sync_mutation", "sync_rep"}
  BY ClientAssumption DEF Commands, IsSync
<1>4. requests' \in 0 .. MaxRequests
  BY <1>1, ClientAssumption DEF Parts, TypeOK
<1>5. CASE ~IsSync(cmd)
  <2>1. CheckState(c, cmd) /\ UNCHANGED <<listener, tasks>>
    BY <1>5 DEF Request
  <2>2. /\ conn' \in [Conns -> ConnRecord] /\ OthersStay(c) /\ Plain(conn'[c])
        /\ \/ conn'[c].pc \in {"add", "apply"} /\ owner' = [owner EXCEPT ![Worker[c]] = c]
           \/ conn'[c].pc = "idle" /\ owner' = owner
    BY <1>2, <1>3, <2>1, CheckEffect DEF Parts, Idle
  <2>3. CASE conn'[c].pc \in {"add", "apply"} /\ owner' = [owner EXCEPT ![Worker[c]] = c]
    <3>1. LocksFit'
      BY <1>1, <2>2, <2>3, LocksEnter DEF Running
    <3>2. TypeOK'
      BY <1>1, <1>4, <2>1, <2>2, <2>3, EnterEffect DEF Parts, TypeOK
    <3> QED  BY <1>1, <1>2, <2>1, <2>2, <2>3, <3>1, <3>2, OperationStep, IdlePlain
  <2>4. CASE conn'[c].pc = "idle" /\ owner' = owner
    <3>1. LocksFit'
      <4>1. \A d \in Conns : conn'[d].pc = conn[d].pc
        BY <1>1, <2>2, <2>4 DEF OthersStay
      <4> QED  BY <1>1, <2>4, <4>1, LocksStay
    <3>2. TypeOK'
      BY <1>1, <1>4, <2>1, <2>2, <2>4 DEF Parts, TypeOK
    <3> QED  BY <1>1, <1>2, <2>1, <2>2, <2>4, <3>1, <3>2, OperationStep, IdlePlain
  <2> QED  BY <2>2, <2>3, <2>4
<1>6. CASE IsSync(cmd)
  <2>1. Lookup(c, cmd)
    BY <1>6 DEF Request
  <2> DEFINE keys == {k \in cmd.keys : value[k].exists}
             li   == Listener(c, cmd, keys)
             l    == Len(listener) + 1
  <2>2. /\ li \in ListenerRecord /\ li.cookie = c /\ li.op = cmd.op /\ li.keys = keys
        /\ li.modified = {} /\ li.deleted = {} /\ li.replicated = {} /\ li.finished = FALSE
        /\ li.allowNotify = FALSE /\ li.mutex = NoThread /\ li.live = TRUE /\ li.answer = "none"
    BY <1>3, <1>6 DEF Listener, ListenerRecord
  <2>3. Len(listener) < MaxSyncs
    BY <2>1 DEF Lookup
  <2>4. CASE keys = {}
    <3> DEFINE r == [li EXCEPT !.answer = "success"]
    <3>1. /\ r \in ListenerRecord /\ r.cookie = c /\ r.op = cmd.op /\ r.keys = {}
          /\ r.modified = {} /\ r.deleted = {} /\ r.replicated = {} /\ r.finished = FALSE
          /\ r.allowNotify = FALSE /\ r.mutex = NoThread /\ r.live = TRUE /\ r.answer = "success"
      BY <2>2, <2>4 DEF ListenerRecord
    <3>2. /\ listener' = Append(listener, r) /\ tasks' = [tasks EXCEPT !.destroy = @ \cup {l}]
          /\ Answer(c) /\ owner' = owner
      BY <2>1, <2>4 DEF Lookup
    <3> HIDE DEF r, li, keys, l
    <3>3. conn' \in [Conns -> ConnRecord] /\ OthersStay(c) /\ conn'[c] = Idle
      BY <3>2, AnswerEffect DEF Parts
    <3>4. ConnsFit' /\ NotifiersFit' /\ OperationsFit' /\ CountsFit'
      BY <1>1, <1>2, <3>1, <3>2, <3>3, Making
    <3>5. /\ listener' \in Seq(ListenerRecord) /\ Len(listener') = l
          /\ DOMAIN listener' = DOMAIN listener \cup {l} /\ l \notin DOMAIN listener
          /\ listener'[l] = r
          /\ \A m \in DOMAIN listener : listener'[m] = listener[m] /\ m # l
      BY <3>1, <3>2, AppendEffect DEF Parts, l
    <3>6. l <= MaxSyncs
      BY <2>3, ClientAssumption DEF Parts, TypeOK, l
    <3>7. /\ tasks' \in [notify : Nat, abort : SUBSET DOMAIN listener', destroy : SUBSET DOMAIN listener']
          /\ tasks'.notify = tasks.notify /\ tasks'.abort = tasks.abort
          /\ tasks'.destroy = tasks.destroy \cup {l}
      BY <3>2, <3>5 DEF Parts, TypeOK
    <3>8. TypeOK'
      BY <1>1, <1>4, <3>2, <3>3, <3>5, <3>6, <3>7 DEF Parts, TypeOK
    <3>9. \A d \in Conns : conn'[d] = conn[d]
      BY <1>2, <3>3 DEF OthersStay
    <3>10. LocksFit'
      BY <1>1, <3>2, <3>9, LocksStay
    <3>11. PushHasWaker' /\ WaiterHasWaker'
      BY <1>1, <3>7, <3>9, WakersStay
    <3>12. ReferencesFit'
      <4>1. /\ \A op \in DOMAIN registry : registry[op] \subseteq DOMAIN listener
            /\ tasks.abort \subseteq DOMAIN listener /\ tasks.destroy \subseteq DOMAIN listener
            /\ \A t \in Walkers : walk[t].todo \subseteq DOMAIN listener
        BY DEF Parts, TypeOK
      <4>2. \A op \in DOMAIN registry, m \in DOMAIN listener' :
              m \in registry[op] => listener'[m].live /\ listener'[m].op = op
        BY <3>5, <4>1 DEF Parts, ReferencesFit
      <4>3. /\ \A m \in tasks'.abort : listener'[m].live
            /\ \A m \in tasks'.destroy : listener'[m].live /\ listener'[m].answer # "none"
        BY <3>1, <3>5, <3>7, <4>1 DEF Parts, ReferencesFit
      <4>4. ASSUME NEW t \in Walkers
            PROVE  /\ \A m \in walk[t].todo : listener'[m].live /\ listener'[m].op = Kind(t)
                   /\ walk[t].step \in {"claim", "wake"} =>
                        /\ walk[t].at \in DOMAIN listener'
                        /\ listener'[walk[t].at].live /\ listener'[walk[t].at].op = Kind(t)
                   /\ walk[t].step = "wake" => listener'[walk[t].at].mutex = t
        BY <3>5, <4>1 DEF Parts, ReferencesFit
      <4>5. /\ job.step \in {"abort", "abort_wake"} =>
                 job.at \in DOMAIN listener' /\ listener'[job.at].live
            /\ job.step = "abort_wake" => listener'[job.at].mutex = "dispatcher"
        BY <3>5 DEF Parts, ReferencesFit
      <4> QED  BY <1>1, <4>2, <4>3, <4>4, <4>5 DEF ReferencesFit
    <3> QED  BY <3>4, <3>8, <3>10, <3>11, <3>12 DEF Parts
  <2>5. CASE keys # {}
    <3> DEFINE q == [conn[c] EXCEPT !.pc = "register", !.cmd = cmd, !.listener = l]
    <3>1. /\ listener' = Append(listener, li) /\ UNCHANGED tasks
          /\ conn' = [conn EXCEPT ![c] = q] /\ owner' = [owner EXCEPT ![Worker[c]] = c]
      BY <2>1, <2>5, <1>2 DEF Lookup
    <3>2. l \in Nat
      BY DEF Parts, TypeOK
    <3>3. /\ q \in ConnRecord /\ q.pc = "register" /\ q.cmd.op = cmd.op /\ q.listener = l
          /\ q.specific = 0
      <4>1. conn[c] \in ConnRecord /\ conn[c].specific = 0
        BY <1>2, IdleType DEF Idle
      <4> QED  BY <1>3, <3>2, <4>1 DEF ConnRecord, Running
    <3> HIDE DEF q, li, keys, l
    <3>4. conn' \in [Conns -> ConnRecord] /\ OthersStay(c) /\ conn'[c] = q
      BY <3>1, <3>3 DEF Parts, TypeOK, OthersStay
    <3>5. ConnsFit' /\ NotifiersFit' /\ OperationsFit' /\ CountsFit'
      BY <1>1, <1>2, <2>2, <3>1, <3>3, <3>4, Making DEF l
    <3>6. /\ listener' \in Seq(ListenerRecord) /\ Len(listener') = l
          /\ DOMAIN listener' = DOMAIN listener \cup {l}
          /\ \A m \in DOMAIN listener : listener'[m] = listener[m]
      BY <2>2, <3>1, AppendEffect DEF Parts, l
    <3>7. l <= MaxSyncs
      BY <2>3, ClientAssumption DEF Parts, TypeOK, l
    <3>8. TypeOK'
      <4>1. owner' \in [Locks -> Threads \cup {NoThread}]
        BY <3>1, EnterEffect DEF Parts
      <4>2. DOMAIN listener \subseteq DOMAIN listener'
        BY <3>6
      <4>3. /\ registry' \in [{"sync_mutation", "sync_rep"} -> SUBSET DOMAIN listener']
            /\ walk' \in [Walkers -> [step : {"none", "next", "claim", "wake"},
                                      todo : SUBSET DOMAIN listener', at : Nat]]
            /\ tasks' \in [notify : Nat, abort : SUBSET DOMAIN listener',
                            destroy : SUBSET DOMAIN listener']
        BY <1>1, <3>1, <4>2 DEF Parts, TypeOK
      <4> QED  BY <1>1, <1>4, <3>1, <3>4, <3>6, <3>7, <4>1, <4>3 DEF Parts, TypeOK
    <3>9. LocksFit'
      BY <1>1, <3>1, <3>3, <3>4, LocksEnter DEF Running
    <3>10. PushHasWaker' /\ WaiterHasWaker'
      <4>1. \A d \in Conns : conn'[d].pc = "push" => conn[d].pc = "push"
        BY <3>3, <3>4 DEF OthersStay
      <4> QED  BY <1>1, <3>1, <4>1, WakersStay
    <3>11. ReferencesFit'
      BY <1>1, <3>1, <3>6, ReferencesStay
    <3> QED  BY <3>5, <3>8, <3>9, <3>10, <3>11 DEF Parts
  <2> QED  BY <2>4, <2>5
<1> QED  BY <1>5, <1>6

\* A sequence without repetitions is no longer than its values are many.
LEMMA DistinctLength ==
    ASSUME NEW S, IsFiniteSet(S), NEW s \in Seq(S), \A i, j \in DOMAIN s : s[i] = s[j] => i = j
    PROVE  Len(s) <= Cardinality(S)
<1>1. s \in Injection(1 .. Len(s), S)
  BY DEF Injection, IsInjective
<1>2. Cardinality(1 .. Len(s)) <= Cardinality(S)
  BY <1>1, FS_Injection
<1>3. Len(s) \in Nat
  OBVIOUS
<1>4. Cardinality(1 .. Len(s)) = Len(s)
  BY <1>3, FS_Interval
<1> QED  BY <1>2, <1>4

\* A listener that is answered is then to be destroyed.
LEMMA AnswerReferences ==
    ASSUME Parts, NEW l \in DOMAIN listener, listener[l].live, Answers(l),
           UNCHANGED <<registry, walk, job>>
    PROVE  /\ ReferencesFit'
           /\ tasks' \in [notify : Nat, abort : SUBSET DOMAIN listener', destroy : SUBSET DOMAIN listener']
           /\ tasks'.notify = tasks.notify
           /\ listener' \in Seq(ListenerRecord) /\ Len(listener') = Len(listener)
           /\ DOMAIN listener' = DOMAIN listener
<1>1. /\ ListenersStay(l)
      /\ listener'[l].op = listener[l].op /\ listener'[l].live = listener[l].live
      /\ listener'[l].mutex = listener[l].mutex /\ listener'[l].answer # "none"
      /\ tasks' = [tasks EXCEPT !.destroy = @ \cup {l}]
  BY AnswersEffect DEF Parts
<1>2. /\ DOMAIN listener' = DOMAIN listener
      /\ listener' \in Seq(ListenerRecord) /\ Len(listener') = Len(listener)
      /\ \A m \in DOMAIN listener : /\ listener'[m].live = listener[m].live
                                    /\ listener'[m].op = listener[m].op
                                    /\ listener'[m].mutex = listener[m].mutex
                                    /\ listener[m].answer # "none" => listener'[m].answer # "none"
  BY <1>1 DEF ListenersStay
<1>3. /\ tasks' \in [notify : Nat, abort : SUBSET DOMAIN listener, destroy : SUBSET DOMAIN listener]
      /\ tasks'.notify = tasks.notify /\ tasks'.abort = tasks.abort
      /\ tasks'.destroy = tasks.destroy \cup {l}
  BY <1>1 DEF Parts, TypeOK
<1>4. /\ \A op \in DOMAIN registry : registry[op] \subseteq DOMAIN listener
      /\ tasks.abort \subseteq DOMAIN listener /\ tasks.destroy \subseteq DOMAIN listener
      /\ \A t \in Walkers : walk[t].todo \subseteq DOMAIN listener
  BY DEF Parts, TypeOK
<1>5. \A op \in DOMAIN registry, m \in DOMAIN listener' :
        m \in registry[op] => listener'[m].live /\ listener'[m].op = op
  BY <1>2, <1>4 DEF Parts, ReferencesFit
<1>6. /\ \A m \in tasks'.abort : listener'[m].live
      /\ \A m \in tasks'.destroy : listener'[m].live /\ listener'[m].answer # "none"
  BY <1>1, <1>2, <1>3, <1>4 DEF Parts, ReferencesFit
<1>7. ASSUME NEW t \in Walkers
      PROVE  /\ \A m \in walk[t].todo : listener'[m].live /\ listener'[m].op = Kind(t)
             /\ walk[t].step \in {"claim", "wake"} =>
                  /\ walk[t].at \in DOMAIN listener'
                  /\ listener'[walk[t].at].live /\ listener'[walk[t].at].op = Kind(t)
             /\ walk[t].step = "wake" => listener'[walk[t].at].mutex = t
  BY <1>2, <1>4 DEF Parts, ReferencesFit
<1>8. /\ job.step \in {"abort", "abort_wake"} => job.at \in DOMAIN listener' /\ listener'[job.at].live
      /\ job.step = "abort_wake" => listener'[job.at].mutex = "dispatcher"
  BY <1>2 DEF Parts, ReferencesFit
<1>9. ReferencesFit'
  BY <1>5, <1>6, <1>7, <1>8 DEF ReferencesFit
<1> QED  BY <1>2, <1>3, <1>9

LEMMA ResumeParts ==
    ASSUME Parts, NEW c \in Conns, Resume(c)
    PROVE  Parts'
<1> DEFINE l == conn[c].specific
<1>1. /\ conn[c].pc = "notified" /\ Free(Worker[c])
      /\ UNCHANGED <<state, changing, waiting, value, tapLog, tap, registry, walk, job, requests, changes>>
  BY DEF Resume
<1>2. CASE l # 0
  <2>1. Answer(c) /\ Answers(l) /\ owner' = owner
    BY <1>2 DEF Resume
  <2>2. l \in DOMAIN listener /\ listener[l].live /\ Serves(l, c)
    BY <1>2 DEF Parts, ConnsFit, Serves
  <2>3. ~listener[l].allowNotify
    BY <1>1, <2>2 DEF Parts, NotifiersFit, Serves
  <2>4. conn' \in [Conns -> ConnRecord] /\ OthersStay(c) /\ conn'[c] = Idle
    BY <2>1, AnswerEffect DEF Parts
  <2> HIDE DEF l
  <2>5. ConnsFit' /\ NotifiersFit' /\ OperationsFit' /\ CountsFit'
    BY <1>1, <2>1, <2>2, <2>3, <2>4, Answering
  <2>6. /\ ReferencesFit'
        /\ tasks' \in [notify : Nat, abort : SUBSET DOMAIN listener', destroy : SUBSET DOMAIN listener']
        /\ tasks'.notify = tasks.notify
        /\ listener' \in Seq(ListenerRecord) /\ Len(listener') = Len(listener)
        /\ DOMAIN listener' = DOMAIN listener
    BY <1>1, <2>1, <2>2, AnswerReferences
  <2>7. TypeOK'
    BY <1>1, <2>1, <2>4, <2>6 DEF Parts, TypeOK
  <2>8. \A d \in Conns : /\ conn'[d].pc \in Running <=> conn[d].pc \in Running
                         /\ conn'[d].pc = "push" <=> conn[d].pc = "push"
                         /\ conn'[d].pc = "walk" <=> conn[d].pc = "walk"
    BY <1>1, <2>4 DEF OthersStay, Idle, Running
  <2>9. LocksFit'
    BY <1>1, <2>1, <2>8, LocksStay
  <2>10. PushHasWaker' /\ WaiterHasWaker'
    BY <1>1, <2>6, <2>8, WakersStay
  <2> QED  BY <2>5, <2>6, <2>7, <2>9, <2>10 DEF Parts
<1>3. CASE l = 0
  <2>1. UNCHANGED <<listener, tasks>>
    BY <1>3 DEF Resume
  <2>2. Plain(conn[c])
    BY <1>1, <1>3, PlainConn
  <2>3. CASE conn[c].status = "success"
    <3>1. CheckState(c, conn[c].cmd)
      BY <1>3, <2>3 DEF Resume
    <3>2. /\ conn' \in [Conns -> ConnRecord] /\ OthersStay(c) /\ Plain(conn'[c])
          /\ \/ conn'[c].pc \in {"add", "apply"} /\ owner' = [owner EXCEPT ![Worker[c]] = c]
             \/ conn'[c].pc = "idle" /\ owner' = owner
      <4>1. conn[c].cmd \in [op : {"none", "set", "delete", "sync_mutation", "sync_rep"},
                             keys : SUBSET Keys]
        BY ConnTypes DEF Parts, ConnRecord
      <4> QED  BY <2>2, <3>1, <4>1, CheckEffect DEF Parts, Plain
    <3>3. CASE conn'[c].pc \in {"add", "apply"} /\ owner' = [owner EXCEPT ![Worker[c]] = c]
      <4>1. LocksFit'
        BY <1>1, <3>2, <3>3, LocksEnter DEF Running
      <4>2. TypeOK'
        BY <1>1, <2>1, <3>2, <3>3, EnterEffect DEF Parts, TypeOK
      <4> QED  BY <1>1, <2>1, <2>2, <3>2, <3>3, <4>1, <4>2, OperationStep
    <3>4. CASE conn'[c].pc = "idle" /\ owner' = owner
      <4>1. \A d \in Conns : /\ conn'[d].pc \in Running <=> conn[d].pc \in Running
                             /\ conn'[d].pc = "push" <=> conn[d].pc = "push"
                             /\ conn'[d].pc = "walk" <=> conn[d].pc = "walk"
        BY <1>1, <3>2, <3>4 DEF OthersStay, Running
      <4>2. LocksFit'
        BY <1>1, <3>4, <4>1, LocksStay
      <4>3. TypeOK'
        BY <1>1, <2>1, <3>2, <3>4 DEF Parts, TypeOK
      <4> QED  BY <1>1, <2>1, <2>2, <3>2, <3>4, <4>2, <4>3, OperationStep
    <3> QED  BY <3>2, <3>3, <3>4
  <2>4. CASE conn[c].status # "success"
    <3>1. Answer(c) /\ owner' = owner
      BY <1>3, <2>4 DEF Resume
    <3>2. conn' \in [Conns -> ConnRecord] /\ OthersStay(c) /\ conn'[c] = Idle
      BY <3>1, AnswerEffect DEF Parts
    <3>3. \A d \in Conns : /\ conn'[d].pc \in Running <=> conn[d].pc \in Running
                           /\ conn'[d].pc = "push" <=> conn[d].pc = "push"
                           /\ conn'[d].pc = "walk" <=> conn[d].pc = "walk"
      BY <1>1, <3>2, IdlePlain DEF OthersStay, Running
    <3>4. LocksFit'
      BY <1>1, <3>1, <3>3, LocksStay
    <3>5. TypeOK'
      BY <1>1, <2>1, <3>1, <3>2 DEF Parts, TypeOK
    <3> QED  BY <1>1, <2>1, <2>2, <3>2, <3>4, <3>5, OperationStep, IdlePlain
  <2> QED  BY <2>3, <2>4
<1> QED  BY <1>2, <1>3

LEMMA AddPendingOpParts ==
    ASSUME Parts, NEW c \in Conns, AddPendingOp(c)
    PROVE  Parts'
<1>1. /\ conn[c].pc = "add" /\ Free("pendingOpLock")
      /\ UNCHANGED <<state, changing, waiting, value, tapLog, tap, listener, registry,
                     walk, tasks, job, requests, changes>>
  BY DEF AddPendingOp
<1>2. Plain(conn[c])
  BY <1>1, PlainConn
<1>3. CASE state # "pending"
  <2>1. Goto(c, "apply") /\ owner' = owner
    BY <1>3 DEF AddPendingOp
  <2>2. /\ conn' \in [Conns -> ConnRecord] /\ OthersStay(c) /\ conn'[c].pc = "apply"
        /\ conn'[c].specific = conn[c].specific /\ conn'[c].listener = conn[c].listener
    BY <2>1, GotoEffect DEF Parts, Pcs, Running
  <2>3. \A d \in Conns : /\ conn'[d].pc \in Running <=> conn[d].pc \in Running
                         /\ conn'[d].pc = "push" <=> conn[d].pc = "push"
                         /\ conn'[d].pc = "walk" <=> conn[d].pc = "walk"
    BY <1>1, <2>2 DEF OthersStay, Running
  <2>4. LocksFit'
    BY <1>1, <2>1, <2>3, LocksStay
  <2>5. TypeOK'
    BY <1>1, <2>1, <2>2 DEF Parts, TypeOK
  <2>6. Plain(conn'[c])
    BY <1>2, <2>2 DEF Plain
  <2> QED  BY <1>1, <1>2, <2>2, <2>4, <2>5, <2>6, OperationStep
<1>4. CASE state = "pending"
  <2>1. Goto(c, "push") /\ owner' = [owner EXCEPT !["pendingOpLock"] = c]
    BY <1>4 DEF AddPendingOp
  <2>2. /\ conn' \in [Conns -> ConnRecord] /\ OthersStay(c) /\ conn'[c].pc = "push"
        /\ conn'[c].specific = conn[c].specific /\ conn'[c].listener = conn[c].listener
    BY <2>1, GotoEffect DEF Parts, Pcs, Running
  <2>3. /\ owner' \in [Locks -> Threads \cup {NoThread}] /\ owner'["pendingOpLock"] = c
        /\ \A k \in Locks : k # "pendingOpLock" => owner'[k] = owner[k]
    BY <2>1, LockNames DEF Parts, TypeOK
  <2>4. LocksFit'
    <3>1. \A d \in Conns : owner'[Worker[d]] = owner[Worker[d]]
      BY <2>3, LockNames
    <3>2. \A t \in Walkers : owner'[Mutex(Kind(t))] = owner[Mutex(Kind(t))]
      BY <2>3, LockNames
    <3>3. \A d \in Conns : LocksFit!1!(d)'
      <4> TAKE d \in Conns
      <4>1. CASE d = c
        BY <1>1, <2>2, <2>3, <3>1, <4>1 DEF Parts, LocksFit, Running
      <4>2. CASE d # c
        BY <1>1, <2>2, <2>3, <3>1, <4>2, LockNames DEF Parts, LocksFit, OthersStay, Free
      <4> QED  BY <4>1, <4>2
    <3>4. job'.step \in {"second", "wake"} <=> owner'["pendingOpLock"] = "dispatcher"
      BY <1>1, <2>3, LockNames, ClientAssumption DEF Parts, LocksFit, Free
    <3>5. \A t \in Walkers : LocksFit!3!(t)'
      BY <1>1, <3>2 DEF Parts, LocksFit
    <3> QED  BY <3>3, <3>4, <3>5 DEF LocksFit
  <2>5. TypeOK'
    BY <1>1, <2>2, <2>3 DEF Parts, TypeOK
  <2>6. Plain(conn'[c])
    BY <1>2, <2>2 DEF Plain
  <2> QED  BY <1>1, <1>2, <1>4, <2>2, <2>4, <2>5, <2>6, OperationStep
<1> QED  BY <1>3, <1>4

LEMMA PushPendingOpParts ==
    ASSUME Parts, NEW c \in Conns, PushPendingOp(c)
    PROVE  Parts'
<1>1. /\ conn[c].pc = "push" /\ waiting' = Append(waiting, c) /\ Block(c)
      /\ Leave(c, {"pendingOpLock"})
      /\ UNCHANGED <<state, changing, value, tapLog, tap, listener, registry, walk, tasks,
                     job, requests, changes>>
  BY DEF PushPendingOp
<1>2. /\ conn' \in [Conns -> ConnRecord] /\ OthersStay(c) /\ conn'[c].pc = "blocked"
      /\ conn'[c].specific = conn[c].specific /\ conn'[c].listener = 0
  BY <1>1, BlockEffect DEF Parts
<1>3. owner["pendingOpLock"] = c /\ owner[Worker[c]] = c
  BY <1>1 DEF Parts, LocksFit, Running
<1>4. job.step \notin {"second", "wake"}
  BY <1>3, LockNames DEF Parts, LocksFit
<1>5. ConnsFit' /\ NotifiersFit' /\ OperationsFit' /\ CountsFit'
  BY <1>1, <1>2, <1>4, Pushing
<1>6. /\ owner' \in [Locks -> Threads \cup {NoThread}]
      /\ owner'["pendingOpLock"] = NoThread /\ owner'[Worker[c]] = NoThread
      /\ \A k \in Locks : k # Worker[c] /\ k # "pendingOpLock" => owner'[k] = owner[k]
  BY <1>1, LeaveEffect, LockNames DEF Parts
<1>7. TypeOK'
  <2>1. waiting' \in Seq(Conns)
    BY <1>1 DEF Parts, TypeOK
  <2>2. \A i, j \in DOMAIN waiting' : waiting'[i] = waiting'[j] => i = j
    BY <1>5 DEF OperationsFit
  <2>3. Len(waiting') <= Cardinality(Conns)
    BY <2>1, <2>2, DistinctLength, ClientAssumption
  <2> QED  BY <1>1, <1>2, <1>6, <2>1, <2>3 DEF Parts, TypeOK
<1>8. LocksFit'
  <2>1. \A d \in Conns : d # c => (owner'[Worker[d]] = d <=> owner[Worker[d]] = d)
    BY <1>3, <1>6, LockNames
  <2>2. \A t \in Walkers : owner'[Mutex(Kind(t))] = owner[Mutex(Kind(t))]
    BY <1>6, LockNames
  <2>3. \A d \in Conns : LocksFit!1!(d)'
    <3> TAKE d \in Conns
    <3>1. CASE d = c
      <4>1. walk[d].step = "none"
        BY <1>1, <3>1 DEF Parts, LocksFit
      <4> QED  BY <1>1, <1>2, <1>6, <3>1, <4>1, LockNames DEF Running
    <3>2. CASE d # c
      BY <1>1, <1>2, <1>3, <1>6, <2>1, <3>2, LockNames DEF Parts, LocksFit, OthersStay
    <3> QED  BY <3>1, <3>2
  <2>4. job'.step \in {"second", "wake"} <=> owner'["pendingOpLock"] = "dispatcher"
    BY <1>1, <1>4, <1>6, LockNames, ClientAssumption
  <2>5. \A t \in Walkers : LocksFit!3!(t)'
    BY <1>1, <2>2 DEF Parts, LocksFit
  <2> QED  BY <2>3, <2>4, <2>5 DEF LocksFit
<1>9. ReferencesFit'
  BY <1>1, ReferencesStay
<1>10. state # "pending" => changing \/ tasks.notify > 0
  BY <1>1 DEF Parts, PushHasWaker
<1>11. PushHasWaker' /\ WaiterHasWaker'
  BY <1>1, <1>10 DEF PushHasWaker, WaiterHasWaker
<1> QED  BY <1>5, <1>7, <1>8, <1>9, <1>11 DEF Parts

LEMMA ApplyParts ==
    ASSUME Parts, NEW c \in Conns, Apply(c)
    PROVE  Parts'
<1>1. /\ conn[c].pc = "apply"
      /\ UNCHANGED <<state, changing, waiting, tap, listener, registry, walk, tasks, job,
                     requests, changes>>
  BY DEF Apply
<1>2. Plain(conn[c])
  BY <1>1, PlainConn
<1>3. CASE Goto(c, "event") /\ owner' = owner
  <2>1. /\ conn' \in [Conns -> ConnRecord] /\ OthersStay(c) /\ conn'[c].pc = "event"
        /\ conn'[c].specific = conn[c].specific /\ conn'[c].listener = conn[c].listener
    BY <1>3, GotoEffect DEF Parts, Pcs, Running
  <2>2. \A d \in Conns : /\ conn'[d].pc \in Running <=> conn[d].pc \in Running
                         /\ conn'[d].pc = "push" <=> conn[d].pc = "push"
                         /\ conn'[d].pc = "walk" <=> conn[d].pc = "walk"
    BY <1>1, <2>1 DEF OthersStay, Running
  <2>3. LocksFit'
    BY <1>1, <1>3, <2>2, LocksStay
  <2>4. TypeOK'
    BY <1>1, <1>3, <2>1 DEF Parts, TypeOK
  <2>5. Plain(conn'[c])
    BY <1>2, <2>1 DEF Plain
  <2> QED  BY <1>1, <1>2, <2>1, <2>3, <2>4, <2>5, OperationStep
<1>4. CASE Answer(c) /\ Leave(c, {})
  <2>1. conn' \in [Conns -> ConnRecord] /\ OthersStay(c) /\ conn'[c] = Idle
    BY <1>4, AnswerEffect DEF Parts
  <2>2. LocksFit'
    <3>1. conn'[c].pc \notin Running /\ conn[c].pc \in Running \ {"push", "walk"}
      BY <1>1, <2>1, IdlePlain DEF Running
    <3> QED  BY <1>1, <1>4, <2>1, <3>1, LocksLeave
  <2>3. owner' \in [Locks -> Threads \cup {NoThread}]
    BY <1>4, LeaveEffect DEF Parts
  <2>4. TypeOK'
    BY <1>1, <2>1, <2>3 DEF Parts, TypeOK
  <2>5. Plain(conn'[c]) /\ conn'[c].pc = "idle"
    BY <2>1, IdlePlain
  <2> QED  BY <1>1, <1>2, <2>1, <2>2, <2>4, <2>5, OperationStep
<1> QED  BY <1>3, <1>4 DEF Apply

-----------------------------------------------------------------------------
(* The steps of a SYNC *)

\* A listener of c that is being registered.
LEMMA Registrant ==
    ASSUME Parts, NEW c \in Conns, conn[c].pc \in {"register", "tell", "enable"}
    PROVE  /\ conn[c].listener \in DOMAIN listener /\ Serves(conn[c].listener, c)
           /\ listener[conn[c].listener].live /\ listener[conn[c].listener].answer = "none"
           /\ listener[conn[c].listener].op = conn[c].cmd.op
           /\ ~listener[conn[c].listener].allowNotify /\ conn[c].specific = 0
           /\ conn[c].cmd.op \in {"sync_mutation", "sync_rep"}
<1>1. /\ conn[c].listener \in DOMAIN listener /\ Serves(conn[c].listener, c)
      /\ listener[conn[c].listener].live /\ listener[conn[c].listener].answer = "none"
      /\ listener[conn[c].listener].op = conn[c].cmd.op
      /\ ~listener[conn[c].listener].allowNotify /\ conn[c].specific = 0
  BY DEF Parts, ConnsFit, Serves
<1>2. listener[conn[c].listener].op \in {"sync_mutation", "sync_rep"}
  BY <1>1, ListenerTypes DEF Parts
<1> QED  BY <1>1, <1>2

LEMMA RegisterParts ==
    ASSUME Parts, NEW c \in Conns, Register(c)
    PROVE  Parts'
<1> DEFINE op == conn[c].cmd.op
           l  == conn[c].listener
           pc == IF op = "sync_rep" THEN "tell" ELSE "enable"
<1>1. /\ conn[c].pc = "register" /\ Goto(c, pc) /\ registry' = [registry EXCEPT ![op] = @ \cup {l}]
      /\ UNCHANGED <<state, changing, waiting, value, tapLog, tap, listener, walk, tasks,
                     job, owner, requests, changes>>
  BY DEF Register
<1>2. /\ l \in DOMAIN listener /\ listener[l].live /\ listener[l].op = op
      /\ op \in {"sync_mutation", "sync_rep"}
  BY <1>1, Registrant
<1>3. pc \in Pcs /\ pc \in {"register", "tell", "enable"}
  BY DEF Pcs, Running
<1>4. /\ conn' \in [Conns -> ConnRecord] /\ OthersStay(c) /\ conn'[c].pc = pc
      /\ conn'[c].cmd = conn[c].cmd
      /\ conn'[c].specific = conn[c].specific /\ conn'[c].listener = l
  BY <1>1, <1>3, GotoEffect DEF Parts
<1>5. ListenersStay(l) /\ Alike(listener'[l], listener[l])
  BY <1>1, <1>2 DEF Parts, TypeOK, ListenersStay, Alike
<1>6. ConnsFit' /\ NotifiersFit' /\ OperationsFit'
  BY <1>1, <1>3, <1>4, <1>5, RegistrantMoves
<1>7. CountsFit'
  BY <1>1 DEF Parts, CountsFit
<1>8. \A d \in Conns : /\ conn'[d].pc \in Running <=> conn[d].pc \in Running
                       /\ conn'[d].pc = "push" <=> conn[d].pc = "push"
                       /\ conn'[d].pc = "walk" <=> conn[d].pc = "walk"
  BY <1>1, <1>3, <1>4 DEF OthersStay, Running
<1>9. LocksFit'
  BY <1>1, <1>8, LocksStay
<1>10. PushHasWaker' /\ WaiterHasWaker'
  BY <1>1, <1>8, WakersStay
<1> HIDE DEF op, l, pc
<1>11. /\ registry' \in [{"sync_mutation", "sync_rep"} -> SUBSET DOMAIN listener]
       /\ registry'[op] = registry[op] \cup {l}
       /\ \A o \in {"sync_mutation", "sync_rep"} : o # op => registry'[o] = registry[o]
  BY <1>1, <1>2 DEF Parts, TypeOK
<1>12. TypeOK'
  BY <1>1, <1>4, <1>11 DEF Parts, TypeOK
<1>13. ReferencesFit'
  <2>1. \A o \in DOMAIN registry', m \in DOMAIN listener :
          m \in registry'[o] => listener[m].live /\ listener[m].op = o
    <3>1. DOMAIN registry' = {"sync_mutation", "sync_rep"} /\ DOMAIN registry = DOMAIN registry'
      BY <1>11 DEF Parts, TypeOK
    <3> QED  BY <1>2, <1>11, <3>1 DEF Parts, ReferencesFit
  <2> QED  BY <1>1, <2>1 DEF Parts, ReferencesFit
<1> QED  BY <1>6, <1>7, <1>9, <1>10, <1>12, <1>13 DEF Parts

\* The part of CountsFit that is about one listener.
CountFits(li) ==
    /\ li.modified \cup li.deleted \cup li.replicated \subseteq li.keys
    /\ li.finished =>
         \/ li.replicated = li.keys
         \/ Cardinality(li.modified) + Cardinality(li.deleted) = Cardinality(li.keys)
    /\ li.live /\ li.answer = "success" => li.finished \/ li.keys = {}

\* Whole sets are as large as the sets.
LEMMA WholeSet ==
    ASSUME NEW S, IsFiniteSet(S), NEW T \in SUBSET S, Cardinality(T) = Cardinality(S)
    PROVE  T = S
BY FS_Subset

\* keySynced, when a key has been replicated.
LEMMA ReplicatedEffect ==
    ASSUME NEW li \in ListenerRecord, CountFits(li), NEW keys \in SUBSET Keys
    PROVE  /\ Replicated(li, keys) \in ListenerRecord /\ Alike(Replicated(li, keys), li)
           /\ li.answer = "none" \/ ~li.live => CountFits(Replicated(li, keys))
<1> DEFINE done == li.replicated \cup (keys \cap li.keys)
           f    == (Cardinality(done) = Cardinality(li.keys))
           r    == [li EXCEPT !.replicated = done, !.finished = f]
<1>1. r = Replicated(li, keys)
  BY DEF Replicated
<1>2. done \subseteq Keys /\ done \subseteq li.keys /\ f \in BOOLEAN
  BY DEF ListenerRecord, CountFits
<1>3. IsFiniteSet(li.keys)
  BY FS_Subset, ClientAssumption DEF ListenerRecord
<1>4. f => done = li.keys
  BY <1>2, <1>3, WholeSet
<1> HIDE DEF f, done
<1>5. /\ r \in ListenerRecord /\ Alike(r, li) /\ r.keys = li.keys /\ r.modified = li.modified
      /\ r.deleted = li.deleted /\ r.replicated = done /\ r.finished = f
  BY <1>2 DEF ListenerRecord, Alike
<1> HIDE DEF r
<1> QED  BY <1>1, <1>2, <1>4, <1>5 DEF CountFits, Alike

LEMMA KeySyncedEffect ==
    ASSUME NEW li \in ListenerRecord, CountFits(li), ~li.finished, NEW k, NEW deleted \in BOOLEAN
    PROVE  /\ KeySynced(li, k, deleted) \in ListenerRecord
           /\ Alike(KeySynced(li, k, deleted), li) /\ CountFits(KeySynced(li, k, deleted))
<1>1. CASE k \notin li.keys
  BY <1>1 DEF KeySynced, Alike
<1>2. CASE k \in li.keys
  <2>1. k \in Keys
    BY <1>2 DEF ListenerRecord
  <2>2. li.answer = "none" \/ ~li.live \/ li.answer = "tmpfail"
    BY <1>2 DEF CountFits, ListenerRecord
  <2>3. CASE li.op = "sync_rep"
    <3> DEFINE done == li.replicated \cup ({k} \cap li.keys)
               f    == (Cardinality(done) = Cardinality(li.keys))
               r    == [li EXCEPT !.replicated = done, !.finished = f]
    <3>1. r = KeySynced(li, k, deleted)
      BY <1>2, <2>3 DEF KeySynced, Replicated
    <3>2. done \subseteq Keys /\ done \subseteq li.keys /\ f \in BOOLEAN
      BY DEF ListenerRecord, CountFits
    <3>3. IsFiniteSet(li.keys)
      BY FS_Subset, ClientAssumption DEF ListenerRecord
    <3>4. f => done = li.keys
      BY <3>2, <3>3, WholeSet
    <3> HIDE DEF f, done
    <3>5. /\ r \in ListenerRecord /\ Alike(r, li) /\ r.keys = li.keys /\ r.modified = li.modified
          /\ r.deleted = li.deleted /\ r.replicated = done /\ r.finished = f
      BY <3>2 DEF ListenerRecord, Alike
    <3> HIDE DEF r
    <3> QED  BY <2>2, <3>1, <3>2, <3>4, <3>5 DEF CountFits, Alike
  <2>4. CASE li.op # "sync_rep"
    <3> DEFINE mods == IF deleted THEN li.modified ELSE li.modified \cup {k}
               dels == IF deleted THEN li.deleted \cup {k} ELSE li.deleted
               f    == (Cardinality(mods) + Cardinality(dels) = Cardinality(li.keys))
               r    == [li EXCEPT !.modified = mods, !.deleted = dels, !.finished = f]
    <3>1. r = KeySynced(li, k, deleted)
      BY <1>2, <2>4 DEF KeySynced
    <3>2. /\ mods \subseteq Keys /\ dels \subseteq Keys /\ f \in BOOLEAN
          /\ mods \subseteq li.keys /\ dels \subseteq li.keys
      BY <1>2, <2>1 DEF ListenerRecord, CountFits
    <3>3. f => Cardinality(mods) + Cardinality(dels) = Cardinality(li.keys)
      OBVIOUS
    <3> HIDE DEF f, mods, dels
    <3>4. /\ r \in ListenerRecord /\ Alike(r, li) /\ r.keys = li.keys /\ r.modified = mods
          /\ r.deleted = dels /\ r.replicated = li.replicated /\ r.finished = f
      BY <3>2 DEF ListenerRecord, Alike
    <3> HIDE DEF r
    <3> QED  BY <2>2, <3>1, <3>2, <3>3, <3>4 DEF CountFits, Alike
  <2> QED  BY <2>3, <2>4
<1> QED  BY <1>1, <1>2

LEMMA TellParts ==
    ASSUME Parts, NEW c \in Conns, Tell(c)
    PROVE  Parts'
<1> DEFINE l    == conn[c].listener
           keys == {k \in Keys : value[k].replicated}
<1>1. /\ conn[c].pc = "tell" /\ Goto(c, "enable")
      /\ listener' = [listener EXCEPT ![l] = Replicated(listener[l], keys)]
      /\ UNCHANGED <<state, changing, waiting, value, tapLog, tap, registry, walk, tasks,
                     job, owner, requests, changes>>
  BY DEF Tell
<1>2. l \in DOMAIN listener /\ listener[l].answer = "none"
  BY <1>1, Registrant
<1>3. listener[l] \in ListenerRecord /\ CountFits(listener[l]) /\ keys \in SUBSET Keys
  BY <1>2, ListenerTypes DEF Parts, CountsFit, CountFits
<1> PICK r \in ListenerRecord : /\ r = Replicated(listener[l], keys)
                                /\ Alike(r, listener[l]) /\ CountFits(r)
  BY <1>2, <1>3, ReplicatedEffect
<1>4. ListenersStay(l) /\ listener'[l] = r
  BY <1>1, <1>2, ListenerUpdate DEF Parts
<1>5. /\ conn' \in [Conns -> ConnRecord] /\ OthersStay(c) /\ conn'[c].pc = "enable"
      /\ conn'[c].cmd = conn[c].cmd
      /\ conn'[c].specific = conn[c].specific /\ conn'[c].listener = l
  BY <1>1, GotoEffect DEF Parts, Pcs, Running
<1>6. ConnsFit' /\ NotifiersFit' /\ OperationsFit'
  BY <1>1, <1>4, <1>5, RegistrantMoves
<1>7. \A m \in DOMAIN listener : listener'[m] = listener[m] \/ (m = l /\ listener'[m] = r)
  BY <1>4 DEF ListenersStay
<1>8. DOMAIN listener' = DOMAIN listener /\ listener' \in Seq(ListenerRecord)
      /\ Len(listener') = Len(listener)
  BY <1>4 DEF ListenersStay
<1>9. CountsFit'
  BY <1>7, <1>8 DEF Parts, CountsFit, CountFits
<1>10. \A d \in Conns : /\ conn'[d].pc \in Running <=> conn[d].pc \in Running
                        /\ conn'[d].pc = "push" <=> conn[d].pc = "push"
                        /\ conn'[d].pc = "walk" <=> conn[d].pc = "walk"
  BY <1>1, <1>5 DEF OthersStay, Running
<1>11. LocksFit'
  BY <1>1, <1>10, LocksStay
<1>12. PushHasWaker' /\ WaiterHasWaker'
  BY <1>1, <1>10, WakersStay
<1>13. TypeOK'
  BY <1>1, <1>5, <1>8 DEF Parts, TypeOK
<1>14. ReferencesFit'
  BY <1>1, <1>7, <1>8, ReferencesStay DEF Alike
<1> QED  BY <1>6, <1>9, <1>11, <1>12, <1>13, <1>14 DEF Parts

LEMMA EnableParts ==
    ASSUME Parts, NEW c \in Conns, Enable(c)
    PROVE  Parts'
<1> DEFINE l == conn[c].listener
<1>1. /\ conn[c].pc = "enable" /\ Leave(c, {}) /\ listener[l].mutex = NoThread
      /\ UNCHANGED <<state, changing, waiting, value, tapLog, tap, registry, walk, job, requests,
                     changes>>
  BY DEF Enable, Unlocked
<1>2. /\ l \in DOMAIN listener /\ Serves(l, c) /\ listener[l].live /\ listener[l].answer = "none"
      /\ ~listener[l].allowNotify /\ conn[c].specific = 0
  BY <1>1, Registrant
<1>3. owner' \in [Locks -> Threads \cup {NoThread}]
  BY <1>1, LeaveEffect DEF Parts
<1>4. conn[c].pc \in Running \ {"push", "walk"}
  BY <1>1 DEF Running
<1>5. CASE listener[l].finished
  <2>1. Answer(c) /\ Answers(l)
    BY <1>5 DEF Enable
  <2>2. conn' \in [Conns -> ConnRecord] /\ OthersStay(c) /\ conn'[c] = Idle
    BY <2>1, AnswerEffect DEF Parts
  <2> HIDE DEF l
  <2>3. ConnsFit' /\ NotifiersFit' /\ OperationsFit' /\ CountsFit'
    BY <1>1, <1>2, <2>1, <2>2, Answering
  <2>4. /\ ReferencesFit'
        /\ tasks' \in [notify : Nat, abort : SUBSET DOMAIN listener', destroy : SUBSET DOMAIN listener']
        /\ tasks'.notify = tasks.notify
        /\ listener' \in Seq(ListenerRecord) /\ Len(listener') = Len(listener)
        /\ DOMAIN listener' = DOMAIN listener
    BY <1>1, <1>2, <2>1, AnswerReferences
  <2>5. TypeOK'
    BY <1>1, <1>3, <2>2, <2>4 DEF Parts, TypeOK
  <2>6. LocksFit'
    <3>1. conn'[c].pc \notin Running
      BY <2>2, IdlePlain DEF Running
    <3> QED  BY <1>1, <1>4, <2>2, <3>1, LocksLeave
  <2>7. PushHasWaker' /\ WaiterHasWaker'
    <3>1. \A d \in Conns : conn'[d].pc = "push" => conn[d].pc = "push"
      BY <2>2, IdlePlain DEF OthersStay
    <3> QED  BY <1>1, <2>4, <3>1, WakersStay
  <2> QED  BY <2>3, <2>4, <2>5, <2>6, <2>7 DEF Parts
<1>6. CASE ~listener[l].finished
  <2>1. /\ Block(c) /\ Enables(l) /\ tasks' = [tasks EXCEPT !.abort = @ \cup {l}]
    BY <1>6 DEF Enable, Enables
  <2>2. /\ conn' \in [Conns -> ConnRecord] /\ OthersStay(c) /\ conn'[c].pc = "blocked"
        /\ conn'[c].specific = conn[c].specific /\ conn'[c].listener = 0
    BY <2>1, BlockEffect DEF Parts
  <2>3. /\ ListenersStay(l) /\ listener'[l].live /\ listener'[l].op = listener[l].op
        /\ listener'[l].answer = listener[l].answer /\ listener'[l].mutex = listener[l].mutex
        /\ ConnsFit' /\ NotifiersFit' /\ OperationsFit' /\ CountsFit'
    BY <1>1, <1>2, <2>1, <2>2, Enabling
  <2> HIDE DEF l
  <2>4. /\ DOMAIN listener' = DOMAIN listener
        /\ listener' \in Seq(ListenerRecord) /\ Len(listener') = Len(listener)
        /\ \A m \in DOMAIN listener : /\ listener[m].live => listener'[m].live
                                      /\ listener'[m].op = listener[m].op
                                      /\ listener'[m].answer = listener[m].answer
                                      /\ listener'[m].mutex = listener[m].mutex
    BY <2>3 DEF ListenersStay
  <2>5. /\ tasks' \in [notify : Nat, abort : SUBSET DOMAIN listener, destroy : SUBSET DOMAIN listener]
        /\ tasks'.notify = tasks.notify /\ tasks'.abort = tasks.abort \cup {l}
        /\ tasks'.destroy = tasks.destroy
    BY <1>2, <2>1 DEF Parts, TypeOK
  <2>6. TypeOK'
    BY <1>1, <1>3, <2>2, <2>4, <2>5 DEF Parts, TypeOK
  <2>7. LocksFit'
    <3>1. conn'[c].pc \notin Running
      BY <2>2 DEF Running
    <3> QED  BY <1>1, <1>4, <2>2, <3>1, LocksLeave
  <2>8. PushHasWaker' /\ WaiterHasWaker'
    <3>1. \A d \in Conns : conn'[d].pc = "push" => conn[d].pc = "push"
      BY <2>2 DEF OthersStay
    <3> QED  BY <1>1, <2>5, <3>1, WakersStay
  <2>9. ReferencesFit'
    <3>1. /\ \A op \in DOMAIN registry : registry[op] \subseteq DOMAIN listener
          /\ tasks.abort \subseteq DOMAIN listener /\ tasks.destroy \subseteq DOMAIN listener
          /\ \A t \in Walkers : walk[t].todo \subseteq DOMAIN listener
      BY DEF Parts, TypeOK
    <3>2. \A op \in DOMAIN registry, m \in DOMAIN listener' :
            m \in registry[op] => listener'[m].live /\ listener'[m].op = op
      BY <2>4 DEF Parts, ReferencesFit
    <3>3. /\ \A m \in tasks'.abort : listener'[m].live
          /\ \A m \in tasks'.destroy : listener'[m].live /\ listener'[m].answer # "none"
      BY <2>3, <2>4, <2>5, <3>1 DEF Parts, ReferencesFit
    <3>4. ASSUME NEW t \in Walkers
          PROVE  /\ \A m \in walk[t].todo : listener'[m].live /\ listener'[m].op = Kind(t)
                 /\ walk[t].step \in {"claim", "wake"} =>
                      /\ walk[t].at \in DOMAIN listener'
                      /\ listener'[walk[t].at].live /\ listener'[walk[t].at].op = Kind(t)
                 /\ walk[t].step = "wake" => listener'[walk[t].at].mutex = t
      BY <2>4, <3>1 DEF Parts, ReferencesFit
    <3>5. /\ job.step \in {"abort", "abort_wake"} =>
               job.at \in DOMAIN listener' /\ listener'[job.at].live
          /\ job.step = "abort_wake" => listener'[job.at].mutex = "dispatcher"
      BY <2>4 DEF Parts, ReferencesFit
    <3> QED  BY <1>1, <3>2, <3>3, <3>4, <3>5 DEF ReferencesFit
  <2> QED  BY <2>3, <2>6, <2>7, <2>8, <2>9 DEF Parts
<1> QED  BY <1>5, <1>6


-----------------------------------------------------------------------------
(* The steps of a walk over the listeners *)

\* The types of what a walker is at.
LEMMA WalkTypes ==
    ASSUME Parts, NEW t \in Walkers
    PROVE  /\ walk[t].step \in {"none", "next", "claim", "wake"}
           /\ walk[t].todo \subseteq DOMAIN listener /\ walk[t].at \in Nat
           /\ Kind(t) \in {"sync_mutation", "sync_rep"} /\ Mutex(Kind(t)) \in Locks
           /\ registry[Kind(t)] \subseteq DOMAIN listener
           /\ DOMAIN registry = {"sync_mutation", "sync_rep"}
           /\ t # "tap" => t \in Conns
<1>1. Kind(t) \in {"sync_mutation", "sync_rep"} /\ Mutex(Kind(t)) \in Locks
  BY LockNames DEF Kind
<1> QED  BY <1>1 DEF Parts, TypeOK, Walkers

\* A walk begins.
LEMMA StartWalkParts ==
    ASSUME Parts, NEW t \in Walkers, StartWalk(t)
    PROVE  Parts'
<1> DEFINE w == [step |-> "next", todo |-> registry[Kind(t)], at |-> 0]
<1>1. /\ walk[t] = NoWalk /\ owner[Mutex(Kind(t))] = NoThread
      /\ owner' = [owner EXCEPT ![Mutex(Kind(t))] = t] /\ walk' = [walk EXCEPT ![t] = w]
      /\ UNCHANGED <<state, changing, waiting, value, tapLog, tap, listener, registry, tasks,
                     job, requests, changes>>
  BY DEF StartWalk, Free
<1>2. /\ w.step = "next" /\ w.todo = registry[Kind(t)] /\ walk[t].step = "none"
      /\ w \in [step : {"none", "next", "claim", "wake"}, todo : SUBSET DOMAIN listener, at : Nat]
  BY <1>1, WalkTypes DEF NoWalk
<1> HIDE DEF w
<1>3. /\ walk' \in [Walkers -> [step : {"none", "next", "claim", "wake"},
                               todo : SUBSET DOMAIN listener, at : Nat]]
      /\ walk'[t] = w /\ \A u \in Walkers : u # t => walk'[u] = walk[u]
  BY <1>1, <1>2 DEF Parts, TypeOK
<1>4. /\ owner' \in [Locks -> Threads \cup {NoThread}] /\ owner'[Mutex(Kind(t))] = t
      /\ \A k \in Locks : k # Mutex(Kind(t)) => owner'[k] = owner[k]
  BY <1>1, WalkTypes, LockNames DEF Parts, TypeOK
<1>5. /\ conn' \in [Conns -> ConnRecord]
      /\ t = "tap" => conn' = conn
      /\ t \in Conns => /\ OthersStay(t) /\ conn[t].pc = "event" /\ conn'[t].pc = "walk"
                        /\ Plain(conn[t]) /\ Plain(conn'[t])
  <2>1. CASE t = "tap"
    BY <2>1, LockNames DEF StartWalk, Parts, TypeOK
  <2>2. CASE t # "tap"
    <3>1. t \in Conns /\ conn[t].pc = "event" /\ Goto(t, "walk")
      BY <2>2, WalkTypes DEF StartWalk
    <3>2. /\ conn' \in [Conns -> ConnRecord] /\ OthersStay(t) /\ conn'[t].pc = "walk"
          /\ conn'[t].specific = conn[t].specific /\ conn'[t].listener = conn[t].listener
      BY <3>1, GotoEffect DEF Parts, Pcs, Running
    <3>3. Plain(conn[t]) /\ Plain(conn'[t])
      BY <3>1, <3>2, PlainConn DEF Plain
    <3> QED  BY <2>2, <3>1, <3>2, <3>3
  <2> QED  BY <2>1, <2>2
<1>6. ConnsFit' /\ NotifiersFit' /\ OperationsFit' /\ CountsFit'
  <2>1. CASE t = "tap"
    <3>1. conn' = conn
      BY <1>5, <2>1
    <3>2. ConnsFit' /\ NotifiersFit' /\ CountsFit'
      BY <1>1, <3>1 DEF Parts, ConnsFit, NotifiersFit, CountsFit, Serves
    <3>3. OperationsFit'
      BY <1>1, <3>1 DEF Parts, OperationsFit, StillWaiting
    <3> QED  BY <3>2, <3>3
  <2>2. CASE t # "tap"
    BY <1>1, <1>5, <2>2, WalkTypes, OperationMoves
  <2> QED  BY <2>1, <2>2
<1>7. TypeOK'
  BY <1>1, <1>3, <1>4, <1>5 DEF Parts, TypeOK
<1>8. LocksFit'
  <2>1. /\ \A d \in Conns : owner'[Worker[d]] = owner[Worker[d]]
        /\ owner'["pendingOpLock"] = owner["pendingOpLock"]
    BY <1>4, LockNames, WalkTypes DEF Kind, Mutex
  <2>2. \A d \in Conns : LocksFit!1!(d)'
    <3> TAKE d \in Conns
    <3>1. CASE d = t
      BY <1>2, <1>3, <1>5, <2>1, <3>1 DEF Parts, LocksFit, Running
    <3>2. CASE d # t
      <4>1. conn'[d] = conn[d] /\ walk'[d] = walk[d]
        BY <1>3, <1>5, <3>2, WalkTypes, LockNames DEF OthersStay
      <4> QED  BY <2>1, <4>1 DEF Parts, LocksFit
    <3> QED  BY <3>1, <3>2
  <2>3. job'.step \in {"second", "wake"} <=> owner'["pendingOpLock"] = "dispatcher"
    BY <1>1, <2>1 DEF Parts, LocksFit
  <2>4. \A u \in Walkers : LocksFit!3!(u)'
    <3> TAKE u \in Walkers
    <3>1. CASE u = t
      BY <1>2, <1>3, <1>4, <3>1
    <3>2. CASE u # t
      <4>1. walk'[u] = walk[u]
        BY <1>3, <3>2
      <4>2. owner'[Mutex(Kind(u))] = u <=> owner[Mutex(Kind(u))] = u
        BY <1>1, <1>4, <3>2, WalkTypes, LockNames
      <4> QED  BY <4>1, <4>2 DEF Parts, LocksFit
    <3> QED  BY <3>1, <3>2
  <2> QED  BY <2>2, <2>3, <2>4 DEF LocksFit
<1>9. \A d \in Conns : conn'[d].pc = "push" => conn[d].pc = "push"
  BY <1>5, WalkTypes DEF OthersStay
<1>10. PushHasWaker' /\ WaiterHasWaker'
  BY <1>1, <1>9, WakersStay
<1>11. ReferencesFit'
  <2>1. \A u \in Walkers : ReferencesFit!4!(u)'
    <3> TAKE u \in Walkers
    <3>1. CASE u = t
      BY <1>1, <1>2, <1>3, <3>1, WalkTypes DEF Parts, ReferencesFit
    <3>2. CASE u # t
      BY <1>1, <1>3, <3>2 DEF Parts, ReferencesFit
    <3> QED  BY <3>1, <3>2
  <2> QED  BY <1>1, <2>1 DEF Parts, ReferencesFit
<1> QED  BY <1>6, <1>7, <1>8, <1>10, <1>11 DEF Parts

\* A walk ends.
LEMMA EndWalkParts ==
    ASSUME Parts, NEW t \in Walkers, EndWalk(t)
    PROVE  Parts'
<1>1. /\ walk[t].step = "next" /\ walk' = [walk EXCEPT ![t] = NoWalk]
      /\ UNCHANGED <<state, changing, waiting, value, tapLog, listener, registry, tasks, job,
                     requests, changes>>
  BY DEF EndWalk
<1>2. /\ walk' \in [Walkers -> [step : {"none", "next", "claim", "wake"},
                               todo : SUBSET DOMAIN listener, at : Nat]]
      /\ walk'[t] = NoWalk /\ \A u \in Walkers : u # t => walk'[u] = walk[u]
  BY <1>1 DEF Parts, TypeOK, NoWalk
<1>3. owner[Mutex(Kind(t))] = t
  BY <1>1 DEF Parts, LocksFit
<1>4. /\ owner' \in [Locks -> Threads \cup {NoThread}] /\ owner'[Mutex(Kind(t))] = NoThread
      /\ t \in Conns => owner'[Worker[t]] = NoThread
      /\ \A k \in Locks : k # Mutex(Kind(t)) /\ (t \in Conns => k # Worker[t]) => owner'[k] = owner[k]
  <2>1. CASE t = "tap"
    <3>1. owner' = [owner EXCEPT !["replicationMutex"] = NoThread]
      BY <2>1 DEF EndWalk
    <3> QED  BY <2>1, <3>1, LockNames DEF Parts, TypeOK
  <2>2. CASE t # "tap"
    <3>1. t \in Conns /\ Leave(t, {"mutationMutex"})
      BY <2>2, WalkTypes DEF EndWalk
    <3> QED  BY <3>1, LeaveEffect, LockNames DEF Parts
  <2> QED  BY <2>1, <2>2
<1>5. /\ conn' \in [Conns -> ConnRecord]
      /\ t = "tap" => conn' = conn
      /\ t \in Conns => /\ OthersStay(t) /\ conn[t].pc = "walk" /\ conn'[t] = Idle
                        /\ Plain(conn[t]) /\ Plain(conn'[t])
  <2>1. CASE t = "tap"
    BY <2>1, LockNames DEF EndWalk, Parts, TypeOK
  <2>2. CASE t # "tap"
    <3>1. t \in Conns /\ Answer(t)
      BY <2>2, WalkTypes DEF EndWalk
    <3>2. conn[t].pc = "walk"
      BY <1>1, <3>1 DEF Parts, LocksFit
    <3> QED  BY <2>2, <3>1, <3>2, PlainConn, AnswerEffect, IdlePlain DEF Parts
  <2> QED  BY <2>1, <2>2
<1>6. ConnsFit' /\ NotifiersFit' /\ OperationsFit' /\ CountsFit'
  <2>1. CASE t = "tap"
    <3>1. conn' = conn
      BY <1>5, <2>1
    <3>2. ConnsFit' /\ NotifiersFit' /\ CountsFit'
      BY <1>1, <3>1 DEF Parts, ConnsFit, NotifiersFit, CountsFit, Serves
    <3>3. OperationsFit'
      BY <1>1, <3>1 DEF Parts, OperationsFit, StillWaiting
    <3> QED  BY <3>2, <3>3
  <2>2. CASE t # "tap"
    BY <1>1, <1>5, <2>2, WalkTypes, OperationMoves
  <2> QED  BY <2>1, <2>2
<1>7. TypeOK'
  BY <1>1, <1>2, <1>4, <1>5 DEF Parts, TypeOK
<1>8. LocksFit'
  <2>1. /\ \A d \in Conns : d # t => (owner'[Worker[d]] = d <=> owner[Worker[d]] = d)
        /\ owner'["pendingOpLock"] = owner["pendingOpLock"]
    <3>1. t \in Conns => owner[Worker[t]] = t
      BY <1>5 DEF Parts, LocksFit, Running
    <3>2. \A d \in Conns : Worker[d] # Mutex(Kind(t))
      BY LockNames, WalkTypes DEF Kind, Mutex
    <3> QED  BY <1>4, <3>1, <3>2, LockNames, WalkTypes DEF Kind, Mutex
  <2>2. \A d \in Conns : LocksFit!1!(d)'
    <3> TAKE d \in Conns
    <3>1. CASE d = t
      <4>1. owner'[Worker[d]] # d /\ owner'["pendingOpLock"] # d
        BY <1>4, <1>5, <2>1, <3>1, LockNames DEF Parts, LocksFit
      <4>2. conn'[d].pc \notin Running /\ conn'[d].pc # "push" /\ conn'[d].pc # "walk"
        BY <1>5, <3>1, IdlePlain DEF Running
      <4> QED  BY <1>2, <3>1, <4>1, <4>2 DEF NoWalk
    <3>2. CASE d # t
      <4>1. conn'[d] = conn[d] /\ walk'[d] = walk[d]
        BY <1>2, <1>5, <3>2, WalkTypes, LockNames DEF OthersStay
      <4> QED  BY <2>1, <3>2, <4>1 DEF Parts, LocksFit
    <3> QED  BY <3>1, <3>2
  <2>3. job'.step \in {"second", "wake"} <=> owner'["pendingOpLock"] = "dispatcher"
    BY <1>1, <2>1 DEF Parts, LocksFit
  <2>4. \A u \in Walkers : LocksFit!3!(u)'
    <3> TAKE u \in Walkers
    <3>1. CASE u = t
      BY <1>2, <1>4, <3>1, LockNames DEF NoWalk
    <3>2. CASE u # t
      <4>1. walk'[u] = walk[u]
        BY <1>2, <3>2
      <4>2. \A c \in Conns : Worker[c] # Mutex(Kind(u))
        BY LockNames, WalkTypes DEF Kind, Mutex
      <4>3. owner'[Mutex(Kind(u))] = u <=> owner[Mutex(Kind(u))] = u
        BY <1>3, <1>4, <3>2, <4>2, WalkTypes, LockNames
      <4> QED  BY <4>1, <4>3 DEF Parts, LocksFit
    <3> QED  BY <3>1, <3>2
  <2> QED  BY <2>2, <2>3, <2>4 DEF LocksFit
<1>9. \A d \in Conns : conn'[d].pc = "push" => conn[d].pc = "push"
  BY <1>5, WalkTypes, IdlePlain DEF OthersStay
<1>10. PushHasWaker' /\ WaiterHasWaker'
  BY <1>1, <1>9, WakersStay
<1>11. ReferencesFit'
  <2>1. \A u \in Walkers : ReferencesFit!4!(u)'
    <3> TAKE u \in Walkers
    <3>1. CASE u = t
      BY <1>2, <3>1 DEF NoWalk
    <3>2. CASE u # t
      BY <1>1, <1>2, <3>2 DEF Parts, ReferencesFit
    <3> QED  BY <3>1, <3>2
  <2> QED  BY <1>1, <2>1 DEF Parts, ReferencesFit
<1> QED  BY <1>6, <1>7, <1>8, <1>10, <1>11 DEF Parts

\* A listener that has been dealt with leaves the registry.
LEMMA ErasedEffect ==
    ASSUME Parts, NEW t \in Walkers, NEW l, Erased(t, l)
    PROVE  /\ walk' \in [Walkers -> [step : {"none", "next", "claim", "wake"},
                                     todo : SUBSET DOMAIN listener, at : Nat]]
           /\ walk'[t].step = "next" /\ walk'[t].todo = walk[t].todo
           /\ \A u \in Walkers : u # t => walk'[u] = walk[u]
           /\ registry' \in [{"sync_mutation", "sync_rep"} -> SUBSET DOMAIN listener]
           /\ \A op \in DOMAIN registry' :
                op \in DOMAIN registry /\ registry'[op] \subseteq registry[op]
<1> DEFINE w == [walk[t] EXCEPT !.step = "next"]
<1>1. walk' = [walk EXCEPT ![t] = w] /\ registry' = [registry EXCEPT ![Kind(t)] = @ \ {l}]
  BY DEF Erased
<1>2. /\ w \in [step : {"none", "next", "claim", "wake"}, todo : SUBSET DOMAIN listener, at : Nat]
      /\ w.step = "next" /\ w.todo = walk[t].todo
  BY DEF Parts, TypeOK
<1> HIDE DEF w
<1>3. Kind(t) \in {"sync_mutation", "sync_rep"}
  BY WalkTypes
<1> QED  BY <1>1, <1>2, <1>3 DEF Parts, TypeOK

\* A step within a walk takes and leaves no lock.
LEMMA WalkLocks ==
    ASSUME Parts, NEW t \in Walkers, walk[t].step # "none", walk'[t].step # "none",
           \A u \in Walkers : u # t => walk'[u] = walk[u],
           \A d \in Conns : conn'[d].pc = conn[d].pc
                              \/ (conn[d].pc = "blocked" /\ conn'[d].pc = "notified"),
           UNCHANGED <<owner, job>>
    PROVE  LocksFit'
<1>1. \A d \in Conns : /\ conn'[d].pc \in Running <=> conn[d].pc \in Running
                       /\ conn'[d].pc = "push" <=> conn[d].pc = "push"
                       /\ conn'[d].pc = "walk" <=> conn[d].pc = "walk"
  BY DEF Running
<1>2. \A u \in Walkers : walk'[u] = walk[u] \/ (walk[u].step # "none" /\ walk'[u].step # "none")
  OBVIOUS
<1> QED  BY <1>1, <1>2, LocksStay

\* The next listener is told of a key.
LEMMA SyncedParts ==
    ASSUME Parts, NEW t \in Walkers, Synced(t)
    PROVE  Parts'
<1>1. /\ walk[t].step = "next"
      /\ UNCHANGED <<state, changing, waiting, value, tapLog, tap, conn, registry, tasks, job, owner,
                     requests, changes>>
  BY DEF Synced
<1>2. PICK l \in walk[t].todo :
         LET li == IF listener[l].finished THEN listener[l]
                   ELSE KeySynced(listener[l], SyncedKey(t), IsDelete(t))
         IN  /\ listener[l].finished \/ Unlocked(l)
             /\ listener' = [listener EXCEPT ![l] = li]
             /\ walk' = [walk EXCEPT ![t].todo = @ \ {l}, ![t].at = l,
                                    ![t].step = IF li # listener[l] /\ li.finished THEN "claim"
                                                                                  ELSE "next"]
  BY DEF Synced
<1>3. /\ l \in DOMAIN listener /\ l \in Nat /\ listener[l] \in ListenerRecord
      /\ listener[l].live /\ listener[l].op = Kind(t) /\ CountFits(listener[l])
      /\ listener[l].finished \in BOOLEAN
  <2>1. l \in DOMAIN listener
    BY WalkTypes
  <2> QED  BY <2>1, ListenerTypes DEF Parts, ReferencesFit, CountsFit, CountFits, ListenerRecord
<1> DEFINE li == IF listener[l].finished THEN listener[l]
                 ELSE KeySynced(listener[l], SyncedKey(t), IsDelete(t))
           step == IF li # listener[l] /\ li.finished THEN "claim" ELSE "next"
           w == [walk[t] EXCEPT !.todo = @ \ {l}, !.at = l, !.step = step]
<1>4. li \in ListenerRecord /\ Alike(li, listener[l]) /\ CountFits(li)
  <2>1. CASE listener[l].finished
    BY <1>3, <2>1 DEF Alike
  <2>2. CASE ~listener[l].finished
    <3>1. IsDelete(t) \in BOOLEAN
      BY DEF IsDelete
    <3>2. /\ KeySynced(listener[l], SyncedKey(t), IsDelete(t)) \in ListenerRecord
          /\ Alike(KeySynced(listener[l], SyncedKey(t), IsDelete(t)), listener[l])
          /\ CountFits(KeySynced(listener[l], SyncedKey(t), IsDelete(t)))
      BY <1>3, <2>2, <3>1, KeySyncedEffect
    <3> QED  BY <2>2, <3>2
  <2> QED  BY <2>1, <2>2
<1>5. step \in {"claim", "next"}
  OBVIOUS
<1>6. listener' = [listener EXCEPT ![l] = li]
  BY <1>2
<1>7. walk' = [walk EXCEPT ![t] = w]
  BY <1>2
<1> HIDE DEF li, step
<1>8. /\ w \in [step : {"none", "next", "claim", "wake"}, todo : SUBSET DOMAIN listener, at : Nat]
      /\ w.step = step /\ w.at = l /\ w.todo = walk[t].todo \ {l}
  BY <1>3, <1>5 DEF Parts, TypeOK
<1> HIDE DEF w
<1>9. /\ walk' \in [Walkers -> [step : {"none", "next", "claim", "wake"},
                               todo : SUBSET DOMAIN listener, at : Nat]]
      /\ walk'[t] = w /\ \A u \in Walkers : u # t => walk'[u] = walk[u]
  BY <1>7, <1>8 DEF Parts, TypeOK
<1>10. ListenersStay(l) /\ listener'[l] = li
  BY <1>3, <1>4, <1>6, ListenerUpdate DEF Parts
<1>11. /\ DOMAIN listener' = DOMAIN listener /\ listener' \in Seq(ListenerRecord)
       /\ Len(listener') = Len(listener)
       /\ \A m \in DOMAIN listener : listener'[m] = listener[m] \/ (m = l /\ listener'[m] = li)
  BY <1>10 DEF ListenersStay
<1>12. \A m \in DOMAIN listener : Alike(listener'[m], listener[m])
  BY <1>4, <1>11 DEF Alike
<1>13. ConnsFit' /\ NotifiersFit' /\ OperationsFit'
  BY <1>1, <1>3, <1>10, <1>12, ListenerCounts
<1>14. CountsFit'
  BY <1>4, <1>11 DEF Parts, CountsFit, CountFits
<1>15. TypeOK'
  BY <1>1, <1>9, <1>11 DEF Parts, TypeOK
<1>16. LocksFit'
  <2>1. walk'[t].step # "none"
    BY <1>5, <1>8, <1>9
  <2> QED  BY <1>1, <1>9, <2>1, WalkLocks
<1>17. PushHasWaker' /\ WaiterHasWaker'
  BY <1>1, WakersStay
<1>18. ReferencesFit'
  <2>1. /\ \A op \in DOMAIN registry : registry[op] \subseteq DOMAIN listener
        /\ tasks.abort \subseteq DOMAIN listener /\ tasks.destroy \subseteq DOMAIN listener
        /\ \A u \in Walkers : walk[u].todo \subseteq DOMAIN listener
    BY DEF Parts, TypeOK
  <2>2. \A op \in DOMAIN registry, m \in DOMAIN listener' :
          m \in registry[op] => listener'[m].live /\ listener'[m].op = op
    BY <1>11, <1>12 DEF Parts, ReferencesFit, Alike
  <2>3. /\ \A m \in tasks.abort : listener'[m].live
        /\ \A m \in tasks.destroy : listener'[m].live /\ listener'[m].answer # "none"
    BY <1>12, <2>1 DEF Parts, ReferencesFit, Alike
  <2>4. \A u \in Walkers : ReferencesFit!4!(u)'
    <3> TAKE u \in Walkers
    <3>1. CASE u = t
      BY <1>3, <1>5, <1>8, <1>9, <1>11, <1>12, <2>1, <3>1 DEF Parts, ReferencesFit, Alike
    <3>2. CASE u # t
      <4>1. walk'[u] = walk[u] /\ ReferencesFit!4!(u)
        BY <1>9, <3>2 DEF Parts, ReferencesFit
      <4>2. \A m \in DOMAIN listener : /\ listener'[m].live = listener[m].live
                                      /\ listener'[m].op = listener[m].op
                                      /\ listener'[m].mutex = listener[m].mutex
        BY <1>12 DEF Alike
      <4> QED  BY <1>11, <2>1, <4>1, <4>2
    <3> QED  BY <3>1, <3>2
  <2>5. /\ job.step \in {"abort", "abort_wake"} =>
             job.at \in DOMAIN listener' /\ listener'[job.at].live
        /\ job.step = "abort_wake" => listener'[job.at].mutex = "dispatcher"
    BY <1>11, <1>12 DEF Parts, ReferencesFit, Alike
  <2> QED  BY <1>1, <2>2, <2>3, <2>4, <2>5 DEF ReferencesFit
<1> QED  BY <1>13, <1>14, <1>15, <1>16, <1>17, <1>18 DEF Parts

\* A walker takes the mutex of a finished listener, or finds that another thread has notified it.
LEMMA ClaimParts ==
    ASSUME Parts, NEW t \in Walkers, Claim(t)
    PROVE  Parts'
<1> PICK l : l = walk[t].at
  OBVIOUS
<1>1. /\ walk[t].step = "claim" /\ listener[l].mutex = NoThread
      /\ UNCHANGED <<state, changing, waiting, value, tapLog, tap, tasks, job, owner,
                     requests, changes>>
  BY DEF Claim, Unlocked
<1>2. l \in DOMAIN listener /\ listener[l].live /\ listener[l].op = Kind(t)
  BY <1>1 DEF Parts, ReferencesFit
<1>3. CASE listener[l].allowNotify
  <2> DEFINE w == [walk[t] EXCEPT !.step = "wake"]
  <2>1. Claims(l, t) /\ walk' = [walk EXCEPT ![t] = w] /\ registry' = registry
    BY <1>3 DEF Claim
  <2>2. /\ w \in [step : {"none", "next", "claim", "wake"}, todo : SUBSET DOMAIN listener, at : Nat]
        /\ w.step = "wake" /\ w.at = l /\ w.todo = walk[t].todo
    BY DEF Parts, TypeOK
  <2> HIDE DEF w
  <2>3. /\ walk' \in [Walkers -> [step : {"none", "next", "claim", "wake"},
                                 todo : SUBSET DOMAIN listener, at : Nat]]
        /\ walk'[t] = w /\ \A u \in Walkers : u # t => walk'[u] = walk[u]
    BY <2>1, <2>2 DEF Parts, TypeOK
  <2>4. t \in Threads
    BY LockNames
  <2>5. /\ ListenersStay(l) /\ listener'[l].mutex = t /\ listener'[l].live = listener[l].live
        /\ listener'[l].op = listener[l].op /\ listener'[l].answer = listener[l].answer
        /\ conn' \in [Conns -> ConnRecord]
        /\ \A c \in Conns : conn'[c].pc = conn[c].pc
        /\ ConnsFit' /\ NotifiersFit' /\ OperationsFit' /\ CountsFit'
    BY <1>1, <1>2, <1>3, <2>1, <2>4, Claiming DEF FiringStays
  <2>6. /\ DOMAIN listener' = DOMAIN listener /\ listener' \in Seq(ListenerRecord)
        /\ Len(listener') = Len(listener)
        /\ \A m \in DOMAIN listener : /\ m # l => listener'[m] = listener[m]
                                      /\ listener'[m].live = listener[m].live
                                      /\ listener'[m].op = listener[m].op
                                      /\ listener'[m].answer = listener[m].answer
    BY <2>5 DEF ListenersStay
  <2>7. TypeOK'
    BY <1>1, <2>1, <2>3, <2>5, <2>6 DEF Parts, TypeOK
  <2>8. LocksFit'
    BY <1>1, <2>2, <2>3, <2>5, WalkLocks
  <2>9. PushHasWaker' /\ WaiterHasWaker'
    BY <1>1, <2>5, WakersStay
  <2>10. ReferencesFit'
    <3>1. /\ \A op \in DOMAIN registry : registry[op] \subseteq DOMAIN listener
          /\ tasks.abort \subseteq DOMAIN listener /\ tasks.destroy \subseteq DOMAIN listener
          /\ \A u \in Walkers : walk[u].todo \subseteq DOMAIN listener
      BY DEF Parts, TypeOK
    <3>2. \A op \in DOMAIN registry, m \in DOMAIN listener' :
            m \in registry[op] => listener'[m].live /\ listener'[m].op = op
      BY <2>6 DEF Parts, ReferencesFit
    <3>3. /\ \A m \in tasks.abort : listener'[m].live
          /\ \A m \in tasks.destroy : listener'[m].live /\ listener'[m].answer # "none"
      BY <2>6, <3>1 DEF Parts, ReferencesFit
    <3>4. \A u \in Walkers : ReferencesFit!4!(u)'
      <4> TAKE u \in Walkers
      <4>1. CASE u = t
        BY <1>2, <2>2, <2>3, <2>5, <2>6, <3>1, <4>1 DEF Parts, ReferencesFit
      <4>2. CASE u # t
        <5>1. walk[u].step = "wake" => walk[u].at # l
          BY <1>1, LockNames DEF Parts, ReferencesFit
        <5> QED  BY <2>3, <2>6, <3>1, <4>2, <5>1 DEF Parts, ReferencesFit
      <4> QED  BY <4>1, <4>2
    <3>5. /\ job.step \in {"abort", "abort_wake"} =>
               job.at \in DOMAIN listener' /\ listener'[job.at].live
          /\ job.step = "abort_wake" => listener'[job.at].mutex = "dispatcher"
      <4>1. job.step = "abort_wake" => job.at # l
        BY <1>1, LockNames, ClientAssumption DEF Parts, ReferencesFit
      <4> QED  BY <2>6, <4>1 DEF Parts, ReferencesFit
    <3> QED  BY <1>1, <2>1, <3>2, <3>3, <3>4, <3>5 DEF ReferencesFit
  <2> QED  BY <2>5, <2>7, <2>8, <2>9, <2>10 DEF Parts
<1>4. CASE ~listener[l].allowNotify
  <2>1. Erased(t, l) /\ UNCHANGED <<listener, conn>>
    BY <1>4 DEF Claim
  <2>2. /\ walk' \in [Walkers -> [step : {"none", "next", "claim", "wake"},
                                 todo : SUBSET DOMAIN listener, at : Nat]]
        /\ walk'[t].step = "next" /\ walk'[t].todo = walk[t].todo
        /\ \A u \in Walkers : u # t => walk'[u] = walk[u]
        /\ registry' \in [{"sync_mutation", "sync_rep"} -> SUBSET DOMAIN listener]
        /\ \A op \in DOMAIN registry' : op \in DOMAIN registry /\ registry'[op] \subseteq registry[op]
    BY <2>1, ErasedEffect
  <2>3. ConnsFit' /\ NotifiersFit' /\ CountsFit'
    BY <1>1, <2>1 DEF Parts, ConnsFit, NotifiersFit, CountsFit, Serves
  <2>4. OperationsFit'
    BY <1>1, <2>1 DEF Parts, OperationsFit, StillWaiting
  <2>5. TypeOK'
    BY <1>1, <2>1, <2>2 DEF Parts, TypeOK
  <2>6. LocksFit'
    BY <1>1, <2>1, <2>2, WalkLocks
  <2>7. PushHasWaker' /\ WaiterHasWaker'
    BY <1>1, <2>1, WakersStay
  <2>8. ReferencesFit'
    <3>1. \A u \in Walkers : ReferencesFit!4!(u)'
      <4> TAKE u \in Walkers
      <4>1. CASE u = t
        BY <2>1, <2>2, <4>1 DEF Parts, ReferencesFit
      <4>2. CASE u # t
        BY <2>1, <2>2, <4>2 DEF Parts, ReferencesFit
      <4> QED  BY <4>1, <4>2
    <3>2. \A op \in DOMAIN registry', m \in DOMAIN listener :
            m \in registry'[op] => listener[m].live /\ listener[m].op = op
      BY <2>2 DEF Parts, ReferencesFit
    <3> QED  BY <1>1, <2>1, <3>1, <3>2 DEF Parts, ReferencesFit
  <2> QED  BY <2>3, <2>4, <2>5, <2>6, <2>7, <2>8 DEF Parts
<1> QED  BY <1>3, <1>4

\* The listener's connection is woken, and the walk goes on.
LEMMA WakeParts ==
    ASSUME Parts, NEW t \in Walkers, Wake(t)
    PROVE  Parts'
<1> PICK l : l = walk[t].at
  OBVIOUS
<1>1. /\ walk[t].step = "wake" /\ Wakes(l) /\ Erased(t, l)
      /\ tasks' = [tasks EXCEPT !.abort = @ \ {l}]
      /\ UNCHANGED <<state, changing, waiting, value, tapLog, tap, job, owner, requests, changes>>
  BY DEF Wake
<1>2. /\ l \in DOMAIN listener /\ listener[l].live /\ listener[l].op = Kind(t)
      /\ listener[l].mutex = t /\ t # NoThread
  BY <1>1, LockNames DEF Parts, ReferencesFit
<1>3. /\ walk' \in [Walkers -> [step : {"none", "next", "claim", "wake"},
                               todo : SUBSET DOMAIN listener, at : Nat]]
      /\ walk'[t].step = "next" /\ walk'[t].todo = walk[t].todo
      /\ \A u \in Walkers : u # t => walk'[u] = walk[u]
      /\ registry' \in [{"sync_mutation", "sync_rep"} -> SUBSET DOMAIN listener]
      /\ \A op \in DOMAIN registry' : op \in DOMAIN registry /\ registry'[op] \subseteq registry[op]
  BY <1>1, ErasedEffect
<1>4. /\ tasks' \in [notify : Nat, abort : SUBSET DOMAIN listener, destroy : SUBSET DOMAIN listener]
      /\ tasks'.notify = tasks.notify /\ tasks'.abort \subseteq tasks.abort
      /\ tasks'.destroy = tasks.destroy
  BY <1>1 DEF Parts, TypeOK
<1>5. /\ ListenersStay(l) /\ listener'[l].live = listener[l].live
      /\ listener'[l].op = listener[l].op /\ listener'[l].answer = listener[l].answer
      /\ conn' \in [Conns -> ConnRecord]
      /\ \A d \in Conns : conn'[d].pc = conn[d].pc
                            \/ (conn[d].pc = "blocked" /\ conn'[d].pc = "notified")
      /\ ConnsFit' /\ NotifiersFit' /\ OperationsFit' /\ CountsFit'
  BY <1>1, <1>2, Waking DEF FiringStays
<1>6. /\ DOMAIN listener' = DOMAIN listener /\ listener' \in Seq(ListenerRecord)
      /\ Len(listener') = Len(listener)
      /\ \A m \in DOMAIN listener : /\ m # l => listener'[m] = listener[m]
                                    /\ listener'[m].live = listener[m].live
                                    /\ listener'[m].op = listener[m].op
                                    /\ listener'[m].answer = listener[m].answer
  BY <1>5 DEF ListenersStay
<1>7. TypeOK'
  BY <1>1, <1>3, <1>4, <1>5, <1>6 DEF Parts, TypeOK
<1>8. LocksFit'
  BY <1>1, <1>3, <1>5, WalkLocks
<1>9. PushHasWaker' /\ WaiterHasWaker'
  BY <1>1, <1>4, <1>5, WakersStay
<1>10. ReferencesFit'
  <2>1. /\ \A op \in DOMAIN registry : registry[op] \subseteq DOMAIN listener
        /\ tasks.abort \subseteq DOMAIN listener /\ tasks.destroy \subseteq DOMAIN listener
        /\ \A u \in Walkers : walk[u].todo \subseteq DOMAIN listener
    BY DEF Parts, TypeOK
  <2>2. \A op \in DOMAIN registry', m \in DOMAIN listener' :
          m \in registry'[op] => listener'[m].live /\ listener'[m].op = op
    BY <1>3, <1>6 DEF Parts, ReferencesFit
  <2>3. /\ \A m \in tasks'.abort : listener'[m].live
        /\ \A m \in tasks'.destroy : listener'[m].live /\ listener'[m].answer # "none"
    BY <1>4, <1>6, <2>1 DEF Parts, ReferencesFit
  <2>4. \A u \in Walkers : ReferencesFit!4!(u)'
    <3> TAKE u \in Walkers
    <3>1. CASE u = t
      BY <1>3, <1>6, <2>1, <3>1 DEF Parts, ReferencesFit
    <3>2. CASE u # t
      <4>1. walk[u].step = "wake" => walk[u].at # l
        BY <1>2, <3>2 DEF Parts, ReferencesFit
      <4> QED  BY <1>3, <1>6, <2>1, <3>2, <4>1 DEF Parts, ReferencesFit
    <3> QED  BY <3>1, <3>2
  <2>5. /\ job.step \in {"abort", "abort_wake"} =>
             job.at \in DOMAIN listener' /\ listener'[job.at].live
        /\ job.step = "abort_wake" => listener'[job.at].mutex = "dispatcher"
    <3>1. job.step = "abort_wake" => job.at # l
      BY <1>2, LockNames DEF Parts, ReferencesFit
    <3> QED  BY <1>6, <3>1 DEF Parts, ReferencesFit
  <2> QED  BY <1>1, <2>2, <2>3, <2>4, <2>5 DEF ReferencesFit
<1> QED  BY <1>5, <1>7, <1>8, <1>9, <1>10 DEF Parts

-----------------------------------------------------------------------------
(* The steps of the dispatcher *)

\* A step that changes neither connections nor listeners nor what is still to be woken.
LEMMA BooksStay ==
    ASSUME Parts, UNCHANGED <<conn, listener>>, StillWaiting' = StillWaiting,
           waiting' = waiting \/ waiting' = <<>>
    PROVE  ConnsFit' /\ NotifiersFit' /\ OperationsFit' /\ CountsFit'
<1>1. ConnsFit' /\ NotifiersFit' /\ CountsFit'
  BY DEF Parts, ConnsFit, NotifiersFit, CountsFit, Serves
<1>2. \A i, j \in DOMAIN waiting' : waiting'[i] = waiting'[j] => i = j
  BY DEF Parts, OperationsFit
<1>3. OperationsFit'
  BY <1>2 DEF Parts, OperationsFit
<1> QED  BY <1>1, <1>3

\* Only pendingOpLock changes hands.
LEMMA JobLocks ==
    ASSUME Parts, UNCHANGED <<conn, walk>>, NEW x \in {"dispatcher", NoThread},
           owner' = [owner EXCEPT !["pendingOpLock"] = x],
           owner["pendingOpLock"] \in {"dispatcher", NoThread},
           job'.step \in {"second", "wake"} <=> x = "dispatcher"
    PROVE  LocksFit' /\ owner' \in [Locks -> Threads \cup {NoThread}]
<1>1. /\ owner' \in [Locks -> Threads \cup {NoThread}] /\ owner'["pendingOpLock"] = x
      /\ \A k \in Locks : k # "pendingOpLock" => owner'[k] = owner[k]
  BY LockNames DEF Parts, TypeOK, Threads
<1>2. \A d \in Conns : /\ owner'[Worker[d]] = owner[Worker[d]]
                       /\ owner'["pendingOpLock"] # d /\ owner["pendingOpLock"] # d
  BY <1>1, LockNames
<1>3. \A u \in Walkers : owner'[Mutex(Kind(u))] = owner[Mutex(Kind(u))]
  BY <1>1, LockNames
<1>4. \A d \in Conns : LocksFit!1!(d)'
  BY <1>2 DEF Parts, LocksFit
<1>5. job'.step \in {"second", "wake"} <=> owner'["pendingOpLock"] = "dispatcher"
  BY <1>1
<1>6. \A u \in Walkers : LocksFit!3!(u)'
  BY <1>3 DEF Parts, LocksFit
<1> QED  BY <1>1, <1>4, <1>5, <1>6 DEF LocksFit

LEMMA NoJobType ==
    /\ NoJob.step = "none" /\ NoJob.rest = <<>>
    /\ NoJob \in [step : {"none", "second", "wake", "abort", "abort_wake"},
                  code : {"none", "success", "not_my_vbucket"}, rest : Seq(Conns), at : Nat]
BY DEF NoJob

\* References, when the dispatcher goes from a job without a listener to another one.
LEMMA JobReferences ==
    ASSUME Parts, UNCHANGED <<listener, registry, walk>>,
           tasks'.abort \subseteq tasks.abort, tasks'.destroy = tasks.destroy,
           job'.step \notin {"abort", "abort_wake"}
    PROVE  ReferencesFit'
BY DEF Parts, ReferencesFit

LEMMA FireAllOpsParts ==
    ASSUME Parts, FireAllOps
    PROVE  Parts'
<1>1. /\ job = NoJob /\ tasks.notify > 0 /\ owner["pendingOpLock"] = NoThread
      /\ tasks' = [tasks EXCEPT !.notify = @ - 1]
      /\ owner' = [owner EXCEPT !["pendingOpLock"] = "dispatcher"]
      /\ UNCHANGED <<state, changing, waiting, value, tapLog, tap, conn, listener, registry, walk,
                     requests, changes>>
  BY DEF FireAllOps, Free
<1>2. /\ tasks' \in [notify : Nat, abort : SUBSET DOMAIN listener, destroy : SUBSET DOMAIN listener]
      /\ tasks'.notify = tasks.notify - 1 /\ tasks'.abort = tasks.abort
      /\ tasks'.destroy = tasks.destroy /\ tasks.notify \in Nat
  <2>1. /\ tasks \in [notify : Nat, abort : SUBSET DOMAIN listener, destroy : SUBSET DOMAIN listener]
        /\ tasks.notify \in Nat
    BY DEF Parts, TypeOK
  <2>2. tasks.notify - 1 \in Nat
    BY <1>1, <2>1
  <2> QED  BY <1>1, <2>1, <2>2
<1>3. /\ job' \in [step : {"none", "second", "wake", "abort", "abort_wake"},
                   code : {"none", "success", "not_my_vbucket"}, rest : Seq(Conns), at : Nat]
      /\ job'.step \in {"second", "wake"} /\ (job'.step = "wake" => job'.rest = waiting)
  <2>1. waiting \in Seq(Conns)
    BY DEF Parts, TypeOK
  <2>2. CASE state = "active"
    <3>1. job' = [NoJob EXCEPT !.step = "wake", !.code = "success", !.rest = waiting]
      BY <2>2 DEF FireAllOps
    <3> QED  BY <2>1, <3>1, NoJobType DEF NoJob
  <2>3. CASE state # "active"
    <3>1. job' = [NoJob EXCEPT !.step = "second"]
      BY <2>3 DEF FireAllOps
    <3> QED  BY <3>1, NoJobType DEF NoJob
  <2> QED  BY <2>2, <2>3
<1>4. StillWaiting = waiting /\ StillWaiting' = waiting
  BY <1>1, <1>3, NoJobType DEF StillWaiting
<1>5. ConnsFit' /\ NotifiersFit' /\ OperationsFit' /\ CountsFit'
  BY <1>1, <1>4, BooksStay
<1>6. LocksFit' /\ owner' \in [Locks -> Threads \cup {NoThread}]
  BY <1>1, <1>3, JobLocks
<1>7. TypeOK'
  <2>1. tasks'.notify + (IF changing' THEN 1 ELSE 0) <= changes'
    <3>1. tasks.notify + (IF changing THEN 1 ELSE 0) <= changes /\ changes \in Nat
      BY ClientAssumption DEF Parts, TypeOK
    <3> QED  BY <1>1, <1>2, <3>1
  <2> QED  BY <1>1, <1>2, <1>3, <1>6, <2>1 DEF Parts, TypeOK
<1>8. PushHasWaker' /\ WaiterHasWaker'
  <2>1. \A c \in Conns : conn[c].pc # "push"
    BY <1>1, LockNames DEF Parts, LocksFit
  <2> QED  BY <1>1, <1>3, <2>1 DEF PushHasWaker, WaiterHasWaker
<1>9. ReferencesFit'
  BY <1>1, <1>2, <1>3, JobReferences
<1> QED  BY <1>5, <1>6, <1>7, <1>8, <1>9 DEF Parts

LEMMA FireOrNotParts ==
    ASSUME Parts, FireOrNot
    PROVE  Parts'
<1>1. /\ job.step = "second"
      /\ UNCHANGED <<state, changing, waiting, value, tapLog, tap, conn, listener, registry,
                     walk, tasks, requests, changes>>
  BY DEF FireOrNot
<1>2. owner["pendingOpLock"] = "dispatcher"
  BY <1>1 DEF Parts, LocksFit
<1>3. CASE state = "pending"
  <2>1. job' = NoJob /\ owner' = [owner EXCEPT !["pendingOpLock"] = NoThread]
    BY <1>3 DEF FireOrNot
  <2>2. ConnsFit' /\ NotifiersFit' /\ OperationsFit' /\ CountsFit'
    <3>1. StillWaiting' = StillWaiting
      BY <1>1, <2>1, NoJobType DEF StillWaiting
    <3> QED  BY <1>1, <3>1, BooksStay
  <2>3. LocksFit' /\ owner' \in [Locks -> Threads \cup {NoThread}]
    <3>1. NoThread # "dispatcher" /\ job'.step = "none"
      BY <2>1, NoJobType, ClientAssumption
    <3> QED  BY <1>1, <1>2, <2>1, <3>1, JobLocks
  <2>4. TypeOK'
    BY <1>1, <2>1, <2>3, NoJobType DEF Parts, TypeOK
  <2>5. PushHasWaker' /\ WaiterHasWaker'
    BY <1>1, <1>3 DEF PushHasWaker, WaiterHasWaker
  <2>6. ReferencesFit'
    BY <1>1, <2>1, NoJobType, JobReferences
  <2> QED  BY <2>2, <2>3, <2>4, <2>5, <2>6 DEF Parts
<1>4. CASE state # "pending"
  <2>1. /\ job' = [job EXCEPT !.step = "wake", !.code = "not_my_vbucket", !.rest = waiting]
        /\ owner' = owner
    BY <1>4 DEF FireOrNot
  <2>2. /\ job' \in [step : {"none", "second", "wake", "abort", "abort_wake"},
                     code : {"none", "success", "not_my_vbucket"}, rest : Seq(Conns), at : Nat]
        /\ job'.step = "wake" /\ job'.rest = waiting
    BY <2>1 DEF Parts, TypeOK
  <2>3. ConnsFit' /\ NotifiersFit' /\ OperationsFit' /\ CountsFit'
    <3>1. StillWaiting' = StillWaiting
      BY <1>1, <2>2 DEF StillWaiting
    <3> QED  BY <1>1, <3>1, BooksStay
  <2>4. LocksFit'
    BY <1>1, <2>1, <2>2, LocksStay
  <2>5. TypeOK'
    BY <1>1, <2>1, <2>2 DEF Parts, TypeOK
  <2>6. PushHasWaker' /\ WaiterHasWaker'
    BY <1>1, <2>2, WakersStay
  <2>7. ReferencesFit'
    BY <1>1, <2>2, JobReferences
  <2> QED  BY <2>3, <2>4, <2>5, <2>6, <2>7 DEF Parts
<1> QED  BY <1>3, <1>4

LEMMA FireOneParts ==
    ASSUME Parts, FireOne
    PROVE  Parts'
<1> PICK c : c = Head(job.rest)
  OBVIOUS
<1>1. /\ job.step = "wake" /\ job.rest # <<>> /\ conn' = Woken(conn, c, job.code)
      /\ job' = [job EXCEPT !.rest = Tail(@)]
      /\ UNCHANGED <<state, changing, waiting, value, tapLog, tap, listener, registry, walk,
                     tasks, owner, requests, changes>>
  BY DEF FireOne
<1>2. /\ job.rest \in Seq(Conns) /\ c \in Conns /\ c = job.rest[1] /\ 1 \in DOMAIN job.rest
      /\ Tail(job.rest) \in Seq(Conns)
  <2>1. job.rest \in Seq(Conns)
    BY DEF Parts, TypeOK
  <2> QED  BY <1>1, <2>1
<1>3. /\ job' \in [step : {"none", "second", "wake", "abort", "abort_wake"},
                   code : {"none", "success", "not_my_vbucket"}, rest : Seq(Conns), at : Nat]
      /\ job'.step = "wake" /\ job'.rest = Tail(job.rest)
  BY <1>1, <1>2 DEF Parts, TypeOK
<1>4. conn[c].pc = "blocked"
  <2>1. StillWaiting = job.rest
    BY <1>1 DEF StillWaiting
  <2> QED  BY <1>2, <2>1 DEF Parts, OperationsFit
<1>5. /\ conn' \in [Conns -> ConnRecord] /\ OthersStay(c) /\ conn'[c].pc = "notified"
      /\ conn'[c].specific = conn[c].specific /\ conn'[c].listener = conn[c].listener
  <2>1. conn'[c] = [conn[c] EXCEPT !.pc = "notified", !.status = job.code]
    BY <1>1, <1>2, <1>4 DEF Woken, Parts, TypeOK
  <2>2. job.code \in {"none", "success", "not_my_vbucket"}
    BY DEF Parts, TypeOK
  <2> DEFINE r == [conn[c] EXCEPT !.pc = "notified", !.status = job.code]
  <2>3. conn \in [Conns -> ConnRecord] /\ conn[c] \in ConnRecord
    BY <1>2 DEF Parts, TypeOK
  <2>4. /\ r \in ConnRecord /\ r.pc = "notified"
        /\ r.specific = conn[c].specific /\ r.listener = conn[c].listener
    BY <2>2, <2>3 DEF ConnRecord
  <2>5. conn' = [conn EXCEPT ![c] = r]
    BY <1>1, <1>4 DEF Woken
  <2> HIDE DEF r
  <2> QED  BY <1>2, <2>3, <2>4, <2>5 DEF OthersStay
<1>6. ConnsFit' /\ NotifiersFit' /\ OperationsFit' /\ CountsFit'
  BY <1>1, <1>3, <1>5, Firing
<1>7. \A d \in Conns : /\ conn'[d].pc \in Running <=> conn[d].pc \in Running
                       /\ conn'[d].pc = "push" <=> conn[d].pc = "push"
                       /\ conn'[d].pc = "walk" <=> conn[d].pc = "walk"
  BY <1>4, <1>5 DEF OthersStay, Running
<1>8. LocksFit'
  BY <1>1, <1>3, <1>7, LocksStay
<1>9. TypeOK'
  BY <1>1, <1>3, <1>5 DEF Parts, TypeOK
<1>10. PushHasWaker' /\ WaiterHasWaker'
  BY <1>1, <1>3, <1>7, WakersStay
<1>11. ReferencesFit'
  BY <1>1, <1>3, JobReferences
<1> QED  BY <1>6, <1>8, <1>9, <1>10, <1>11 DEF Parts

LEMMA FiredParts ==
    ASSUME Parts, Fired
    PROVE  Parts'
<1>1. /\ job.step = "wake" /\ job.rest = <<>> /\ waiting' = <<>> /\ job' = NoJob
      /\ owner' = [owner EXCEPT !["pendingOpLock"] = NoThread]
      /\ UNCHANGED <<state, changing, value, tapLog, tap, conn, listener, registry, walk,
                     tasks, requests, changes>>
  BY DEF Fired
<1>2. owner["pendingOpLock"] = "dispatcher"
  BY <1>1 DEF Parts, LocksFit
<1>3. ConnsFit' /\ NotifiersFit' /\ OperationsFit' /\ CountsFit'
  <2>1. StillWaiting' = StillWaiting
    BY <1>1, NoJobType DEF StillWaiting
  <2> QED  BY <1>1, <2>1, BooksStay
<1>4. LocksFit' /\ owner' \in [Locks -> Threads \cup {NoThread}]
  <2>1. NoThread # "dispatcher" /\ job'.step = "none"
    BY <1>1, NoJobType, ClientAssumption
  <2> QED  BY <1>1, <1>2, <2>1, JobLocks
<1>5. TypeOK'
  <2>1. waiting' \in Seq(Conns) /\ Len(waiting') = 0 /\ Cardinality(Conns) \in Nat
    BY <1>1, ClientAssumption, FS_CardinalityType
  <2> QED  BY <1>1, <1>4, <2>1, NoJobType DEF Parts, TypeOK
<1>6. PushHasWaker' /\ WaiterHasWaker'
  <2>1. \A c \in Conns : conn[c].pc # "push"
    BY <1>2, LockNames DEF Parts, LocksFit
  <2> QED  BY <1>1, <2>1 DEF PushHasWaker, WaiterHasWaker
<1>7. ReferencesFit'
  BY <1>1, NoJobType, JobReferences
<1> QED  BY <1>3, <1>4, <1>5, <1>6, <1>7 DEF Parts

LEMMA RunAbortParts ==
    ASSUME Parts, NEW l, RunAbort(l)
    PROVE  Parts'
<1>1. /\ job = NoJob /\ l \in tasks.abort /\ tasks' = [tasks EXCEPT !.abort = @ \ {l}]
      /\ job' = IF listener[l].finished THEN NoJob ELSE [NoJob EXCEPT !.step = "abort", !.at = l]
      /\ UNCHANGED <<state, changing, waiting, value, tapLog, tap, conn, listener, registry,
                     walk, owner, requests, changes>>
  BY DEF RunAbort
<1>2. l \in DOMAIN listener /\ l \in Nat /\ listener[l].live
  <2>1. l \in DOMAIN listener
    BY <1>1 DEF Parts, TypeOK
  <2> QED  BY <1>1, <2>1, ListenerTypes DEF Parts, ReferencesFit
<1>3. /\ tasks' \in [notify : Nat, abort : SUBSET DOMAIN listener, destroy : SUBSET DOMAIN listener]
      /\ tasks'.notify = tasks.notify /\ tasks'.abort \subseteq tasks.abort
      /\ tasks'.destroy = tasks.destroy
  BY <1>1 DEF Parts, TypeOK
<1>4. /\ job' \in [step : {"none", "second", "wake", "abort", "abort_wake"},
                   code : {"none", "success", "not_my_vbucket"}, rest : Seq(Conns), at : Nat]
      /\ job'.step = "none" \/ (job'.step = "abort" /\ job'.at = l)
  <2>1. CASE job' = NoJob
    BY <2>1, NoJobType
  <2>2. CASE job' = [NoJob EXCEPT !.step = "abort", !.at = l]
    BY <1>2, <2>2, NoJobType
  <2> QED  BY <1>1, <2>1, <2>2
<1>5. job.step = "none"
  BY <1>1, NoJobType
<1>6. ConnsFit' /\ NotifiersFit' /\ OperationsFit' /\ CountsFit'
  <2>1. StillWaiting' = StillWaiting
    BY <1>1, <1>4, <1>5 DEF StillWaiting
  <2> QED  BY <1>1, <2>1, BooksStay
<1>7. LocksFit'
  BY <1>1, <1>4, <1>5, LocksStay
<1>8. TypeOK'
  BY <1>1, <1>3, <1>4 DEF Parts, TypeOK
<1>9. PushHasWaker' /\ WaiterHasWaker'
  BY <1>1, <1>3, <1>5, WakersStay
<1>10. ReferencesFit'
  <2>1. \A u \in Walkers : ReferencesFit!4!(u)'
    BY <1>1 DEF Parts, ReferencesFit
  <2> QED  BY <1>1, <1>2, <1>3, <1>4, <2>1 DEF Parts, ReferencesFit
<1> QED  BY <1>6, <1>7, <1>8, <1>9, <1>10 DEF Parts

LEMMA AbortParts ==
    ASSUME Parts, Abort
    PROVE  Parts'
<1> PICK l : l = job.at
  OBVIOUS
<1>1. /\ job.step = "abort" /\ listener[l].mutex = NoThread
      /\ UNCHANGED <<state, changing, waiting, value, tapLog, tap, registry, walk, tasks,
                     owner, requests, changes>>
  BY DEF Abort, Unlocked
<1>2. l \in DOMAIN listener /\ listener[l].live
  BY <1>1 DEF Parts, ReferencesFit
<1>3. CASE listener[l].allowNotify
  <2>1. Claims(l, "dispatcher") /\ job' = [job EXCEPT !.step = "abort_wake"]
    BY <1>3 DEF Abort
  <2>2. /\ job' \in [step : {"none", "second", "wake", "abort", "abort_wake"},
                     code : {"none", "success", "not_my_vbucket"}, rest : Seq(Conns), at : Nat]
        /\ job'.step = "abort_wake" /\ job'.at = l
    BY <2>1 DEF Parts, TypeOK
  <2>3. "dispatcher" \in Threads
    BY DEF Threads
  <2>4. /\ ListenersStay(l) /\ listener'[l].mutex = "dispatcher" /\ listener'[l].live = listener[l].live
        /\ listener'[l].op = listener[l].op /\ listener'[l].answer = listener[l].answer
        /\ conn' \in [Conns -> ConnRecord]
        /\ \A c \in Conns : conn'[c].pc = conn[c].pc
        /\ ConnsFit' /\ NotifiersFit' /\ OperationsFit' /\ CountsFit'
    <3>1. FiringStays
      BY <1>1, <2>2 DEF FiringStays
    <3> QED  BY <1>1, <1>2, <1>3, <2>1, <2>3, <3>1, Claiming
  <2>5. /\ DOMAIN listener' = DOMAIN listener /\ listener' \in Seq(ListenerRecord)
        /\ Len(listener') = Len(listener)
        /\ \A m \in DOMAIN listener : /\ m # l => listener'[m] = listener[m]
                                      /\ listener'[m].live = listener[m].live
                                      /\ listener'[m].op = listener[m].op
                                      /\ listener'[m].answer = listener[m].answer
    BY <2>4 DEF ListenersStay
  <2>6. TypeOK'
    BY <1>1, <2>2, <2>4, <2>5 DEF Parts, TypeOK
  <2>7. LocksFit'
    BY <1>1, <2>2, <2>4, LocksStay
  <2>8. PushHasWaker' /\ WaiterHasWaker'
    BY <1>1, <2>4, WakersStay
  <2>9. ReferencesFit'
    <3>1. /\ \A op \in DOMAIN registry : registry[op] \subseteq DOMAIN listener
          /\ tasks.abort \subseteq DOMAIN listener /\ tasks.destroy \subseteq DOMAIN listener
          /\ \A u \in Walkers : walk[u].todo \subseteq DOMAIN listener
      BY DEF Parts, TypeOK
    <3>2. \A op \in DOMAIN registry, m \in DOMAIN listener' :
            m \in registry[op] => listener'[m].live /\ listener'[m].op = op
      BY <2>5 DEF Parts, ReferencesFit
    <3>3. /\ \A m \in tasks.abort : listener'[m].live
          /\ \A m \in tasks.destroy : listener'[m].live /\ listener'[m].answer # "none"
      BY <2>5, <3>1 DEF Parts, ReferencesFit
    <3>4. \A u \in Walkers : ReferencesFit!4!(u)'
      <4> TAKE u \in Walkers
      <4>1. walk[u].step = "wake" => walk[u].at # l
        BY <1>1, LockNames DEF Parts, ReferencesFit
      <4>2. walk'[u] = walk[u] /\ ReferencesFit!4!(u)
        BY <1>1 DEF Parts, ReferencesFit
      <4> QED  BY <2>5, <3>1, <4>1, <4>2
    <3>5. job'.at \in DOMAIN listener' /\ listener'[job'.at].live /\ listener'[job'.at].mutex = "dispatcher"
      BY <1>2, <2>2, <2>4, <2>5
    <3> QED  BY <1>1, <3>2, <3>3, <3>4, <3>5 DEF ReferencesFit
  <2> QED  BY <2>4, <2>6, <2>7, <2>8, <2>9 DEF Parts
<1>4. CASE ~listener[l].allowNotify
  <2>1. job' = NoJob /\ UNCHANGED <<listener, conn>>
    BY <1>4 DEF Abort
  <2>2. job'.step = "none"
    BY <2>1, NoJobType
  <2>3. ConnsFit' /\ NotifiersFit' /\ OperationsFit' /\ CountsFit'
    <3>1. StillWaiting' = StillWaiting
      BY <1>1, <2>2 DEF StillWaiting
    <3> QED  BY <1>1, <2>1, <3>1, BooksStay
  <2>4. LocksFit'
    BY <1>1, <2>1, <2>2, LocksStay
  <2>5. TypeOK'
    BY <1>1, <2>1, NoJobType DEF Parts, TypeOK
  <2>6. PushHasWaker' /\ WaiterHasWaker'
    BY <1>1, <2>1, WakersStay
  <2>7. ReferencesFit'
    BY <1>1, <2>1, <2>2, JobReferences
  <2> QED  BY <2>3, <2>4, <2>5, <2>6, <2>7 DEF Parts
<1> QED  BY <1>3, <1>4

LEMMA AbortWakesParts ==
    ASSUME Parts, AbortWakes
    PROVE  Parts'
<1> PICK l : l = job.at
  OBVIOUS
<1>1. /\ job.step = "abort_wake" /\ Wakes(l) /\ job' = NoJob
      /\ UNCHANGED <<state, changing, waiting, value, tapLog, tap, registry, walk, tasks,
                     owner, requests, changes>>
  BY DEF AbortWakes
<1>2. l \in DOMAIN listener /\ listener[l].live /\ listener[l].mutex = "dispatcher"
  BY <1>1 DEF Parts, ReferencesFit
<1>3. job'.step = "none"
  BY <1>1, NoJobType
<1>4. /\ ListenersStay(l) /\ listener'[l].live = listener[l].live
      /\ listener'[l].op = listener[l].op /\ listener'[l].answer = listener[l].answer
      /\ conn' \in [Conns -> ConnRecord]
      /\ \A d \in Conns : conn'[d].pc = conn[d].pc
                            \/ (conn[d].pc = "blocked" /\ conn'[d].pc = "notified")
      /\ ConnsFit' /\ NotifiersFit' /\ OperationsFit' /\ CountsFit'
  <2>1. FiringStays
    BY <1>1, <1>3 DEF FiringStays
  <2>2. listener[l].mutex # NoThread
    BY <1>2, ClientAssumption
  <2> QED  BY <1>1, <1>2, <2>1, <2>2, Waking
<1>5. /\ DOMAIN listener' = DOMAIN listener /\ listener' \in Seq(ListenerRecord)
      /\ Len(listener') = Len(listener)
      /\ \A m \in DOMAIN listener : /\ m # l => listener'[m] = listener[m]
                                    /\ listener'[m].live = listener[m].live
                                    /\ listener'[m].op = listener[m].op
                                    /\ listener'[m].answer = listener[m].answer
  BY <1>4 DEF ListenersStay
<1>6. TypeOK'
  BY <1>1, <1>4, <1>5, NoJobType DEF Parts, TypeOK
<1>7. \A d \in Conns : /\ conn'[d].pc \in Running <=> conn[d].pc \in Running
                       /\ conn'[d].pc = "push" <=> conn[d].pc = "push"
                       /\ conn'[d].pc = "walk" <=> conn[d].pc = "walk"
  BY <1>4 DEF Running
<1>8. LocksFit'
  BY <1>1, <1>3, <1>7, LocksStay
<1>9. PushHasWaker' /\ WaiterHasWaker'
  BY <1>1, <1>7, WakersStay
<1>10. ReferencesFit'
  <2>1. /\ \A op \in DOMAIN registry : registry[op] \subseteq DOMAIN listener
        /\ tasks.abort \subseteq DOMAIN listener /\ tasks.destroy \subseteq DOMAIN listener
        /\ \A u \in Walkers : walk[u].todo \subseteq DOMAIN listener
    BY DEF Parts, TypeOK
  <2>2. \A op \in DOMAIN registry, m \in DOMAIN listener' :
          m \in registry[op] => listener'[m].live /\ listener'[m].op = op
    BY <1>5 DEF Parts, ReferencesFit
  <2>3. /\ \A m \in tasks.abort : listener'[m].live
        /\ \A m \in tasks.destroy : listener'[m].live /\ listener'[m].answer # "none"
    BY <1>5, <2>1 DEF Parts, ReferencesFit
  <2>4. \A u \in Walkers : ReferencesFit!4!(u)'
    <3> TAKE u \in Walkers
    <3>1. walk[u].step = "wake" => walk[u].at # l
      BY <1>2, LockNames DEF Parts, ReferencesFit
    <3>2. walk'[u] = walk[u] /\ ReferencesFit!4!(u)
      BY <1>1 DEF Parts, ReferencesFit
    <3> QED  BY <1>5, <2>1, <3>1, <3>2
  <2> QED  BY <1>1, <1>3, <2>2, <2>3, <2>4 DEF ReferencesFit
<1> QED  BY <1>4, <1>6, <1>8, <1>9, <1>10 DEF Parts

\* Nobody walks the listeners of its kind while a listener is destroyed.
LEMMA DestroyParts ==
    ASSUME Parts, NEW l, Destroy(l)
    PROVE  Parts'
<1> PICK op : op = listener[l].op
  OBVIOUS
<1>1. /\ job = NoJob /\ l \in tasks.destroy /\ owner[Mutex(op)] = NoThread
      /\ tasks' = [tasks EXCEPT !.destroy = @ \ {l}, !.abort = @ \ {l}]
      /\ registry' = [registry EXCEPT ![op] = @ \ {l}]
      /\ listener' = [listener EXCEPT ![l] = Deleted(listener[l])]
      /\ UNCHANGED <<state, changing, waiting, value, tapLog, tap, conn, walk, job, owner, requests,
                     changes>>
  BY DEF Destroy, Free
<1>2. /\ l \in DOMAIN listener /\ listener[l] \in ListenerRecord
      /\ op \in {"sync_mutation", "sync_rep"}
  <2>1. l \in DOMAIN listener
    BY <1>1 DEF Parts, TypeOK
  <2> QED  BY <2>1, ListenerTypes DEF Parts
<1>3. PICK r \in ListenerRecord : r = Deleted(listener[l])
  BY <1>2 DEF Deleted, ListenerRecord
<1>4. /\ ListenersStay(l) /\ listener'[l].op = op
      /\ ConnsFit' /\ NotifiersFit' /\ OperationsFit' /\ CountsFit'
  BY <1>1, <1>3, Deleting
<1>5. /\ DOMAIN listener' = DOMAIN listener /\ listener' \in Seq(ListenerRecord)
      /\ Len(listener') = Len(listener)
      /\ \A m \in DOMAIN listener : m # l => listener'[m] = listener[m]
  BY <1>4 DEF ListenersStay
<1>6. /\ tasks' \in [notify : Nat, abort : SUBSET DOMAIN listener, destroy : SUBSET DOMAIN listener]
      /\ tasks'.notify = tasks.notify /\ tasks'.abort = tasks.abort \ {l}
      /\ tasks'.destroy = tasks.destroy \ {l}
  BY <1>1 DEF Parts, TypeOK
<1>7. /\ registry' \in [{"sync_mutation", "sync_rep"} -> SUBSET DOMAIN listener]
      /\ DOMAIN registry = DOMAIN registry' /\ registry'[op] = registry[op] \ {l}
      /\ \A o \in DOMAIN registry : registry'[o] \subseteq registry[o]
  BY <1>1, <1>2 DEF Parts, TypeOK
<1>8. TypeOK'
  BY <1>1, <1>5, <1>6, <1>7 DEF Parts, TypeOK
<1>9. LocksFit'
  BY <1>1, LocksStay
<1>10. PushHasWaker' /\ WaiterHasWaker'
  BY <1>1, <1>6, WakersStay
<1>11. ReferencesFit'
  <2>1. /\ \A o \in DOMAIN registry : registry[o] \subseteq DOMAIN listener
        /\ tasks.abort \subseteq DOMAIN listener /\ tasks.destroy \subseteq DOMAIN listener
        /\ \A u \in Walkers : walk[u].todo \subseteq DOMAIN listener
    BY DEF Parts, TypeOK
  <2>2. \A o \in DOMAIN registry', m \in DOMAIN listener' :
          m \in registry'[o] => listener'[m].live /\ listener'[m].op = o
    <3> TAKE o \in DOMAIN registry', m \in DOMAIN listener'
    <3>1. CASE m = l
      <4>1. m \in registry[o] => o = op
        BY <1>5, <1>7, <3>1 DEF Parts, ReferencesFit
      <4> QED  BY <1>7, <3>1, <4>1
    <3>2. CASE m # l
      BY <1>5, <1>7, <3>2 DEF Parts, ReferencesFit
    <3> QED  BY <3>1, <3>2
  <2>3. /\ \A m \in tasks'.abort : listener'[m].live
        /\ \A m \in tasks'.destroy : listener'[m].live /\ listener'[m].answer # "none"
    BY <1>5, <1>6, <2>1 DEF Parts, ReferencesFit
  <2>4. \A u \in Walkers : ReferencesFit!4!(u)'
    <3> TAKE u \in Walkers
    <3>1. walk'[u] = walk[u] /\ ReferencesFit!4!(u)
      BY <1>1 DEF Parts, ReferencesFit
    <3>2. CASE Kind(u) = op
      <4>1. walk[u].step = "none"
        BY <1>1, <3>2, LockNames DEF Parts, LocksFit
      <4>2. walk[u].todo = {}
        BY <4>1 DEF Parts, LocksFit, NoWalk
      <4> QED  BY <3>1, <4>1, <4>2
    <3>3. CASE Kind(u) # op
      <4>1. \A m \in walk[u].todo : m # l
        BY <3>1, <3>3
      <4>2. walk[u].step \in {"claim", "wake"} => walk[u].at # l
        BY <3>1, <3>3
      <4> QED  BY <1>5, <2>1, <3>1, <4>1, <4>2
    <3> QED  BY <3>2, <3>3
  <2>5. job'.step \notin {"abort", "abort_wake"}
    BY <1>1, NoJobType
  <2> QED  BY <2>2, <2>3, <2>4, <2>5 DEF ReferencesFit
<1> QED  BY <1>4, <1>8, <1>9, <1>10, <1>11 DEF Parts

-----------------------------------------------------------------------------
(* The vbucket, the replica, and the initial state *)

LEMMA OtherParts ==
    ASSUME Parts, \/ (\E to \in States : SetState(to)) \/ ScheduleNotify \/ Acknowledge
                  \/ UNCHANGED vars
    PROVE  Parts'
<1>1. UNCHANGED <<waiting, conn, listener, registry, walk, job, owner>>
  BY DEF SetState, ScheduleNotify, Acknowledge, vars
<1>2. ConnsFit' /\ NotifiersFit' /\ OperationsFit' /\ CountsFit'
  <2>1. StillWaiting' = StillWaiting
    BY <1>1 DEF StillWaiting
  <2> QED  BY <1>1, <2>1, BooksStay
<1>3. LocksFit'
  BY <1>1, LocksStay
<1>4. tasks.notify \in Nat /\ changes \in Nat
  BY ClientAssumption DEF Parts, TypeOK
<1>5. tasks'.abort = tasks.abort /\ tasks'.destroy = tasks.destroy
  BY DEF SetState, ScheduleNotify, Acknowledge, vars, Parts, TypeOK
<1>6. ReferencesFit'
  BY <1>1, <1>5 DEF Parts, ReferencesFit
<1>7. TypeOK'
  <2>1. CASE \E to \in States : SetState(to)
    <3>1. /\ state' \in States /\ ~changing /\ changes < MaxChanges /\ changing' = TRUE
          /\ changes' = changes + 1 /\ UNCHANGED <<tasks, requests>>
      BY <2>1 DEF SetState
    <3>2. tasks'.notify + (IF changing' THEN 1 ELSE 0) <= changes'
      BY <1>4, <3>1 DEF Parts, TypeOK
    <3>3. changes' \in 0 .. MaxChanges
      BY <1>4, <3>1, ClientAssumption
    <3> QED  BY <1>1, <3>1, <3>2, <3>3 DEF Parts, TypeOK
  <2>2. CASE ScheduleNotify
    <3>1. /\ changing /\ changing' = FALSE /\ tasks' = [tasks EXCEPT !.notify = @ + 1]
          /\ UNCHANGED <<state, requests, changes>>
      BY <2>2 DEF ScheduleNotify
    <3>2. /\ tasks' \in [notify : Nat, abort : SUBSET DOMAIN listener, destroy : SUBSET DOMAIN listener]
          /\ tasks'.notify = tasks.notify + 1
      <4>1. tasks \in [notify : Nat, abort : SUBSET DOMAIN listener, destroy : SUBSET DOMAIN listener]
        BY DEF Parts, TypeOK
      <4>2. tasks.notify + 1 \in Nat
        BY <1>4
      <4> QED  BY <3>1, <4>1, <4>2
    <3>3. tasks'.notify + (IF changing' THEN 1 ELSE 0) <= changes'
      BY <1>4, <3>1, <3>2 DEF Parts, TypeOK
    <3> QED  BY <1>1, <3>1, <3>2, <3>3 DEF Parts, TypeOK
  <2>3. CASE Acknowledge \/ UNCHANGED vars
    BY <2>3 DEF Acknowledge, vars, Parts, TypeOK
  <2> QED  BY <2>1, <2>2, <2>3
<1>8. PushHasWaker' /\ WaiterHasWaker'
  <2>1. CASE \E to \in States : SetState(to)
    BY <2>1 DEF SetState, PushHasWaker, WaiterHasWaker
  <2>2. CASE ScheduleNotify
    <3>1. tasks' = [tasks EXCEPT !.notify = @ + 1]
      BY <2>2 DEF ScheduleNotify
    <3>2. tasks'.notify > 0
      BY <1>4, <3>1 DEF Parts, TypeOK
    <3> QED  BY <3>2 DEF PushHasWaker, WaiterHasWaker
  <2>3. CASE Acknowledge \/ UNCHANGED vars
    BY <2>3 DEF Acknowledge, vars, Parts, PushHasWaker, WaiterHasWaker
  <2> QED  BY <2>1, <2>2, <2>3
<1> QED  BY <1>2, <1>3, <1>6, <1>7, <1>8 DEF Parts

LEMMA InitParts ==
    ASSUME Init
    PROVE  Parts
<1>1. /\ conn = [c \in Conns |-> Idle] /\ listener = <<>> /\ waiting = <<>> /\ job = NoJob
      /\ registry = [op \in {"sync_mutation", "sync_rep"} |-> {}]
      /\ walk = [t \in Walkers |-> NoWalk] /\ owner = [l \in Locks |-> NoThread]
      /\ tasks = [notify |-> 0, abort |-> {}, destroy |-> {}]
      /\ state = InitialState /\ changing = FALSE /\ requests = 0 /\ changes = 0
  BY DEF Init
<1>2. DOMAIN listener = {} /\ Len(listener) = 0 /\ listener \in Seq(ListenerRecord)
  BY <1>1
<1>3. MaxSyncs \in Nat /\ MaxChanges \in Nat /\ MaxRequests \in Nat /\ Cardinality(Conns) \in Nat
  BY ClientAssumption, FS_CardinalityType
<1>4. TypeOK
  <2>1. /\ waiting \in Seq(Conns) /\ Len(waiting) <= Cardinality(Conns)
        /\ conn \in [Conns -> ConnRecord]
    BY <1>1, <1>3, IdleType
  <2>2. /\ registry \in [{"sync_mutation", "sync_rep"} -> SUBSET DOMAIN listener]
        /\ walk \in [Walkers -> [step : {"none", "next", "claim", "wake"},
                                 todo : SUBSET DOMAIN listener, at : Nat]]
        /\ tasks \in [notify : Nat, abort : SUBSET DOMAIN listener, destroy : SUBSET DOMAIN listener]
        /\ owner \in [Locks -> Threads \cup {NoThread}]
    BY <1>1 DEF NoWalk
  <2>3. /\ state \in States \cup {InitialState} /\ changing \in BOOLEAN
        /\ changes \in 0 .. MaxChanges /\ requests \in 0 .. MaxRequests
        /\ tasks.notify + (IF changing THEN 1 ELSE 0) <= changes /\ Len(listener) <= MaxSyncs
    <3>1. 0 \in 0 .. MaxChanges /\ 0 \in 0 .. MaxRequests /\ 0 <= MaxSyncs
      BY <1>3
    <3>2. tasks.notify = 0 /\ (IF changing THEN 1 ELSE 0) = 0
      BY <1>1
    <3>3. tasks.notify + (IF changing THEN 1 ELSE 0) <= changes
      BY <1>1, <3>2
    <3>4. changes \in 0 .. MaxChanges /\ requests \in 0 .. MaxRequests
      BY <1>1, <3>1
    <3>5. Len(listener) <= MaxSyncs
      BY <1>2, <3>1
    <3> QED  BY <1>1, <3>3, <3>4, <3>5
  <2> QED  BY <1>1, <1>2, <2>1, <2>2, <2>3, NoJobType DEF TypeOK
<1>5. \A c \in Conns : conn[c] = Idle /\ conn[c].pc = "idle"
  BY <1>1, IdlePlain
<1>6. LocksFit
  <2>1. \A t \in Walkers : walk[t] = NoWalk /\ walk[t].step = "none"
    BY <1>1 DEF NoWalk
  <2>2. \A l \in Locks, t \in Threads : owner[l] # t
    BY <1>1, LockNames
  <2>3. "dispatcher" \in Threads
    BY DEF Threads
  <2>4. \A t \in Walkers : Mutex(Kind(t)) \in Locks
    BY LockNames DEF Kind
  <2> QED  BY <1>1, <1>5, <2>1, <2>2, <2>3, <2>4, NoJobType, LockNames DEF LocksFit, Running
<1>7. ConnsFit
  BY <1>5 DEF ConnsFit, Idle
<1>8. NotifiersFit /\ CountsFit
  BY <1>2 DEF NotifiersFit, CountsFit
<1>9. ReferencesFit
  BY <1>1, <1>2, NoJobType DEF ReferencesFit, NoWalk
<1>10. OperationsFit
  <2>1. StillWaiting = <<>> /\ waiting = <<>>
    BY <1>1, NoJobType DEF StillWaiting
  <2> QED  BY <1>5, <2>1 DEF OperationsFit
<1>11. PushHasWaker /\ WaiterHasWaker
  BY <1>1, <1>5 DEF PushHasWaker, WaiterHasWaker
<1> QED  BY <1>4, <1>6, <1>7, <1>8, <1>9, <1>10, <1>11 DEF Parts

LEMMA WalksParts ==
    ASSUME Parts, NEW t \in Walkers, Walks(t)
    PROVE  Parts'
BY StartWalkParts, EndWalkParts, SyncedParts, ClaimParts, WakeParts DEF Walks

LEMMA WorkerParts ==
    ASSUME Parts, NEW c \in Conns, WorkerStep(c)
    PROVE  Parts'
<1>1. CASE Walks(c)
  BY <1>1, WalksParts, LockNames
<1> QED  BY <1>1, ResumeParts, AddPendingOpParts, PushPendingOpParts, ApplyParts, RegisterParts,
            TellParts, EnableParts DEF WorkerStep

LEMMA DispatcherParts ==
    ASSUME Parts, DispatcherStep
    PROVE  Parts'
BY FireAllOpsParts, FireOrNotParts, FireOneParts, FiredParts, RunAbortParts, AbortParts,
   AbortWakesParts, DestroyParts DEF DispatcherStep

LEMMA StepParts ==
    ASSUME Parts, [Next]_vars
    PROVE  Parts'
<1>1. CASE \E c \in Conns : WorkerStep(c) \/ \E cmd \in Commands(c) : Request(c, cmd)
  BY <1>1, WorkerParts, RequestParts
<1>2. CASE Walks("tap")
  BY <1>2, WalksParts, LockNames
<1>3. CASE DispatcherStep
  BY <1>3, DispatcherParts
<1>4. CASE \/ (\E to \in States : SetState(to)) \/ ScheduleNotify \/ Acknowledge \/ UNCHANGED vars
  BY <1>4, OtherParts
<1> QED  BY <1>1, <1>2, <1>3, <1>4 DEF Next

-----------------------------------------------------------------------------
(* What follows from the parts *)

\* An operation that waits is owed the vbucket's notification and no listener's, a SYNC its
\* listener's and none of the vbucket's.
LEMMA PartsOwed ==
    ASSUME Parts
    PROVE  BlockedIsOwed
<1> SUFFICES ASSUME NEW c \in Conns
             PROVE  Cardinality({i \in DOMAIN StillWaiting : StillWaiting[i] = c})
                      + Cardinality({l \in DOMAIN listener : /\ listener[l].live
                                                             /\ listener[l].allowNotify
                                                             /\ listener[l].cookie = c})
                      = IF conn[c].pc = "blocked" THEN 1 ELSE 0
  BY DEF BlockedIsOwed
<1> DEFINE O == {i \in DOMAIN StillWaiting : StillWaiting[i] = c}
           L == {l \in DOMAIN listener : /\ listener[l].live /\ listener[l].allowNotify
                                         /\ listener[l].cookie = c}
<1>1. O # {} => L = {} /\ conn[c].pc = "blocked"
  BY DEF Parts, OperationsFit
<1>2. L # {} => conn[c].pc = "blocked"
  BY DEF Parts, NotifiersFit
<1>3. \A i \in O : O = {i}
  BY DEF Parts, OperationsFit
<1>4. \A l \in L : L = {l}
  BY DEF Parts, NotifiersFit
<1>5. conn[c].pc = "blocked" => O # {} \/ L # {}
  <2>1. \A l \in DOMAIN listener : listener[l].allowNotify => listener[l].live
    BY DEF Parts, NotifiersFit
  <2> QED  BY <2>1 DEF Parts, OperationsFit
<1> HIDE DEF O, L
<1>6. /\ O = {} => Cardinality(O) = 0
      /\ L = {} => Cardinality(L) = 0
  BY FS_EmptySet
<1>7. /\ O # {} => Cardinality(O) = 1
      /\ L # {} => Cardinality(L) = 1
  BY <1>3, <1>4, FS_Singleton
<1>8. Cardinality(O) + Cardinality(L) = IF conn[c].pc = "blocked" THEN 1 ELSE 0
  <2>1. CASE conn[c].pc # "blocked"
    BY <1>1, <1>2, <1>6, <2>1
  <2>2. CASE conn[c].pc = "blocked" /\ O # {}
    BY <1>1, <1>6, <1>7, <2>2
  <2>3. CASE conn[c].pc = "blocked" /\ O = {}
    BY <1>5, <1>6, <1>7, <2>3
  <2> QED  BY <2>1, <2>2, <2>3
<1> QED  BY <1>8 DEF O, L

\* Nobody refers to a deleted listener.
LEMMA PartsLive ==
    ASSUME Parts
    PROVE  ListenersLive
<1> SUFFICES ASSUME NEW l \in DOMAIN listener, ~listener[l].live
             PROVE  /\ \A op \in DOMAIN registry : l \notin registry[op]
                    /\ l \notin tasks.abort \cup tasks.destroy
                    /\ \A t \in Walkers : /\ walk[t].step \in {"claim", "wake"} => walk[t].at # l
                                         /\ l \notin walk[t].todo
                    /\ job.step \in {"abort", "abort_wake"} => job.at # l
                    /\ \A c \in Conns : l \notin {conn[c].listener, conn[c].specific}
  BY DEF ListenersLive
<1>1. /\ \A op \in DOMAIN registry : l \notin registry[op]
      /\ l \notin tasks.abort \cup tasks.destroy
      /\ job.step \in {"abort", "abort_wake"} => job.at # l
  BY DEF Parts, ReferencesFit
<1>2. \A t \in Walkers : /\ walk[t].step \in {"claim", "wake"} => walk[t].at # l
                         /\ l \notin walk[t].todo
  BY DEF Parts, ReferencesFit
<1>3. \A c \in Conns : l \notin {conn[c].listener, conn[c].specific}
  <2>1. l # 0
    BY ListenerTypes DEF Parts
  <2> QED  BY <2>1 DEF Parts, ConnsFit, Serves
<1> QED  BY <1>1, <1>2, <1>3

\* As many distinct changes as there are keys are changes of all the keys.
LEMMA PartsSynced ==
    ASSUME Parts
    PROVE  SyncedAll
<1> SUFFICES ASSUME NEW l \in DOMAIN listener, listener[l].live, listener[l].answer = "success",
                    listener[l].modified \cap listener[l].deleted = {}
             PROVE  listener[l].keys \subseteq
                      listener[l].modified \cup listener[l].deleted \cup listener[l].replicated
  BY DEF SyncedAll
<1> DEFINE keys == listener[l].keys
           mods == listener[l].modified
           dels == listener[l].deleted
<1>1. /\ mods \subseteq keys /\ dels \subseteq keys
      /\ keys = {} \/ listener[l].replicated = keys
           \/ Cardinality(mods) + Cardinality(dels) = Cardinality(keys)
  BY DEF Parts, CountsFit
<1>2. IsFiniteSet(keys)
  <2>1. keys \subseteq Keys
    BY ListenerTypes DEF Parts, ListenerRecord
  <2> QED  BY <2>1, FS_Subset, ClientAssumption
<1>3. CASE Cardinality(mods) + Cardinality(dels) = Cardinality(keys)
  <2> HIDE DEF keys, mods, dels
  <2>1. IsFiniteSet(mods) /\ IsFiniteSet(dels)
    BY <1>1, <1>2, FS_Subset
  <2>2. Cardinality(mods \cup dels) = Cardinality(mods) + Cardinality(dels) - Cardinality(mods \cap dels)
    BY <2>1, FS_Union
  <2>3. mods \cap dels = {} /\ Cardinality(mods \cap dels) = 0
    BY FS_EmptySet DEF mods, dels
  <2>4. Cardinality(mods) \in Nat /\ Cardinality(dels) \in Nat
    BY <2>1, FS_CardinalityType
  <2>5. Cardinality(mods \cup dels) = Cardinality(keys)
    BY <1>3, <2>2, <2>3, <2>4
  <2>6. mods \cup dels = keys
    BY <1>1, <1>2, <2>5, WholeSet
  <2> QED  BY <2>6 DEF keys, mods, dels
<1> QED  BY <1>1, <1>3

-----------------------------------------------------------------------------
\* Nobody is forgotten, woken twice or left with a deleted listener, whatever the order in
\* which operations, SYNCs, the TAP thread and the dispatcher take their locks.
THEOREM WaitersInvariant == Spec => []WaitersFit
<1>1. Spec => []Parts
  BY InitParts, StepParts, PTL DEF Spec
<1>2. Parts => WaitersFit
  BY PartsOwed, PartsLive DEF Parts, WaitersFit
<1> QED  BY <1>1, <1>2, PTL

\* A SYNC that succeeds has seen every key, or one of them both changed and deleted.
THEOREM SyncedAllAlways == Spec => []SyncedAll
<1>1. Spec => []Parts
  BY InitParts, StepParts, PTL DEF Spec
<1>2. Parts => SyncedAll
  BY PartsSynced
<1> QED  BY <1>1, <1>2, PTL
=============================================================================
