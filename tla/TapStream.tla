------------------------------ MODULE TapStream ------------------------------
(***************************************************************************)
(* One TAP replication stream of one vbucket: the producer's cursor in the *)
(* unified queue, its queues, its log of unacknowledged messages and its   *)
(* acknowledgement window; the connection, which keeps the order and may   *)
(* break; the consumer, which may refuse a message for now or for good;    *)
(* the reconnect that rolls the producer back; and the transfer of the     *)
(* vbucket's ownership (TAKEOVER_VBUCKETS).                                *)
(*                                                                         *)
(* The source's unified queue is the constant Stream, of which the first   *)
(* avail items have been queued so far.  The stream supports acks and      *)
(* checkpoint synchronisation and needs no backfill.                       *)
(***************************************************************************)
EXTENDS Integers, Sequences, FiniteSets

CONSTANTS Stream,            \* items of the unified queue: [op, id], op "start", "end" or "set"
          SeqMod,            \* sequence numbers are unsigned of this modulus (2^32)
          InitialSeqno,      \* initialAckSequenceNumber
          AckInterval,       \* ackInterval
          AckWindow,         \* ackWindowSize * ackInterval
          MaxTakeoverLog,    \* MAX_TAKEOVER_TAP_LOG_SIZE
          Takeover,          \* TAP_CONNECT_FLAG_TAKEOVER_VBUCKETS
          MaxRefusals,       \* bound: mutations the consumer does not accept
          MaxReconnects      \* bound: connections after the first one

Positions == 1 .. Len(Stream)

Mutations == {p \in Positions : Stream[p].op = "set"}

\* The source vbucket is new: its first checkpoint has the id 1.  A checkpoint that ends is
\* followed by the next one, and no two have the same id.
ASSUME StreamAssumption ==
    /\ Stream \in Seq([op : {"start", "end", "set"}, id : Nat])
    /\ Stream # <<>> /\ Stream[1] = [op |-> "start", id |-> 1]
    /\ \A p \in Positions :
         Stream[p].op = "end" => /\ p + 1 \in Positions
                                 /\ Stream[p + 1] = [op |-> "start", id |-> Stream[p].id + 1]
    /\ \A p, q \in Positions : p < q /\ Stream[q].op = "start" => Stream[p].id < Stream[q].id

\* The window is smaller than the range of the sequence numbers.
ASSUME WindowAssumption ==
    /\ SeqMod \in Nat /\ SeqMod > AckWindow + 3
    /\ InitialSeqno \in 1 .. (SeqMod - 1)
    /\ AckInterval \in Nat \ {0} /\ AckWindow \in Nat \ {0}
    /\ MaxTakeoverLog \in Nat /\ MaxTakeoverLog > 1
    /\ Takeover \in BOOLEAN /\ MaxRefusals \in Nat /\ MaxReconnects \in Nat

VARIABLES
    \* the source vbucket
    avail,          \* how much of Stream has been queued
    source,         \* its state: "active" or "dead"
    \* TapProducer
    seqno,          \* the number of the next message
    seqnoReceived,  \* the number of the last ack
    tapLog,         \* messages sent and not acknowledged
    high,           \* vBucketHighPriority
    low,            \* vBucketLowPriority
    queue,          \* queue: mutations to send again
    ckptMsgs,       \* checkpointMsgs
    ckptCounter,    \* checkpointMsgCounter
    cursor,         \* the cursor: its position in Stream and its checkpoint's id
    ckpt,           \* tapCheckpointState: [state, lastSeqNum, lastItem]
    flags,          \* [lastAckOk, rotated, suspended, disconnect]
    walk,           \* "ready", or "takeover" between complete() and the low priority event
    \* the connection
    link,           \* "up", "down", or "reaped" once the producer is gone
    toConsumer, toProducer,
    \* TapConsumer and its vbucket
    replica,        \* [vb, nack, id, open, applied, queued, closed]
    refusals, reconnects

producerVars == <<seqno, seqnoReceived, tapLog, high, low, queue, ckptMsgs, ckptCounter,
                  cursor, ckpt, flags, walk>>

vars == <<avail, source, producerVars, link, toConsumer, toProducer, replica, refusals, reconnects>>

-----------------------------------------------------------------------------
(* Events and sequence numbers *)

VBucketEvents == {"pending", "active"}

OpaqueEvents == {"auto_nack", "checkpoint_sync"}

EventNames == VBucketEvents \cup OpaqueEvents \cup {"start", "end", "set"}

\* A TapVBucketEvent, or the event that carries an item of the stream.
Event(name) == [ev |-> name, pos |-> 0]

ItemEvent(p) == [ev |-> Stream[p].op, pos |-> p]

MaxSeqno == SeqMod - 1

\* ++seqno of requestAck, which does not use 0.
Bump(s) == IF s = MaxSeqno THEN 1 ELSE s + 1

\* ++seqno of nextVBucketHighPriority and nextVBucketLowPriority, which may be 0.
Increment(s) == (s + 1) % SeqMod

\* The messages between the last ack and the next message.
Distance == IF seqno >= seqnoReceived THEN seqno - seqnoReceived
                                      ELSE MaxSeqno - seqnoReceived + seqno

WindowIsFull == Distance > AckWindow

\* hasNext and hasQueuedItem_UNLOCKED, when no item comes from a background fetch.
HasQueuedItem == queue # <<>> \/ cursor.pos < avail

Complete == Takeover /\ ~HasQueuedItem

Idle == /\ ~HasQueuedItem
        /\ low = <<>> /\ high = <<>> /\ ckptMsgs = <<>> /\ tapLog = <<>>

\* isLastMutationItemInCheckpoint
IsLast(p) == p = avail \/ Stream[p + 1].op = "end"

\* The flags of a connection ask for acks, checkpoints and perhaps a takeover.
EvaluateFlags == <<Event("auto_nack"), Event("checkpoint_sync")>>

NewCheckpointState == [state |-> "checkpoint_start", lastSeqNum |-> 0, lastItem |-> FALSE]

NoFlags == [lastAckOk |-> FALSE, rotated |-> FALSE, suspended |-> FALSE, disconnect |-> FALSE]

-----------------------------------------------------------------------------
Events == [ev : EventNames, pos : 0 .. Len(Stream)]

Entries == [seqno : 0 .. MaxSeqno, ev : EventNames, pos : 0 .. Len(Stream)]

Messages == [seqno : 0 .. MaxSeqno, ev : EventNames, pos : 0 .. Len(Stream), ack : BOOLEAN]

Answers == [seqno : 0 .. MaxSeqno, status : {"success", "tmpfail", "fail"}]

CheckpointStates == [state : {"checkpoint_start", "checkpoint_end", "checkpoint_end_synced"},
                     lastSeqNum : 0 .. MaxSeqno, lastItem : BOOLEAN]

Flags == [lastAckOk : BOOLEAN, rotated : BOOLEAN, suspended : BOOLEAN, disconnect : BOOLEAN]

Replicas == [vb : {"replica", "pending", "active"}, nack : BOOLEAN, id : Nat, open : BOOLEAN,
             applied : SUBSET Positions, queued : SUBSET Positions, closed : SUBSET Positions]

TypeOK ==
    /\ avail \in 0 .. Len(Stream)
    /\ source \in {"active", "dead"}
    /\ seqno \in 0 .. MaxSeqno /\ seqnoReceived \in 0 .. MaxSeqno
    /\ tapLog \in Seq(Entries) /\ high \in Seq(Events) /\ low \in Seq(Events)
    /\ queue \in Seq(Positions) /\ ckptMsgs \in Seq(Positions)
    /\ ckptCounter \in Int
    /\ cursor \in [pos : 0 .. Len(Stream), id : Nat]
    /\ ckpt \in CheckpointStates /\ flags \in Flags
    /\ walk \in {"ready", "takeover"} /\ link \in {"up", "down", "reaped"}
    /\ toConsumer \in Seq(Messages) /\ toProducer \in Seq(Answers)
    /\ replica \in Replicas
    /\ refusals \in 0 .. MaxRefusals /\ reconnects \in 0 .. MaxReconnects

\* A new producer: newProducer, setVBucketFilter and registerTAPCursor, with the cursor
\* at the start of the first checkpoint and no backfill.
Init ==
    /\ avail = 1 /\ source = "active"
    /\ seqno = InitialSeqno /\ seqnoReceived = InitialSeqno - 1
    /\ tapLog = <<>> /\ queue = <<>> /\ ckptMsgs = <<>> /\ ckptCounter = 0
    /\ high = EvaluateFlags \o IF Takeover THEN <<Event("pending")>> ELSE <<>>
    /\ low = IF Takeover THEN <<Event("active")>> ELSE <<>>
    /\ cursor = [pos |-> 0, id |-> Stream[1].id] /\ ckpt = NewCheckpointState /\ flags = NoFlags /\ walk = "ready"
    /\ link = "up" /\ toConsumer = <<>> /\ toProducer = <<>>
    /\ replica = [vb |-> "replica", nack |-> FALSE, id |-> 0, open |-> TRUE,
                  applied |-> {}, queued |-> {}, closed |-> {}]
    /\ refusals = 0 /\ reconnects = 0

\* The front end queues a mutation; a full checkpoint is closed and the next one opened.
QueueDirty ==
    /\ source = "active" /\ avail < Len(Stream)
    /\ avail' = IF Stream[avail + 1].op = "end" THEN avail + 2 ELSE avail + 1
    /\ UNCHANGED <<source, producerVars, link, toConsumer, toProducer, replica, refusals, reconnects>>

-----------------------------------------------------------------------------
(* walkTapQueue: one call of doWalkTapQueue and the numbering that follows it *)

Walking == link = "up" /\ walk = "ready" /\ ~flags.disconnect

MaySend == Walking /\ ~flags.suspended /\ ~WindowIsFull

\* addTapLogElement, the message on the wire, and the ++seqno of requestAck.
Send(e, s, ack) ==
    /\ tapLog' = Append(tapLog, [seqno |-> s, ev |-> e.ev, pos |-> e.pos])
    /\ toConsumer' = Append(toConsumer, [seqno |-> s, ev |-> e.ev, pos |-> e.pos, ack |-> ack])
    /\ seqno' = Bump(s)
    /\ flags' = [flags EXCEPT !.rotated = @ \/ s = MaxSeqno]

WalkHighPriority ==
    /\ MaySend /\ high # <<>>
    /\ Send(Head(high), Increment(seqno), TRUE)
    /\ high' = Tail(high)
    /\ UNCHANGED <<avail, source, seqnoReceived, low, queue, ckptMsgs, ckptCounter, cursor,
                   ckpt, walk, link, toProducer, replica, refusals, reconnects>>

WalkCheckpointMsg ==
    /\ MaySend /\ high = <<>> /\ ckptMsgs # <<>>
    /\ Send(ItemEvent(Head(ckptMsgs)), seqno, TRUE)
    /\ ckptMsgs' = Tail(ckptMsgs)
    /\ ckptCounter' = ckptCounter + 1
    /\ UNCHANGED <<avail, source, seqnoReceived, high, low, queue, cursor, ckpt, walk, link,
                   toProducer, replica, refusals, reconnects>>

\* The walk reaches hasQueuedItem and does not wait for the ack of a checkpoint message.
MayTakeItem == MaySend /\ high = <<>> /\ ckptMsgs = <<>> /\ ckptCounter <= 0

\* Mutants: no ack for the last item of a checkpoint; none when nothing is left.
NoAckForLast(s, lastItem, nothingLeft) ==
    (Bump(s) - 1) % AckInterval = 0 \/ ckpt.state = "checkpoint_end" \/ nothingLeft

\* requestAck for a mutation: every AckInterval messages, the last item of a checkpoint,
\* an item sent again after the cursor has reached the end, or nothing left to send.
AsksForAck(s, lastItem, nothingLeft) ==
    \/ (Bump(s) - 1) % AckInterval = 0
    \/ lastItem \/ ckpt.state = "checkpoint_end"
    \/ nothingLeft

\* next() takes the front of the queue.
WalkQueue ==
    /\ MayTakeItem /\ queue # <<>>
    /\ Send(ItemEvent(Head(queue)), seqno,
            AsksForAck(seqno, ckpt.lastItem, Tail(queue) = <<>> /\ cursor.pos = avail))
    /\ queue' = Tail(queue)
    /\ ckpt' = [ckpt EXCEPT !.lastSeqNum = seqno]
    /\ UNCHANGED <<avail, source, seqnoReceived, high, low, ckptMsgs, ckptCounter, cursor,
                   walk, link, toProducer, replica, refusals, reconnects>>

\* next() finds the queue empty and reads the item after the cursor.
Reads(op) == /\ MayTakeItem /\ queue = <<>>
             /\ cursor.pos < avail /\ Stream[cursor.pos + 1].op = op

Advance == [pos |-> cursor.pos + 1, id |-> Stream[cursor.pos + 1].id]

WalkMutation ==
    /\ Reads("set")
    /\ Send(ItemEvent(cursor.pos + 1), seqno,
            AsksForAck(seqno, IsLast(cursor.pos + 1), cursor.pos + 1 = avail))
    /\ cursor' = Advance
    /\ ckpt' = [ckpt EXCEPT !.lastItem = IsLast(cursor.pos + 1), !.lastSeqNum = seqno]
    /\ UNCHANGED <<avail, source, seqnoReceived, high, low, queue, ckptMsgs, ckptCounter,
                   walk, link, toProducer, replica, refusals, reconnects>>

WalkCheckpointStart ==
    /\ Reads("start")
    /\ cursor' = Advance
    /\ ckpt' = [ckpt EXCEPT !.state = "checkpoint_start"]
    /\ ckptMsgs' = Append(ckptMsgs, cursor.pos + 1)
    /\ UNCHANGED <<avail, source, seqno, seqnoReceived, tapLog, high, low, queue, ckptCounter,
                   flags, walk, link, toConsumer, toProducer, replica, refusals, reconnects>>

\* The last message that is acknowledged for certain.
SeqnoAcked == IF seqnoReceived = 0 \/ flags.lastAckOk THEN seqnoReceived
                                                      ELSE seqnoReceived - 1

\* Mutant: an ack of the checkpoint's start will do.
AckedSome == SeqnoAcked > 0

AllAcked == ckpt.lastSeqNum <= SeqnoAcked

\* The checkpoint's end is sent once all its items are acknowledged; until then the cursor
\* is put back (decrTapCursorFromCheckpointEnd) and the stream pauses.
WalkCheckpointEnd ==
    /\ Reads("end")
    /\ AllAcked \/ ckpt.state # "checkpoint_end"
    /\ ckpt' = [ckpt EXCEPT !.state = "checkpoint_end"]
    /\ cursor' = IF AllAcked THEN Advance ELSE cursor
    /\ ckptMsgs' = IF AllAcked THEN Append(ckptMsgs, cursor.pos + 1) ELSE ckptMsgs
    /\ UNCHANGED <<avail, source, seqno, seqnoReceived, tapLog, high, low, queue, ckptCounter,
                   flags, walk, link, toConsumer, toProducer, replica, refusals, reconnects>>

-----------------------------------------------------------------------------
(* The end of the walk: the low priority events of a takeover *)

\* Nothing to send and complete(); the front end may still queue items after this.  Without
\* an event of low priority the walk pauses: the stream is disconnected by its last ack.
WalkComplete ==
    /\ MaySend /\ high = <<>> /\ ckptMsgs = <<>> /\ Complete
    /\ low # <<>>
    /\ walk' = "takeover"
    /\ UNCHANGED <<avail, source, seqno, seqnoReceived, tapLog, high, low, queue, ckptMsgs,
                   ckptCounter, cursor, ckpt, flags, link, toConsumer, toProducer, replica,
                   refusals, reconnects>>

\* nextVBucketLowPriority has logged the event, so the log's size counts it.  The event is
\* taken back while items wait for their acks, but its sequence number is not.
LogSize == Len(tapLog) + 1

\* Mutant: the source waits for the last acks with going dead.
DeadWhenAcked == LogSize > 1 /\ LogSize < MaxTakeoverLog

GoesDead == LogSize < MaxTakeoverLog

TakeoverActive ==
    /\ walk = "takeover" /\ low # <<>>
    /\ walk' = "ready"
    /\ source' = IF GoesDead THEN "dead" ELSE source
    /\ \/ /\ LogSize > 1
          /\ seqno' = Increment(seqno)
          /\ low' = Append(Tail(low), Event("active"))
          /\ UNCHANGED <<tapLog, toConsumer, flags>>
       \/ /\ LogSize <= 1
          /\ Send(Head(low), Increment(seqno), TRUE)
          /\ low' = Tail(low)
    /\ UNCHANGED <<avail, seqnoReceived, high, queue, ckptMsgs, ckptCounter, cursor, ckpt,
                   link, toProducer, replica, refusals, reconnects>>

-----------------------------------------------------------------------------
(* processAck and rollback *)

\* Everything before the message with this number, and everything after it.
LogIndex(s) == LET at == {i \in DOMAIN tapLog : tapLog[i].seqno = s}
               IN  IF at = {} THEN Len(tapLog) + 1
                              ELSE CHOOSE i \in at : \A j \in at : i <= j

\* Mutant: an ack acknowledges whatever has been sent.
NothingAfter(i) == <<>>

LogAfter(i) == SubSeq(tapLog, i + 1, Len(tapLog))

\* Mutant: the ack of a checkpoint's start releases nothing.
IsCheckpointEnd(e) == e.ev = "end"

IsCheckpointEvent(e) == e.ev \in {"start", "end"}

\* The places of the messages of a kind, and their enumeration in the order of the log.
Places(log, evs) == {i \in DOMAIN log : log[i].ev \in evs}

InOrder(at) == CHOOSE f \in [1 .. Cardinality(at) -> at] :
                  \A a, b \in 1 .. Cardinality(at) : a < b => f[a] < f[b]

LogPositions(log, evs) ==
    LET at == Places(log, evs) IN [n \in 1 .. Cardinality(at) |-> log[InOrder(at)[n]].pos]

LogEvents(log, evs) ==
    LET at == Places(log, evs) IN [n \in 1 .. Cardinality(at) |-> Event(log[InOrder(at)[n]].ev)]

\* A sequence number that has wrapped resets what the checkpoints wait for.
Wrapped(s) == flags.rotated /\ s < seqnoReceived

AckedCheckpoint(s) == IF Wrapped(s) THEN [ckpt EXCEPT !.lastSeqNum = 0] ELSE ckpt

AckedFlags(s) == [flags EXCEPT !.rotated = @ /\ ~Wrapped(s), !.lastAckOk = FALSE]

\* The next message on the wire is an ack with this status.
TakesAck(status) ==
    /\ Walking /\ toProducer # <<>> /\ Head(toProducer).status = status
    /\ toProducer' = Tail(toProducer)
    /\ seqnoReceived' = Head(toProducer).seqno

\* The message and everything before it is acknowledged; an ack of a message that is not
\* in the log changes nothing.
AckSuccess ==
    /\ TakesAck("success")
    /\ LET s == Head(toProducer).seqno
           i == LogIndex(s)
           found == i <= Len(tapLog)
           ofCkpt == found /\ IsCheckpointEvent(tapLog[i])
           done == Complete /\ low = <<>> /\ high = <<>> /\ ckptMsgs = <<>>
       IN  /\ tapLog' = IF found THEN LogAfter(i) ELSE tapLog
           /\ ckptCounter' = IF ofCkpt THEN ckptCounter - 1 ELSE ckptCounter
           /\ ckpt' = IF ofCkpt /\ tapLog[i].ev = "end"
                      THEN [AckedCheckpoint(s) EXCEPT !.state = "checkpoint_end_synced"]
                      ELSE AckedCheckpoint(s)
           /\ flags' = [AckedFlags(s) EXCEPT !.lastAckOk = found,
                                             !.disconnect = done /\ tapLog' = <<>>]
    /\ UNCHANGED <<avail, source, seqno, high, low, queue, ckptMsgs, cursor, walk, link,
                   toConsumer, replica, refusals, reconnects>>

\* reschedule_UNLOCKED of a refused mutation, and a pause of the stream.  What comes before
\* it is acknowledged.
AckTmpfail ==
    /\ TakesAck("tmpfail")
    /\ LET s == Head(toProducer).seqno
           i == LogIndex(s)
           found == i <= Len(tapLog)
       IN  /\ tapLog' = LogAfter(i)
           /\ queue' = IF found THEN Append(queue, tapLog[i].pos) ELSE queue
           /\ ckpt' = IF found THEN [ckpt EXCEPT !.lastSeqNum = MaxSeqno] ELSE AckedCheckpoint(s)
           /\ flags' = [AckedFlags(s) EXCEPT !.suspended = TRUE]
    /\ UNCHANGED <<avail, source, seqno, high, low, ckptMsgs, ckptCounter, cursor, walk, link,
                   toConsumer, replica, refusals, reconnects>>

\* Any other status: the message stays in the log and the stream is disconnected.
AckFail ==
    /\ TakesAck("fail")
    /\ LET s == Head(toProducer).seqno
       IN  /\ tapLog' = LogAfter(LogIndex(s) - 1)
           /\ ckpt' = AckedCheckpoint(s)
           /\ flags' = [AckedFlags(s) EXCEPT !.disconnect = TRUE]
    /\ UNCHANGED <<avail, source, seqno, high, low, queue, ckptMsgs, ckptCounter, cursor, walk,
                   link, toConsumer, replica, refusals, reconnects>>

\* TapResumeCallback
Resume ==
    /\ flags.suspended
    /\ flags' = [flags EXCEPT !.suspended = FALSE]
    /\ UNCHANGED <<avail, source, seqno, seqnoReceived, tapLog, high, low, queue, ckptMsgs,
                   ckptCounter, cursor, ckpt, walk, link, toConsumer, toProducer, replica,
                   refusals, reconnects>>

-----------------------------------------------------------------------------
(* The consumer: process_bin_tap_packet and tapNotify *)

Receives(evs) == toConsumer # <<>> /\ Head(toConsumer).ev \in evs

\* An answer is sent when it was asked for, and for an error in nack mode.
Answer(status) ==
    LET m == Head(toConsumer)
    IN  /\ toConsumer' = Tail(toConsumer)
        /\ toProducer' = IF m.ack \/ (status # "success" /\ replica.nack)
                         THEN Append(toProducer, [seqno |-> m.seqno, status |-> status])
                         ELSE toProducer

\* The source is not concerned.
ProducerUnchanged == UNCHANGED <<avail, source, producerVars, link, reconnects>>

ConsumeOpaque ==
    /\ Receives(OpaqueEvents)
    /\ Answer("success")
    /\ replica' = [replica EXCEPT !.nack = @ \/ Head(toConsumer).ev = "auto_nack"]
    /\ ProducerUnchanged /\ UNCHANGED refusals

ConsumeVBucketSet ==
    /\ Receives(VBucketEvents)
    /\ Answer("success")
    /\ replica' = [replica EXCEPT !.vb = Head(toConsumer).ev]
    /\ ProducerUnchanged /\ UNCHANGED refusals

\* processCheckpointCommand, which an active vbucket ignores.
ConsumeCheckpoint ==
    LET m == Head(toConsumer)
        id == Stream[m.pos].id
    IN  /\ Receives({"start", "end"})
        /\ Answer("success")
        /\ replica' =
             IF replica.vb = "active" THEN replica
             ELSE IF m.ev = "start" THEN [replica EXCEPT !.id = id, !.open = TRUE]
             ELSE IF replica.id = id /\ replica.open
                  THEN [replica EXCEPT !.open = FALSE, !.closed = @ \cup {m.pos}]
             ELSE replica
        /\ ProducerUnchanged /\ UNCHANGED refusals

\* A vbucket that is not active drops an item from its queue when its last checkpoint is
\* closed.
Queues == replica.open \/ replica.vb = "active"

\* The hash table takes the item, and the queue for the disk may.
ConsumeMutation ==
    LET p == Head(toConsumer).pos
    IN  /\ Receives({"set"})
        /\ Answer("success")
        /\ replica' = [replica EXCEPT !.applied = @ \cup {p},
                                        !.queued = IF Queues THEN @ \cup {p} ELSE @]
        /\ ProducerUnchanged /\ UNCHANGED refusals

\* The throttle or a lack of memory refuses for now, a vbucket that is gone for good.
RefuseMutation(status) ==
    /\ Receives({"set"}) /\ refusals < MaxRefusals
    /\ Answer(status)
    /\ refusals' = refusals + 1
    /\ ProducerUnchanged /\ UNCHANGED replica

-----------------------------------------------------------------------------
(* The connection *)

LinkDown == link' = "down" /\ toConsumer' = <<>> /\ toProducer' = <<>>

Break ==
    /\ link = "up" /\ walk = "ready" /\ reconnects < MaxReconnects
    /\ LinkDown
    /\ UNCHANGED <<avail, source, producerVars, replica, refusals, reconnects>>

\* notifyIOThreadMain gives up a connection whose window stays full for the whole of the
\* grace period: no answer is under way, or it comes too late.
AckTimeout ==
    /\ link = "up" /\ ~flags.disconnect /\ WindowIsFull
    /\ (toConsumer = <<>> /\ toProducer = <<>>) \/ reconnects < MaxReconnects
    /\ flags' = [flags EXCEPT !.disconnect = TRUE]
    /\ UNCHANGED <<avail, source, seqno, seqnoReceived, tapLog, high, low, queue, ckptMsgs,
                   ckptCounter, cursor, ckpt, walk, link, toConsumer, toProducer, replica,
                   refusals, reconnects>>

\* The next walk or ack of a stream marked for disconnection closes its connection.
Disconnect ==
    /\ link = "up" /\ walk = "ready" /\ flags.disconnect
    /\ LinkDown
    /\ UNCHANGED <<avail, source, producerVars, replica, refusals, reconnects>>

\* getExpiredConnections_UNLOCKED: a producer nobody came back for is deleted.
Reap ==
    /\ link = "down" /\ ~flags.suspended
    /\ link' = "reaped"
    /\ UNCHANGED <<avail, source, producerVars, toConsumer, toProducer, replica, refusals, reconnects>>

\* The replica's last closed checkpoint.
LastClosed == IF replica.open THEN (IF replica.id = 0 THEN 0 ELSE replica.id - 1) ELSE replica.id

\* registerTAPCursor: the cursor stays in its checkpoint, or starts at the checkpoint after
\* the one that the replica has closed.
Registered(id) ==
    IF cursor.id = id THEN cursor
    ELSE [pos |-> (CHOOSE p \in Positions : Stream[p].op = "start" /\ Stream[p].id = id) - 1,
          id |-> id]

\* ebucketmigrator makes the target a replica and connects with the same name; newProducer
\* finds the producer: rollback, evaluateFlags, setVBucketFilter and registerTAPCursor.
Reconnect ==
    LET again == LogEvents(tapLog, {"pending"}) \o EvaluateFlags
        opaque == LogEvents(high \o again, OpaqueEvents)
    IN  /\ link = "down" /\ ~(Complete /\ Idle) /\ reconnects < MaxReconnects
        /\ reconnects' = reconnects + 1
        /\ link' = "up"
        /\ tapLog' = <<>>
        /\ queue' = queue \o LogPositions(tapLog, {"set"})
        /\ ckptMsgs' = ckptMsgs \o LogPositions(tapLog, {"start", "end"})
        /\ ckptCounter' = ckptCounter - Len(LogPositions(tapLog, {"start", "end"}))
        /\ seqnoReceived' = (seqno - 1) % SeqMod
        /\ high' = IF Takeover THEN Append(opaque, Event("pending")) ELSE high \o again
        /\ low' = IF Takeover THEN <<Event("active")>>
                  ELSE low \o LogEvents(tapLog, {"active"})
        /\ flags' = [flags EXCEPT !.disconnect = FALSE]
        /\ ckpt' = NewCheckpointState
        /\ cursor' = Registered(LastClosed + 1)
        /\ replica' = [replica EXCEPT !.vb = "replica", !.nack = FALSE]
        /\ UNCHANGED <<avail, source, seqno, walk, toConsumer, toProducer, refusals>>

-----------------------------------------------------------------------------
Walk ==
    \/ WalkHighPriority \/ WalkCheckpointMsg \/ WalkQueue \/ WalkMutation
    \/ WalkCheckpointStart \/ WalkCheckpointEnd
    \/ WalkComplete \/ TakeoverActive

ProcessAck == AckSuccess \/ AckTmpfail \/ AckFail

Accept == ConsumeOpaque \/ ConsumeVBucketSet \/ ConsumeCheckpoint \/ ConsumeMutation

Next ==
    \/ QueueDirty \/ Walk \/ ProcessAck \/ Resume \/ Accept
    \/ \E status \in {"tmpfail", "fail"} : RefuseMutation(status)
    \/ Break \/ AckTimeout \/ Disconnect \/ Reap \/ Reconnect

\* The notification thread polls a stream that is not idle, the TAP thread runs the walks
\* and handles the acks in the order they arrive, the consumer reads its socket, the
\* dispatcher resumes a suspended stream.  Nothing brings a broken connection back.
Fairness ==
    /\ WF_vars(Walk) /\ WF_vars(ProcessAck) /\ WF_vars(Accept)
    /\ WF_vars(Resume) /\ WF_vars(AckTimeout) /\ WF_vars(Disconnect)

Spec == Init /\ [][Next]_vars /\ Fairness

-----------------------------------------------------------------------------
(* Properties *)

\* A mutation is at the replica or will be sent (again).
Held(p) ==
    \/ p \in replica.applied
    \/ \E i \in DOMAIN queue : queue[i] = p
    \/ \E i \in DOMAIN tapLog : tapLog[i].pos = p

\* Every mutation before this position is.
Covered(q) == \A p \in Mutations : p < q => Held(p)

\* Whatever the cursor has passed is at the replica or will be sent (again): neither an ack,
\* which acknowledges everything before it (processAck), nor a refusal (reschedule), nor
\* the roll-back of the log at a reconnect drops a mutation.
NothingDropped == link # "reaped" => Covered(cursor.pos + 1)

\* The replica closes a checkpoint only when it has all the mutations of it and of the
\* ones before: TapProducer::next holds the CHECKPOINT_END back until they are acknowledged,
\* also when some of them are refused and sent again.  What a replica has taken into its
\* hash table it has therefore queued for its disk (queueDirty), whatever state the vbucket
\* is put in between the messages.  This depends on where the sequence numbers wrap.
EndAfterItems ==
    /\ \A e \in replica.closed : \A p \in Mutations : p < e => p \in replica.applied
    /\ replica.applied \subseteq replica.queued

\* The vbucket is never active on both nodes: doWalkTapQueue makes it dead at the source
\* before it sends the message that makes it active at the destination.
OneOwner == ~(source = "active" /\ replica.vb = "active")

\* Over a connection that holds, every mutation that is queued reaches the replica: a
\* window that fills up, a refusal or a checkpoint's end never stops the stream for good.
ItemsArrive ==
    \A p \in Positions :
       p \in Mutations /\ p <= avail
         ~> p \in replica.applied \/ link # "up" \/ reconnects > 0

\* A takeover over a connection that holds ends with an owner: the messages of high and
\* low priority get through the window.
TakeoverEnds == Takeover => <>(replica.vb = "active" \/ link # "up" \/ reconnects > 0)

-----------------------------------------------------------------------------
(* The books of the stream *)

\* The log of unacknowledged messages stays within the window, which windowIsFull computes
\* from sequence numbers that wrap and skip 0.
LogIsBounded == Len(tapLog) <= AckWindow

\* A checkpoint message that waits for its ack is in the log: checkpointMsgCounter, which
\* blocks the stream, is released by an ack to come, and a roll-back counts none twice.
CounterExact == ckptCounter = Cardinality(Places(tapLog, {"start", "end"}))

\* An item's event comes with the item, any other without.
EventFits(e) ==
    \/ e.ev \in {"start", "end", "set"} /\ e.pos \in Positions /\ Stream[e.pos].op = e.ev
    \/ e.ev \in VBucketEvents \cup OpaqueEvents /\ e.pos = 0

\* What is queued where, and a connection that is down is empty.
QueuesFit ==
    /\ \A i \in DOMAIN tapLog : EventFits(tapLog[i])
    /\ \A i \in DOMAIN toConsumer : EventFits(toConsumer[i])
    /\ \A i \in DOMAIN high : high[i] \in {Event(n) : n \in OpaqueEvents \cup {"pending"}}
    /\ \A i \in DOMAIN low : low[i] = Event("active")
    /\ \A i \in DOMAIN queue : Stream[queue[i]].op = "set"
    /\ \A i \in DOMAIN ckptMsgs : Stream[ckptMsgs[i]].op \in {"start", "end"}
    /\ link # "up" => toConsumer = <<>> /\ toProducer = <<>> /\ walk = "ready"
    /\ walk = "takeover" => high = <<>> /\ Distance <= AckWindow

\* The source is dead from before the message that makes the replica active.
DeadBeforeActive ==
    \/ source = "dead"
    \/ /\ \A i \in DOMAIN tapLog : tapLog[i].ev # "active"
       /\ \A i \in DOMAIN toConsumer : toConsumer[i].ev # "active"
       /\ replica.vb # "active"

\* How far the next message is from the one with this number, as windowIsFull counts.
Behind(s) == IF seqno >= s THEN seqno - s ELSE MaxSeqno - s + seqno

\* The stream is connected and not given up.
Streams == link = "up" /\ ~flags.disconnect

\* The numbers in the log come after the last ack's and before the next message's, in their
\* order: no two are the same, and the window counts at least the messages of the log.  0
\* may be the next number after a roll-back, and is then skipped.
NumbersFit ==
    Streams =>
      /\ Distance <= AckWindow + 2
      /\ \/ Len(tapLog) < Distance
         \/ tapLog = <<>> /\ high # <<>> /\ seqno = 0 /\ seqnoReceived = MaxSeqno
      /\ \A i \in DOMAIN tapLog : /\ Len(tapLog) - i < Behind(tapLog[i].seqno)
                                  /\ Behind(tapLog[i].seqno) + i <= Distance
      /\ \A i, j \in DOMAIN tapLog :
            i < j => Behind(tapLog[j].seqno) + (j - i) <= Behind(tapLog[i].seqno)

\* How many messages of the log the consumer has handled.
Handled == Len(tapLog) - Len(toConsumer)

\* What is on its way to the consumer is the end of the log.
WireFits ==
    Streams =>
      /\ Handled >= 0
      /\ \A j \in DOMAIN toConsumer :
            LET m == toConsumer[j]
                e == tapLog[Handled + j]
            IN  /\ m.seqno = e.seqno /\ m.ev = e.ev /\ m.pos = e.pos
                /\ m.ev \in {"start", "end"} => m.ack

\* The answers under way are about handled messages, one about each at most, in their order;
\* only mutations are refused.
AnswersFit ==
    Streams =>
      /\ \A k \in DOMAIN toProducer :
            \E i \in 1 .. Handled :
               /\ tapLog[i].seqno = toProducer[k].seqno
               /\ toProducer[k].status # "success" => tapLog[i].ev = "set"
      /\ \A k, l \in DOMAIN toProducer : \A i, j \in 1 .. Handled :
            k < l /\ tapLog[i].seqno = toProducer[k].seqno /\ tapLog[j].seqno = toProducer[l].seqno
              => i < j

\* A handled message that is a checkpoint's, or a mutation that the replica does not have,
\* has its answer under way.
AnswersDue ==
    Streams =>
      \A i \in 1 .. Handled :
         LET e == tapLog[i]
         IN  /\ e.ev \in {"start", "end"} =>
                   \E k \in DOMAIN toProducer : toProducer[k].seqno = e.seqno
             /\ e.ev = "set" /\ e.pos \notin replica.applied =>
                   \E k \in DOMAIN toProducer : /\ toProducer[k].seqno = e.seqno
                                                /\ toProducer[k].status # "success"

\* The consumer answers refusals of its own accord before it gets the first mutation.
NackFirst ==
    link = "up" =>
      \/ replica.nack
      \/ \E j \in DOMAIN toConsumer :
            /\ toConsumer[j].ev = "auto_nack"
            /\ \A i \in DOMAIN toConsumer : i < j => toConsumer[i].ev # "set"
      \/ /\ \E i \in DOMAIN high : high[i].ev = "auto_nack"
         /\ \A i \in DOMAIN toConsumer : toConsumer[i].ev # "set"

\* Also what lies before a checkpoint message that is queued or sent, or before the place in
\* the stream where the replica is, from where a reconnect would continue.
MarksCovered ==
    /\ Covered(cursor.pos + 1)
    /\ \A i \in DOMAIN ckptMsgs : Covered(ckptMsgs[i])
    /\ \A i \in DOMAIN tapLog : tapLog[i].ev \in {"start", "end"} => Covered(tapLog[i].pos)
    /\ \A i \in DOMAIN toConsumer :
         toConsumer[i].ev \in {"start", "end"} => Covered(toConsumer[i].pos)
    /\ \/ replica.id = 0 /\ replica.open
       \/ \E p \in Positions : /\ Stream[p].id = replica.id /\ Covered(p)
                              /\ Stream[p].op = IF replica.open THEN "start" ELSE "end"

\* What the books of the producer promise at every moment, whatever is lost, refused or sent
\* again: the log within the window, in order and in step with the connection and with the
\* counter of checkpoint messages (processAck, rollback), and every position from which the
\* stream may go on with nothing missing before it.
TapInv ==
    /\ TypeOK /\ LogIsBounded /\ CounterExact /\ QueuesFit /\ DeadBeforeActive
    /\ NumbersFit /\ WireFits /\ AnswersFit /\ AnswersDue /\ NackFirst /\ MarksCovered
=============================================================================
