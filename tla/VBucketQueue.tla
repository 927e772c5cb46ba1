---------------------------- MODULE VBucketQueue ----------------------------
(***************************************************************************)
(* One vbucket's unified queue with everyone who works on it: the front    *)
(* end and the TAP consumer that queue mutations, the TAP consumer that    *)
(* forwards the master's checkpoint messages, the flusher, the TAP         *)
(* producers, the checkpoint remover and the requests that change the      *)
(* vbucket's state or reset it.  They run on different threads; each step  *)
(* below is what one of them does under the locks of the source.           *)
(***************************************************************************)
EXTENDS CheckpointManager

CONSTANTS MaxMutationId,             \* bound: mutation ids handed out between two resets
          MaxCheckpointId,           \* bound: checkpoint ids a message may carry
          States,                    \* bound: the vbucket states that are visited
          InconsistentSlave          \* inconsistentSlaveCheckpoint

VBStates == {"active", "replica", "pending", "dead"}

ASSUME BoundAssumption ==
    /\ MaxMutationId \in Nat
    /\ MaxCheckpointId \in Nat \ {0}
    /\ States \subseteq VBStates
    /\ InconsistentSlave \in BOOLEAN

VARIABLES cm,             \* checkpointManager
          vbState,        \* VBucket::state
          activation,     \* how far VBucket::setState(active) has come
          backfillPhase,  \* backfill.isBackfillPhase
          status,         \* "ok", or how the process went wrong
          event           \* what the last step queued, handed to a cursor or took back

vars == <<cm, vbState, activation, backfillPhase, status, event>>

CheckpointIds == 0 .. MaxCheckpointId

UQ == INSTANCE UnifiedQueue WITH
        pending <- [n \in DOMAIN cm.cursors |->
                      {k \in Keys : \E i \in DOMAIN cm.items :
                                      i > cm.cursors[n].pos /\ cm.items[i].key = k}]

\* The bound in the guards of the actions that push items.
InBound(m) == m.mutationCounter <= MaxMutationId

Running == status = "ok"

IsActive == vbState = "active"

\* A new vbucket starts at checkpoint 1, or 0 when it waits for backfill; warmup
\* sets the checkpoint after the last persisted one.
Init ==
    /\ vbState \in States
    /\ \E id \in CheckpointIds : /\ id = 0 => ~IsActive
                                 /\ cm = NewManager(id)
    /\ activation = "none"
    /\ backfillPhase = FALSE
    /\ status = "ok"
    /\ event = UQ!NoEvent

-----------------------------------------------------------------------------
(* Mutations *)

\* queueDirty for a client's set or delete on an active vbucket, for a TAP mutation
\* outside backfill or for a TAP deletion at any time.  A vbucket that is not active
\* ignores mutations after a checkpoint_end; on an active one the assertion that
\* follows stops the process.
Mutate(k, elapsed) ==
    LET closed == cm.list[Back(cm)].state = "closed"
    IN  /\ Running
        /\ vbState # "dead"
        /\ \/ closed /\ ~IsActive /\ event' = UQ!NoEvent /\ UNCHANGED <<cm, status>>
           \/ closed /\ IsActive /\ event' = UQ!NoEvent /\ status' = "abort" /\ UNCHANGED cm
           \/ /\ ~closed
              /\ cm' = QueueDirty(cm, k, IsActive, InconsistentSlave, elapsed)
              /\ InBound(cm')
              /\ event' = UQ!Queued(k)
              /\ UNCHANGED status
        /\ UNCHANGED <<vbState, activation, backfillPhase>>

-----------------------------------------------------------------------------
(* Messages of the master *)

\* Checkpoint messages to an active vbucket are ignored.
AcceptsCheckpoints == IsActive => InconsistentSlave

CheckpointStart(id) ==
    /\ Running
    /\ AcceptsCheckpoints
    /\ backfillPhase' = (backfillPhase /\ id = 0)
    /\ cm' = CheckAndAddNewCheckpoint(cm, id)
    /\ InBound(cm')
    /\ event' = IF RolledBack(cm, id) # {} THEN UQ!Dropped ELSE UQ!NoEvent
    /\ UNCHANGED <<vbState, activation, status>>

CheckpointEnd(id) ==
    /\ Running
    /\ AcceptsCheckpoints
    /\ cm' = CloseOpenCheckpoint(cm, id)
    /\ InBound(cm')
    /\ event' = UQ!NoEvent
    /\ UNCHANGED <<vbState, activation, backfillPhase, status>>

\* A consumer without checkpoint synchronisation opens checkpoints by itself.
CheckVBOpenCheckpoint(highMem, elapsed) ==
    /\ Running
    /\ cm' = CheckOpenCheckpoint(cm,
               IsCheckpointCreationForHighMemUsage(cm, highMem), elapsed)
    /\ InBound(cm')
    /\ event' = UQ!NoEvent
    /\ UNCHANGED <<vbState, activation, backfillPhase, status>>

\* INITIAL_VBUCKET_STREAM: resetVBucket, which returns early when the hash table is
\* empty, then setBackfillPhase(true).  It can only be empty when every mutation was a
\* deletion that has been written, or none was ever queued.
InitialVBucketStream(htEmpty) ==
    /\ Running
    /\ htEmpty => \A i \in DOMAIN cm.items :
                    cm.items[i].key # NoKey => i <= cm.cursors[Persistence].pos
    /\ cm' = SetOpenCheckpointId(IF htEmpty THEN cm ELSE Clear(cm, IsActive), 0)
    /\ backfillPhase' = TRUE
    /\ event' = IF htEmpty THEN UQ!NoEvent ELSE UQ!Dropped
    /\ UNCHANGED <<vbState, activation, status>>

CloseBackfill ==
    /\ Running
    /\ backfillPhase
    /\ backfillPhase' = FALSE
    /\ event' = UQ!NoEvent
    /\ UNCHANGED <<cm, vbState, activation, status>>

\* flush_all: EventuallyPersistentStore::reset.
Reset ==
    /\ Running
    /\ cm' = Clear(cm, IsActive)
    /\ event' = UQ!Dropped
    /\ UNCHANGED <<vbState, activation, backfillPhase, status>>

-----------------------------------------------------------------------------
(* VBucket::setState: queueLock is taken anew for each of its two calls *)

SetState(to) ==
    /\ Running
    /\ activation = "none"
    /\ to # "active"
    /\ vbState' = to
    /\ event' = UQ!NoEvent
    /\ UNCHANGED <<cm, activation, backfillPhase, status>>

\* getOpenCheckpointId() == 0
ActivateCheck ==
    /\ Running
    /\ activation = "none"
    /\ "active" \in States
    /\ IsActive => GetOpenCheckpointId(cm) = 0   \* otherwise nothing would change
    /\ activation' = IF GetOpenCheckpointId(cm) = 0 THEN "setId" ELSE "setState"
    /\ event' = UQ!NoEvent
    /\ UNCHANGED <<cm, vbState, backfillPhase, status>>

ActivateSetId ==
    /\ Running
    /\ activation = "setId"
    /\ cm' = SetOpenCheckpointId(cm, 1)
    /\ activation' = "setState"
    /\ event' = UQ!NoEvent
    /\ UNCHANGED <<vbState, backfillPhase, status>>

ActivateSetState ==
    /\ Running
    /\ activation = "setState"
    /\ vbState' = "active"
    /\ activation' = "none"
    /\ event' = UQ!NoEvent
    /\ UNCHANGED <<cm, backfillPhase, status>>

-----------------------------------------------------------------------------
(* Readers of the queue and the remover *)

KeysOf(S) == {cm.items[i].key : i \in S} \ {NoKey}

\* What one vbucket contributes to beginFlush.
BeginFlush ==
    /\ Running
    /\ vbState # "dead"
    /\ cm' = GetAllItems(cm, Persistence)
    /\ event' = UQ!Taken(Persistence,
                         KeysOf(AllItems(cm, Persistence)))
    /\ UNCHANGED <<vbState, activation, backfillPhase, status>>

\* Two checkpoints of one id: the cursor would be given the first one together with
\* its position in the second, and walk past the end of a list.
MixesCheckpoints(n, id, fromBeginning) ==
    /\ KeepsPosition(cm, n, id, fromBeginning)
    /\ cm.cursors[n].ckpt # Min(WithId(cm, id))

\* Only a registered client asks for closed checkpoints, and always from the beginning.
RegisterCursor(n, id, closedOnly, fromBeginning) ==
    /\ Running
    /\ closedOnly => fromBeginning
    /\ IF MixesCheckpoints(n, id, fromBeginning)
       THEN status' = "undefined" /\ UNCHANGED cm
       ELSE /\ cm' = RegisterTAPCursor(cm, n, id, closedOnly, fromBeginning)
            /\ UNCHANGED status
    /\ event' = UQ!NoEvent
    /\ UNCHANGED <<vbState, activation, backfillPhase>>

RemoveCursor(n) ==
    /\ Running
    /\ n \in DOMAIN cm.cursors
    /\ cm' = RemoveTAPCursor(cm, n)
    /\ event' = UQ!NoEvent
    /\ UNCHANGED <<vbState, activation, backfillPhase, status>>

\* TapProducer::next asks for one item.
Next1(n) ==
    LET m   == NextItem(cm, n)
        key == m.items[m.cursors[n].pos].key
    IN  /\ Running
        /\ n \in DOMAIN cm.cursors
        /\ cm' = m
        /\ event' = IF m.cursors[n].pos = cm.cursors[n].pos \/ key = NoKey
                    THEN UQ!NoEvent ELSE UQ!Taken(n, {key})
        /\ UNCHANGED <<vbState, activation, backfillPhase, status>>

\* A checkpoint_end that must wait for acks is put back.
PutBackCheckpointEnd(n) ==
    /\ Running
    /\ n \in DOMAIN cm.cursors
    /\ cm' = DecrTapCursorFromCheckpointEnd(cm, n)
    /\ event' = UQ!NoEvent
    /\ UNCHANGED <<vbState, activation, backfillPhase, status>>

RemoveCheckpoints(highMem, elapsed) ==
    /\ Running
    /\ cm' = RemoveClosedUnrefCheckpoints(cm, MayCreate(cm, IsActive, InconsistentSlave),
               IsCheckpointCreationForHighMemUsage(cm, highMem), elapsed)
    /\ InBound(cm')
    /\ event' = UQ!NoEvent
    /\ UNCHANGED <<vbState, activation, backfillPhase, status>>

-----------------------------------------------------------------------------

Next ==
    \/ \E k \in Keys, elapsed \in BOOLEAN : Mutate(k, elapsed)
    \/ \E id \in CheckpointIds : CheckpointStart(id) \/ CheckpointEnd(id)
    \/ \E highMem, elapsed \in BOOLEAN :
         CheckVBOpenCheckpoint(highMem, elapsed) \/ RemoveCheckpoints(highMem, elapsed)
    \/ \E htEmpty \in BOOLEAN : InitialVBucketStream(htEmpty)
    \/ CloseBackfill \/ Reset
    \/ \E to \in States : SetState(to)
    \/ ActivateCheck \/ ActivateSetId \/ ActivateSetState
    \/ BeginFlush
    \/ \E n \in TapNames : RemoveCursor(n) \/ Next1(n) \/ PutBackCheckpointEnd(n)
    \/ \E n \in TapNames, id \in CheckpointIds, closedOnly, fromBeginning \in BOOLEAN :
         RegisterCursor(n, id, closedOnly, fromBeginning)

Spec == Init /\ [][Next]_vars

-----------------------------------------------------------------------------
(* Properties *)

(***************************************************************************)
(* Type invariant.                                                         *)
(***************************************************************************)
TypeOK ==
    /\ IsManager(cm)
    /\ vbState \in VBStates
    /\ activation \in {"none", "setId", "setState"}
    /\ backfillPhase \in BOOLEAN
    /\ status \in {"ok", "abort", "undefined"}

(***************************************************************************)
(* No cursor dangles: its iterator is a position of the checkpoint it      *)
(* refers to, and that checkpoint is in the list, whatever deduplication,  *)
(* the remover, a roll-back or a reset have erased.                        *)
(***************************************************************************)
NoDanglingCursor == CursorsInList(cm)

(***************************************************************************)
(* referenceCounter of every checkpoint is the number of cursors in it:    *)
(* too low and the remover frees a checkpoint that is still being read,    *)
(* too high and it never frees it.                                         *)
(***************************************************************************)
RefCountsExact == RefsExact(cm)

(***************************************************************************)
(* The inductive invariant: what holds of the manager between any two      *)
(* calls of checkpoint.cc.                                                 *)
(***************************************************************************)
IInv == TypeOK /\ Good(cm)

(***************************************************************************)
(* The counts that checkpoint.cc keeps by unsigned additions and           *)
(* subtractions, and the shape of the checkpoints they rely on, are exact  *)
(* after any sequence of deduplication, closing, removal, roll-back and    *)
(* reset: numItems of the manager and of each checkpoint, and the offset   *)
(* of each cursor, so getNumItemsForPersistence (ep_flusher_todo, and the  *)
(* queue_size that queueDirty reports) is right.                           *)
(***************************************************************************)
CountsExact == Lists(cm) /\ Exact(cm)

(***************************************************************************)
(* The pager never evicts a value that a cursor has still to read:         *)
(* isKeyResidentInCheckpoints finds the newest mutation of every key that  *)
(* is pending for some cursor.                                             *)
(***************************************************************************)
PendingIsResident ==
    \A n \in DOMAIN cm.cursors, i \in DOMAIN cm.items :
      LET k == cm.items[i].key
      IN  (/\ i > cm.cursors[n].pos
           /\ k # NoKey
           /\ \A j \in DOMAIN cm.items : cm.items[j].key = k => j <= i)
          => IsKeyResidentInCheckpoints(cm, k, i)

(***************************************************************************)
(* The checkpoint manager implements the abstract unified queue: each      *)
(* cursor behaves as a queue of its own.                                   *)
(***************************************************************************)
ImplementsUnifiedQueue == UQ!Spec

-----------------------------------------------------------------------------
(* What the comments, assertions and docs say and the code does not do *)

(***************************************************************************)
(* The assertion of CheckpointManager::queueDirty, "the current open       *)
(* checkpoint should be always the last one in the checkpoint list", never *)
(* stops the process.                                                      *)
(***************************************************************************)
NeverAborts == status # "abort"
=============================================================================
