---------------------------- MODULE UnifiedQueue ----------------------------
(***************************************************************************)
(* What the unified queue promises its readers: it behaves as if every     *)
(* cursor had a queue of its own, in which each key waits at most once.    *)
(* pending[n] is the set of keys whose newest mutation the cursor n has    *)
(* still to be given.  A key leaves it only by being handed out, or when   *)
(* the master or a reset of the vbucket takes mutations back; it enters it *)
(* only by being queued.  How mutations are divided into checkpoints, and  *)
(* when checkpoints are removed, cannot be seen.                           *)
(***************************************************************************)
CONSTANTS Keys, TapNames, Persistence

VARIABLES pending,   \* by registered cursor, the keys it has still to be given
          event      \* what the last step queued, handed out or took back

Names == TapNames \cup {Persistence}

NoEvent == [type |-> "none", name |-> Persistence, keys |-> {}]

Queued(k) == [type |-> "queue", name |-> Persistence, keys |-> {k}]

Taken(n, ks) == [type |-> "take", name |-> n, keys |-> ks]

Dropped == [type |-> "drop", name |-> Persistence, keys |-> {}]

Init == pending = [n \in {Persistence} |-> {}] /\ event = NoEvent

\* Steps that no reader can see.
Internal == event' = NoEvent /\ pending' = pending

\* A mutation of key k is owed to every cursor.
Queue(k) ==
    /\ event' = Queued(k)
    /\ pending' = [n \in DOMAIN pending |-> pending[n] \cup {k}]

\* A TAP cursor is given one key, which stays pending if a newer mutation waits.
TakeOne(n) ==
    \E k \in Keys :
      /\ event' = Taken(n, {k})
      /\ n \in DOMAIN pending /\ k \in pending[n]
      /\ pending' \in {pending, [pending EXCEPT ![n] = @ \ {k}]}

\* The flusher is given everything.
TakeAll ==
    /\ event'.type = "take"
    /\ event' = Taken(Persistence, pending[Persistence])
    /\ pending' = [pending EXCEPT ![Persistence] = {}]

\* A cursor is placed anew; the other cursors do not notice.
Register(n) ==
    /\ event' = NoEvent
    /\ DOMAIN pending' = DOMAIN pending \cup {n}
    /\ pending'[n] \subseteq Keys
    /\ \A x \in DOMAIN pending \ {n} : pending'[x] = pending[x]

Remove(n) ==
    /\ event' = NoEvent
    /\ pending' = [x \in DOMAIN pending \ {n} |-> pending[x]]

\* Mutations are taken back; nothing is owed that was not owed before.
Drop ==
    /\ event' = Dropped
    /\ DOMAIN pending' = DOMAIN pending
    /\ \A n \in DOMAIN pending : pending'[n] \subseteq pending[n]

Next ==
    \/ Internal
    \/ \E k \in Keys : Queue(k)
    \/ TakeAll
    \/ Drop
    \/ \E n \in TapNames : TakeOne(n) \/ Register(n) \/ Remove(n)

Spec == Init /\ [][Next]_<<pending, event>>
=============================================================================
