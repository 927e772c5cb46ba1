------------------------ MODULE VBucketQueueProofs ------------------------
(***************************************************************************)
(* The safety of one vbucket's queue, for every set of keys and of TAP     *)
(* connections, every limit and every bound.  The first part is what each  *)
(* operation of CheckpointManager preserves, for any number of keys,       *)
(* cursors, checkpoints and items: Good(m), by which no cursor dangles and *)
(* every reference counter is the number of cursors in its checkpoint;     *)
(* what it does to Pending(m), the keys that each cursor has still to be   *)
(* given, which is how readers see the queue; and Exact(m), by which what  *)
(* is counted up and down is the number of items.  The second part is      *)
(* about the state machine: IInv is the inductive invariant, whatever the  *)
(* threads do, with Good(cm) for its part about the manager; relative to   *)
(* it Exact(cm) is inductive, and each step is one of the abstract         *)
(* UnifiedQueue.                                                           *)
(***************************************************************************)
EXTENDS VBucketQueue, FiniteSetTheorems, FunctionTheorems, WellFoundedInduction, TLAPS

-----------------------------------------------------------------------------
(* Least and greatest elements *)

(* A non-empty set of naturals has a least element. *)
LEMMA SmallestNat ==
    ASSUME NEW S \in SUBSET Nat, S # {}
    PROVE  \E x \in S : \A y \in S : x <= y
<1> DEFINE R == OpToRel(<, Nat)
<1>1. IsWellFoundedOn(R, Nat)
  BY NatLessThanWellFounded
<1>2. PICK x \in S : \A y \in S : <<y, x>> \notin R
  BY <1>1, WFMin
<1>3. \A y \in S : ~(y < x)
  BY <1>2 DEF OpToRel
<1> QED  BY <1>3

(* Min picks the least element. *)
LEMMA MinNat ==
    ASSUME NEW S \in SUBSET Nat, S # {}
    PROVE  Min(S) \in S /\ \A y \in S : Min(S) <= y
<1>1. \E x \in S : \A y \in S : x <= y
  BY SmallestNat
<1> QED  BY <1>1 DEF Min

(* Max picks the greatest element of a bounded set. *)
LEMMA MaxNat ==
    ASSUME NEW N \in Nat, NEW S \in SUBSET (0 .. N), S # {}
    PROVE  Max(S) \in S /\ \A y \in S : Max(S) >= y
<1> DEFINE T == {N - x : x \in S}
<1>1. T \in SUBSET Nat
  OBVIOUS
<1>2. T # {}
  OBVIOUS
<1>3. PICK t \in T : \A u \in T : t <= u
  BY <1>1, <1>2, SmallestNat
<1>4. PICK x \in S : t = N - x
  BY <1>3
<1>5. \A y \in S : x >= y
  BY <1>3, <1>4
<1> QED  BY <1>5 DEF Max

(* The last checkpoint exists, and is after every other. *)
LEMMA BackIn ==
    ASSUME NEW m, Lists(m), DOMAIN m.list # {}
    PROVE  Back(m) \in DOMAIN m.list /\ \A c \in DOMAIN m.list : c <= Back(m)
<1>1. m.mutationCounter \in Nat
  BY DEF Lists, IsManager
<1>2. \A c \in DOMAIN m.list : c \in 1 .. m.mutationCounter
  BY DEF Lists, ItemsInOrder, DummiesFirst
<1>3. DOMAIN m.list \in SUBSET (0 .. m.mutationCounter)
  BY <1>1, <1>2
<1> QED  BY <1>1, <1>3, MaxNat DEF Back

(* The positions of a checkpoint are bounded; its dummy is one of them. *)
LEMMA Positions ==
    ASSUME NEW m, Lists(m), NEW c \in DOMAIN m.list
    PROVE  /\ m.mutationCounter \in Nat
           /\ ToWrite(m, c) \in SUBSET (1 .. m.mutationCounter)
           /\ c \in ToWrite(m, c) /\ c \in Nat
           /\ \A i \in ToWrite(m, c) : c <= i
<1>1. m.mutationCounter \in Nat
  BY DEF Lists, IsManager
<1>2. ToWrite(m, c) \in SUBSET (1 .. m.mutationCounter)
  BY DEF Lists, ItemsInOrder, ToWrite
<1>3. c \in ToWrite(m, c)
  <2>1. c \in DOMAIN m.items
    BY DEF Lists, DummiesFirst
  <2>2. m.items[c] = [ckpt |-> c, op |-> "empty", key |-> NoKey]
    BY DEF Lists, DummiesFirst
  <2>3. m.items[c].ckpt = c
    BY <2>2
  <2> QED  BY <2>1, <2>3 DEF ToWrite
<1>4. \A i \in ToWrite(m, c) : c <= i
  BY DEF Lists, ItemsInOrder, ToWrite
<1> QED  BY <1>1, <1>2, <1>3, <1>4

(* A position that is not the dummy has a predecessor in its checkpoint. *)
LEMMA PrevIn ==
    ASSUME NEW m, Lists(m), NEW c \in DOMAIN m.list, NEW p \in ToWrite(m, c), p # c
    PROVE  Prev(m, c, p) \in ToWrite(m, c) /\ Prev(m, c, p) < p
<1> DEFINE S == {i \in ToWrite(m, c) : i < p}
<1>1. m.mutationCounter \in Nat /\ S \in SUBSET (0 .. m.mutationCounter)
  BY Positions
<1>2. c \in S
  BY Positions
<1>3. Max(S) \in S
  BY <1>1, <1>2, MaxNat
<1> QED  BY <1>3 DEF Prev

-----------------------------------------------------------------------------
(* Growing the lists *)

\* q has the cursors and the items of m, and all its checkpoints; new checkpoints are
\* unreferenced, and new items come after all that have been.
Grows(m, q) ==
    /\ q.cursors = m.cursors
    /\ DOMAIN m.list \subseteq DOMAIN q.list
    /\ \A c \in DOMAIN m.list : q.list[c].refs = m.list[c].refs
    /\ \A c \in DOMAIN q.list \ DOMAIN m.list : q.list[c].refs = 0
    /\ DOMAIN m.items \subseteq DOMAIN q.items
    /\ \A i \in DOMAIN m.items : q.items[i] = m.items[i]
    /\ 1 .. m.mutationCounter \subseteq 1 .. q.mutationCounter
    /\ \A i \in DOMAIN q.items : i \in 1 .. m.mutationCounter => i \in DOMAIN m.items

(* Growing is transitive. *)
LEMMA GrowsTransitive ==
    ASSUME NEW m, NEW q, NEW r, Grows(m, q), Grows(q, r)
    PROVE  Grows(m, r)
BY DEF Grows

(* A manager that grows well-formed lists keeps its cursors and counters right. *)
LEMMA GrowsGood ==
    ASSUME NEW m, NEW q, Good(m), Lists(q), Grows(m, q)
    PROVE  Good(q)
<1>1. DOMAIN q.list # {}
  BY DEF Good, Grows
<1>2. CursorsInList(q)
  BY DEF Good, Grows, CursorsInList, ToWrite
<1>3. ASSUME NEW c \in DOMAIN q.list
      PROVE  q.list[c].refs = Cardinality(CursorsIn(q, c))
  <2>1. CursorsIn(q, c) = CursorsIn(m, c)
    BY DEF CursorsIn, Grows
  <2>2. CASE c \in DOMAIN m.list
    BY <2>1, <2>2 DEF Good, RefsExact, Grows
  <2>3. CASE c \notin DOMAIN m.list
    <3>1. CursorsIn(m, c) = {}
      BY <2>3 DEF CursorsIn, Good, CursorsInList
    <3> QED  BY <2>1, <2>3, <3>1, FS_EmptySet DEF Grows
  <2> QED  BY <2>2, <2>3
<1> QED  BY <1>1, <1>2, <1>3 DEF Good, RefsExact

(* What PushBack does to each field. *)
LEMMA PushBackFields ==
    ASSUME NEW m, DOMAIN m = Fields, NEW c, NEW op, NEW key
    PROVE  LET q   == PushBack(m, c, op, key)
               mid == m.mutationCounter + 1
           IN  /\ DOMAIN q = Fields
               /\ q.mutationCounter = mid
               /\ q.items = [i \in DOMAIN m.items \cup {mid} |->
                               IF i = mid THEN [ckpt |-> c, op |-> op, key |-> key]
                               ELSE m.items[i]]
               /\ q.list = m.list /\ q.numItems = m.numItems /\ q.cursors = m.cursors
BY DEF PushBack, Fields

(* A mutation of a new key, or an item of no key, may be pushed on the last checkpoint. *)
LEMMA PushBackLists ==
    ASSUME NEW m, Lists(m), NEW c \in DOMAIN m.list, \A d \in DOMAIN m.list : d <= c,
           NEW op \in Ops, NEW key \in Keys \cup {NoKey}, op # "mutation" => key = NoKey,
           key # NoKey => Index(m, c, key) = {}
    PROVE  Lists(PushBack(m, c, op, key)) /\ Grows(m, PushBack(m, c, op, key))
<1> DEFINE q   == PushBack(m, c, op, key)
           mid == m.mutationCounter + 1
<1>1. /\ DOMAIN q = Fields
      /\ q.mutationCounter = mid
      /\ q.items = [i \in DOMAIN m.items \cup {mid} |->
                      IF i = mid THEN [ckpt |-> c, op |-> op, key |-> key] ELSE m.items[i]]
      /\ q.list = m.list /\ q.numItems = m.numItems /\ q.cursors = m.cursors
  BY PushBackFields DEF Lists, IsManager
<1> HIDE DEF q
<1>2. mid \in Nat /\ mid \notin DOMAIN m.items /\ c \in Nat /\ c < mid
  <2>1. m.mutationCounter \in Nat /\ c \in Nat /\ c \in 1 .. m.mutationCounter
    BY Positions
  <2>2. DOMAIN m.items \subseteq 1 .. m.mutationCounter
    BY DEF Lists, ItemsInOrder
  <2> QED  BY <2>1, <2>2
<1>3. IsManager(q)
  <2>1. q.items \in [DOMAIN q.items -> Item]
    BY <1>1, <1>2 DEF Lists, IsManager, Item
  <2> QED  BY <1>1, <1>2, <2>1 DEF Lists, IsManager
<1>4. ItemsInOrder(q)
  <2>1. \A i \in DOMAIN m.items : /\ i \in 1 .. m.mutationCounter /\ m.items[i].ckpt \in DOMAIN m.list
                                  /\ m.items[i].ckpt <= i /\ m.items[i].ckpt <= c
    BY DEF Lists, ItemsInOrder
  <2>0. m.mutationCounter \in Nat
    BY DEF Lists, IsManager
  <2>2. /\ DOMAIN q.items = DOMAIN m.items \cup {mid} /\ q.items[mid].ckpt = c
        /\ \A i \in DOMAIN m.items : q.items[i] = m.items[i] /\ i \in Nat /\ i < mid
    BY <1>1, <1>2, <2>0, <2>1
  <2>3. \A i, j \in DOMAIN q.items : i <= j => q.items[i].ckpt <= q.items[j].ckpt
    BY <1>2, <2>1, <2>2 DEF Lists, ItemsInOrder
  <2>4. DOMAIN q.items \subseteq 1 .. q.mutationCounter
    BY <1>1, <1>2, <2>0, <2>1, <2>2
  <2>5. \A i \in DOMAIN q.items : q.items[i].ckpt \in DOMAIN q.list /\ q.items[i].ckpt <= i
    BY <1>1, <1>2, <2>1, <2>2
  <2> QED  BY <2>3, <2>4, <2>5 DEF ItemsInOrder
<1>4a. KeysOfMutations(q) /\ ClosedBefore(q)
  BY <1>1, <1>2 DEF Lists, KeysOfMutations, ClosedBefore
<1>5. DummiesFirst(q)
  BY <1>1, <1>2 DEF Lists, DummiesFirst
<1>6. UniqueKeys(q)
  BY <1>1, <1>2 DEF Lists, UniqueKeys, Index, ToWrite
<1>7. Grows(m, q)
  <2>1. m.mutationCounter \in Nat
    BY DEF Lists, IsManager
  <2>2. 1 .. m.mutationCounter \subseteq 1 .. mid /\ mid \notin 1 .. m.mutationCounter
    BY <2>1
  <2> HIDE DEF mid
  <2> QED  BY <1>1, <1>2, <2>2 DEF Grows
<1> QED  BY <1>3, <1>4, <1>4a, <1>5, <1>6, <1>7 DEF Lists, q

(* Fields of a checkpoint other than refs may change without harm. *)
LEMMA RelabelLists ==
    ASSUME NEW m, NEW q, Lists(m), DOMAIN q = Fields, q.numItems \in Int,
           q.items = m.items, q.cursors = m.cursors, q.mutationCounter = m.mutationCounter,
           q.list \in [DOMAIN m.list -> Checkpoint],
           \A c \in DOMAIN m.list : /\ q.list[c].refs = m.list[c].refs
                                   /\ q.list[c].state \in {m.list[c].state, "closed"}
    PROVE  Lists(q) /\ Grows(m, q)
<1>1. IsManager(q)
  BY DEF Lists, IsManager
<1>2. ItemsInOrder(q) /\ DummiesFirst(q) /\ UniqueKeys(q) /\ KeysOfMutations(q)
  BY DEF Lists, ItemsInOrder, DummiesFirst, UniqueKeys, KeysOfMutations
<1>2a. ClosedBefore(q)
  BY DEF Lists, ClosedBefore
<1>3. Grows(m, q)
  BY DEF Grows
<1> QED  BY <1>1, <1>2, <1>2a, <1>3 DEF Lists

(* Closing the last checkpoint pushes one item and marks it closed. *)
LEMMA CloseLists ==
    ASSUME NEW m, Lists(m), DOMAIN m.list # {}, NEW id
    PROVE  /\ Lists(CloseOpenCheckpoint(m, id)) /\ Grows(m, CloseOpenCheckpoint(m, id))
           /\ DOMAIN CloseOpenCheckpoint(m, id).list = DOMAIN m.list
           /\ id = m.list[Back(m)].id =>
                \A d \in DOMAIN m.list : CloseOpenCheckpoint(m, id).list[d].state = "closed"
<1> DEFINE c == Back(m)
           p == PushBack(m, c, "checkpoint_end", NoKey)
           q == [p EXCEPT !.numItems = @ + 1, !.list[c].state = "closed"]
<1>1. c \in DOMAIN m.list /\ \A d \in DOMAIN m.list : d <= c
  BY BackIn
<1>2. Lists(p) /\ Grows(m, p)
  BY <1>1, PushBackLists DEF Ops
<1> HIDE DEF c
<1>3. DOMAIN p = Fields /\ p.list = m.list
  <2>1. DOMAIN m = Fields
    BY DEF Lists, IsManager
  <2> QED  BY <2>1 DEF PushBack, Fields
<1> HIDE DEF p
<1>4. Lists(q) /\ Grows(p, q)
  <2>1. p.list \in [DOMAIN p.list -> Checkpoint] /\ c \in DOMAIN p.list /\ p.numItems \in Int
    BY <1>1, <1>2, <1>3 DEF Lists, IsManager
  <2>2. /\ DOMAIN q = Fields /\ q.numItems \in Int
        /\ q.items = p.items /\ q.cursors = p.cursors /\ q.mutationCounter = p.mutationCounter
    BY <1>3, <2>1 DEF Fields
  <2>3. q.list = [p.list EXCEPT ![c].state = "closed"]
    BY <1>3 DEF Fields
  <2>4. /\ q.list \in [DOMAIN p.list -> Checkpoint]
        /\ \A d \in DOMAIN p.list : /\ q.list[d].refs = p.list[d].refs
                                     /\ q.list[d].state \in {p.list[d].state, "closed"}
    BY <2>1, <2>3 DEF Checkpoint
  <2> QED  BY <1>2, <2>2, <2>4, RelabelLists
<1>5. Grows(m, q)
  BY <1>2, <1>4, GrowsTransitive
<1>6. DOMAIN q.list = DOMAIN m.list
  BY <1>3 DEF Fields
<1>7. CloseOpenCheckpoint(m, id) \in {m, q}
  BY DEF CloseOpenCheckpoint, p, c
<1>8. Grows(m, m)
  BY DEF Grows
<1>9. ASSUME id = m.list[c].id, NEW d \in DOMAIN m.list
      PROVE  CloseOpenCheckpoint(m, id).list[d].state = "closed"
  <2>1. /\ \A x \in DOMAIN m.list : x \in Nat /\ m.list[x] \in Checkpoint
        /\ \A x \in DOMAIN m.list : x < c => m.list[x].state = "closed"
    BY <1>1, Positions DEF Lists, IsManager, ClosedBefore
  <2>2. CASE m.list[c].state = "closed"
    <3>1. CloseOpenCheckpoint(m, id) = m
      BY <2>2 DEF CloseOpenCheckpoint, c
    <3> QED  BY <1>1, <2>1, <2>2, <3>1
  <2>3. CASE m.list[c].state # "closed"
    <3>1. CloseOpenCheckpoint(m, id) = q
      BY <1>9, <2>3 DEF CloseOpenCheckpoint, c, p
    <3>2. q.list = [m.list EXCEPT ![c].state = "closed"]
      BY <1>3 DEF Fields
    <3>3. q.list[d].state = "closed"
      BY <1>1, <2>1, <3>2 DEF Checkpoint
    <3> QED  BY <3>1, <3>3
  <2> QED  BY <2>2, <2>3
<1> QED  BY <1>4, <1>5, <1>6, <1>7, <1>8, <1>9 DEF c

(* Appending a checkpoint: a new name, larger than all the others. *)
LEMMA AppendLists ==
    ASSUME NEW m, Lists(m), NEW id \in Nat,
           \A d \in DOMAIN m.list : m.list[d].state = "closed"
    PROVE  LET q == AppendCheckpoint(m, id)
               c == m.mutationCounter + 1
           IN  /\ Lists(q) /\ Grows(m, q)
               /\ c \notin DOMAIN m.list /\ DOMAIN q.list = DOMAIN m.list \cup {c}
<1> DEFINE q == AppendCheckpoint(m, id)
           c == m.mutationCounter + 1
           d == c + 1
           p == PushBack(m, c, "empty", NoKey)
           r == PushBack(p, c, "checkpoint_start", NoKey)
           ck == [id |-> id, state |-> "opened", refs |-> 0, numItems |-> 0]
           dummy == [ckpt |-> c, op |-> "empty", key |-> NoKey]
           start == [ckpt |-> c, op |-> "checkpoint_start", key |-> NoKey]
<1>1. /\ DOMAIN p = Fields /\ p.mutationCounter = c
      /\ p.items = [i \in DOMAIN m.items \cup {c} |-> IF i = c THEN dummy ELSE m.items[i]]
      /\ p.list = m.list /\ p.numItems = m.numItems /\ p.cursors = m.cursors
  BY PushBackFields DEF Lists, IsManager
<1>2. /\ DOMAIN r = Fields /\ r.mutationCounter = d
      /\ r.items = [i \in DOMAIN p.items \cup {d} |-> IF i = d THEN start ELSE p.items[i]]
      /\ r.list = p.list /\ r.numItems = p.numItems /\ r.cursors = p.cursors
  BY <1>1, PushBackFields
<1>3. q = [r EXCEPT !.numItems = @ + 1,
                    !.list = [x \in DOMAIN m.list \cup {c} |-> IF x = c THEN ck ELSE m.list[x]]]
  BY DEF AppendCheckpoint
<1> HIDE DEF p, r, q
<1>4. /\ m.mutationCounter \in Nat /\ c \in Nat /\ d \in Nat /\ c < d
      /\ DOMAIN m.items \subseteq 1 .. m.mutationCounter
      /\ c \notin DOMAIN m.items /\ d \notin DOMAIN m.items
  BY DEF Lists, IsManager, ItemsInOrder
<1>5. c \notin DOMAIN m.list /\ \A x \in DOMAIN m.list : x \in DOMAIN m.items
  BY <1>4 DEF Lists, DummiesFirst
<1>6. /\ DOMAIN q = Fields /\ q.mutationCounter = d /\ q.numItems = m.numItems + 1
      /\ q.cursors = m.cursors
      /\ q.list = [x \in DOMAIN m.list \cup {c} |-> IF x = c THEN ck ELSE m.list[x]]
      /\ q.items = r.items
  BY <1>1, <1>2, <1>3 DEF Fields
<1>7. /\ DOMAIN q.items = DOMAIN m.items \cup {c, d}
      /\ q.items[c] = dummy /\ q.items[d] = start
      /\ \A i \in DOMAIN m.items : q.items[i] = m.items[i]
  BY <1>1, <1>2, <1>4, <1>6
<1>8. DOMAIN q.list = DOMAIN m.list \cup {c}
  BY <1>6
<1>9. IsManager(q)
  <2>1. q.items \in [DOMAIN q.items -> Item]
    <3>1. dummy \in Item /\ start \in Item
      BY <1>4 DEF Item, Ops
    <3>2. \A i \in DOMAIN m.items : m.items[i] \in Item
      BY DEF Lists, IsManager
    <3>3. \A i \in DOMAIN q.items : q.items[i] \in Item
      BY <1>7, <3>1, <3>2
    <3>4. \E D : q.items = [i \in D |-> q.items[i]]
      BY <1>2, <1>6
    <3> QED  BY <3>3, <3>4
  <2>2. q.list \in [DOMAIN q.list -> Checkpoint]
    <3>1. ck \in Checkpoint
      BY DEF Checkpoint
    <3> QED  BY <1>5, <1>6, <3>1 DEF Lists, IsManager
  <2>3. q.numItems \in Int
    BY <1>6 DEF Lists, IsManager
  <2> QED  BY <1>4, <1>6, <2>1, <2>2, <2>3 DEF Lists, IsManager
<1>10. ItemsInOrder(q)
  <2>1. DOMAIN q.items \subseteq 1 .. q.mutationCounter
    BY <1>4, <1>6, <1>7
  <2>2. ASSUME NEW i \in DOMAIN q.items
        PROVE  q.items[i].ckpt \in DOMAIN q.list /\ q.items[i].ckpt <= i
    <3>1. CASE i \in DOMAIN m.items
      BY <1>7, <1>8, <3>1 DEF Lists, ItemsInOrder
    <3>2. CASE i \in {c, d}
      BY <1>4, <1>7, <1>8, <3>2
    <3> QED  BY <1>7, <3>1, <3>2
  <2>3. \A i, j \in DOMAIN q.items : i <= j => q.items[i].ckpt <= q.items[j].ckpt
    <3>1. q.items[c].ckpt = c /\ q.items[d].ckpt = c
      BY <1>7
    <3>2. \A i \in DOMAIN m.items : /\ q.items[i].ckpt = m.items[i].ckpt /\ i < c
                                    /\ m.items[i].ckpt \in Nat /\ m.items[i].ckpt <= i
      BY <1>4, <1>7, Positions DEF Lists, ItemsInOrder
    <3> QED  BY <1>4, <1>7, <3>1, <3>2 DEF Lists, ItemsInOrder
  <2> QED  BY <2>1, <2>2, <2>3 DEF ItemsInOrder
<1>11. DummiesFirst(q)
  BY <1>5, <1>7, <1>8 DEF Lists, DummiesFirst
<1>12. UniqueKeys(q)
  BY <1>7 DEF Lists, UniqueKeys
<1>13. Grows(m, q)
  <2>1. /\ 1 .. m.mutationCounter \subseteq 1 .. d
        /\ c \notin 1 .. m.mutationCounter /\ d \notin 1 .. m.mutationCounter
    BY <1>4
  <2> HIDE DEF c, d
  <2> QED  BY <1>5, <1>6, <1>7, <2>1 DEF Grows
<1>14. KeysOfMutations(q)
  BY <1>7 DEF Lists, KeysOfMutations
<1>15. ClosedBefore(q)
  <2>1. \A x \in DOMAIN m.list : x \in Nat /\ x < c
    BY <1>4, Positions
  <2> QED  BY <1>4, <1>6, <2>1 DEF ClosedBefore
<1> QED  BY <1>5, <1>8, <1>9, <1>10, <1>11, <1>12, <1>13, <1>14, <1>15 DEF Lists, q

(* Adding a checkpoint: one new last checkpoint, which nothing refers to. *)
LEMMA AddNewLists ==
    ASSUME NEW m, Lists(m), NEW id \in Nat
    PROVE  LET q == AddNewCheckpoint(m, id)
           IN  /\ Lists(q) /\ Grows(m, q)
               /\ Back(q) \notin DOMAIN m.list
               /\ DOMAIN q.list = DOMAIN m.list \cup {Back(q)}
<1> DEFINE p == CloseOpenCheckpoint(m, m.list[Back(m)].id)
           Added(r, q) == /\ Lists(q) /\ Grows(r, q) /\ Back(q) \notin DOMAIN r.list
                          /\ DOMAIN q.list = DOMAIN r.list \cup {Back(q)}
<1>1. ASSUME NEW r, Lists(r), \A d \in DOMAIN r.list : r.list[d].state = "closed"
      PROVE  Added(r, AppendCheckpoint(r, id))
  <2> DEFINE q == AppendCheckpoint(r, id)
             c == r.mutationCounter + 1
  <2>1. /\ Lists(q) /\ Grows(r, q)
        /\ c \notin DOMAIN r.list /\ DOMAIN q.list = DOMAIN r.list \cup {c}
    BY <1>1, AppendLists
  <2> HIDE DEF q
  <2>2. Back(q) = c
    <3>1. \A x \in DOMAIN r.list : x \in Nat /\ x < c
      BY <1>1, Positions
    <3>2. c \in Nat
      BY <1>1 DEF Lists, IsManager
    <3>3. Back(q) \in DOMAIN q.list /\ \A x \in DOMAIN q.list : x <= Back(q)
      BY <2>1, BackIn
    <3> QED  BY <2>1, <3>1, <3>2, <3>3
  <2> QED  BY <2>1, <2>2 DEF q
<1>2. CASE DOMAIN m.list # {} /\ m.list[Back(m)].state = "opened"
  <2>1. /\ Lists(p) /\ Grows(m, p) /\ DOMAIN p.list = DOMAIN m.list
        /\ \A d \in DOMAIN p.list : p.list[d].state = "closed"
    BY <1>2, CloseLists
  <2>2. AddNewCheckpoint(m, id) = AppendCheckpoint(p, id)
    BY <1>2 DEF AddNewCheckpoint
  <2> HIDE DEF p
  <2>3. Added(p, AppendCheckpoint(p, id))
    BY <1>1, <2>1
  <2>4. Grows(m, AppendCheckpoint(p, id))
    BY <2>1, <2>3, GrowsTransitive
  <2> QED  BY <2>1, <2>2, <2>3, <2>4
<1>3. CASE ~(DOMAIN m.list # {} /\ m.list[Back(m)].state = "opened")
  <2>1. AddNewCheckpoint(m, id) = AppendCheckpoint(m, id)
    BY <1>3 DEF AddNewCheckpoint
  <2>2. ASSUME NEW d \in DOMAIN m.list
        PROVE  m.list[d].state = "closed"
    <3>1. /\ Back(m) \in DOMAIN m.list /\ d <= Back(m) /\ m.list[Back(m)] \in Checkpoint
          /\ d \in Nat /\ Back(m) \in Nat
      BY BackIn, Positions DEF Lists, IsManager
    <3>2. m.list[Back(m)].state = "closed"
      BY <1>3, <3>1 DEF Checkpoint
    <3> QED  BY <3>1, <3>2 DEF Lists, ClosedBefore
  <2> QED  BY <1>1, <2>1, <2>2
<1> QED  BY <1>2, <1>3

(* closeOpenCheckpoint keeps cursors and counters right. *)
LEMMA CloseGood ==
    ASSUME NEW m, Good(m), NEW id
    PROVE  Good(CloseOpenCheckpoint(m, id))
BY CloseLists, GrowsGood DEF Good

(* So does addNewCheckpoint. *)
LEMMA AddNewGood ==
    ASSUME NEW m, Good(m), NEW id \in Nat
    PROVE  Good(AddNewCheckpoint(m, id))
BY AddNewLists, GrowsGood DEF Good

(* So does checkOpenCheckpoint. *)
LEMMA CheckOpenGood ==
    ASSUME NEW m, Good(m), NEW forceCreation, NEW elapsed
    PROVE  Good(CheckOpenCheckpoint(m, forceCreation, elapsed))
<1> DEFINE id == m.list[Back(m)].id
<1>1. id + 1 \in Nat
  BY BackIn DEF Good, Lists, IsManager, Checkpoint
<1>2. Good(CloseOpenCheckpoint(m, id))
  BY CloseGood
<1>3. Good(AddNewCheckpoint(CloseOpenCheckpoint(m, id), id + 1))
  BY <1>1, <1>2, AddNewGood
<1> QED  BY <1>3 DEF CheckOpenCheckpoint

(* So does setOpenCheckpointId. *)
LEMMA SetIdGood ==
    ASSUME NEW m, Good(m), NEW id \in Nat
    PROVE  Good(SetOpenCheckpointId(m, id))
<1> DEFINE c == Back(m)
           q == [m EXCEPT !.list[c].id = id]
<1>1. /\ DOMAIN m = Fields /\ m.numItems \in Int
      /\ m.list \in [DOMAIN m.list -> Checkpoint] /\ c \in DOMAIN m.list
  BY BackIn DEF Good, Lists, IsManager
<1> HIDE DEF c
<1>2. /\ DOMAIN q = Fields /\ q.numItems \in Int
      /\ q.items = m.items /\ q.cursors = m.cursors /\ q.mutationCounter = m.mutationCounter
      /\ q.list = [m.list EXCEPT ![c].id = id]
  BY <1>1 DEF Fields
<1>3. /\ q.list \in [DOMAIN m.list -> Checkpoint]
      /\ \A d \in DOMAIN m.list : /\ q.list[d].refs = m.list[d].refs
                                  /\ q.list[d].state = m.list[d].state
  BY <1>1, <1>2 DEF Checkpoint
<1>4. Lists(q) /\ Grows(m, q)
  BY <1>2, <1>3, RelabelLists DEF Good
<1> QED  BY <1>4, GrowsGood DEF SetOpenCheckpointId, c

-----------------------------------------------------------------------------
(* Starting anew *)

(* A manager with one checkpoint and all its cursors at the begin of it. *)
LEMMA StartGood ==
    ASSUME NEW id \in Nat, NEW cs, cs \in [DOMAIN cs -> Cursor],
           Persistence \in DOMAIN cs, DOMAIN cs \subseteq Names
    PROVE  Good(StartManager(id, cs))
<1> DEFINE e == [items |-> [i \in {} |-> 0], list |-> [c \in {} |-> 0],
                 numItems |-> 0, mutationCounter |-> 0, cursors |-> cs]
           m == AddNewCheckpoint(e, id)
           c == Back(m)
           at == [n \in DOMAIN cs |-> [cs[n] EXCEPT !.ckpt = c, !.pos = c, !.offset = 0]]
           q == [m EXCEPT !.list[c].refs = Cardinality(DOMAIN cs), !.cursors = at]
<1>1. Lists(e)
  <2>1. IsManager(e)
    BY DEF IsManager, Fields
  <2>2. /\ ItemsInOrder(e) /\ DummiesFirst(e) /\ UniqueKeys(e)
        /\ KeysOfMutations(e) /\ ClosedBefore(e)
    BY DEF ItemsInOrder, DummiesFirst, UniqueKeys, KeysOfMutations, ClosedBefore
  <2> QED  BY <2>1, <2>2 DEF Lists
<1>2. DOMAIN e.list = {} /\ e.cursors = cs
  OBVIOUS
<1> HIDE DEF e
<1>3. Lists(m) /\ DOMAIN m.list = {c} /\ m.cursors = cs
  BY <1>1, <1>2, AddNewLists DEF Grows
<1> HIDE DEF m, c
<1>4. IsFiniteSet(DOMAIN cs) /\ Cardinality(DOMAIN cs) \in Nat
  <2>1. IsFiniteSet(Names)
    BY NameAssumption, FS_AddElement DEF Names
  <2> QED  BY <2>1, FS_Subset, FS_CardinalityType
<1>5. c \in Nat /\ c \in ToWrite(m, c)
  BY <1>3, Positions
<1>6. /\ DOMAIN q = Fields /\ q.items = m.items /\ q.mutationCounter = m.mutationCounter
      /\ q.numItems = m.numItems /\ q.cursors = at
      /\ q.list = [m.list EXCEPT ![c].refs = Cardinality(DOMAIN cs)]
  BY <1>3 DEF Lists, IsManager, Fields
<1>7. /\ q.list \in [{c} -> Checkpoint]
      /\ q.list[c].refs = Cardinality(DOMAIN cs)
  BY <1>3, <1>4, <1>6 DEF Lists, IsManager, Checkpoint
<1>8. at \in [DOMAIN cs -> Cursor] /\ \A n \in DOMAIN cs : at[n].ckpt = c /\ at[n].pos = c
  <2>1. \A n \in DOMAIN cs : cs[n] \in Cursor
    OBVIOUS
  <2>2. ASSUME NEW n \in DOMAIN cs
        PROVE  at[n] \in Cursor /\ at[n].ckpt = c /\ at[n].pos = c
    <3>1. at[n] = [cs[n] EXCEPT !.ckpt = c, !.pos = c, !.offset = 0]
      OBVIOUS
    <3> HIDE DEF at
    <3>2. cs[n] \in Cursor /\ 0 \in Int
      BY <2>1
    <3>3. at[n] \in Cursor
      BY <1>5, <3>1, <3>2 DEF Cursor
    <3>4. at[n].ckpt = c /\ at[n].pos = c
      BY <3>1, <3>2 DEF Cursor
    <3> QED  BY <3>3, <3>4
  <2> QED  BY <2>2
<1> HIDE DEF q, at
<1>9. IsManager(q)
  BY <1>3, <1>6, <1>7, <1>8 DEF Lists, IsManager
<1>10. ItemsInOrder(q) /\ DummiesFirst(q) /\ UniqueKeys(q) /\ KeysOfMutations(q)
  BY <1>3, <1>6, <1>7 DEF Lists, ItemsInOrder, DummiesFirst, UniqueKeys, KeysOfMutations
<1>10a. ClosedBefore(q)
  BY <1>5, <1>7 DEF ClosedBefore
<1>11. CursorsInList(q)
  BY <1>5, <1>6, <1>7, <1>8 DEF CursorsInList, ToWrite
<1>12. RefsExact(q)
  <2>1. CursorsIn(q, c) = DOMAIN cs
    BY <1>6, <1>8 DEF CursorsIn
  <2> QED  BY <1>7, <2>1 DEF RefsExact
<1>13. DOMAIN q.list # {}
  BY <1>7
<1>14. Good(q)
  BY <1>9, <1>10, <1>10a, <1>11, <1>12, <1>13 DEF Good, Lists
<1>15. StartManager(id, cs) = q
  BY DEF StartManager, q, at, c, m, e
<1> QED  BY <1>14, <1>15

(* A new manager is good. *)
LEMMA NewGood ==
    ASSUME NEW id \in Nat
    PROVE  Good(NewManager(id))
<1> DEFINE cs == [n \in {Persistence} |->
                    [ckpt |-> 0, pos |-> 0, offset |-> 0, closedOnly |-> FALSE]]
<1>1. cs \in [DOMAIN cs -> Cursor] /\ Persistence \in DOMAIN cs /\ DOMAIN cs \subseteq Names
  BY DEF Cursor, Names
<1> QED  BY <1>1, StartGood DEF NewManager

(* So is a cleared one. *)
LEMMA ClearGood ==
    ASSUME NEW m, Good(m), NEW active
    PROVE  Good(Clear(m, active))
<1>1. /\ m.cursors \in [DOMAIN m.cursors -> Cursor]
      /\ Persistence \in DOMAIN m.cursors /\ DOMAIN m.cursors \subseteq Names
  BY DEF Good, Lists, IsManager
<1>2. (IF active THEN 1 ELSE 0) \in Nat
  OBVIOUS
<1> QED  BY <1>1, <1>2, StartGood DEF Clear
-----------------------------------------------------------------------------
(* Placing, moving and removing one cursor *)

(* There are finitely many cursors. *)
LEMMA FiniteCursors ==
    ASSUME NEW cs, DOMAIN cs \subseteq Names
    PROVE  IsFiniteSet(DOMAIN cs)
<1>1. IsFiniteSet(Names)
  BY NameAssumption, FS_AddElement DEF Names
<1> QED  BY <1>1, FS_Subset

\* The cursors of cs that are in checkpoint c, and RefsExact, of a list and its cursors.
InCheckpoint(cs, c) == {n \in DOMAIN cs : cs[n].ckpt = c}

Counts(list, cs) ==
    /\ list \in [DOMAIN list -> Checkpoint]
    /\ \A c \in DOMAIN list : list[c].refs = Cardinality(InCheckpoint(cs, c))

\* The same checkpoints, in the same state.
SameStates(list, other) ==
    DOMAIN other = DOMAIN list /\ \A c \in DOMAIN list : other[c].state = list[c].state

(* What the two counter operations do. *)
LEMMA Counters ==
    ASSUME NEW list, list \in [DOMAIN list -> Checkpoint], NEW c \in DOMAIN list
    PROVE  /\ IncrReferenceCounter(list, c) \in [DOMAIN list -> Checkpoint]
           /\ DecrReferenceCounter(list, c) \in [DOMAIN list -> Checkpoint]
           /\ IncrReferenceCounter(list, c)[c].refs = list[c].refs + 1
           /\ list[c].refs > 0 => DecrReferenceCounter(list, c)[c].refs = list[c].refs - 1
           /\ \A d \in DOMAIN list \ {c} :
                /\ IncrReferenceCounter(list, c)[d] = list[d]
                /\ DecrReferenceCounter(list, c)[d] = list[d]
           /\ SameStates(list, IncrReferenceCounter(list, c))
           /\ SameStates(list, DecrReferenceCounter(list, c))
<1>1. IncrReferenceCounter(list, c) \in [DOMAIN list -> Checkpoint]
  BY DEF IncrReferenceCounter, Checkpoint
<1>2. DecrReferenceCounter(list, c) \in [DOMAIN list -> Checkpoint]
  BY DEF DecrReferenceCounter, Checkpoint
<1>3. IncrReferenceCounter(list, c)[c].refs = list[c].refs + 1
  BY DEF IncrReferenceCounter, Checkpoint
<1>4. list[c].refs > 0 => DecrReferenceCounter(list, c)[c].refs = list[c].refs - 1
  BY DEF DecrReferenceCounter, Checkpoint
<1>5. \A d \in DOMAIN list \ {c} : /\ IncrReferenceCounter(list, c)[d] = list[d]
                                   /\ DecrReferenceCounter(list, c)[d] = list[d]
  BY DEF IncrReferenceCounter, DecrReferenceCounter
<1>6. SameStates(list, IncrReferenceCounter(list, c))
  BY DEF IncrReferenceCounter, SameStates, Checkpoint
<1>7. SameStates(list, DecrReferenceCounter(list, c))
  BY DEF DecrReferenceCounter, SameStates, Checkpoint
<1> QED  BY <1>1, <1>2, <1>3, <1>4, <1>5, <1>6, <1>7

(* Removing a cursor and decrementing its checkpoint's counter. *)
LEMMA CountsRemove ==
    ASSUME NEW list, NEW cs, NEW ds, Counts(list, cs), IsFiniteSet(DOMAIN cs),
           NEW n \in DOMAIN cs, cs[n].ckpt \in DOMAIN list,
           DOMAIN ds = DOMAIN cs \ {n}, \A x \in DOMAIN ds : ds[x] = cs[x]
    PROVE  Counts(DecrReferenceCounter(list, cs[n].ckpt), ds)
<1> DEFINE c == cs[n].ckpt
           q == DecrReferenceCounter(list, c)
<1>1. c \in DOMAIN list /\ list \in [DOMAIN list -> Checkpoint]
  BY DEF Counts
<1>2. IsFiniteSet(InCheckpoint(cs, c)) /\ n \in InCheckpoint(cs, c)
  BY FS_Subset DEF InCheckpoint
<1>3. InCheckpoint(ds, c) = InCheckpoint(cs, c) \ {n}
  BY DEF InCheckpoint
<1>4. /\ list[c].refs = Cardinality(InCheckpoint(cs, c))
      /\ Cardinality(InCheckpoint(ds, c)) = Cardinality(InCheckpoint(cs, c)) - 1
  <2>1. list[c].refs = Cardinality(InCheckpoint(cs, c))
    BY <1>1 DEF Counts
  <2>2. Cardinality(InCheckpoint(cs, c) \ {n}) = Cardinality(InCheckpoint(cs, c)) - 1
    <3> DEFINE S == InCheckpoint(cs, c)
    <3> HIDE DEF S
    <3>1. IsFiniteSet(S) /\ n \in S
      BY <1>2 DEF S
    <3>2. Cardinality(S \ {n}) = Cardinality(S) - 1
      BY <3>1, FS_RemoveElement
    <3> QED  BY <3>2 DEF S
  <2> QED  BY <1>3, <2>1, <2>2
<1>5. list[c].refs > 0
  BY <1>1, <1>2, <1>4, FS_EmptySet, FS_CardinalityType
<1>6. \A d \in DOMAIN list \ {c} : InCheckpoint(ds, d) = InCheckpoint(cs, d)
  BY DEF InCheckpoint
<1>7. /\ q \in [DOMAIN list -> Checkpoint] /\ q[c].refs = list[c].refs - 1
      /\ \A d \in DOMAIN list \ {c} : q[d] = list[d]
  BY <1>1, <1>5, Counters
<1> HIDE DEF q, c
<1>8. \A d \in DOMAIN list : q[d].refs = Cardinality(InCheckpoint(ds, d))
  BY <1>4, <1>6, <1>7 DEF Counts
<1> QED  BY <1>7, <1>8 DEF Counts, q, c

(* Adding a cursor and incrementing its checkpoint's counter. *)
LEMMA CountsAdd ==
    ASSUME NEW list, NEW cs, NEW ds, Counts(list, cs), IsFiniteSet(DOMAIN cs),
           NEW n, n \notin DOMAIN cs, NEW c \in DOMAIN list, ds[n].ckpt = c,
           DOMAIN ds = DOMAIN cs \cup {n}, \A x \in DOMAIN cs : ds[x] = cs[x]
    PROVE  Counts(IncrReferenceCounter(list, c), ds)
<1> DEFINE q == IncrReferenceCounter(list, c)
<1>1. list \in [DOMAIN list -> Checkpoint]
  BY DEF Counts
<1>2. IsFiniteSet(InCheckpoint(cs, c)) /\ n \notin InCheckpoint(cs, c)
  BY FS_Subset DEF InCheckpoint
<1>3. InCheckpoint(ds, c) = InCheckpoint(cs, c) \cup {n}
  BY DEF InCheckpoint
<1>4. /\ list[c].refs = Cardinality(InCheckpoint(cs, c))
      /\ Cardinality(InCheckpoint(ds, c)) = Cardinality(InCheckpoint(cs, c)) + 1
  <2>1. list[c].refs = Cardinality(InCheckpoint(cs, c))
    BY DEF Counts
  <2>2. Cardinality(InCheckpoint(cs, c) \cup {n}) = Cardinality(InCheckpoint(cs, c)) + 1
    <3> DEFINE S == InCheckpoint(cs, c)
    <3> HIDE DEF S
    <3>1. IsFiniteSet(S) /\ n \notin S
      BY <1>2 DEF S
    <3>2. Cardinality(S \cup {n}) = Cardinality(S) + 1
      BY <3>1, FS_AddElement
    <3> QED  BY <3>2 DEF S
  <2> QED  BY <1>3, <2>1, <2>2
<1>5. \A d \in DOMAIN list \ {c} : InCheckpoint(ds, d) = InCheckpoint(cs, d)
  BY DEF InCheckpoint
<1>6. /\ q \in [DOMAIN list -> Checkpoint] /\ q[c].refs = list[c].refs + 1
      /\ \A d \in DOMAIN list \ {c} : q[d] = list[d]
  BY <1>1, Counters
<1> HIDE DEF q
<1>7. \A d \in DOMAIN list : q[d].refs = Cardinality(InCheckpoint(ds, d))
  BY <1>4, <1>5, <1>6 DEF Counts
<1> QED  BY <1>6, <1>7 DEF Counts, q

(* A manager with the items of a good one, and with cursors in place and counted, is good. *)
LEMMA CountedGood ==
    ASSUME NEW m, NEW q, Good(m), DOMAIN q = Fields, q.items = m.items,
           q.mutationCounter = m.mutationCounter, q.numItems \in Int,
           SameStates(m.list, q.list), Counts(q.list, q.cursors),
           q.cursors \in [DOMAIN q.cursors -> Cursor],
           Persistence \in DOMAIN q.cursors, DOMAIN q.cursors \subseteq Names,
           \A n \in DOMAIN q.cursors : /\ q.cursors[n].ckpt \in DOMAIN m.list
                                       /\ q.cursors[n].pos \in ToWrite(m, q.cursors[n].ckpt)
    PROVE  Good(q)
<1>0. DOMAIN q.list = DOMAIN m.list
  BY DEF SameStates
<1>1. IsManager(q)
  BY DEF Good, Lists, IsManager, Counts
<1>2. ItemsInOrder(q) /\ DummiesFirst(q) /\ UniqueKeys(q) /\ KeysOfMutations(q)
  BY <1>0 DEF Good, Lists, ItemsInOrder, DummiesFirst, UniqueKeys, KeysOfMutations
<1>2a. ClosedBefore(q)
  BY DEF Good, Lists, ClosedBefore, SameStates
<1>3. CursorsInList(q) /\ DOMAIN q.list # {}
  BY <1>0 DEF Good, CursorsInList, ToWrite
<1>4. RefsExact(q)
  BY DEF Counts, RefsExact, InCheckpoint, CursorsIn
<1> QED  BY <1>1, <1>2, <1>2a, <1>3, <1>4 DEF Good, Lists

(* What holds of the parts of a good manager. *)
LEMMA GoodParts ==
    ASSUME NEW m, Good(m)
    PROVE  /\ DOMAIN m = Fields /\ Lists(m) /\ m.numItems \in Int
           /\ Counts(m.list, m.cursors) /\ IsFiniteSet(DOMAIN m.cursors)
           /\ m.cursors \in [DOMAIN m.cursors -> Cursor]
           /\ Persistence \in DOMAIN m.cursors /\ DOMAIN m.cursors \subseteq Names
           /\ \A n \in DOMAIN m.cursors : /\ m.cursors[n].ckpt \in DOMAIN m.list
                                          /\ m.cursors[n].pos \in ToWrite(m, m.cursors[n].ckpt)
<1>1. Counts(m.list, m.cursors)
  BY DEF Good, Lists, IsManager, RefsExact, CursorsIn, Counts, InCheckpoint
<1>2. IsFiniteSet(DOMAIN m.cursors)
  BY FiniteCursors DEF Good, Lists, IsManager
<1> QED  BY <1>1, <1>2 DEF Good, Lists, IsManager, CursorsInList

(* A cursor leaves checkpoint c and enters checkpoint d. *)
LEMMA MoveGood ==
    ASSUME NEW m, NEW q, Good(m), NEW n \in DOMAIN m.cursors, NEW d \in DOMAIN m.list,
           NEW k \in Cursor, k.ckpt = d, k.pos \in ToWrite(m, d),
           DOMAIN q = Fields, q.items = m.items, q.mutationCounter = m.mutationCounter,
           q.numItems \in Int,
           q.list = IncrReferenceCounter(DecrReferenceCounter(m.list, m.cursors[n].ckpt), d),
           q.cursors = [m.cursors EXCEPT ![n] = k]
    PROVE  Good(q)
<1> DEFINE c == m.cursors[n].ckpt
           ds == [x \in DOMAIN m.cursors \ {n} |-> m.cursors[x]]
           l == DecrReferenceCounter(m.list, c)
<1>1. /\ Counts(m.list, m.cursors) /\ IsFiniteSet(DOMAIN m.cursors)
      /\ m.cursors \in [DOMAIN m.cursors -> Cursor] /\ c \in DOMAIN m.list
  BY GoodParts
<1>2. Counts(l, ds)
  BY <1>1, CountsRemove
<1>3. DOMAIN l = DOMAIN m.list
  BY DEF DecrReferenceCounter
<1>4. IsFiniteSet(DOMAIN ds)
  BY <1>1, FS_Subset
<1>5. /\ DOMAIN q.cursors = DOMAIN ds \cup {n} /\ n \notin DOMAIN ds
      /\ q.cursors[n] = k /\ \A x \in DOMAIN ds : q.cursors[x] = ds[x]
  OBVIOUS
<1> HIDE DEF l, ds
<1>6. Counts(IncrReferenceCounter(l, d), q.cursors)
  BY <1>2, <1>3, <1>4, <1>5, CountsAdd
<1>7. Counts(q.list, q.cursors)
  BY <1>6 DEF l
<1>8. SameStates(m.list, q.list)
  <2>1. SameStates(m.list, l) /\ l \in [DOMAIN l -> Checkpoint]
    BY <1>1, <1>3, Counters DEF Counts, l
  <2>2. SameStates(l, q.list)
    BY <1>3, <2>1, Counters DEF l
  <2> QED  BY <2>1, <2>2 DEF SameStates
<1>9. q.cursors \in [DOMAIN m.cursors -> Cursor]
  BY <1>1
<1>10. \A x \in DOMAIN q.cursors : /\ q.cursors[x].ckpt \in DOMAIN m.list
                                   /\ q.cursors[x].pos \in ToWrite(m, q.cursors[x].ckpt)
  BY GoodParts
<1> QED  BY <1>7, <1>8, <1>9, <1>10, GoodParts, CountedGood

(* A cursor changes its position inside its checkpoint. *)
LEMMA StayGood ==
    ASSUME NEW m, NEW q, Good(m), NEW n \in DOMAIN m.cursors, NEW k \in Cursor,
           k.ckpt = m.cursors[n].ckpt, k.pos \in ToWrite(m, m.cursors[n].ckpt),
           DOMAIN q = Fields, q.items = m.items, q.mutationCounter = m.mutationCounter,
           q.numItems \in Int, q.list = m.list, q.cursors = [m.cursors EXCEPT ![n] = k]
    PROVE  Good(q)
<1>1. \A c : InCheckpoint(q.cursors, c) = InCheckpoint(m.cursors, c)
  BY DEF InCheckpoint
<1>2. Counts(q.list, q.cursors)
  BY <1>1, GoodParts DEF Counts
<1>3. q.cursors \in [DOMAIN m.cursors -> Cursor]
  BY GoodParts
<1>4. \A x \in DOMAIN q.cursors : /\ q.cursors[x].ckpt \in DOMAIN m.list
                                  /\ q.cursors[x].pos \in ToWrite(m, q.cursors[x].ckpt)
  BY GoodParts
<1>5. SameStates(m.list, q.list)
  BY DEF SameStates
<1> QED  BY <1>2, <1>3, <1>4, <1>5, GoodParts, CountedGood

(* moveCursorToNextCheckpoint. *)
LEMMA MoveToNextGood ==
    ASSUME NEW m, Good(m), NEW n \in DOMAIN m.cursors, CanMove(m, n)
    PROVE  /\ Good(MoveCursorToNextCheckpoint(m, n))
           /\ DOMAIN MoveCursorToNextCheckpoint(m, n).cursors = DOMAIN m.cursors
<1> DEFINE c == m.cursors[n].ckpt
           d == NextCheckpoint(m, c)
           S == {x \in DOMAIN m.list : x > c}
           q == MoveCursorToNextCheckpoint(m, n)
           k == [m.cursors[n] EXCEPT !.ckpt = d, !.pos = d]
<1>1. S # {} /\ S \in SUBSET Nat
  BY GoodParts, Positions DEF CanMove
<1>2. d \in DOMAIN m.list
  BY <1>1, MinNat DEF NextCheckpoint
<1> HIDE DEF d
<1>3. d \in Nat /\ d \in ToWrite(m, d)
  BY <1>2, GoodParts, Positions
<1>4. m.cursors[n] \in Cursor /\ DOMAIN m = Fields /\ m.numItems \in Int
  BY GoodParts
<1>5. k \in Cursor
  BY <1>3, <1>4 DEF Cursor
<1>6. k.ckpt = d /\ k.pos = d
  BY <1>4 DEF Cursor
<1>7. /\ DOMAIN q = Fields /\ q.items = m.items /\ q.mutationCounter = m.mutationCounter
      /\ q.numItems = m.numItems
      /\ q.list = IncrReferenceCounter(DecrReferenceCounter(m.list, c), d)
      /\ q.cursors = [m.cursors EXCEPT ![n].ckpt = d, ![n].pos = d]
  BY <1>4 DEF MoveCursorToNextCheckpoint, Fields, d
<1>8. q.cursors = [m.cursors EXCEPT ![n] = k]
  BY <1>7
<1> HIDE DEF k, q
<1>9. Good(q)
  BY <1>2, <1>3, <1>4, <1>5, <1>6, <1>7, <1>8, MoveGood
<1>10. DOMAIN q.cursors = DOMAIN m.cursors
  BY <1>8
<1> QED  BY <1>9, <1>10 DEF q

(* ++currentPos. *)
LEMMA AdvanceGood ==
    ASSUME NEW m, Good(m), NEW n \in DOMAIN m.cursors
    PROVE  Good(Advance(m, n))
<1> DEFINE cur == m.cursors[n]
           S == After(m, cur.ckpt, cur.pos)
           q == Advance(m, n)
           o == cur.offset + 1
           k == [cur EXCEPT !.pos = Min(S), !.offset = o]
<1>1. CASE AtEnd(m, n)
  BY <1>1 DEF Advance
<1>2. CASE ~AtEnd(m, n)
  <2>1. cur \in Cursor /\ cur.ckpt \in DOMAIN m.list /\ DOMAIN m = Fields /\ m.numItems \in Int
    BY GoodParts
  <2>2. S # {}
    BY <1>2 DEF AtEnd
  <2>3. S \subseteq ToWrite(m, cur.ckpt)
    BY DEF After
  <2>4. S \in SUBSET Nat
    BY <2>1, <2>3, GoodParts, Positions
  <2>5. Min(S) \in S
    BY <2>2, <2>4, MinNat
  <2>6. Min(S) \in Nat /\ Min(S) \in ToWrite(m, cur.ckpt)
    BY <2>3, <2>4, <2>5
  <2>7. /\ DOMAIN q = Fields /\ q.items = m.items /\ q.mutationCounter = m.mutationCounter
        /\ q.numItems = m.numItems /\ q.list = m.list
        /\ q.cursors = [m.cursors EXCEPT ![n].pos = Min(S), ![n].offset = @ + 1]
    BY <1>2, <2>1 DEF Advance, Fields
  <2> HIDE DEF S
  <2>8. q.cursors = [m.cursors EXCEPT ![n] = k]
    BY <2>7
  <2>9. k \in Cursor
    <3>1. o \in Int
      BY <2>1 DEF Cursor
    <3> HIDE DEF o
    <3> QED  BY <2>1, <2>6, <3>1 DEF Cursor
  <2>10. k.ckpt = cur.ckpt /\ k.pos = Min(S)
    BY <2>1 DEF Cursor
  <2> HIDE DEF k, q
  <2>11. Good(q)
    BY <2>1, <2>6, <2>7, <2>8, <2>9, <2>10, StayGood
  <2> QED  BY <2>11 DEF q
<1> QED  BY <1>1, <1>2

(* nextItem. *)
LEMMA NextItemGood ==
    ASSUME NEW m, Good(m), NEW n \in DOMAIN m.cursors
    PROVE  Good(NextItem(m, n))
<1> DEFINE p == IF AtEnd(m, n) /\ CanMove(m, n) THEN MoveCursorToNextCheckpoint(m, n) ELSE m
<1>1. Good(p) /\ n \in DOMAIN p.cursors
  BY MoveToNextGood
<1>2. Good(Advance(p, n))
  BY <1>1, AdvanceGood
<1>3. NextItem(m, n) \in {m, p, Advance(p, n)}
  BY DEF NextItem
<1> QED  BY <1>1, <1>2, <1>3

(* getAllItemsFromCurrentPosition. *)
LEMMA GetAllGood ==
    ASSUME NEW m, Good(m), NEW n \in DOMAIN m.cursors
    PROVE  Good(GetAllItems(m, n))
<1> DEFINE c == m.cursors[n].ckpt
           d == LastReached(m, n)
           S == {x \in DOMAIN m.list : x >= c /\ (m.list[x].state = "opened" \/ x = Back(m))}
           e == Max(ToWrite(m, d))
           k == [m.cursors[n] EXCEPT !.ckpt = d, !.pos = e, !.offset = m.numItems]
           q == GetAllItems(m, n)
<1>1. /\ m.cursors[n] \in Cursor /\ c \in DOMAIN m.list /\ DOMAIN m = Fields
      /\ m.numItems \in Int /\ m.list \in [DOMAIN m.list -> Checkpoint] /\ Lists(m)
  BY GoodParts DEF Counts
<1>2. Back(m) \in DOMAIN m.list /\ Back(m) >= c
  BY <1>1, BackIn, Positions
<1>3. S # {} /\ S \in SUBSET Nat
  <2>1. Back(m) \in S
    BY <1>2
  <2>2. \A x \in DOMAIN m.list : x \in Nat
    BY <1>1, Positions
  <2> QED  BY <2>1, <2>2
<1>4. d \in S
  BY <1>3, MinNat DEF LastReached
<1>5. d \in DOMAIN m.list /\ d \in Nat
  BY <1>3, <1>4
<1> HIDE DEF d, S
<1>6. e \in ToWrite(m, d) /\ e \in Nat
  <2>1. /\ m.mutationCounter \in Nat /\ ToWrite(m, d) \in SUBSET (1 .. m.mutationCounter)
        /\ d \in ToWrite(m, d)
    BY <1>1, <1>5, Positions
  <2>2. ToWrite(m, d) \in SUBSET (0 .. m.mutationCounter) /\ ToWrite(m, d) # {}
    BY <2>1
  <2>3. e \in ToWrite(m, d)
    BY <2>1, <2>2, MaxNat
  <2> QED  BY <2>1, <2>3
<1> HIDE DEF e
<1>7. /\ DOMAIN q = Fields /\ q.items = m.items /\ q.mutationCounter = m.mutationCounter
      /\ q.numItems = m.numItems
      /\ q.list = IF c = d THEN m.list
                  ELSE IncrReferenceCounter(DecrReferenceCounter(m.list, c), d)
      /\ q.cursors = [m.cursors EXCEPT ![n].ckpt = d, ![n].pos = e, ![n].offset = m.numItems]
  BY <1>1 DEF GetAllItems, Fields, d, e
<1>8. q.cursors = [m.cursors EXCEPT ![n] = k]
  BY <1>7
<1>9. k \in Cursor
  BY <1>1, <1>5, <1>6 DEF Cursor
<1>10. k.ckpt = d /\ k.pos = e
  BY <1>1 DEF Cursor
<1> HIDE DEF k, q
<1>11. CASE c = d
  <2>1. q.list = m.list
    BY <1>7, <1>11
  <2>2. Good(q)
    BY <1>1, <1>6, <1>7, <1>8, <1>9, <1>10, <1>11, <2>1, StayGood
  <2> QED  BY <2>2 DEF q
<1>12. CASE c # d
  <2>1. q.list = IncrReferenceCounter(DecrReferenceCounter(m.list, c), d)
    BY <1>7, <1>12
  <2>2. Good(q)
    BY <1>1, <1>5, <1>6, <1>7, <1>8, <1>9, <1>10, <2>1, MoveGood
  <2> QED  BY <2>2 DEF q
<1> QED  BY <1>11, <1>12

(* decrTapCursorFromCheckpointEnd: a checkpoint_end item is never the dummy. *)
LEMMA DecrTapGood ==
    ASSUME NEW m, Good(m), NEW n \in DOMAIN m.cursors
    PROVE  Good(DecrTapCursorFromCheckpointEnd(m, n))
<1> DEFINE cur == m.cursors[n]
           p == Prev(m, cur.ckpt, cur.pos)
           q == DecrTapCursorFromCheckpointEnd(m, n)
           o == cur.offset - 1
           k == [cur EXCEPT !.offset = o, !.pos = p]
<1>1. CASE m.items[cur.pos].op # "checkpoint_end"
  BY <1>1 DEF DecrTapCursorFromCheckpointEnd
<1>2. CASE m.items[cur.pos].op = "checkpoint_end"
  <2>1. /\ cur \in Cursor /\ cur.ckpt \in DOMAIN m.list /\ DOMAIN m = Fields
        /\ m.numItems \in Int /\ Lists(m) /\ cur.pos \in ToWrite(m, cur.ckpt)
    BY GoodParts
  <2>2. cur.pos # cur.ckpt
    <3>1. m.items[cur.ckpt] = [ckpt |-> cur.ckpt, op |-> "empty", key |-> NoKey]
      BY <2>1 DEF Lists, DummiesFirst
    <3>2. m.items[cur.ckpt].op = "empty"
      BY <3>1
    <3> QED  BY <1>2, <3>2
  <2>3. p \in ToWrite(m, cur.ckpt)
    BY <2>1, <2>2, PrevIn
  <2>4. p \in Nat
    BY <2>1, <2>3, Positions
  <2> HIDE DEF p
  <2>5. /\ DOMAIN q = Fields /\ q.items = m.items /\ q.mutationCounter = m.mutationCounter
        /\ q.numItems = m.numItems /\ q.list = m.list
        /\ q.cursors = [m.cursors EXCEPT ![n].offset = @ - 1, ![n].pos = p]
    BY <1>2, <2>1 DEF DecrTapCursorFromCheckpointEnd, Fields, p
  <2>6. q.cursors = [m.cursors EXCEPT ![n] = k]
    BY <2>5
  <2>7. k \in Cursor
    <3>1. o \in Int
      BY <2>1 DEF Cursor
    <3> HIDE DEF o
    <3> QED  BY <2>1, <2>4, <3>1 DEF Cursor
  <2>8. k.ckpt = cur.ckpt /\ k.pos = p
    BY <2>1 DEF Cursor
  <2> HIDE DEF k, q
  <2>9. Good(q)
    BY <2>1, <2>3, <2>5, <2>6, <2>7, <2>8, StayGood
  <2> QED  BY <2>9 DEF q
<1> QED  BY <1>1, <1>2
(* A sum over finitely many checkpoints is a natural number. *)
LEMMA SumNat ==
    ASSUME NEW S, IsFiniteSet(S), NEW f, \A c \in S : f[c] \in Int
    PROVE  SumOver(f, S) \in Nat
<1> DEFINE Part(c) == {c} \X (1 .. f[c])
           T == {Part(c) : c \in S}
           g == [c \in S |-> Part(c)]
<1>1. g \in Surjection(S, T)
  BY DEF Surjection
<1>2. IsFiniteSet(T)
  BY <1>1, FS_Surjection
<1>3. \A P \in T : IsFiniteSet(P)
  <2>1. ASSUME NEW c \in S
        PROVE  IsFiniteSet({c} \X (1 .. f[c]))
    <3>1. IsFiniteSet({c})
      BY FS_Singleton
    <3>2. f[c] \in Int /\ 1 \in Int
      OBVIOUS
    <3>3. IsFiniteSet(1 .. f[c])
      BY <3>2, FS_Interval
    <3> QED  BY <3>1, <3>3, FS_Product
  <2> QED  BY <2>1
<1>4. IsFiniteSet(UNION T)
  BY <1>2, <1>3, FS_UNION
<1>5. Cardinality(UNION T) \in Nat
  BY <1>4, FS_CardinalityType
<1> QED  BY <1>5 DEF SumOver

(* The checkpoints of a manager are finitely many. *)
LEMMA FiniteCheckpoints ==
    ASSUME NEW m, Lists(m), NEW S \in SUBSET DOMAIN m.list
    PROVE  IsFiniteSet(S)
<1>1. m.mutationCounter \in Nat
  BY DEF Lists, IsManager
<1>2. \A c \in S : c \in Nat /\ c <= m.mutationCounter
  BY Positions
<1> QED  BY <1>1, <1>2, FS_BoundedSetOfNaturals

(* removeTAPCursor. *)
LEMMA RemoveTAPGood ==
    ASSUME NEW m, Good(m), NEW n \in DOMAIN m.cursors, n # Persistence
    PROVE  Good(RemoveTAPCursor(m, n))
<1> DEFINE q == RemoveTAPCursor(m, n)
<1>1. /\ DOMAIN m = Fields /\ m.numItems \in Int /\ m.cursors[n].ckpt \in DOMAIN m.list
      /\ Counts(m.list, m.cursors) /\ IsFiniteSet(DOMAIN m.cursors)
  BY GoodParts
<1>2. /\ DOMAIN q = Fields /\ q.items = m.items /\ q.mutationCounter = m.mutationCounter
      /\ q.numItems = m.numItems
      /\ q.list = DecrReferenceCounter(m.list, m.cursors[n].ckpt)
      /\ q.cursors = [x \in DOMAIN m.cursors \ {n} |-> m.cursors[x]]
  BY <1>1 DEF RemoveTAPCursor, Restrict, Fields
<1> HIDE DEF q
<1>3. DOMAIN q.cursors = DOMAIN m.cursors \ {n} /\ \A x \in DOMAIN q.cursors : q.cursors[x] = m.cursors[x]
  BY <1>2
<1>4. Counts(q.list, q.cursors)
  BY <1>1, <1>2, <1>3, CountsRemove
<1>5. SameStates(m.list, q.list)
  BY <1>1, <1>2, Counters DEF Counts
<1>6. q.cursors \in [DOMAIN q.cursors -> Cursor] /\ Persistence \in DOMAIN q.cursors
      /\ DOMAIN q.cursors \subseteq Names
  BY <1>2, GoodParts
<1>7. \A x \in DOMAIN q.cursors : /\ q.cursors[x].ckpt \in DOMAIN m.list
                                  /\ q.cursors[x].pos \in ToWrite(m, q.cursors[x].ckpt)
  BY <1>3, GoodParts
<1> QED  BY <1>1, <1>2, <1>4, <1>5, <1>6, <1>7, CountedGood DEF q

(* registerTAPCursor, unless it takes the position of a second checkpoint of that id. *)
LEMMA RegisterGood ==
    ASSUME NEW m, Good(m), NEW n \in Names, NEW id, NEW closedOnly \in BOOLEAN,
           NEW fromBeginning,
           KeepsPosition(m, n, id, fromBeginning) => m.cursors[n].ckpt = Min(WithId(m, id))
    PROVE  Good(RegisterTAPCursor(m, n, id, closedOnly, fromBeginning))
<1> DEFINE c == IF WithId(m, id) = {} THEN Back(m) ELSE Min(WithId(m, id))
           keep == KeepsPosition(m, n, id, fromBeginning)
           pos == IF keep THEN m.cursors[n].pos ELSE c
           off == IF keep THEN m.cursors[n].offset ELSE StartOffset(m, id, c)
           k == [ckpt |-> c, pos |-> pos, offset |-> off, closedOnly |-> closedOnly]
           l == IF n \in DOMAIN m.cursors
                THEN DecrReferenceCounter(m.list, m.cursors[n].ckpt) ELSE m.list
           q == RegisterTAPCursor(m, n, id, closedOnly, fromBeginning)
           ds == [x \in DOMAIN m.cursors \ {n} |-> m.cursors[x]]
<1>1. /\ DOMAIN m = Fields /\ m.numItems \in Int /\ Lists(m)
      /\ Counts(m.list, m.cursors) /\ IsFiniteSet(DOMAIN m.cursors)
      /\ m.list \in [DOMAIN m.list -> Checkpoint]
      /\ m.cursors \in [DOMAIN m.cursors -> Cursor]
  BY GoodParts DEF Counts
<1>2. c \in DOMAIN m.list /\ c \in Nat /\ c \in ToWrite(m, c)
  <2>1. Back(m) \in DOMAIN m.list
    BY <1>1, BackIn DEF Good
  <2>2. WithId(m, id) # {} => Min(WithId(m, id)) \in DOMAIN m.list
    <3>1. WithId(m, id) \in SUBSET Nat /\ WithId(m, id) \subseteq DOMAIN m.list
      BY <1>1, Positions DEF WithId
    <3> QED  BY <3>1, MinNat
  <2>3. c \in DOMAIN m.list
    BY <2>1, <2>2
  <2> QED  BY <1>1, <2>3, Positions
<1>3. StartOffset(m, id, c) \in Int
  <2> DEFINE f == [d \in DOMAIN m.list |-> m.list[d].numItems + 2]
             S == {d \in DOMAIN m.list : d < c}
  <2> HIDE DEF c
  <2>1. m.numItems - (m.list[c].numItems + 1) \in Int
    BY <1>1, <1>2 DEF Checkpoint
  <2>2. IsFiniteSet(S) /\ \A d \in S : f[d] \in Int
    BY <1>1, FiniteCheckpoints DEF Checkpoint
  <2>3. SumOver(f, S) \in Nat
    BY <2>2, SumNat
  <2> QED  BY <2>1, <2>3 DEF StartOffset
<1>4. pos \in ToWrite(m, c) /\ pos \in Nat /\ off \in Int
  <2>1. CASE keep
    <3>1. n \in DOMAIN m.cursors /\ m.cursors[n].ckpt = c
      BY <2>1 DEF KeepsPosition
    <3>2. m.cursors[n] \in Cursor /\ m.cursors[n].pos \in ToWrite(m, c)
      BY <3>1, GoodParts
    <3>3. m.cursors[n].pos \in Nat /\ m.cursors[n].offset \in Int
      BY <3>2 DEF Cursor
    <3> QED  BY <2>1, <3>2, <3>3
  <2>2. CASE ~keep
    BY <1>2, <1>3, <2>2
  <2> QED  BY <2>1, <2>2
<1> HIDE DEF pos, off, keep
<1>5. /\ DOMAIN q = Fields /\ q.items = m.items /\ q.mutationCounter = m.mutationCounter
      /\ q.numItems = m.numItems /\ q.list = IncrReferenceCounter(l, c)
      /\ q.cursors = [x \in DOMAIN m.cursors \cup {n} |-> IF x = n THEN k ELSE m.cursors[x]]
  BY <1>1 DEF RegisterTAPCursor, Fields, pos, off, keep
<1> HIDE DEF c
<1>6. k \in Cursor /\ k.ckpt = c /\ k.pos = pos
  BY <1>2, <1>4 DEF Cursor
<1> HIDE DEF k, q
<1>7. Counts(l, ds) /\ SameStates(m.list, l)
  <2>1. CASE n \in DOMAIN m.cursors
    <3>1. l = DecrReferenceCounter(m.list, m.cursors[n].ckpt) /\ m.cursors[n].ckpt \in DOMAIN m.list
      BY <2>1, GoodParts
    <3>2. Counts(DecrReferenceCounter(m.list, m.cursors[n].ckpt), ds)
      BY <1>1, <2>1, <3>1, CountsRemove
    <3> QED  BY <1>1, <3>1, <3>2, Counters
  <2>2. CASE n \notin DOMAIN m.cursors
    <3>1. \A d : InCheckpoint(ds, d) = InCheckpoint(m.cursors, d)
      BY <2>2 DEF InCheckpoint
    <3> QED  BY <1>1, <2>2, <3>1 DEF Counts, SameStates
  <2> QED  BY <2>1, <2>2
<1>8. /\ DOMAIN ds = DOMAIN m.cursors \ {n} /\ IsFiniteSet(DOMAIN ds)
      /\ \A x \in DOMAIN ds : ds[x] = m.cursors[x]
  BY <1>1, FS_Subset
<1> HIDE DEF l, ds
<1>9. /\ DOMAIN q.cursors = DOMAIN ds \cup {n} /\ n \notin DOMAIN ds
      /\ q.cursors[n] = k /\ \A x \in DOMAIN ds : q.cursors[x] = ds[x]
  BY <1>5, <1>8
<1>10. Counts(q.list, q.cursors)
  <2>1. c \in DOMAIN l /\ q.cursors[n].ckpt = c
    BY <1>2, <1>6, <1>7, <1>9 DEF SameStates
  <2>2. \A x \in DOMAIN ds : q.cursors[x] = ds[x]
    BY <1>9
  <2>3. Counts(IncrReferenceCounter(l, c), q.cursors)
    BY <1>7, <1>8, <1>9, <2>1, <2>2, CountsAdd
  <2> QED  BY <1>5, <2>3
<1>11. SameStates(m.list, q.list)
  <2>1. SameStates(l, q.list)
    BY <1>2, <1>5, <1>7, Counters DEF Counts, SameStates
  <2> QED  BY <1>7, <2>1 DEF SameStates
<1>12. /\ q.cursors \in [DOMAIN q.cursors -> Cursor]
       /\ Persistence \in DOMAIN q.cursors /\ DOMAIN q.cursors \subseteq Names
  BY <1>1, <1>5, <1>6, GoodParts
<1>13. \A x \in DOMAIN q.cursors : /\ q.cursors[x].ckpt \in DOMAIN m.list
                                   /\ q.cursors[x].pos \in ToWrite(m, q.cursors[x].ckpt)
  BY <1>2, <1>4, <1>5, <1>6, GoodParts
<1> QED  BY <1>1, <1>5, <1>10, <1>11, <1>12, <1>13, CountedGood DEF q
-----------------------------------------------------------------------------
(* Queueing a mutation *)

(* A cursor that is shifted stays in its checkpoint, on an item that is not erased. *)
LEMMA ShiftGood ==
    ASSUME NEW m, Good(m), NEW n \in DOMAIN m.cursors, NEW key \in Keys
    PROVE  LET old == Index(m, Back(m), key)
               k   == ShiftCursor(m, n, old)
           IN  /\ k \in Cursor
               /\ k.ckpt = m.cursors[n].ckpt
               /\ k.pos \in ToWrite(m, k.ckpt) /\ k.pos \notin old
<1> DEFINE c == Back(m)
           old == Index(m, c, key)
           cur == m.cursors[n]
           onKey == m.items[cur.pos].key # NoKey
           off == IF onKey /\ \E i \in old : i <= cur.pos
                  THEN DecrOffset(n, cur.offset, 1) ELSE cur.offset
           pos == IF cur.pos \in old THEN Prev(m, cur.ckpt, cur.pos) ELSE cur.pos
           k == ShiftCursor(m, n, old)
<1>1. /\ cur \in Cursor /\ cur.ckpt \in DOMAIN m.list /\ cur.pos \in ToWrite(m, cur.ckpt)
      /\ Lists(m)
  BY GoodParts
<1>2. CASE cur.ckpt # c
  <2>1. k = cur
    BY <1>2 DEF ShiftCursor
  <2>2. cur.pos \notin old
    BY <1>1, <1>2 DEF Index, ToWrite
  <2> QED  BY <1>1, <2>1, <2>2
<1>3. CASE cur.ckpt = c
  <2>1. k = [cur EXCEPT !.offset = off, !.pos = pos]
    BY <1>3 DEF ShiftCursor
  <2>2. off \in Int
    <3>1. cur.offset \in Int
      BY <1>1 DEF Cursor
    <3> QED  BY <3>1 DEF DecrOffset
  <2>3. pos \in ToWrite(m, c) /\ pos \notin old
    <3>1. CASE cur.pos \in old
      <4>1. m.items[c] = [ckpt |-> c, op |-> "empty", key |-> NoKey]
        BY <1>1, <1>3 DEF Lists, DummiesFirst
      <4>2. m.items[c].key = NoKey /\ m.items[cur.pos].key = key
        BY <3>1, <4>1 DEF Index
      <4>3. cur.pos # c
        BY <4>2, KeyAssumption
      <4>4. pos \in ToWrite(m, c) /\ pos < cur.pos
        BY <1>1, <1>3, <3>1, <4>3, PrevIn
      <4>5. \A i \in old : i = cur.pos
        BY <1>1, <3>1, KeyAssumption DEF Lists, UniqueKeys, Index, ToWrite
      <4>6. cur.pos \in Nat
        BY <1>1 DEF Cursor
      <4> QED  BY <4>4, <4>5, <4>6
    <3>2. CASE cur.pos \notin old
      BY <1>1, <1>3, <3>2
    <3> QED  BY <3>1, <3>2
  <2>4. pos \in Nat
    BY <1>1, <1>3, <2>3, Positions
  <2> HIDE DEF off, pos, k, old
  <2>5. k \in Cursor
    BY <1>1, <2>1, <2>2, <2>4 DEF Cursor
  <2>6. k.ckpt = cur.ckpt /\ k.pos = pos
    BY <1>1, <2>1 DEF Cursor
  <2> QED  BY <1>3, <2>3, <2>5, <2>6 DEF k, old
<1> QED  BY <1>2, <1>3

(* Erasing the item of a key, when the cursors on it are shifted. *)
LEMMA EraseGood ==
    ASSUME NEW m, Good(m), NEW key \in Keys
    PROVE  LET old == Index(m, Back(m), key)
               q   == [m EXCEPT !.items = Restrict(@, DOMAIN @ \ old),
                                !.cursors = [n \in DOMAIN @ |-> ShiftCursor(m, n, old)]]
           IN  Good(q) /\ q.list = m.list /\ Index(q, Back(m), key) = {}
<1> DEFINE c == Back(m)
           old == Index(m, c, key)
           cs == [n \in DOMAIN m.cursors |-> ShiftCursor(m, n, old)]
           q == [m EXCEPT !.items = Restrict(@, DOMAIN @ \ old),
                          !.cursors = [n \in DOMAIN @ |-> ShiftCursor(m, n, old)]]
<1>1. \A n \in DOMAIN m.cursors :
        /\ cs[n] \in Cursor /\ cs[n].ckpt = m.cursors[n].ckpt
        /\ cs[n].pos \in ToWrite(m, cs[n].ckpt) /\ cs[n].pos \notin old
  BY ShiftGood
<1>2. /\ DOMAIN m = Fields /\ Lists(m) /\ m.numItems \in Int /\ RefsExact(m)
      /\ Persistence \in DOMAIN m.cursors /\ DOMAIN m.cursors \subseteq Names
      /\ \A n \in DOMAIN m.cursors : m.cursors[n].ckpt \in DOMAIN m.list
  BY GoodParts DEF Good
<1>3. \A i \in old : m.items[i].key = key
  BY DEF Index
<1> HIDE DEF old
<1>4. /\ DOMAIN q = Fields /\ q.mutationCounter = m.mutationCounter
      /\ q.numItems = m.numItems /\ q.list = m.list /\ q.cursors = cs
      /\ q.items = [i \in DOMAIN m.items \ old |-> m.items[i]]
  BY <1>2 DEF Fields, Restrict
<1>5. DOMAIN cs = DOMAIN m.cursors /\ cs \in [DOMAIN m.cursors -> Cursor]
  BY <1>1
<1> HIDE DEF q, cs
<1>6. IsManager(q)
  BY <1>2, <1>4, <1>5 DEF Lists, IsManager
<1>7. ItemsInOrder(q) /\ UniqueKeys(q) /\ KeysOfMutations(q) /\ ClosedBefore(q)
  BY <1>2, <1>4 DEF Lists, ItemsInOrder, UniqueKeys, KeysOfMutations, ClosedBefore
<1>8. DummiesFirst(q)
  <2>1. ASSUME NEW d \in DOMAIN m.list
        PROVE  d \notin old
    <3>1. m.items[d] = [ckpt |-> d, op |-> "empty", key |-> NoKey]
      BY <1>2 DEF Lists, DummiesFirst
    <3>2. m.items[d].key = NoKey
      BY <3>1
    <3> QED  BY <1>3, <3>2, KeyAssumption
  <2> QED  BY <1>2, <1>4, <2>1 DEF Lists, DummiesFirst
<1>9. CursorsInList(q)
  BY <1>1, <1>2, <1>4, <1>5 DEF CursorsInList, ToWrite
<1>10. RefsExact(q)
  <2>1. \A d : CursorsIn(q, d) = CursorsIn(m, d)
    BY <1>1, <1>4, <1>5 DEF CursorsIn
  <2> QED  BY <1>2, <1>4, <2>1 DEF RefsExact
<1>11. DOMAIN q.list # {}
  BY <1>4 DEF Good
<1>12. Good(q)
  BY <1>6, <1>7, <1>8, <1>9, <1>10, <1>11 DEF Good, Lists
<1>13. Index(q, c, key) = {}
  BY <1>4 DEF Index, ToWrite, old
<1> QED  BY <1>4, <1>12, <1>13 DEF q, old

(* Checkpoint::queueDirty. *)
LEMMA QueueInOpenGood ==
    ASSUME NEW m, Good(m), NEW key \in Keys
    PROVE  Good(QueueInOpenCheckpoint(m, key))
<1> DEFINE c == Back(m)
           old == Index(m, c, key)
           p == PushBack(m, c, "mutation", key)
           q == [p EXCEPT !.list[c].numItems = @ + 1, !.numItems = @ + 1]
           e == [m EXCEPT !.items = Restrict(@, DOMAIN @ \ old),
                          !.cursors = [n \in DOMAIN @ |-> ShiftCursor(m, n, old)]]
<1>1. c \in DOMAIN m.list /\ Lists(m) /\ \A d \in DOMAIN m.list : d <= c
  BY BackIn DEF Good
<1>2. CASE old = {}
  <2>1. Lists(p) /\ Grows(m, p)
    BY <1>1, <1>2, PushBackLists DEF Ops
  <2>2. Good(p)
    BY <2>1, GrowsGood
  <2>3. p.list = m.list
    BY <1>1 DEF PushBack, Lists, IsManager, Fields
  <2> HIDE DEF p, c
  <2>4. /\ DOMAIN p = Fields /\ p.numItems \in Int
        /\ p.list \in [DOMAIN p.list -> Checkpoint] /\ c \in DOMAIN p.list
    BY <1>1, <2>1, <2>3 DEF Lists, IsManager
  <2>5. /\ DOMAIN q = Fields /\ q.numItems \in Int
        /\ q.items = p.items /\ q.cursors = p.cursors /\ q.mutationCounter = p.mutationCounter
        /\ q.list = [p.list EXCEPT ![c].numItems = @ + 1]
    BY <2>4 DEF Fields
  <2>6. /\ q.list \in [DOMAIN p.list -> Checkpoint]
        /\ \A d \in DOMAIN p.list : /\ q.list[d].refs = p.list[d].refs
                                    /\ q.list[d].state = p.list[d].state
    BY <2>4, <2>5 DEF Checkpoint
  <2> HIDE DEF q
  <2>7. Lists(q) /\ Grows(p, q)
    BY <2>1, <2>5, <2>6, RelabelLists
  <2>8. Good(q)
    BY <2>2, <2>7, GrowsGood
  <2> QED  BY <1>2, <2>8 DEF QueueInOpenCheckpoint, p, c, q
<1>3. CASE old # {}
  <2>1. Good(e) /\ e.list = m.list /\ Index(e, c, key) = {}
    BY EraseGood
  <2>2. QueueInOpenCheckpoint(m, key) = PushBack(e, c, "mutation", key)
    BY <1>3 DEF QueueInOpenCheckpoint
  <2> HIDE DEF e, c
  <2>3. Lists(e) /\ c \in DOMAIN e.list /\ \A d \in DOMAIN e.list : d <= c
    BY <1>1, <2>1 DEF Good
  <2>4. Lists(PushBack(e, c, "mutation", key)) /\ Grows(e, PushBack(e, c, "mutation", key))
    BY <2>1, <2>3, PushBackLists DEF Ops
  <2> QED  BY <2>1, <2>2, <2>4, GrowsGood
<1> QED  BY <1>2, <1>3

(* CheckpointManager::queueDirty. *)
LEMMA QueueDirtyGood ==
    ASSUME NEW m, Good(m), NEW key \in Keys, NEW active, NEW slave, NEW elapsed
    PROVE  Good(QueueDirty(m, key, active, slave, elapsed))
<1> DEFINE q == QueueInOpenCheckpoint(m, key)
<1>1. Good(q)
  BY QueueInOpenGood
<1>2. Good(CheckOpenCheckpoint(q, FALSE, elapsed))
  BY <1>1, CheckOpenGood
<1> QED  BY <1>1, <1>2 DEF QueueDirty
-----------------------------------------------------------------------------
(* Removing checkpoints *)

(* The cursors that leave a checkpoint and those that enter it are counted. *)
LEMMA ExchangeCount ==
    ASSUME NEW S, NEW A, NEW B, IsFiniteSet(S), IsFiniteSet(B), A \subseteq S, S \cap B = {}
    PROVE  Cardinality((S \ A) \cup B) = Cardinality(S) - Cardinality(A) + Cardinality(B)
<1>1. IsFiniteSet(S \ A) /\ Cardinality(S \ A) = Cardinality(S) - Cardinality(S \cap A)
  BY FS_Difference
<1>2. S \cap A = A /\ (S \ A) \cap B = {}
  OBVIOUS
<1>3. Cardinality((S \ A) \cup B)
        = Cardinality(S \ A) + Cardinality(B) - Cardinality((S \ A) \cap B)
  BY <1>1, FS_Union
<1>4. IsFiniteSet(A)
  BY FS_Subset
<1>5. /\ Cardinality(S) \in Nat /\ Cardinality(A) \in Nat /\ Cardinality(B) \in Nat
      /\ Cardinality({}) = 0
  BY <1>4, FS_CardinalityType, FS_EmptySet
<1>6. Cardinality(S \ A) = Cardinality(S) - Cardinality(A)
  BY <1>1, <1>2
<1>7. Cardinality((S \ A) \cup B) = Cardinality(S \ A) + Cardinality(B) - 0
  BY <1>2, <1>3, <1>5
<1> QED  BY <1>5, <1>6, <1>7

(* Moving the cursors at the end of the checkpoint that was closed. *)
LEMMA MoveCursorsGood ==
    ASSUME NEW m, Good(m), NEW oldId
    PROVE  Good(MoveCursorsAtEnd(m, oldId))
<1> DEFINE moved == {n \in DOMAIN m.cursors : /\ m.list[m.cursors[n].ckpt].id = oldId
                                              /\ AtEnd(m, n) /\ CanMove(m, n)}
           Target(n) == NextCheckpoint(m, m.cursors[n].ckpt)
           Left(c) == {n \in moved : m.cursors[n].ckpt = c}
           Came(c) == {n \in moved : Target(n) = c}
           list == [c \in DOMAIN m.list |->
                      [m.list[c] EXCEPT !.refs = @ - Cardinality(Left(c)) + Cardinality(Came(c))]]
           cs == [n \in DOMAIN m.cursors |->
                    IF n \in moved
                    THEN [m.cursors[n] EXCEPT !.ckpt = Target(n), !.pos = Target(n)]
                    ELSE m.cursors[n]]
           q == MoveCursorsAtEnd(m, oldId)
<1>1. /\ DOMAIN m = Fields /\ Lists(m) /\ m.numItems \in Int /\ IsFiniteSet(DOMAIN m.cursors)
      /\ Counts(m.list, m.cursors) /\ m.list \in [DOMAIN m.list -> Checkpoint]
      /\ m.cursors \in [DOMAIN m.cursors -> Cursor]
  BY GoodParts DEF Counts
<1>2. /\ DOMAIN q = Fields /\ q.items = m.items /\ q.mutationCounter = m.mutationCounter
      /\ q.numItems = m.numItems /\ q.list = list /\ q.cursors = cs
  BY <1>1 DEF MoveCursorsAtEnd, Fields
<1>3. ASSUME NEW n \in moved
      PROVE  /\ Target(n) \in DOMAIN m.list /\ Target(n) # m.cursors[n].ckpt
             /\ Target(n) \in Nat /\ Target(n) \in ToWrite(m, Target(n))
  <2> DEFINE S == {d \in DOMAIN m.list : d > m.cursors[n].ckpt}
  <2>1. S # {} /\ S \in SUBSET Nat /\ m.cursors[n].ckpt \in Nat
    BY <1>1, <1>3, Positions DEF CanMove, Cursor
  <2>2. Target(n) \in S
    BY <2>1, MinNat DEF NextCheckpoint
  <2>3. Target(n) \in DOMAIN m.list /\ Target(n) # m.cursors[n].ckpt
    BY <2>1, <2>2
  <2> QED  BY <1>1, <2>3, Positions
<1>4. moved \subseteq DOMAIN m.cursors
  OBVIOUS
<1> HIDE DEF moved, Target
<1>5. ASSUME NEW n \in DOMAIN m.cursors
      PROVE  /\ cs[n] \in Cursor
             /\ cs[n].ckpt = IF n \in moved THEN Target(n) ELSE m.cursors[n].ckpt
             /\ cs[n].ckpt \in DOMAIN m.list /\ cs[n].pos \in ToWrite(m, cs[n].ckpt)
  <2>1. m.cursors[n] \in Cursor
    BY <1>1
  <2>2. CASE n \in moved
    <3> DEFINE t == Target(n)
    <3>1. t \in Nat /\ t \in DOMAIN m.list /\ t \in ToWrite(m, t)
      BY <1>3, <2>2
    <3>2. cs[n] = [m.cursors[n] EXCEPT !.ckpt = t, !.pos = t]
      BY <2>2
    <3> HIDE DEF cs, t
    <3>3. cs[n] \in Cursor
      BY <2>1, <3>1, <3>2 DEF Cursor
    <3>4. cs[n].ckpt = t /\ cs[n].pos = t
      BY <2>1, <3>2 DEF Cursor
    <3> QED  BY <2>2, <3>1, <3>3, <3>4 DEF t
  <2>3. CASE n \notin moved
    BY <2>1, <2>3, GoodParts
  <2> QED  BY <2>2, <2>3
<1>6. DOMAIN cs = DOMAIN m.cursors /\ cs \in [DOMAIN m.cursors -> Cursor]
  BY <1>5
<1> HIDE DEF cs
<1>7. ASSUME NEW c \in DOMAIN m.list
      PROVE  /\ list[c] \in Checkpoint /\ list[c].state = m.list[c].state
             /\ list[c].refs = Cardinality(InCheckpoint(cs, c))
  <2> DEFINE S == InCheckpoint(m.cursors, c)
             r == m.list[c].refs - Cardinality(Left(c)) + Cardinality(Came(c))
  <2>1. /\ IsFiniteSet(S) /\ IsFiniteSet(Came(c)) /\ Left(c) \subseteq S
        /\ IsFiniteSet(InCheckpoint(cs, c))
    BY <1>1, <1>4, <1>6, FS_Subset DEF InCheckpoint
  <2>2. S \cap Came(c) = {}
    BY <1>3 DEF InCheckpoint
  <2>3. InCheckpoint(cs, c) = (S \ Left(c)) \cup Came(c)
    BY <1>4, <1>5, <1>6 DEF InCheckpoint
  <2>4. m.list[c].refs = Cardinality(S)
    BY <1>1 DEF Counts
  <2>5. r = Cardinality(InCheckpoint(cs, c))
    <3> HIDE DEF S, Left, Came
    <3>1. Cardinality((S \ Left(c)) \cup Came(c))
            = Cardinality(S) - Cardinality(Left(c)) + Cardinality(Came(c))
      BY <2>1, <2>2, ExchangeCount
    <3> QED  BY <2>3, <2>4, <3>1
  <2>6. r \in Nat
    BY <2>1, <2>5, FS_CardinalityType
  <2>7. list[c] = [m.list[c] EXCEPT !.refs = r] /\ m.list[c] \in Checkpoint
    BY <1>1
  <2> HIDE DEF r, list
  <2>8. list[c] \in Checkpoint
    BY <2>6, <2>7 DEF Checkpoint
  <2>9. list[c].refs = r /\ list[c].state = m.list[c].state
    BY <2>7 DEF Checkpoint
  <2> QED  BY <2>5, <2>8, <2>9
<1>8. DOMAIN list = DOMAIN m.list /\ list \in [DOMAIN m.list -> Checkpoint]
  BY <1>7
<1> HIDE DEF list, q
<1>9. Counts(q.list, q.cursors)
  BY <1>2, <1>7, <1>8 DEF Counts
<1>10. \A n \in DOMAIN q.cursors : /\ q.cursors[n].ckpt \in DOMAIN m.list
                                   /\ q.cursors[n].pos \in ToWrite(m, q.cursors[n].ckpt)
  BY <1>2, <1>5, <1>6
<1>11. SameStates(m.list, q.list)
  BY <1>2, <1>7, <1>8 DEF SameStates
<1> QED  BY <1>1, <1>2, <1>6, <1>8, <1>9, <1>10, <1>11, GoodParts, CountedGood DEF q

(* The lists without some of their checkpoints. *)
LEMMA WithoutLists ==
    ASSUME NEW m, NEW gone, Lists(m)
    PROVE  LET q == WithoutCheckpoints(m, gone)
           IN  /\ Lists(q) /\ DOMAIN q.list = DOMAIN m.list \ gone
               /\ q.numItems = m.numItems /\ q.cursors = m.cursors
               /\ q.mutationCounter = m.mutationCounter
               /\ \A c \in DOMAIN q.list : q.list[c] = m.list[c] /\ ToWrite(q, c) = ToWrite(m, c)
<1> DEFINE q == WithoutCheckpoints(m, gone)
<1>1. /\ DOMAIN m = Fields /\ m.items \in [DOMAIN m.items -> Item]
      /\ m.list \in [DOMAIN m.list -> Checkpoint]
  BY DEF Lists, IsManager
<1>2. /\ DOMAIN q = Fields /\ q.numItems = m.numItems /\ q.cursors = m.cursors
      /\ q.mutationCounter = m.mutationCounter
      /\ q.items = [i \in {i \in DOMAIN m.items : m.items[i].ckpt \notin gone} |-> m.items[i]]
      /\ q.list = [c \in DOMAIN m.list \ gone |-> m.list[c]]
  BY <1>1 DEF WithoutCheckpoints, Restrict, Fields
<1> HIDE DEF q
<1>3. /\ q.items \in [DOMAIN q.items -> Item] /\ q.list \in [DOMAIN q.list -> Checkpoint]
  BY <1>1, <1>2
<1>4. IsManager(q)
  BY <1>2, <1>3 DEF Lists, IsManager
<1>5. ItemsInOrder(q)
  BY <1>2 DEF Lists, ItemsInOrder
<1>5a. KeysOfMutations(q) /\ ClosedBefore(q)
  BY <1>2 DEF Lists, KeysOfMutations, ClosedBefore
<1>6. UniqueKeys(q)
  <2>1. \A i \in DOMAIN q.items : i \in DOMAIN m.items /\ q.items[i] = m.items[i]
    BY <1>2
  <2> QED  BY <2>1 DEF Lists, UniqueKeys
<1>7. DummiesFirst(q)
  <2>1. \A c \in DOMAIN m.list : c \in DOMAIN m.items /\ m.items[c].ckpt = c
    BY Positions DEF ToWrite
  <2> QED  BY <1>2, <2>1 DEF Lists, DummiesFirst
<1>8. \A c \in DOMAIN q.list : q.list[c] = m.list[c] /\ ToWrite(q, c) = ToWrite(m, c)
  BY <1>2 DEF ToWrite
<1> QED  BY <1>2, <1>4, <1>5, <1>5a, <1>6, <1>7, <1>8 DEF Lists, q

(* The lists do not depend on the offsets and positions of cursors, nor on numItems. *)
LEMMA SameLists ==
    ASSUME NEW m, NEW q, Lists(m), DOMAIN q = Fields, q.items = m.items, q.list = m.list,
           q.mutationCounter = m.mutationCounter, q.numItems \in Int,
           q.cursors \in [DOMAIN m.cursors -> Cursor]
    PROVE  Lists(q) /\ \A c : ToWrite(q, c) = ToWrite(m, c)
<1>1. IsManager(q)
  BY DEF Lists, IsManager
<1>2. /\ ItemsInOrder(q) /\ DummiesFirst(q) /\ UniqueKeys(q)
      /\ KeysOfMutations(q) /\ ClosedBefore(q)
  BY DEF Lists, ItemsInOrder, DummiesFirst, UniqueKeys, KeysOfMutations, ClosedBefore
<1>3. \A c : ToWrite(q, c) = ToWrite(m, c)
  BY DEF ToWrite
<1> QED  BY <1>1, <1>2, <1>3 DEF Lists

(* A checkpoint without references holds no cursor, so the remover may drop it. *)
LEMMA RemoveUnrefGood ==
    ASSUME NEW m, Good(m)
    PROVE  Good(RemoveUnrefPrefix(m))
<1> DEFINE gone == UnrefPrefix(m)
           f == [c \in DOMAIN m.list |-> m.list[c].numItems + 2]
           num == SumOver(f, gone)
           cs == [n \in DOMAIN m.cursors |->
                    [m.cursors[n] EXCEPT !.offset = DecrOffset(n, @, num)]]
           w == WithoutCheckpoints(m, gone)
           q == RemoveUnrefPrefix(m)
<1>1. /\ DOMAIN m = Fields /\ Lists(m) /\ m.numItems \in Int /\ IsFiniteSet(DOMAIN m.cursors)
      /\ Counts(m.list, m.cursors) /\ m.list \in [DOMAIN m.list -> Checkpoint]
      /\ m.cursors \in [DOMAIN m.cursors -> Cursor] /\ Persistence \in DOMAIN m.cursors
      /\ \A n \in DOMAIN m.cursors : /\ m.cursors[n].ckpt \in DOMAIN m.list
                                     /\ m.cursors[n].pos \in ToWrite(m, m.cursors[n].ckpt)
  BY GoodParts DEF Counts
<1>2. gone \subseteq DOMAIN m.list
  BY DEF UnrefPrefix
<1>3. num \in Nat
  <2>1. IsFiniteSet(gone)
    BY <1>1, <1>2, FiniteCheckpoints
  <2>2. \A c \in gone : f[c] \in Int
    BY <1>1, <1>2 DEF Checkpoint
  <2> HIDE DEF f, gone
  <2> QED  BY <2>1, <2>2, SumNat
<1>4. ASSUME NEW n \in DOMAIN m.cursors
      PROVE  m.cursors[n].ckpt \notin gone
  <2> DEFINE c == m.cursors[n].ckpt
  <2>1. n \in InCheckpoint(m.cursors, c) /\ IsFiniteSet(InCheckpoint(m.cursors, c))
    BY <1>1, FS_Subset DEF InCheckpoint
  <2>2. m.list[c].refs = Cardinality(InCheckpoint(m.cursors, c))
    BY <1>1 DEF Counts
  <2>3. m.list[c].refs # 0
    BY <2>1, <2>2, FS_EmptySet
  <2>4. c \in DOMAIN m.list /\ c \in Nat
    BY <1>1, Positions
  <2> QED  BY <2>3, <2>4 DEF UnrefPrefix
<1> HIDE DEF gone, num
<1>5a. /\ Lists(w) /\ DOMAIN w.list = DOMAIN m.list \ gone
       /\ w.numItems = m.numItems /\ w.cursors = m.cursors
       /\ w.mutationCounter = m.mutationCounter
       /\ \A c \in DOMAIN w.list : w.list[c] = m.list[c] /\ ToWrite(w, c) = ToWrite(m, c)
  BY <1>1, WithoutLists
<1>5b. q = [w EXCEPT !.numItems = @ - num,
                     !.cursors = [n \in DOMAIN @ |->
                        [m.cursors[n] EXCEPT !.offset = DecrOffset(n, @, num)]]]
  BY DEF RemoveUnrefPrefix, gone, num
<1> HIDE DEF w, q
<1>5. /\ DOMAIN q = Fields /\ q.mutationCounter = w.mutationCounter
      /\ q.numItems = m.numItems - num /\ q.cursors = cs
      /\ q.items = w.items /\ q.list = w.list
  BY <1>5a, <1>5b DEF Lists, IsManager, Fields
<1>6. ASSUME NEW n \in DOMAIN m.cursors
      PROVE  /\ cs[n] \in Cursor /\ cs[n].ckpt = m.cursors[n].ckpt
             /\ cs[n].pos = m.cursors[n].pos
  <2> DEFINE o == DecrOffset(n, m.cursors[n].offset, num)
  <2>1. m.cursors[n] \in Cursor
    BY <1>1
  <2>2. o \in Int
    BY <1>3, <2>1 DEF DecrOffset, Cursor
  <2>3. cs[n] = [m.cursors[n] EXCEPT !.offset = o]
    OBVIOUS
  <2> HIDE DEF o, cs
  <2>4. cs[n] \in Cursor
    BY <2>1, <2>2, <2>3 DEF Cursor
  <2>5. cs[n].ckpt = m.cursors[n].ckpt /\ cs[n].pos = m.cursors[n].pos
    BY <2>1, <2>3 DEF Cursor
  <2> QED  BY <2>4, <2>5
<1>7. DOMAIN cs = DOMAIN m.cursors /\ cs \in [DOMAIN m.cursors -> Cursor]
  BY <1>6
<1> HIDE DEF cs
<1>8. q.numItems \in Int
  BY <1>1, <1>3, <1>5
<1>9. /\ Lists(q) /\ DOMAIN q.list = DOMAIN m.list \ gone
      /\ \A c \in DOMAIN q.list : q.list[c] = m.list[c] /\ ToWrite(q, c) = ToWrite(m, c)
  <2>1. q.cursors \in [DOMAIN w.cursors -> Cursor]
    BY <1>5, <1>5a, <1>7
  <2>2. Lists(q) /\ \A c : ToWrite(q, c) = ToWrite(w, c)
    BY <1>5, <1>5a, <1>8, <2>1, SameLists
  <2> QED  BY <1>5, <1>5a, <2>2
<1>10. CursorsInList(q) /\ DOMAIN q.list # {}
  BY <1>1, <1>4, <1>5, <1>6, <1>7, <1>9 DEF CursorsInList
<1>11. RefsExact(q)
  <2>1. \A c : CursorsIn(q, c) = CursorsIn(m, c)
    BY <1>5, <1>6, <1>7 DEF CursorsIn
  <2> QED  BY <1>9, <2>1 DEF Good, RefsExact
<1> QED  BY <1>9, <1>10, <1>11 DEF Good, q

(* removeClosedUnrefCheckpoints. *)
LEMMA RemoverGood ==
    ASSUME NEW m, Good(m), NEW mayCreate, NEW forceCreation, NEW elapsed
    PROVE  Good(RemoveClosedUnrefCheckpoints(m, mayCreate, forceCreation, elapsed))
<1> DEFINE oldId == ClosedByRemover(m, mayCreate, forceCreation, elapsed)
           p == IF mayCreate THEN CheckOpenCheckpoint(m, forceCreation, elapsed) ELSE m
           r == IF oldId > 0 THEN MoveCursorsAtEnd(p, oldId) ELSE p
<1>1. Good(p)
  BY CheckOpenGood
<1> HIDE DEF p, oldId
<1>2. Good(r)
  BY <1>1, MoveCursorsGood
<1> HIDE DEF r
<1>3. Good(RemoveUnrefPrefix(r))
  BY <1>2, RemoveUnrefGood
<1> QED  BY <1>3 DEF RemoveClosedUnrefCheckpoints, r, p, oldId

(* A roll-back repositions every cursor of the checkpoints it removes. *)
LEMMA RollBackGood ==
    ASSUME NEW m, Good(m), NEW id \in Nat
    PROVE  Good(RollBack(m, id))
<1> DEFINE gone == RolledBack(m, id)
           f == [c \in DOMAIN m.list |->
                   m.list[c].numItems + IF m.list[c].state = "closed" THEN 2 ELSE 1]
           num == SumOver(f, gone)
           v == WithoutCheckpoints(m, gone)
           w == [v EXCEPT !.numItems = @ - num]
           p == AddNewCheckpoint(w, id)
           c == Back(p)
           moved == {n \in DOMAIN m.cursors : m.cursors[n].ckpt \in gone}
           cs == [n \in DOMAIN m.cursors |->
                    IF n \in moved
                    THEN [m.cursors[n] EXCEPT !.ckpt = c, !.pos = c, !.offset = p.numItems - 1]
                    ELSE m.cursors[n]]
           q == RollBack(m, id)
<1>1. /\ DOMAIN m = Fields /\ Lists(m) /\ m.numItems \in Int /\ IsFiniteSet(DOMAIN m.cursors)
      /\ Counts(m.list, m.cursors) /\ m.list \in [DOMAIN m.list -> Checkpoint]
      /\ m.cursors \in [DOMAIN m.cursors -> Cursor]
      /\ Persistence \in DOMAIN m.cursors /\ DOMAIN m.cursors \subseteq Names
      /\ \A n \in DOMAIN m.cursors : /\ m.cursors[n].ckpt \in DOMAIN m.list
                                     /\ m.cursors[n].pos \in ToWrite(m, m.cursors[n].ckpt)
  BY GoodParts DEF Counts
<1>2. gone \subseteq DOMAIN m.list
  BY DEF RolledBack
<1>3. num \in Nat
  <2>1. IsFiniteSet(gone)
    BY <1>1, <1>2, FiniteCheckpoints
  <2>2. \A x \in gone : f[x] \in Int
    BY <1>1, <1>2 DEF Checkpoint
  <2> HIDE DEF f, gone
  <2> QED  BY <2>1, <2>2, SumNat
<1> HIDE DEF num, gone
<1>4. /\ Lists(v) /\ DOMAIN v.list = DOMAIN m.list \ gone
      /\ v.numItems = m.numItems /\ v.cursors = m.cursors
      /\ \A x \in DOMAIN v.list : v.list[x] = m.list[x] /\ ToWrite(v, x) = ToWrite(m, x)
  BY <1>1, WithoutLists
<1> HIDE DEF v
<1>5. /\ Lists(w) /\ DOMAIN w.list = DOMAIN m.list \ gone /\ w.cursors = m.cursors
      /\ \A x \in DOMAIN w.list : w.list[x] = m.list[x] /\ ToWrite(w, x) = ToWrite(m, x)
  <2>1. /\ DOMAIN w = Fields /\ w.items = v.items /\ w.list = v.list
        /\ w.mutationCounter = v.mutationCounter /\ w.cursors = v.cursors
        /\ w.numItems = m.numItems - num
    BY <1>4 DEF Lists, IsManager, Fields
  <2> HIDE DEF w
  <2>2. w.numItems \in Int /\ w.cursors \in [DOMAIN v.cursors -> Cursor]
    BY <1>1, <1>3, <1>4, <2>1
  <2>3. Lists(w) /\ \A x : ToWrite(w, x) = ToWrite(v, x)
    BY <1>4, <2>1, <2>2, SameLists
  <2> QED  BY <1>4, <2>1, <2>3
<1> HIDE DEF w
<1>6. /\ Lists(p) /\ Grows(w, p) /\ c \notin DOMAIN w.list
      /\ DOMAIN p.list = DOMAIN w.list \cup {c}
  BY <1>5, AddNewLists
<1>7. q = [p EXCEPT !.list[c].refs = @ + Cardinality(moved),
                    !.cursors = [n \in DOMAIN @ |->
                        IF n \in moved
                        THEN [m.cursors[n] EXCEPT !.ckpt = c, !.pos = c, !.offset = p.numItems - 1]
                        ELSE m.cursors[n]]]
  BY DEF RollBack, p, w, v, num, gone
<1> HIDE DEF p, c, q
<1>8. p.cursors = m.cursors /\ p.list[c].refs = 0 /\ c \in Nat /\ c \in ToWrite(p, c)
  BY <1>5, <1>6, Positions DEF Grows
<1>9. /\ DOMAIN p = Fields /\ p.numItems \in Int /\ p.mutationCounter \in Nat
      /\ p.list \in [DOMAIN p.list -> Checkpoint]
  BY <1>6 DEF Lists, IsManager
<1>10. IsFiniteSet(moved) /\ Cardinality(moved) \in Nat
  BY <1>1, FS_Subset, FS_CardinalityType
<1> HIDE DEF moved
<1>11. /\ DOMAIN q = Fields /\ q.items = p.items /\ q.mutationCounter = p.mutationCounter
       /\ q.numItems = p.numItems /\ q.cursors = cs
       /\ q.list = [p.list EXCEPT ![c].refs = @ + Cardinality(moved)]
  BY <1>7, <1>8, <1>9 DEF Fields
<1>12. ASSUME NEW n \in DOMAIN m.cursors
       PROVE  /\ cs[n] \in Cursor
              /\ n \in moved => cs[n].ckpt = c /\ cs[n].pos = c
              /\ n \notin moved => cs[n] = m.cursors[n]
  <2>1. m.cursors[n] \in Cursor
    BY <1>1
  <2>2. CASE n \in moved
    <3> DEFINE o == p.numItems - 1
    <3>1. cs[n] = [m.cursors[n] EXCEPT !.ckpt = c, !.pos = c, !.offset = o]
      BY <2>2
    <3>0. o \in Int
      BY <1>9
    <3> HIDE DEF cs, o
    <3>2. cs[n] \in Cursor
      BY <1>8, <2>1, <3>0, <3>1 DEF Cursor
    <3>3. cs[n].ckpt = c /\ cs[n].pos = c
      BY <2>1, <3>1 DEF Cursor
    <3> QED  BY <2>2, <3>2, <3>3
  <2>3. CASE n \notin moved
    BY <2>1, <2>3
  <2> QED  BY <2>2, <2>3
<1>13. DOMAIN cs = DOMAIN m.cursors /\ cs \in [DOMAIN m.cursors -> Cursor]
  BY <1>12
<1> HIDE DEF cs
<1>14. /\ q.list \in [DOMAIN p.list -> Checkpoint]
       /\ q.list[c].refs = Cardinality(moved)
       /\ \A x \in DOMAIN w.list : q.list[x].refs = p.list[x].refs
       /\ \A x \in DOMAIN p.list : q.list[x].state = p.list[x].state
  <2>1. c \in DOMAIN p.list /\ p.list[c] \in Checkpoint
    BY <1>6, <1>9
  <2>2. q.list \in [DOMAIN p.list -> Checkpoint]
    BY <1>8, <1>9, <1>10, <1>11, <2>1 DEF Checkpoint
  <2>3. q.list[c].refs = Cardinality(moved)
    BY <1>8, <1>9, <1>10, <1>11, <2>1 DEF Checkpoint
  <2>4. \A x \in DOMAIN w.list : q.list[x].refs = p.list[x].refs
    BY <1>6, <1>9, <1>11
  <2>5. \A x \in DOMAIN p.list : q.list[x].state = p.list[x].state
    BY <1>9, <1>11 DEF Checkpoint
  <2> QED  BY <2>2, <2>3, <2>4, <2>5
<1>15. IsManager(q)
  BY <1>1, <1>6, <1>9, <1>11, <1>13, <1>14 DEF Lists, IsManager
<1>16. ItemsInOrder(q) /\ DummiesFirst(q) /\ UniqueKeys(q) /\ KeysOfMutations(q)
  BY <1>6, <1>11, <1>14 DEF Lists, ItemsInOrder, DummiesFirst, UniqueKeys, KeysOfMutations
<1>16a. ClosedBefore(q)
  BY <1>6, <1>14 DEF Lists, ClosedBefore
<1>17. ASSUME NEW n \in DOMAIN q.cursors
       PROVE  /\ q.cursors[n].ckpt \in DOMAIN q.list
              /\ q.cursors[n].pos \in ToWrite(q, q.cursors[n].ckpt)
  <2>1. n \in DOMAIN m.cursors /\ q.cursors[n] = cs[n] /\ DOMAIN q.list = DOMAIN p.list
    BY <1>11, <1>13, <1>14
  <2>2. CASE n \in moved
    <3>1. cs[n].ckpt = c /\ cs[n].pos = c
      BY <1>12, <2>1, <2>2
    <3>2. c \in ToWrite(q, c)
      BY <1>8, <1>11 DEF ToWrite
    <3> QED  BY <1>6, <2>1, <3>1, <3>2
  <2>3. CASE n \notin moved
    <3> DEFINE x == m.cursors[n].ckpt
    <3>1. cs[n] = m.cursors[n] /\ x \in DOMAIN w.list
      BY <1>1, <1>5, <1>12, <2>1, <2>3 DEF moved
    <3>2. m.cursors[n].pos \in ToWrite(w, x)
      BY <1>1, <1>5, <2>1, <3>1
    <3>3. ToWrite(w, x) \subseteq ToWrite(q, x)
      BY <1>6, <1>11 DEF Grows, ToWrite
    <3> QED  BY <1>6, <2>1, <3>1, <3>2, <3>3
  <2> QED  BY <2>2, <2>3
<1>18. ASSUME NEW x \in DOMAIN q.list
       PROVE  q.list[x].refs = Cardinality(CursorsIn(q, x))
  <2>1. x \in DOMAIN w.list \cup {c} /\ DOMAIN q.cursors = DOMAIN m.cursors /\ q.cursors = cs
    BY <1>6, <1>11, <1>13, <1>14
  <2>2. CASE x = c
    <3>1. ASSUME NEW n \in DOMAIN m.cursors, n \notin moved
          PROVE  cs[n].ckpt # c
      BY <1>1, <1>5, <1>6, <1>12, <3>1 DEF moved
    <3>2. moved \subseteq DOMAIN m.cursors
      BY DEF moved
    <3>3. CursorsIn(q, c) = moved
      BY <1>12, <2>1, <3>1, <3>2 DEF CursorsIn
    <3> QED  BY <1>14, <2>2, <3>3
  <2>3. CASE x # c
    <3>1. x \in DOMAIN w.list /\ x \notin gone /\ x \in DOMAIN m.list
      BY <1>5, <2>1, <2>3
    <3>2. q.list[x].refs = m.list[x].refs
      BY <1>5, <1>6, <1>14, <3>1 DEF Grows
    <3>3. CursorsIn(q, x) = CursorsIn(m, x)
      BY <1>12, <2>1, <2>3, <3>1 DEF CursorsIn, moved
    <3> QED  BY <3>1, <3>2, <3>3 DEF Good, RefsExact
  <2> QED  BY <2>2, <2>3
<1>19. DOMAIN q.list # {}
  BY <1>6, <1>14
<1>20. Good(q)
  BY <1>15, <1>16, <1>16a, <1>17, <1>18, <1>19 DEF Good, Lists, CursorsInList, RefsExact
<1> QED  BY <1>20 DEF q

(* checkAndAddNewCheckpoint. *)
LEMMA CheckAndAddGood ==
    ASSUME NEW m, Good(m), NEW id \in Nat
    PROVE  Good(CheckAndAddNewCheckpoint(m, id))
BY SetIdGood, RollBackGood, AddNewGood DEF CheckAndAddNewCheckpoint
-----------------------------------------------------------------------------
(* What the cursors have still to read *)

\* The keys that each cursor has still to be given: the pending of UQ.
Pending(m) ==
    [n \in DOMAIN m.cursors |->
       {k \in Keys : \E i \in DOMAIN m.items : i > m.cursors[n].pos /\ m.items[i].key = k}]

\* q has the items of m and perhaps some without a key.
Keyless(m, q) ==
    /\ DOMAIN m.items \subseteq DOMAIN q.items
    /\ \A i \in DOMAIN m.items : q.items[i] = m.items[i]
    /\ \A i \in DOMAIN q.items \ DOMAIN m.items : q.items[i].key = NoKey

\* The cursors of q stand where those of m do.
SamePlaces(m, q) ==
    /\ DOMAIN q.cursors = DOMAIN m.cursors
    /\ \A n \in DOMAIN m.cursors : q.cursors[n].pos = m.cursors[n].pos

(* Types of what the items hold, and their order. *)
LEMMA ItemFacts ==
    ASSUME NEW m, Lists(m)
    PROVE  /\ \A i \in DOMAIN m.items : /\ i \in Nat /\ m.items[i].ckpt \in Nat
                                        /\ m.items[i].ckpt \in DOMAIN m.list
                                        /\ m.items[i].ckpt <= i
                                        /\ m.items[i].key \in Keys \cup {NoKey}
           /\ \A i, j \in DOMAIN m.items : i <= j => m.items[i].ckpt <= m.items[j].ckpt
           /\ \A c \in DOMAIN m.list : /\ c \in Nat /\ c \in DOMAIN m.items
                                       /\ m.items[c].ckpt = c /\ m.items[c].key = NoKey
<1>1. \A i \in DOMAIN m.items : m.items[i] \in Item
  BY DEF Lists, IsManager
<1>2. \A i \in DOMAIN m.items : /\ m.items[i].ckpt \in Nat /\ m.items[i].key \in Keys \cup {NoKey}
  BY <1>1 DEF Item
<1>3. \A i \in DOMAIN m.items : i \in Nat
  BY DEF Lists, IsManager, ItemsInOrder
<1>4. \A c \in DOMAIN m.list : /\ c \in DOMAIN m.items
                               /\ m.items[c] = [ckpt |-> c, op |-> "empty", key |-> NoKey]
  BY DEF Lists, DummiesFirst
<1>5. ASSUME NEW c \in DOMAIN m.list
      PROVE  m.items[c].ckpt = c /\ m.items[c].key = NoKey
  <2>1. m.items[c] = [ckpt |-> c, op |-> "empty", key |-> NoKey]
    BY <1>4
  <2> QED  BY <2>1
<1>6. \A i \in DOMAIN m.items : m.items[i].ckpt \in DOMAIN m.list /\ m.items[i].ckpt <= i
  BY DEF Lists, ItemsInOrder
<1>7. \A i, j \in DOMAIN m.items : i <= j => m.items[i].ckpt <= m.items[j].ckpt
  BY DEF Lists, ItemsInOrder
<1>8. \A c \in DOMAIN m.list : c \in Nat
  BY <1>3, <1>4
<1> QED  BY <1>2, <1>3, <1>4, <1>5, <1>6, <1>7, <1>8

(* Where a cursor of a good manager stands. *)
LEMMA CursorFacts ==
    ASSUME NEW m, Good(m), NEW n \in DOMAIN m.cursors
    PROVE  /\ m.cursors[n] \in Cursor
           /\ m.cursors[n].ckpt \in DOMAIN m.list /\ m.cursors[n].ckpt \in Nat
           /\ m.cursors[n].pos \in DOMAIN m.items /\ m.cursors[n].pos \in Nat
           /\ m.items[m.cursors[n].pos].ckpt = m.cursors[n].ckpt
BY GoodParts DEF ToWrite, Cursor

(* Items without a key are owed to nobody. *)
LEMMA KeylessPending ==
    ASSUME NEW m, NEW q, Keyless(m, q), SamePlaces(m, q)
    PROVE  Pending(q) = Pending(m)
<1>1. ASSUME NEW n \in DOMAIN m.cursors, NEW k \in Keys
      PROVE  (\E i \in DOMAIN q.items : i > q.cursors[n].pos /\ q.items[i].key = k)
               <=> (\E i \in DOMAIN m.items : i > m.cursors[n].pos /\ m.items[i].key = k)
  BY KeyAssumption DEF Keyless, SamePlaces
<1> QED  BY <1>1 DEF Pending, SamePlaces

(* Adding items without a key is transitive. *)
LEMMA KeylessTransitive ==
    ASSUME NEW m, NEW q, NEW r, Keyless(m, q), Keyless(q, r)
    PROVE  Keyless(m, r)
BY DEF Keyless

(* Pushing an item without a key. *)
LEMMA PushKeyless ==
    ASSUME NEW m, DOMAIN m = Fields, m.mutationCounter \in Nat,
           DOMAIN m.items \subseteq 1 .. m.mutationCounter, NEW c, NEW op
    PROVE  /\ Keyless(m, PushBack(m, c, op, NoKey))
           /\ DOMAIN PushBack(m, c, op, NoKey) = Fields
           /\ PushBack(m, c, op, NoKey).mutationCounter \in Nat
           /\ DOMAIN PushBack(m, c, op, NoKey).items \subseteq 1 .. m.mutationCounter + 1
           /\ PushBack(m, c, op, NoKey).mutationCounter = m.mutationCounter + 1
<1> DEFINE q == PushBack(m, c, op, NoKey)
           mid == m.mutationCounter + 1
<1>1. /\ DOMAIN q = Fields /\ q.mutationCounter = mid
      /\ q.items = [i \in DOMAIN m.items \cup {mid} |->
                      IF i = mid THEN [ckpt |-> c, op |-> op, key |-> NoKey] ELSE m.items[i]]
  BY PushBackFields
<1>2. mid \in Nat /\ mid \notin DOMAIN m.items
  OBVIOUS
<1> HIDE DEF q
<1>3. DOMAIN q.items = DOMAIN m.items \cup {mid} /\ q.items[mid].key = NoKey
  BY <1>1
<1>4. \A i \in DOMAIN m.items : q.items[i] = m.items[i]
  BY <1>1, <1>2
<1>5. Keyless(m, q)
  BY <1>3, <1>4 DEF Keyless
<1>6. DOMAIN q.items \subseteq 1 .. mid
  BY <1>2, <1>3
<1> QED  BY <1>1, <1>2, <1>5, <1>6 DEF q

(* closeOpenCheckpoint adds at most a checkpoint_end. *)
LEMMA CloseKeyless ==
    ASSUME NEW m, Lists(m), NEW id
    PROVE  Keyless(m, CloseOpenCheckpoint(m, id))
<1> DEFINE c == Back(m)
           p == PushBack(m, c, "checkpoint_end", NoKey)
           q == [p EXCEPT !.numItems = @ + 1, !.list[c].state = "closed"]
<1>1. DOMAIN p = Fields /\ Keyless(m, p)
  BY PushKeyless DEF Lists, IsManager, ItemsInOrder
<1> HIDE DEF p, c
<1>2. q.items = p.items
  BY <1>1 DEF Fields
<1>3. Keyless(m, q)
  BY <1>1, <1>2 DEF Keyless
<1>4. Keyless(m, m)
  BY DEF Keyless
<1> QED  BY <1>3, <1>4 DEF CloseOpenCheckpoint, p, c

(* A new checkpoint holds a dummy and a checkpoint_start. *)
LEMMA AppendKeyless ==
    ASSUME NEW m, Lists(m), NEW id
    PROVE  Keyless(m, AppendCheckpoint(m, id))
<1> DEFINE c == m.mutationCounter + 1
           p == PushBack(m, c, "empty", NoKey)
           r == PushBack(p, c, "checkpoint_start", NoKey)
           q == AppendCheckpoint(m, id)
<1>1. /\ DOMAIN p = Fields /\ Keyless(m, p) /\ p.mutationCounter \in Nat
      /\ DOMAIN p.items \subseteq 1 .. p.mutationCounter
  BY PushKeyless DEF Lists, IsManager, ItemsInOrder
<1> HIDE DEF p
<1>2. DOMAIN r = Fields /\ Keyless(p, r)
  BY <1>1, PushKeyless
<1> HIDE DEF r
<1>3. q.items = r.items
  BY <1>2 DEF AppendCheckpoint, Fields, r, p
<1>4. Keyless(m, r)
  BY <1>1, <1>2, KeylessTransitive
<1> HIDE DEF q
<1>5. Keyless(m, q)
  BY <1>3, <1>4 DEF Keyless
<1> QED  BY <1>5 DEF q

(* addNewCheckpoint does both. *)
LEMMA AddNewKeyless ==
    ASSUME NEW m, Lists(m), NEW id
    PROVE  Keyless(m, AddNewCheckpoint(m, id))
<1> DEFINE p == CloseOpenCheckpoint(m, m.list[Back(m)].id)
<1>1. DOMAIN m.list # {} => Lists(p) /\ Keyless(m, p)
  BY CloseLists, CloseKeyless
<1> HIDE DEF p
<1>2. DOMAIN m.list # {} => Keyless(m, AppendCheckpoint(p, id))
  BY <1>1, AppendKeyless, KeylessTransitive
<1> QED  BY <1>2, AppendKeyless DEF AddNewCheckpoint, p

(* No reader notices that a checkpoint is closed. *)
LEMMA ClosePending ==
    ASSUME NEW m, Good(m), NEW id
    PROVE  Pending(CloseOpenCheckpoint(m, id)) = Pending(m)
<1> DEFINE q == CloseOpenCheckpoint(m, id)
<1>1. Keyless(m, q) /\ Grows(m, q)
  BY CloseKeyless, CloseLists DEF Good
<1> HIDE DEF q
<1>2. SamePlaces(m, q)
  BY <1>1 DEF Grows, SamePlaces
<1>3. Pending(q) = Pending(m)
  BY <1>1, <1>2, KeylessPending
<1> QED  BY <1>3 DEF q

(* Nor that one is opened. *)
LEMMA AddNewPending ==
    ASSUME NEW m, Good(m), NEW id \in Nat
    PROVE  Pending(AddNewCheckpoint(m, id)) = Pending(m)
<1> DEFINE q == AddNewCheckpoint(m, id)
<1>1. Keyless(m, q) /\ Grows(m, q)
  BY AddNewKeyless, AddNewLists DEF Good
<1> HIDE DEF q
<1>2. SamePlaces(m, q)
  BY <1>1 DEF Grows, SamePlaces
<1>3. Pending(q) = Pending(m)
  BY <1>1, <1>2, KeylessPending
<1> QED  BY <1>3 DEF q

(* checkOpenCheckpoint. *)
LEMMA CheckOpenPending ==
    ASSUME NEW m, Good(m), NEW forceCreation, NEW elapsed
    PROVE  Pending(CheckOpenCheckpoint(m, forceCreation, elapsed)) = Pending(m)
<1> DEFINE id == m.list[Back(m)].id
           p == CloseOpenCheckpoint(m, id)
           q == AddNewCheckpoint(p, id + 1)
<1>1. id + 1 \in Nat
  BY BackIn DEF Good, Lists, IsManager, Checkpoint
<1>2. Good(p) /\ Pending(p) = Pending(m)
  BY CloseGood, ClosePending
<1>3. CheckOpenCheckpoint(m, forceCreation, elapsed) \in {m, q}
  BY DEF CheckOpenCheckpoint
<1> HIDE DEF p
<1>4. Pending(q) = Pending(p)
  BY <1>1, <1>2, AddNewPending
<1> QED  BY <1>2, <1>3, <1>4

(* setOpenCheckpointId. *)
LEMMA SetIdPending ==
    ASSUME NEW m, DOMAIN m = Fields, NEW id
    PROVE  Pending(SetOpenCheckpointId(m, id)) = Pending(m)
<1> DEFINE q == SetOpenCheckpointId(m, id)
<1>1. q.items = m.items /\ q.cursors = m.cursors
  BY DEF SetOpenCheckpointId, Fields
<1> QED  BY <1>1 DEF Pending

\* From m to q, cursor n is given key k, or nothing when k is NoKey.
Given(m, q, n, k) ==
    IF k = NoKey THEN Pending(q) = Pending(m)
    ELSE /\ k \in Keys /\ k \in Pending(m)[n]
         /\ Pending(q) \in {Pending(m), [Pending(m) EXCEPT ![n] = @ \ {k}]}

(* A cursor that moves from an item to the next one: it is given that item's key, which *)
(* stays owed when it is queued again further on.                                       *)
LEMMA PassOne ==
    ASSUME NEW m, NEW q, Good(m), q.items = m.items, NEW n \in DOMAIN m.cursors,
           DOMAIN q.cursors = DOMAIN m.cursors,
           \A x \in DOMAIN m.cursors \ {n} : q.cursors[x].pos = m.cursors[x].pos,
           NEW p \in DOMAIN m.items, q.cursors[n].pos = p, m.cursors[n].pos < p,
           \A i \in DOMAIN m.items :
             i > m.cursors[n].pos /\ m.items[i].key # NoKey => i >= p
    PROVE  Given(m, q, n, m.items[p].key)
<1> DEFINE k == m.items[p].key
           From(r, x) == {l \in Keys : \E i \in DOMAIN r.items :
                                         i > r.cursors[x].pos /\ r.items[i].key = l}
<1>1. /\ \A i \in DOMAIN m.items : i \in Nat /\ m.items[i].key \in Keys \cup {NoKey}
      /\ m.cursors[n].pos \in Nat /\ p \in Nat
  BY ItemFacts, CursorFacts DEF Good
<1>2. \A x \in DOMAIN m.cursors \ {n} : From(q, x) = From(m, x)
  OBVIOUS
<1>3. From(m, n) = From(q, n) \cup ({k} \ {NoKey})
  <2>1. ASSUME NEW l \in Keys
        PROVE  (\E i \in DOMAIN m.items : i > m.cursors[n].pos /\ m.items[i].key = l)
                 <=> (\E i \in DOMAIN m.items : i > p /\ m.items[i].key = l) \/ l = k
    BY <1>1, KeyAssumption
  <2>2. k \in Keys \cup {NoKey}
    BY <1>1
  <2>3. From(q, n) = {l \in Keys : \E i \in DOMAIN m.items : i > p /\ m.items[i].key = l}
    OBVIOUS
  <2> HIDE DEF k
  <2> QED  BY <2>1, <2>2, <2>3, KeyAssumption
<1>4. /\ Pending(m) = [x \in DOMAIN m.cursors |-> From(m, x)]
      /\ Pending(q) = [x \in DOMAIN m.cursors |-> From(q, x)]
  BY DEF Pending
<1> HIDE DEF From, k
<1>5. CASE k = NoKey
  <2>1. From(q, n) = From(m, n)
    BY <1>3, <1>5
  <2>2. \A x \in DOMAIN m.cursors : From(q, x) = From(m, x)
    BY <1>2, <2>1
  <2> QED  BY <1>4, <1>5, <2>2 DEF k, Given
<1>6. CASE k # NoKey
  <2>1. k \in Keys /\ k \in Pending(m)[n]
    BY <1>1, <1>3, <1>4, <1>6 DEF k
  <2>2. CASE k \in From(q, n)
    <3>1. From(q, n) = From(m, n)
      BY <1>3, <2>2
    <3>2. \A x \in DOMAIN m.cursors : From(q, x) = From(m, x)
      BY <1>2, <3>1
    <3>3. Pending(q) = Pending(m)
      BY <1>4, <3>2
    <3> QED  BY <1>6, <2>1, <3>3 DEF k, Given
  <2>3. CASE k \notin From(q, n)
    <3>1. From(q, n) = From(m, n) \ {k}
      BY <1>3, <1>6, <2>3
    <3>2. \A x \in DOMAIN m.cursors :
            From(q, x) = IF x = n THEN From(m, n) \ {k} ELSE From(m, x)
      BY <1>2, <3>1
    <3>3. Pending(q) = [x \in DOMAIN m.cursors |->
                          IF x = n THEN Pending(m)[n] \ {k} ELSE Pending(m)[x]]
      BY <1>4, <3>2
    <3>4. Pending(q) = [Pending(m) EXCEPT ![n] = @ \ {k}]
      BY <1>4, <3>3
    <3> QED  BY <1>6, <2>1, <3>4 DEF k, Given
  <2> QED  BY <2>2, <2>3
<1> QED  BY <1>5, <1>6

(* Between the end of a checkpoint and the next dummy nothing has a key. *)
LEMMA NextDummy ==
    ASSUME NEW m, Good(m), NEW n \in DOMAIN m.cursors, AtEnd(m, n), CanMove(m, n)
    PROVE  LET d == NextCheckpoint(m, m.cursors[n].ckpt)
           IN  /\ d \in DOMAIN m.list /\ d \in DOMAIN m.items /\ m.items[d].key = NoKey
               /\ m.cursors[n].pos < d
               /\ \A i \in DOMAIN m.items : i > m.cursors[n].pos => i >= d
<1> DEFINE c == m.cursors[n].ckpt
           p == m.cursors[n].pos
           S == {x \in DOMAIN m.list : x > c}
           d == NextCheckpoint(m, c)
<1>1. /\ c \in DOMAIN m.list /\ c \in Nat /\ p \in DOMAIN m.items /\ p \in Nat
      /\ m.items[p].ckpt = c
  BY CursorFacts
<1>2. /\ \A i \in DOMAIN m.items : /\ i \in Nat /\ m.items[i].ckpt \in Nat
                                    /\ m.items[i].ckpt \in DOMAIN m.list /\ m.items[i].ckpt <= i
      /\ \A i, j \in DOMAIN m.items : i <= j => m.items[i].ckpt <= m.items[j].ckpt
      /\ \A x \in DOMAIN m.list : /\ x \in Nat /\ x \in DOMAIN m.items
                                  /\ m.items[x].ckpt = x /\ m.items[x].key = NoKey
  BY ItemFacts DEF Good
<1>3. S # {} /\ S \in SUBSET Nat
  BY <1>2 DEF CanMove
<1>4. d \in S /\ \A x \in S : d <= x
  BY <1>3, MinNat DEF NextCheckpoint
<1> HIDE DEF d
<1>5. d \in DOMAIN m.list /\ d > c /\ d \in Nat /\ d \in DOMAIN m.items
      /\ m.items[d].ckpt = d /\ m.items[d].key = NoKey
  BY <1>2, <1>4
<1>6. p < d
  BY <1>1, <1>2, <1>5
<1>7. ASSUME NEW i \in DOMAIN m.items, i > p
      PROVE  i >= d
  <2>1. m.items[i].ckpt >= c
    BY <1>1, <1>2, <1>7
  <2>2. m.items[i].ckpt # c
    BY <1>7 DEF AtEnd, After, ToWrite
  <2>3. m.items[i].ckpt \in S
    BY <1>1, <1>2, <2>1, <2>2
  <2> QED  BY <1>2, <1>4, <1>5, <2>3
<1> QED  BY <1>5, <1>6, <1>7 DEF d

(* moveCursorToNextCheckpoint at the end of a checkpoint. *)
LEMMA MovePending ==
    ASSUME NEW m, Good(m), NEW n \in DOMAIN m.cursors, AtEnd(m, n), CanMove(m, n)
    PROVE  /\ Pending(MoveCursorToNextCheckpoint(m, n)) = Pending(m)
           /\ MoveCursorToNextCheckpoint(m, n).items = m.items
           /\ MoveCursorToNextCheckpoint(m, n).cursors[n].pos \in DOMAIN m.items
           /\ MoveCursorToNextCheckpoint(m, n).cursors[n].pos > m.cursors[n].pos
           /\ m.items[MoveCursorToNextCheckpoint(m, n).cursors[n].pos].key = NoKey
<1> DEFINE d == NextCheckpoint(m, m.cursors[n].ckpt)
           q == MoveCursorToNextCheckpoint(m, n)
<1>1. /\ d \in DOMAIN m.items /\ m.items[d].key = NoKey /\ m.cursors[n].pos < d
      /\ \A i \in DOMAIN m.items : i > m.cursors[n].pos => i >= d
  BY NextDummy
<1>2. DOMAIN m = Fields /\ m.cursors \in [DOMAIN m.cursors -> Cursor]
  BY GoodParts
<1>3. /\ q.items = m.items
      /\ q.cursors = [m.cursors EXCEPT ![n].ckpt = d, ![n].pos = d]
  BY <1>2 DEF MoveCursorToNextCheckpoint, Fields
<1>4. /\ DOMAIN q.cursors = DOMAIN m.cursors /\ q.cursors[n].pos = d
      /\ \A x \in DOMAIN m.cursors \ {n} : q.cursors[x].pos = m.cursors[x].pos
  BY <1>2, <1>3 DEF Cursor
<1> HIDE DEF q, d
<1>5. Pending(q) = Pending(m)
  BY <1>1, <1>3, <1>4, PassOne DEF Given
<1>6. m.cursors[n].pos \in Nat /\ d \in Nat
  BY <1>1, ItemFacts, CursorFacts DEF Good
<1> QED  BY <1>1, <1>3, <1>4, <1>5, <1>6 DEF q

(* ++currentPos: the cursor stays at the end, or is given the next item. *)
LEMMA AdvancePending ==
    ASSUME NEW m, Good(m), NEW n \in DOMAIN m.cursors
    PROVE  LET q == Advance(m, n)
               p == q.cursors[n].pos
           IN  /\ q.items = m.items /\ p >= m.cursors[n].pos
               /\ DOMAIN q.cursors = DOMAIN m.cursors
               /\ IF p = m.cursors[n].pos THEN Pending(q) = Pending(m)
                  ELSE Given(m, q, n, m.items[p].key)
<1> DEFINE c == m.cursors[n].ckpt
           b == m.cursors[n].pos
           S == After(m, c, b)
           q == Advance(m, n)
           p == Min(S)
<1>1. /\ c \in DOMAIN m.list /\ c \in Nat /\ b \in DOMAIN m.items /\ b \in Nat
      /\ m.items[b].ckpt = c
  BY CursorFacts
<1>2. CASE AtEnd(m, n)
  BY <1>1, <1>2 DEF Advance
<1>3. CASE ~AtEnd(m, n)
  <2>1. DOMAIN m = Fields /\ m.cursors \in [DOMAIN m.cursors -> Cursor]
    BY GoodParts
  <2>2. /\ \A i \in DOMAIN m.items : /\ i \in Nat /\ m.items[i].ckpt \in Nat
        /\ \A i, j \in DOMAIN m.items : i <= j => m.items[i].ckpt <= m.items[j].ckpt
    BY ItemFacts DEF Good
  <2>3. S # {} /\ S \in SUBSET Nat
    BY <1>3, <2>2 DEF AtEnd, After, ToWrite
  <2>4. p \in S /\ \A x \in S : p <= x
    BY <2>3, MinNat
  <2> HIDE DEF p
  <2>5. p \in DOMAIN m.items /\ p \in Nat /\ p > b /\ m.items[p].ckpt = c
    BY <2>2, <2>4 DEF After, ToWrite
  <2>6. ASSUME NEW i \in DOMAIN m.items, i > b
        PROVE  i >= p
    <3>1. m.items[i].ckpt >= c
      BY <1>1, <2>2, <2>6
    <3>2. CASE m.items[i].ckpt = c
      BY <2>4, <2>6, <3>2 DEF After, ToWrite
    <3>3. CASE m.items[i].ckpt # c
      BY <1>1, <2>2, <2>5, <3>1, <3>3
    <3> QED  BY <3>2, <3>3
  <2>7. /\ q.items = m.items
        /\ q.cursors = [m.cursors EXCEPT ![n].pos = p, ![n].offset = @ + 1]
    BY <1>3, <2>1 DEF Advance, Fields, p
  <2>8. /\ DOMAIN q.cursors = DOMAIN m.cursors /\ q.cursors[n].pos = p
        /\ \A x \in DOMAIN m.cursors \ {n} : q.cursors[x].pos = m.cursors[x].pos
    BY <2>1, <2>7 DEF Cursor
  <2> HIDE DEF q
  <2>9. Given(m, q, n, m.items[p].key)
    <3>1. /\ m.cursors[n].pos < p
          /\ \A i \in DOMAIN m.items : i > m.cursors[n].pos /\ m.items[i].key # NoKey => i >= p
      BY <1>1, <2>5, <2>6
    <3> HIDE DEF b, c
    <3> QED  BY <2>5, <2>7, <2>8, <3>1, PassOne
  <2>10. p >= b /\ p # b
    BY <1>1, <2>5
  <2> QED  BY <2>7, <2>8, <2>9, <2>10 DEF q
<1> QED  BY <1>2, <1>3

(* nextItem gives a TAP cursor at most one key. *)
LEMMA NextItemPending ==
    ASSUME NEW m, Good(m), NEW n \in DOMAIN m.cursors
    PROVE  LET q == NextItem(m, n)
               p == q.cursors[n].pos
           IN  IF p = m.cursors[n].pos THEN Pending(q) = Pending(m)
               ELSE Given(m, q, n, q.items[p].key)
<1> DEFINE moves == AtEnd(m, n) /\ CanMove(m, n)
           r == IF moves THEN MoveCursorToNextCheckpoint(m, n) ELSE m
           a == Advance(r, n)
           q == NextItem(m, n)
<1>1. /\ Good(r) /\ n \in DOMAIN r.cursors /\ Pending(r) = Pending(m) /\ r.items = m.items
      /\ \/ r.cursors[n].pos = m.cursors[n].pos /\ r.cursors = m.cursors
         \/ /\ r.cursors[n].pos > m.cursors[n].pos /\ r.cursors[n].pos \in DOMAIN m.items
            /\ m.items[r.cursors[n].pos].key = NoKey
  BY MoveToNextGood, MovePending
<1>2. q \in {m, r, a}
  BY DEF NextItem
<1> HIDE DEF r
<1>3. m.cursors[n].pos \in Nat /\ r.cursors[n].pos \in Nat
  BY <1>1, CursorFacts
<1>4. CASE q = m
  BY <1>4
<1>5. CASE q = r
  BY <1>1, <1>5 DEF Given
<1>6. CASE q = a
  <2> DEFINE p == a.cursors[n].pos
  <2>1. /\ a.items = m.items /\ p >= r.cursors[n].pos /\ DOMAIN a.cursors = DOMAIN r.cursors
        /\ IF p = r.cursors[n].pos THEN Pending(a) = Pending(r)
           ELSE Given(r, a, n, m.items[p].key)
    BY <1>1, AdvancePending
  <2> HIDE DEF a
  <2>2. n \in DOMAIN a.cursors /\ Good(a)
    BY <1>1, <2>1, AdvanceGood DEF a
  <2>3. p \in Nat
    BY <2>2, CursorFacts
  <2>4. CASE p = r.cursors[n].pos
    BY <1>1, <1>6, <2>1, <2>4 DEF Given
  <2>5. CASE p # r.cursors[n].pos
    <3>1. p # m.cursors[n].pos
      BY <1>1, <1>3, <2>1, <2>3, <2>5
    <3> QED  BY <1>1, <1>6, <2>1, <2>5, <3>1 DEF Given
  <2> QED  BY <2>4, <2>5
<1> QED  BY <1>2, <1>4, <1>5, <1>6

(* getAllItemsFromCurrentPosition gives a cursor everything it has still to read: only *)
(* the last checkpoint may be open, so the walk reaches it.                            *)
LEMMA GetAllPending ==
    ASSUME NEW m, Good(m), NEW n \in DOMAIN m.cursors
    PROVE  /\ {m.items[i].key : i \in AllItems(m, n)} \ {NoKey} = Pending(m)[n]
           /\ Pending(GetAllItems(m, n)) = [Pending(m) EXCEPT ![n] = {}]
<1> DEFINE c == m.cursors[n].ckpt
           p == m.cursors[n].pos
           d == LastReached(m, n)
           S == {x \in DOMAIN m.list : x >= c /\ (m.list[x].state = "opened" \/ x = Back(m))}
           e == Max(ToWrite(m, d))
           q == GetAllItems(m, n)
<1>1. /\ c \in DOMAIN m.list /\ c \in Nat /\ p \in DOMAIN m.items /\ p \in Nat
      /\ m.items[p].ckpt = c
  BY CursorFacts
<1>2. /\ \A i \in DOMAIN m.items : /\ i \in Nat /\ m.items[i].ckpt \in Nat
                                    /\ m.items[i].ckpt \in DOMAIN m.list
                                    /\ m.items[i].key \in Keys \cup {NoKey}
      /\ \A i, j \in DOMAIN m.items : i <= j => m.items[i].ckpt <= m.items[j].ckpt
      /\ \A x \in DOMAIN m.list : x \in Nat
  BY ItemFacts DEF Good
<1>3. Back(m) \in DOMAIN m.list /\ \A x \in DOMAIN m.list : x <= Back(m)
  BY BackIn DEF Good
<1>4. d = Back(m)
  <2>1. Back(m) \in S /\ S \in SUBSET Nat
    BY <1>1, <1>2, <1>3
  <2>2. S # {}
    BY <2>1
  <2>3. d \in S
    BY <2>1, <2>2, MinNat DEF LastReached
  <2> HIDE DEF d
  <2>4. d < Back(m) => m.list[d].state = "closed"
    BY <1>3, <2>3 DEF Good, Lists, ClosedBefore
  <2> QED  BY <1>2, <1>3, <2>3, <2>4
<1> HIDE DEF d, S
<1>5. e \in DOMAIN m.items /\ \A i \in DOMAIN m.items : i <= e
  <2>1. /\ m.mutationCounter \in Nat /\ ToWrite(m, d) \in SUBSET (1 .. m.mutationCounter)
        /\ d \in ToWrite(m, d)
    BY <1>3, <1>4, Positions DEF Good
  <2>2. ToWrite(m, d) \in SUBSET (0 .. m.mutationCounter) /\ ToWrite(m, d) # {}
    BY <2>1
  <2>3. e \in ToWrite(m, d) /\ \A i \in ToWrite(m, d) : e >= i
    BY <2>1, <2>2, MaxNat
  <2> HIDE DEF e
  <2>4. e \in DOMAIN m.items /\ m.items[e].ckpt = d
    BY <2>3 DEF ToWrite
  <2>5. ASSUME NEW i \in DOMAIN m.items
        PROVE  i <= e
    <3>1. CASE m.items[i].ckpt = d
      BY <1>2, <2>3, <2>4, <3>1 DEF ToWrite
    <3>2. CASE m.items[i].ckpt # d
      <4>1. m.items[i].ckpt < d
        BY <1>2, <1>3, <1>4, <3>2
      <4> QED  BY <1>2, <2>4, <4>1
    <3> QED  BY <3>1, <3>2
  <2> QED  BY <2>4, <2>5
<1> HIDE DEF e
<1>6. DOMAIN m = Fields /\ m.cursors \in [DOMAIN m.cursors -> Cursor]
  BY GoodParts
<1>7. /\ q.items = m.items /\ DOMAIN q.cursors = DOMAIN m.cursors /\ q.cursors[n].pos = e
      /\ \A x \in DOMAIN m.cursors \ {n} : q.cursors[x].pos = m.cursors[x].pos
  <2>1. /\ q.items = m.items
        /\ q.cursors = [m.cursors EXCEPT ![n].ckpt = d, ![n].pos = e, ![n].offset = m.numItems]
    BY <1>6 DEF GetAllItems, Fields, d, e
  <2> QED  BY <1>6, <2>1 DEF Cursor
<1> HIDE DEF q
<1>8. Pending(q) = [Pending(m) EXCEPT ![n] = {}]
  <2> DEFINE F(r, x) == {l \in Keys : \E i \in DOMAIN r.items :
                                        i > r.cursors[x].pos /\ r.items[i].key = l}
  <2>1. F(q, n) = {}
    BY <1>2, <1>5, <1>7
  <2>2. \A x \in DOMAIN m.cursors \ {n} : F(q, x) = F(m, x)
    BY <1>7
  <2>3. /\ Pending(q) = [x \in DOMAIN m.cursors |-> F(q, x)]
        /\ Pending(m) = [x \in DOMAIN m.cursors |-> F(m, x)]
    BY <1>7 DEF Pending
  <2> HIDE DEF F
  <2> QED  BY <2>1, <2>2, <2>3
<1>9. {m.items[i].key : i \in AllItems(m, n)} \ {NoKey} = Pending(m)[n]
  <2>1. Pending(m)[n] = {k \in Keys : \E i \in DOMAIN m.items : i > p /\ m.items[i].key = k}
    BY DEF Pending
  <2>2. ASSUME NEW i \in DOMAIN m.items, i > p, m.items[i].key # NoKey
        PROVE  i \in AllItems(m, n)
    <3>1. m.items[i].ckpt \in c .. d
      BY <1>1, <1>2, <1>3, <1>4, <2>2
    <3>2. m.items[i].op # "empty"
      BY <2>2 DEF Good, Lists, KeysOfMutations
    <3> QED  BY <2>2, <3>1, <3>2 DEF AllItems, d
  <2>3. \A i \in AllItems(m, n) : i \in DOMAIN m.items /\ i > p
    BY DEF AllItems
  <2> QED  BY <1>2, <2>1, <2>2, <2>3, KeyAssumption
<1> QED  BY <1>8, <1>9 DEF q

(* decrTapCursorFromCheckpointEnd: a checkpoint_end has no key. *)
LEMMA DecrTapPending ==
    ASSUME NEW m, Good(m), NEW n \in DOMAIN m.cursors
    PROVE  Pending(DecrTapCursorFromCheckpointEnd(m, n)) = Pending(m)
<1> DEFINE c == m.cursors[n].ckpt
           b == m.cursors[n].pos
           p == Prev(m, c, b)
           q == DecrTapCursorFromCheckpointEnd(m, n)
<1>1. CASE m.items[b].op # "checkpoint_end"
  BY <1>1 DEF DecrTapCursorFromCheckpointEnd
<1>2. CASE m.items[b].op = "checkpoint_end"
  <2>1. /\ c \in DOMAIN m.list /\ c \in Nat /\ b \in DOMAIN m.items /\ b \in Nat
        /\ m.items[b].ckpt = c /\ b \in ToWrite(m, c) /\ Lists(m)
        /\ DOMAIN m = Fields /\ m.cursors \in [DOMAIN m.cursors -> Cursor]
    BY CursorFacts, GoodParts
  <2>2. m.items[b].key = NoKey
    BY <1>2, <2>1 DEF Lists, KeysOfMutations
  <2>3. b # c
    <3>1. m.items[c] = [ckpt |-> c, op |-> "empty", key |-> NoKey]
      BY <2>1 DEF Lists, DummiesFirst
    <3>2. m.items[c].op = "empty"
      BY <3>1
    <3> QED  BY <1>2, <3>2
  <2>4. p \in ToWrite(m, c) /\ p < b
    BY <2>1, <2>3, PrevIn
  <2>5. \A i \in ToWrite(m, c) : i < b => i <= p
    <3> DEFINE S == {i \in ToWrite(m, c) : i < b}
    <3>1. m.mutationCounter \in Nat /\ S \in SUBSET (0 .. m.mutationCounter) /\ c \in S
      BY <2>1, <2>3, Positions
    <3>2. \A i \in S : Max(S) >= i
      BY <3>1, MaxNat
    <3>3. \A i \in S : i \in Nat /\ p \in Nat
      BY <2>1, <2>4, Positions
    <3> QED  BY <3>2, <3>3 DEF Prev
  <2> HIDE DEF p
  <2>6. /\ q.items = m.items /\ DOMAIN q.cursors = DOMAIN m.cursors /\ q.cursors[n].pos = p
        /\ \A x \in DOMAIN m.cursors \ {n} : q.cursors[x].pos = m.cursors[x].pos
    <3>1. /\ q.items = m.items
          /\ q.cursors = [m.cursors EXCEPT ![n].offset = @ - 1, ![n].pos = p]
      BY <1>2, <2>1 DEF DecrTapCursorFromCheckpointEnd, Fields, p
    <3> QED  BY <2>1, <3>1 DEF Cursor
  <2> HIDE DEF q
  <2>7. /\ \A i \in DOMAIN m.items : i \in Nat /\ m.items[i].ckpt \in Nat
        /\ \A i, j \in DOMAIN m.items : i <= j => m.items[i].ckpt <= m.items[j].ckpt
    BY <2>1, ItemFacts
  <2>8. p \in DOMAIN m.items /\ m.items[p].ckpt = c
    BY <2>4 DEF ToWrite
  <2>9. ASSUME NEW i \in DOMAIN m.items, m.items[i].key # NoKey
        PROVE  i > p <=> i > b
    <3>1. i # b
      BY <2>2, <2>9
    <3>2. ASSUME i > p, i < b
          PROVE  FALSE
      <4>1. m.items[i].ckpt = c
        BY <2>1, <2>7, <2>8, <3>2
      <4>2. i <= p
        BY <2>5, <3>2, <4>1 DEF ToWrite
      <4> QED  BY <2>7, <2>8, <3>2, <4>2
    <3> QED  BY <2>1, <2>4, <2>7, <2>8, <3>1, <3>2
  <2>10. ASSUME NEW x \in DOMAIN m.cursors, NEW k \in Keys
         PROVE  (\E i \in DOMAIN q.items : i > q.cursors[x].pos /\ q.items[i].key = k)
                  <=> (\E i \in DOMAIN m.items : i > m.cursors[x].pos /\ m.items[i].key = k)
    BY <2>6, <2>9, KeyAssumption
  <2>11. Pending(q) = Pending(m)
    BY <2>6, <2>10 DEF Pending
  <2> QED  BY <2>11 DEF q
<1> QED  BY <1>1, <1>2

(* A cursor in a checkpoint keeps it referenced. *)
LEMMA Referenced ==
    ASSUME NEW m, Good(m), NEW n \in DOMAIN m.cursors
    PROVE  m.list[m.cursors[n].ckpt].refs # 0
<1> DEFINE c == m.cursors[n].ckpt
<1>1. /\ n \in InCheckpoint(m.cursors, c) /\ IsFiniteSet(InCheckpoint(m.cursors, c))
      /\ c \in DOMAIN m.list
  BY GoodParts, FS_Subset DEF InCheckpoint
<1>2. m.list[c].refs = Cardinality(InCheckpoint(m.cursors, c))
  BY <1>1, GoodParts DEF Counts
<1> QED  BY <1>1, <1>2, FS_EmptySet

(* What a cursor has still to read is in referenced checkpoints, or after them. *)
LEMMA UnreadStays ==
    ASSUME NEW m, Good(m), NEW n \in DOMAIN m.cursors,
           NEW i \in DOMAIN m.items, i > m.cursors[n].pos
    PROVE  m.items[i].ckpt \notin UnrefPrefix(m)
<1>1. m.cursors[n].ckpt <= m.items[i].ckpt
  BY CursorFacts, ItemFacts DEF Good
<1>2. m.cursors[n].ckpt \in DOMAIN m.list
  BY CursorFacts
<1> QED  BY <1>1, <1>2, Referenced DEF UnrefPrefix

(* Freeing unreferenced checkpoints takes nothing from anybody. *)
LEMMA RemoveUnrefPending ==
    ASSUME NEW m, Good(m)
    PROVE  Pending(RemoveUnrefPrefix(m)) = Pending(m)
<1> DEFINE gone == UnrefPrefix(m)
           num == SumOver([c \in DOMAIN m.list |-> m.list[c].numItems + 2], gone)
           w == WithoutCheckpoints(m, gone)
           q == RemoveUnrefPrefix(m)
<1>1. DOMAIN m = Fields /\ m.cursors \in [DOMAIN m.cursors -> Cursor]
  BY GoodParts
<1> HIDE DEF gone, num
<1>2. /\ DOMAIN w = Fields /\ w.cursors = m.cursors
      /\ w.items = [i \in {i \in DOMAIN m.items : m.items[i].ckpt \notin gone} |-> m.items[i]]
  BY <1>1 DEF WithoutCheckpoints, Restrict, Fields
<1>3. q = [w EXCEPT !.numItems = @ - num,
                    !.cursors = [n \in DOMAIN @ |->
                       [m.cursors[n] EXCEPT !.offset = DecrOffset(n, @, num)]]]
  BY DEF RemoveUnrefPrefix, gone, num
<1> HIDE DEF w
<1>4. /\ q.items = w.items
      /\ q.cursors = [n \in DOMAIN m.cursors |->
                        [m.cursors[n] EXCEPT !.offset = DecrOffset(n, @, num)]]
  BY <1>2, <1>3 DEF Fields
<1> HIDE DEF q
<1>5. SamePlaces(m, q)
  BY <1>1, <1>4 DEF SamePlaces, Cursor
<1>6. ASSUME NEW n \in DOMAIN m.cursors, NEW k \in Keys
      PROVE  (\E i \in DOMAIN q.items : i > q.cursors[n].pos /\ q.items[i].key = k)
               <=> (\E i \in DOMAIN m.items : i > m.cursors[n].pos /\ m.items[i].key = k)
  <2>1. \A i \in DOMAIN m.items : i > m.cursors[n].pos => m.items[i].ckpt \notin gone
    BY UnreadStays DEF gone
  <2>2. /\ DOMAIN q.items = {i \in DOMAIN m.items : m.items[i].ckpt \notin gone}
        /\ \A i \in DOMAIN q.items : q.items[i] = m.items[i]
    BY <1>2, <1>4
  <2>3. q.cursors[n].pos = m.cursors[n].pos
    BY <1>5 DEF SamePlaces
  <2> QED  BY <2>1, <2>2, <2>3
<1>7. Pending(q) = Pending(m)
  BY <1>5, <1>6 DEF Pending, SamePlaces
<1> QED  BY <1>7 DEF q

(* Nor does moving the cursors that have read a checkpoint to the next one. *)
LEMMA MoveCursorsPending ==
    ASSUME NEW m, Good(m), NEW oldId
    PROVE  Pending(MoveCursorsAtEnd(m, oldId)) = Pending(m)
<1> DEFINE moved == {n \in DOMAIN m.cursors : /\ m.list[m.cursors[n].ckpt].id = oldId
                                              /\ AtEnd(m, n) /\ CanMove(m, n)}
           Target(n) == NextCheckpoint(m, m.cursors[n].ckpt)
           q == MoveCursorsAtEnd(m, oldId)
<1>1. DOMAIN m = Fields /\ m.cursors \in [DOMAIN m.cursors -> Cursor]
  BY GoodParts
<1>2. /\ q.items = m.items
      /\ q.cursors = [n \in DOMAIN m.cursors |->
                        IF n \in moved
                        THEN [m.cursors[n] EXCEPT !.ckpt = Target(n), !.pos = Target(n)]
                        ELSE m.cursors[n]]
  BY <1>1 DEF MoveCursorsAtEnd, Fields
<1>3. \A n \in moved : n \in DOMAIN m.cursors /\ AtEnd(m, n) /\ CanMove(m, n)
  OBVIOUS
<1> HIDE DEF moved, Target, q
<1>4. /\ DOMAIN q.cursors = DOMAIN m.cursors
      /\ \A n \in DOMAIN m.cursors :
           q.cursors[n].pos = IF n \in moved THEN Target(n) ELSE m.cursors[n].pos
  BY <1>1, <1>2 DEF Cursor
<1>5. ASSUME NEW n \in DOMAIN m.cursors, NEW i \in DOMAIN m.items, m.items[i].key # NoKey
      PROVE  i > q.cursors[n].pos <=> i > m.cursors[n].pos
  <2>1. CASE n \in moved
    <3>1. /\ Target(n) \in DOMAIN m.items /\ m.items[Target(n)].key = NoKey
          /\ m.cursors[n].pos < Target(n)
          /\ i > m.cursors[n].pos => i >= Target(n)
      BY <1>3, <2>1, NextDummy DEF Target
    <3>2. i \in Nat /\ Target(n) \in Nat /\ m.cursors[n].pos \in Nat
      BY <3>1, ItemFacts, CursorFacts DEF Good
    <3>3. i # Target(n)
      BY <1>5, <3>1
    <3> QED  BY <1>4, <2>1, <3>1, <3>2, <3>3
  <2>2. CASE n \notin moved
    BY <1>4, <2>2
  <2> QED  BY <2>1, <2>2
<1>6. ASSUME NEW n \in DOMAIN m.cursors, NEW k \in Keys
      PROVE  (\E i \in DOMAIN q.items : i > q.cursors[n].pos /\ q.items[i].key = k)
               <=> (\E i \in DOMAIN m.items : i > m.cursors[n].pos /\ m.items[i].key = k)
  BY <1>2, <1>5, KeyAssumption
<1>7. Pending(q) = Pending(m)
  BY <1>4, <1>6 DEF Pending
<1> QED  BY <1>7 DEF q

(* removeClosedUnrefCheckpoints. *)
LEMMA RemoverPending ==
    ASSUME NEW m, Good(m), NEW mayCreate, NEW forceCreation, NEW elapsed
    PROVE  Pending(RemoveClosedUnrefCheckpoints(m, mayCreate, forceCreation, elapsed)) = Pending(m)
<1> DEFINE oldId == ClosedByRemover(m, mayCreate, forceCreation, elapsed)
           p == IF mayCreate THEN CheckOpenCheckpoint(m, forceCreation, elapsed) ELSE m
           r == IF oldId > 0 THEN MoveCursorsAtEnd(p, oldId) ELSE p
<1>1. Good(p) /\ Pending(p) = Pending(m)
  BY CheckOpenGood, CheckOpenPending
<1> HIDE DEF p, oldId
<1>2. Good(r) /\ Pending(r) = Pending(p)
  BY <1>1, MoveCursorsGood, MoveCursorsPending
<1> HIDE DEF r
<1>3. Pending(RemoveUnrefPrefix(r)) = Pending(r)
  BY <1>2, RemoveUnrefPending
<1> QED  BY <1>1, <1>2, <1>3 DEF RemoveClosedUnrefCheckpoints, r, p, oldId

(* A cursor that is shifted has the same items to read, the erased one apart. *)
LEMMA ShiftPlace ==
    ASSUME NEW m, Good(m), NEW n \in DOMAIN m.cursors, NEW key \in Keys
    PROVE  LET old == Index(m, Back(m), key)
               k   == ShiftCursor(m, n, old)
           IN  /\ k.pos \in Nat /\ k.pos <= m.cursors[n].pos
               /\ \A i \in DOMAIN m.items \ old : i > k.pos <=> i > m.cursors[n].pos
<1> DEFINE c == Back(m)
           old == Index(m, c, key)
           b == m.cursors[n].pos
           k == ShiftCursor(m, n, old)
<1>1. /\ m.cursors[n].ckpt \in DOMAIN m.list /\ b \in DOMAIN m.items /\ b \in Nat
      /\ m.items[b].ckpt = m.cursors[n].ckpt
      /\ b \in ToWrite(m, m.cursors[n].ckpt) /\ m.cursors[n] \in Cursor
  BY CursorFacts, GoodParts
<1>2. /\ \A i \in DOMAIN m.items : i \in Nat /\ m.items[i].ckpt \in Nat
      /\ \A i, j \in DOMAIN m.items : i <= j => m.items[i].ckpt <= m.items[j].ckpt
  BY ItemFacts DEF Good
<1>3. CASE k.pos = b
  BY <1>1, <1>3
<1>4. CASE k.pos # b
  <2>1. m.cursors[n].ckpt = c
    BY <1>4 DEF ShiftCursor
  <2> DEFINE off == IF m.items[b].key # NoKey /\ \E i \in old : i <= b
                    THEN DecrOffset(n, m.cursors[n].offset, 1) ELSE m.cursors[n].offset
             pos == IF b \in old THEN Prev(m, c, b) ELSE b
  <2>2. k = [m.cursors[n] EXCEPT !.offset = off, !.pos = pos]
    BY <2>1 DEF ShiftCursor
  <2> HIDE DEF k, off, pos
  <2>3. k.pos = pos
    BY <1>1, <2>2 DEF Cursor
  <2>4. b \in old /\ k.pos = Prev(m, c, b)
    BY <1>4, <2>3 DEF pos
  <2>5. b # c
    <3>1. m.items[c].key = NoKey /\ m.items[b].key = key
      BY <1>1, <2>1, <2>4, ItemFacts DEF Good, Index
    <3> QED  BY <3>1, KeyAssumption
  <2> DEFINE S == {i \in ToWrite(m, c) : i < b}
  <2>6. c \in DOMAIN m.list /\ Lists(m) /\ b \in ToWrite(m, c)
    BY <1>1, <2>1 DEF Good
  <2>7. m.mutationCounter \in Nat /\ S \in SUBSET (0 .. m.mutationCounter) /\ c \in S
    BY <1>1, <2>5, <2>6, Positions
  <2>8. Max(S) \in S /\ \A i \in S : Max(S) >= i
    BY <2>7, MaxNat
  <2> DEFINE z == Max(S)
  <2>9. k.pos = z
    BY <2>4 DEF Prev
  <2> HIDE DEF z
  <2>10. /\ z \in DOMAIN m.items /\ m.items[z].ckpt = c /\ z < b /\ z \in Nat
         /\ \A i \in DOMAIN m.items : m.items[i].ckpt = c /\ i < b => i <= z
    BY <1>2, <2>8 DEF z, ToWrite
  <2>11. ASSUME NEW i \in DOMAIN m.items \ old
         PROVE  i > z <=> i > b
    <3>1. i # b
      BY <2>4
    <3>2. ASSUME i > z, i < b
          PROVE  FALSE
      <4>1. m.items[i].ckpt = c
        BY <1>1, <1>2, <2>1, <2>10, <3>2
      <4> QED  BY <1>2, <2>10, <3>2, <4>1
    <3> QED  BY <1>1, <1>2, <2>10, <3>1, <3>2
  <2>12. /\ k.pos \in Nat /\ k.pos <= b
         /\ \A i \in DOMAIN m.items \ old : i > k.pos <=> i > b
    BY <1>1, <2>9, <2>10, <2>11
  <2> QED  BY <2>12 DEF k
<1> QED  BY <1>3, <1>4

(* Checkpoint::queueDirty: the key is owed to every cursor, once. *)
LEMMA QueueInOpenPending ==
    ASSUME NEW m, Good(m), NEW key \in Keys
    PROVE  Pending(QueueInOpenCheckpoint(m, key))
             = [n \in DOMAIN m.cursors |-> Pending(m)[n] \cup {key}]
<1> DEFINE c == Back(m)
           old == Index(m, c, key)
           mid == m.mutationCounter + 1
           e == [m EXCEPT !.items = Restrict(@, DOMAIN @ \ old),
                          !.cursors = [n \in DOMAIN @ |-> ShiftCursor(m, n, old)]]
           f == IF old = {} THEN m ELSE e
           p == PushBack(f, c, "mutation", key)
           q == QueueInOpenCheckpoint(m, key)
<1>1. /\ DOMAIN m = Fields /\ m.cursors \in [DOMAIN m.cursors -> Cursor]
      /\ m.mutationCounter \in Nat /\ DOMAIN m.items \subseteq 1 .. m.mutationCounter
  BY GoodParts DEF Lists, IsManager, ItemsInOrder
<1>2. /\ DOMAIN f = Fields /\ f.mutationCounter = m.mutationCounter
      /\ DOMAIN f.items = DOMAIN m.items \ old
      /\ \A i \in DOMAIN f.items : f.items[i] = m.items[i]
      /\ f.cursors = [n \in DOMAIN m.cursors |->
                        IF old = {} THEN m.cursors[n] ELSE ShiftCursor(m, n, old)]
  BY <1>1 DEF Restrict, Fields
<1>3. old \subseteq DOMAIN m.items /\ \A i \in old : m.items[i].key = key /\ m.items[i].ckpt = c
  BY DEF Index, ToWrite
<1>4. \A i, j \in old : i = j
  BY <1>3, KeyAssumption DEF Good, Lists, UniqueKeys
<1>5. /\ q.items = p.items /\ q.cursors = p.cursors
  <2>1. CASE old = {}
    <3>1. q = [p EXCEPT !.list[c].numItems = @ + 1, !.numItems = @ + 1]
      BY <2>1 DEF QueueInOpenCheckpoint
    <3>2. DOMAIN p = Fields
      BY <1>2, PushBackFields
    <3> HIDE DEF p, q
    <3> QED  BY <3>1, <3>2 DEF Fields
  <2>2. CASE old # {}
    BY <2>2 DEF QueueInOpenCheckpoint
  <2> QED  BY <2>1, <2>2
<1> HIDE DEF f, q
<1>6. /\ p.items = [i \in DOMAIN f.items \cup {mid} |->
                      IF i = mid THEN [ckpt |-> c, op |-> "mutation", key |-> key]
                      ELSE f.items[i]]
      /\ p.cursors = f.cursors
  BY <1>2, PushBackFields
<1> HIDE DEF p
<1>7. /\ mid \notin DOMAIN m.items /\ mid \in Nat
      /\ DOMAIN q.items = (DOMAIN m.items \ old) \cup {mid} /\ q.items[mid].key = key
      /\ \A i \in DOMAIN m.items \ old : q.items[i] = m.items[i]
  BY <1>1, <1>2, <1>5, <1>6
<1>8. /\ \A i \in DOMAIN m.items : /\ i \in Nat /\ m.items[i].ckpt \in Nat
                                    /\ m.items[i].key \in Keys \cup {NoKey}
      /\ \A i, j \in DOMAIN m.items : i <= j => m.items[i].ckpt <= m.items[j].ckpt
  BY ItemFacts DEF Good
<1>9. ASSUME NEW n \in DOMAIN m.cursors
      PROVE  /\ q.cursors[n].pos \in Nat /\ q.cursors[n].pos < mid
             /\ \A i \in DOMAIN m.items \ old : i > q.cursors[n].pos <=> i > m.cursors[n].pos
  <2>1. m.cursors[n].pos \in Nat /\ m.cursors[n].pos < mid
    BY <1>1, CursorFacts
  <2>2. q.cursors[n] = IF old = {} THEN m.cursors[n] ELSE ShiftCursor(m, n, old)
    BY <1>2, <1>5, <1>6
  <2>3. CASE old = {}
    BY <2>1, <2>2, <2>3
  <2>4. CASE old # {}
    <3> DEFINE k == ShiftCursor(m, n, old)
    <3>1. /\ k.pos \in Nat /\ k.pos <= m.cursors[n].pos
          /\ \A i \in DOMAIN m.items \ old : i > k.pos <=> i > m.cursors[n].pos
      BY ShiftPlace
    <3>2. q.cursors[n] = k
      BY <2>2, <2>4
    <3> HIDE DEF k, old
    <3> QED  BY <1>7, <2>1, <3>1, <3>2
  <2> QED  BY <2>3, <2>4
<1>10. DOMAIN q.cursors = DOMAIN m.cursors
  BY <1>2, <1>5, <1>6
<1>11. ASSUME NEW n \in DOMAIN m.cursors, NEW k \in Keys
       PROVE  (\E i \in DOMAIN q.items : i > q.cursors[n].pos /\ q.items[i].key = k)
                <=> (\E i \in DOMAIN m.items : i > m.cursors[n].pos /\ m.items[i].key = k) \/ k = key
  <2>1. CASE k = key
    BY <1>7, <1>9, <2>1
  <2>2. CASE k # key
    <3>1. \A i \in DOMAIN m.items : m.items[i].key = k => i \notin old
      BY <1>3, <2>2
    <3> QED  BY <1>7, <1>9, <2>2, <3>1
  <2> QED  BY <2>1, <2>2
<1>12. Pending(q) = [n \in DOMAIN m.cursors |-> Pending(m)[n] \cup {key}]
  <2> DEFINE F(r, n) == {k \in Keys : \E i \in DOMAIN r.items :
                                        i > r.cursors[n].pos /\ r.items[i].key = k}
  <2>1. \A n \in DOMAIN m.cursors : F(q, n) = F(m, n) \cup {key}
    BY <1>11
  <2>2. /\ Pending(q) = [n \in DOMAIN m.cursors |-> F(q, n)]
        /\ Pending(m) = [n \in DOMAIN m.cursors |-> F(m, n)]
    BY <1>10 DEF Pending
  <2> HIDE DEF F
  <2> QED  BY <2>1, <2>2
<1> QED  BY <1>12 DEF q

(* CheckpointManager::queueDirty. *)
LEMMA QueueDirtyPending ==
    ASSUME NEW m, Good(m), NEW key \in Keys, NEW active, NEW slave, NEW elapsed
    PROVE  Pending(QueueDirty(m, key, active, slave, elapsed))
             = [n \in DOMAIN m.cursors |-> Pending(m)[n] \cup {key}]
<1> DEFINE q == QueueInOpenCheckpoint(m, key)
<1>1. Good(q) /\ Pending(q) = [n \in DOMAIN m.cursors |-> Pending(m)[n] \cup {key}]
  BY QueueInOpenGood, QueueInOpenPending
<1> HIDE DEF q
<1>2. Pending(CheckOpenCheckpoint(q, FALSE, elapsed)) = Pending(q)
  BY <1>1, CheckOpenPending
<1> QED  BY <1>1, <1>2 DEF QueueDirty, q

\* Nothing is owed in q that was not owed in m.
OwesLess(m, q) ==
    /\ DOMAIN Pending(q) = DOMAIN Pending(m)
    /\ \A n \in DOMAIN Pending(m) : Pending(q)[n] \subseteq Pending(m)[n]

(* A manager that starts anew has no item with a key. *)
LEMMA StartKeyless ==
    ASSUME NEW id \in Nat, NEW cs, cs \in [DOMAIN cs -> Cursor],
           Persistence \in DOMAIN cs, DOMAIN cs \subseteq Names
    PROVE  LET q == StartManager(id, cs)
           IN  /\ \A i \in DOMAIN q.items : q.items[i].key = NoKey
               /\ DOMAIN q.cursors = DOMAIN cs
               /\ Pending(q) = [n \in DOMAIN cs |-> {}]
<1> DEFINE e == [items |-> [i \in {} |-> 0], list |-> [c \in {} |-> 0],
                 numItems |-> 0, mutationCounter |-> 0, cursors |-> cs]
           r == AddNewCheckpoint(e, id)
           c == Back(r)
           at == [n \in DOMAIN cs |-> [cs[n] EXCEPT !.ckpt = c, !.pos = c, !.offset = 0]]
           q == [r EXCEPT !.list[c].refs = Cardinality(DOMAIN cs), !.cursors = at]
<1>1. Lists(e)
  <2>1. IsManager(e)
    BY DEF IsManager, Fields
  <2>2. /\ ItemsInOrder(e) /\ DummiesFirst(e) /\ UniqueKeys(e)
        /\ KeysOfMutations(e) /\ ClosedBefore(e)
    BY DEF ItemsInOrder, DummiesFirst, UniqueKeys, KeysOfMutations, ClosedBefore
  <2> QED  BY <2>1, <2>2 DEF Lists
<1>2. DOMAIN e.items = {}
  OBVIOUS
<1> HIDE DEF e
<1>3. Keyless(e, r) /\ Lists(r)
  BY <1>1, AddNewKeyless, AddNewLists
<1>4. DOMAIN r = Fields /\ \A i \in DOMAIN r.items : r.items[i].key = NoKey
  BY <1>2, <1>3 DEF Keyless, Lists, IsManager
<1> HIDE DEF r, c
<1>5. q.items = r.items /\ DOMAIN q.cursors = DOMAIN cs
  BY <1>4 DEF Fields
<1>6. StartManager(id, cs) = q
  BY DEF StartManager, q, r, c, e
<1> HIDE DEF q
<1>7. Pending(q) = [n \in DOMAIN cs |-> {}]
  BY <1>4, <1>5, KeyAssumption DEF Pending
<1> QED  BY <1>4, <1>5, <1>6, <1>7

(* A reset leaves nothing to read. *)
LEMMA ClearPending ==
    ASSUME NEW m, Good(m), NEW active
    PROVE  OwesLess(m, Clear(m, active))
<1> DEFINE q == Clear(m, active)
<1>1. /\ m.cursors \in [DOMAIN m.cursors -> Cursor]
      /\ Persistence \in DOMAIN m.cursors /\ DOMAIN m.cursors \subseteq Names
      /\ (IF active THEN 1 ELSE 0) \in Nat
  BY GoodParts
<1>2. Pending(q) = [n \in DOMAIN m.cursors |-> {}]
  BY <1>1, StartKeyless DEF Clear
<1> QED  BY <1>2 DEF OwesLess, Pending

(* A roll-back takes mutations back. *)
LEMMA RollBackPending ==
    ASSUME NEW m, Good(m), NEW id \in Nat
    PROVE  OwesLess(m, RollBack(m, id))
<1> DEFINE gone == RolledBack(m, id)
           num == SumOver([c \in DOMAIN m.list |->
                   m.list[c].numItems + IF m.list[c].state = "closed" THEN 2 ELSE 1], gone)
           v == WithoutCheckpoints(m, gone)
           w == [v EXCEPT !.numItems = @ - num]
           p == AddNewCheckpoint(w, id)
           c == Back(p)
           moved == {n \in DOMAIN m.cursors : m.cursors[n].ckpt \in gone}
           q == RollBack(m, id)
<1>1. /\ DOMAIN m = Fields /\ Lists(m) /\ m.numItems \in Int
      /\ m.list \in [DOMAIN m.list -> Checkpoint]
      /\ m.cursors \in [DOMAIN m.cursors -> Cursor]
  BY GoodParts DEF Counts
<1>2. num \in Nat
  <2> DEFINE f == [x \in DOMAIN m.list |->
                     m.list[x].numItems + IF m.list[x].state = "closed" THEN 2 ELSE 1]
  <2>0. gone \subseteq DOMAIN m.list
    BY DEF RolledBack
  <2>1. IsFiniteSet(gone)
    BY <1>1, <2>0, FiniteCheckpoints
  <2>2. \A x \in gone : f[x] \in Int
    BY <1>1, <2>0 DEF Checkpoint
  <2> HIDE DEF f, gone
  <2>3. SumOver(f, gone) \in Nat
    BY <2>1, <2>2, SumNat
  <2> QED  BY <2>3 DEF f
<1> HIDE DEF num, gone
<1>3. /\ Lists(v) /\ v.numItems = m.numItems /\ v.cursors = m.cursors
      /\ v.items = [i \in {i \in DOMAIN m.items : m.items[i].ckpt \notin gone} |-> m.items[i]]
  <2>1. /\ Lists(v) /\ v.numItems = m.numItems /\ v.cursors = m.cursors
    BY <1>1, WithoutLists
  <2>2. v.items = [i \in {i \in DOMAIN m.items : m.items[i].ckpt \notin gone} |-> m.items[i]]
    BY <1>1 DEF WithoutCheckpoints, Restrict, Fields
  <2> QED  BY <2>1, <2>2
<1> HIDE DEF v
<1>4. Lists(w) /\ w.items = v.items /\ w.cursors = m.cursors
  <2>1. /\ DOMAIN w = Fields /\ w.items = v.items /\ w.list = v.list
        /\ w.mutationCounter = v.mutationCounter /\ w.cursors = v.cursors
        /\ w.numItems = m.numItems - num
    BY <1>3 DEF Lists, IsManager, Fields
  <2> HIDE DEF w
  <2>2. w.numItems \in Int /\ w.cursors \in [DOMAIN v.cursors -> Cursor]
    BY <1>1, <1>2, <1>3, <2>1
  <2>3. Lists(w)
    BY <1>3, <2>1, <2>2, SameLists
  <2> QED  BY <1>3, <2>1, <2>3
<1> HIDE DEF w
<1>5. /\ Lists(p) /\ Grows(w, p) /\ c \notin DOMAIN w.list /\ Keyless(w, p)
      /\ DOMAIN p.list = DOMAIN w.list \cup {c}
  BY <1>4, AddNewLists, AddNewKeyless
<1>6. q = [p EXCEPT !.list[c].refs = @ + Cardinality(moved),
                    !.cursors = [n \in DOMAIN @ |->
                        IF n \in moved
                        THEN [m.cursors[n] EXCEPT !.ckpt = c, !.pos = c, !.offset = p.numItems - 1]
                        ELSE m.cursors[n]]]
  BY DEF RollBack, p, w, v, num, gone
<1> HIDE DEF p, q
<1>7. c \in DOMAIN p.list /\ \A x \in DOMAIN p.list : x <= c
  BY <1>5, BackIn
<1> HIDE DEF c, moved
<1>8. DOMAIN p = Fields /\ p.cursors = m.cursors
  BY <1>4, <1>5 DEF Lists, IsManager, Grows
<1>9. /\ q.items = p.items /\ DOMAIN q.cursors = DOMAIN m.cursors
      /\ \A n \in DOMAIN m.cursors :
           q.cursors[n].pos = IF n \in moved THEN c ELSE m.cursors[n].pos
  <2>1. /\ q.items = p.items
        /\ q.cursors = [n \in DOMAIN m.cursors |->
                          IF n \in moved
                          THEN [m.cursors[n] EXCEPT !.ckpt = c, !.pos = c, !.offset = p.numItems - 1]
                          ELSE m.cursors[n]]
    BY <1>6, <1>8 DEF Fields
  <2> QED  BY <1>1, <2>1 DEF Cursor
<1>10. \A i \in DOMAIN p.items : p.items[i].key # NoKey =>
         i \in DOMAIN m.items /\ i \in DOMAIN w.items /\ p.items[i] = m.items[i]
  <2>1. \A i \in DOMAIN w.items : i \in DOMAIN m.items /\ w.items[i] = m.items[i]
    BY <1>3, <1>4
  <2> QED  BY <1>5, <2>1 DEF Keyless
<1>11. ASSUME NEW i \in DOMAIN w.items
       PROVE  i <= c
  <2>1. /\ i \in DOMAIN p.items /\ p.items[i] = w.items[i] /\ w.items[i].ckpt \in DOMAIN w.list
    BY <1>4, <1>5, ItemFacts DEF Keyless
  <2>2. /\ c \in DOMAIN p.items /\ p.items[c].ckpt = c /\ c \in Nat /\ i \in Nat
        /\ p.items[i].ckpt \in Nat /\ p.items[i].ckpt \in DOMAIN p.list
    BY <1>5, <1>7, <2>1, ItemFacts
  <2>3. p.items[i].ckpt < c
    BY <1>5, <1>7, <2>1, <2>2
  <2>4. c <= i => p.items[c].ckpt <= p.items[i].ckpt
    BY <1>5, <2>1, <2>2, ItemFacts
  <2> QED  BY <2>2, <2>3, <2>4
<1>12. ASSUME NEW n \in DOMAIN m.cursors, NEW i \in DOMAIN q.items, q.items[i].key \in Keys,
              i > q.cursors[n].pos
       PROVE  i \in DOMAIN m.items /\ i > m.cursors[n].pos /\ m.items[i] = q.items[i]
  <2>1. i \in DOMAIN m.items /\ i \in DOMAIN w.items /\ m.items[i] = q.items[i]
    BY <1>9, <1>10, <1>12, KeyAssumption
  <2>2. i <= c /\ i \in Nat /\ c \in Nat
    BY <1>1, <1>5, <1>7, <1>11, <2>1, ItemFacts
  <2>3. n \notin moved
    BY <1>9, <1>12, <2>2
  <2> QED  BY <1>9, <1>12, <2>1, <2>3
<1>13. OwesLess(m, q)
  BY <1>9, <1>12 DEF OwesLess, Pending
<1> QED  BY <1>13 DEF q

\* Cursor n is placed anew in q, and the others do not notice.
Places(m, q, n) ==
    /\ DOMAIN Pending(q) = DOMAIN Pending(m) \cup {n}
    /\ Pending(q)[n] \subseteq Keys
    /\ \A x \in DOMAIN Pending(m) \ {n} : Pending(q)[x] = Pending(m)[x]

(* registerTAPCursor moves no other cursor. *)
LEMMA RegisterPending ==
    ASSUME NEW m, Good(m), NEW n, NEW id, NEW closedOnly, NEW fromBeginning
    PROVE  Places(m, RegisterTAPCursor(m, n, id, closedOnly, fromBeginning), n)
<1> DEFINE q == RegisterTAPCursor(m, n, id, closedOnly, fromBeginning)
<1>1. DOMAIN m = Fields
  BY GoodParts
<1>2. /\ q.items = m.items
      /\ DOMAIN q.cursors = DOMAIN m.cursors \cup {n}
      /\ \A x \in DOMAIN m.cursors \ {n} : q.cursors[x] = m.cursors[x]
  BY <1>1 DEF RegisterTAPCursor, Fields
<1> HIDE DEF q
<1>3. DOMAIN Pending(q) = DOMAIN Pending(m) \cup {n} /\ Pending(q)[n] \subseteq Keys
  BY <1>2 DEF Pending
<1>4. \A x \in DOMAIN Pending(m) \ {n} : Pending(q)[x] = Pending(m)[x]
  BY <1>2 DEF Pending
<1> QED  BY <1>3, <1>4 DEF Places, q

(* removeTAPCursor. *)
LEMMA RemoveTAPPending ==
    ASSUME NEW m, Good(m), NEW n \in DOMAIN m.cursors
    PROVE  Pending(RemoveTAPCursor(m, n)) = [x \in DOMAIN Pending(m) \ {n} |-> Pending(m)[x]]
<1> DEFINE q == RemoveTAPCursor(m, n)
<1>1. DOMAIN m = Fields
  BY GoodParts
<1>2. /\ q.items = m.items
      /\ q.cursors = [x \in DOMAIN m.cursors \ {n} |-> m.cursors[x]]
  BY <1>1 DEF RemoveTAPCursor, Restrict, Fields
<1> HIDE DEF q
<1>3. Pending(q) = [x \in DOMAIN Pending(m) \ {n} |-> Pending(m)[x]]
  BY <1>2 DEF Pending
<1> QED  BY <1>3 DEF q

(* The newest mutation of a key, while some cursor has still to read it, is what the    *)
(* pager's search finds: its checkpoint is searched, and the ones before it hold older  *)
(* mutations of the key only.                                                           *)
LEMMA NewestIsResident ==
    ASSUME NEW m, Good(m), NEW n \in DOMAIN m.cursors,
           NEW i \in DOMAIN m.items, i > m.cursors[n].pos, m.items[i].key # NoKey,
           \A j \in DOMAIN m.items : m.items[j].key = m.items[i].key => j <= i
    PROVE  IsKeyResidentInCheckpoints(m, m.items[i].key, i)
<1> DEFINE k == m.items[i].key
           c == m.items[i].ckpt
           searched == DOMAIN m.list \ UnrefPrefix(m)
<1>1. c \in searched
  BY UnreadStays, ItemFacts DEF Good
<1>2. /\ m.mutationCounter \in Nat /\ DOMAIN m.items \subseteq 1 .. m.mutationCounter
      /\ \A j \in DOMAIN m.items : j \in Nat /\ j > 0
  BY DEF Good, Lists, IsManager, ItemsInOrder
<1>3. ASSUME NEW d, Index(m, d, k) # {}
      PROVE  /\ GetCasForKey(m, d, k) \in DOMAIN m.items
             /\ m.items[GetCasForKey(m, d, k)].ckpt = d
             /\ m.items[GetCasForKey(m, d, k)].key = k
  <2>1. Index(m, d, k) \in SUBSET (0 .. m.mutationCounter)
    BY <1>2 DEF Index, ToWrite
  <2>2. Max(Index(m, d, k)) \in Index(m, d, k)
    BY <1>2, <1>3, <2>1, MaxNat
  <2>3. GetCasForKey(m, d, k) = Max(Index(m, d, k))
    BY <1>3 DEF GetCasForKey
  <2> QED  BY <2>2, <2>3 DEF Index, ToWrite
<1>4. GetCasForKey(m, c, k) = i
  <2>1. i \in Index(m, c, k)
    BY DEF Index, ToWrite
  <2> QED  BY <1>3, <2>1 DEF Good, Lists, UniqueKeys
<1>5. ASSUME NEW d \in searched, d < c
      PROVE  GetCasForKey(m, d, k) < i
  <2>1. CASE Index(m, d, k) = {}
    BY <1>2, <2>1 DEF GetCasForKey
  <2>2. CASE Index(m, d, k) # {}
    <3> DEFINE j == GetCasForKey(m, d, k)
    <3>1. j \in DOMAIN m.items /\ m.items[j].ckpt = d /\ m.items[j].key = k
      BY <1>3, <2>2
    <3>2. c \in Nat /\ d \in Nat
      BY <1>1, <1>5, ItemFacts DEF Good
    <3> HIDE DEF j
    <3>3. j <= i /\ j # i
      BY <1>5, <3>1, <3>2
    <3>4. j < i
      BY <1>2, <3>1, <3>3
    <3> QED  BY <3>4 DEF j
  <2> QED  BY <2>1, <2>2
<1> QED  BY <1>1, <1>4, <1>5 DEF IsKeyResidentInCheckpoints
-----------------------------------------------------------------------------
(* The counts *)

\* The members of T that h puts in c.
Fiber(T, h, c) == {i \in T : h[i] = c}

(* A sum over checkpoints that counts, for each, the members of T that h puts in it, *)
(* counts the members of T.                                                          *)
LEMMA SumCounts ==
    ASSUME NEW T, IsFiniteSet(T), NEW S, NEW h, \A i \in T : h[i] \in S,
           NEW f, \A c \in S : f[c] = Cardinality(Fiber(T, h, c))
    PROVE  SumOver(f, S) = Cardinality(T)
<1> DEFINE D == UNION {{c} \X (1 .. f[c]) : c \in S}
           b == [c \in S |-> CHOOSE g : g \in Bijection(1 .. f[c], Fiber(T, h, c))]
           G == [x \in D |-> b[x[1]][x[2]]]
<1>1. ASSUME NEW c \in S
      PROVE  b[c] \in Bijection(1 .. f[c], Fiber(T, h, c))
  <2>1. IsFiniteSet(Fiber(T, h, c))
    BY FS_Subset DEF Fiber
  <2>2. ExistsBijection(1 .. f[c], Fiber(T, h, c))
    BY <2>1, FS_CardinalityType
  <2>3. \E g : g \in Bijection(1 .. f[c], Fiber(T, h, c))
    BY <2>2 DEF ExistsBijection
  <2> QED  BY <2>3
<1> HIDE DEF b
<1>2. ASSUME NEW c \in S
      PROVE  /\ \A k \in 1 .. f[c] : b[c][k] \in T /\ h[b[c][k]] = c
             /\ \A k, l \in 1 .. f[c] : b[c][k] = b[c][l] => k = l
             /\ \A i \in T : h[i] = c => \E k \in 1 .. f[c] : b[c][k] = i
  <2>1. b[c] \in [1 .. f[c] -> Fiber(T, h, c)]
    BY <1>1 DEF Bijection, Injection
  <2>2. \A k, l \in 1 .. f[c] : b[c][k] = b[c][l] => k = l
    BY <1>1, <2>1 DEF Bijection, Injection, IsInjective
  <2>3. \A i \in Fiber(T, h, c) : \E k \in 1 .. f[c] : b[c][k] = i
    BY <1>1 DEF Bijection, Surjection
  <2> QED  BY <2>1, <2>2, <2>3 DEF Fiber
<1>3. /\ \A x \in D : x[1] \in S /\ x[2] \in 1 .. f[x[1]] /\ x = <<x[1], x[2]>>
      /\ \A c \in S : \A k \in 1 .. f[c] : <<c, k>> \in D
  OBVIOUS
<1> HIDE DEF D
<1>4. G \in [D -> T]
  BY <1>2, <1>3
<1>5. ASSUME NEW x \in D, NEW y \in D, G[x] = G[y]
      PROVE  x = y
  <2>1. b[x[1]][x[2]] = b[y[1]][y[2]]
    BY <1>5
  <2>2. x[1] = y[1]
    BY <1>2, <1>3, <2>1
  <2>3. x[2] = y[2]
    BY <1>2, <1>3, <2>1, <2>2
  <2> QED  BY <1>3, <2>2, <2>3
<1>6. ASSUME NEW i \in T
      PROVE  \E x \in D : G[x] = i
  <2>1. PICK k \in 1 .. f[h[i]] : b[h[i]][k] = i
    BY <1>2
  <2>2. <<h[i], k>> \in D
    BY <1>3
  <2>3. G[<<h[i], k>>] = b[h[i]][k]
    BY <2>2
  <2> QED  BY <2>1, <2>2, <2>3
<1> HIDE DEF G
<1>7. G \in Bijection(D, T)
  BY <1>4, <1>5, <1>6, Fun_IsBij
<1>8. ExistsBijection(D, T)
  BY <1>7 DEF ExistsBijection
<1>9. ExistsBijection(T, D)
  BY <1>8, Fun_ExistsBijSymmetric
<1>10. Cardinality(D) = Cardinality(T)
  BY <1>9, FS_Bijection
<1> QED  BY <1>10 DEF SumOver, D

(* The items of a manager are finitely many. *)
LEMMA FiniteItems ==
    ASSUME NEW m, Lists(m)
    PROVE  IsFiniteSet(DOMAIN m.items)
<1>1. m.mutationCounter \in Nat /\ DOMAIN m.items \subseteq 1 .. m.mutationCounter
  BY DEF Lists, IsManager, ItemsInOrder
<1>2. 1 \in Int /\ m.mutationCounter \in Int
  BY <1>1
<1>3. IsFiniteSet(1 .. m.mutationCounter)
  BY <1>2, FS_Interval
<1> QED  BY <1>1, <1>3, FS_Subset

\* The part of WellFormed about one checkpoint.
Formed(m, c) ==
    /\ Of(m, c, "empty") = {c}
    /\ \E s \in ToWrite(m, c) : /\ Of(m, c, "checkpoint_start") = {s}
                                /\ \A i \in ToWrite(m, c) : i > c => i >= s
    /\ Of(m, c, "checkpoint_end") =
         IF m.list[c].state = "closed" THEN {Max(ToWrite(m, c))} ELSE {}
    /\ \A i \in Of(m, c, "mutation") : m.items[i].key # NoKey
    /\ m.list[c].numItems = Cardinality(Of(m, c, "mutation"))

(* WellFormed is about each checkpoint alone. *)
LEMMA FormedAll ==
    ASSUME NEW m
    PROVE  WellFormed(m) <=> \A c \in DOMAIN m.list : Formed(m, c)
BY DEF WellFormed, Formed

(* A checkpoint of the same items, state and size is as well formed. *)
LEMMA FormedSame ==
    ASSUME NEW m, NEW q, NEW c, Formed(m, c), ToWrite(q, c) = ToWrite(m, c),
           \A i \in ToWrite(m, c) : q.items[i] = m.items[i],
           q.list[c].state = m.list[c].state, q.list[c].numItems = m.list[c].numItems
    PROVE  Formed(q, c)
<1>1. \A op : Of(q, c, op) = Of(m, c, op)
  BY DEF Of
<1>2. \A i \in Of(m, c, "mutation") : i \in ToWrite(m, c)
  BY DEF Of
<1> QED  BY <1>1, <1>2 DEF Formed

\* The counted items in the checkpoints of S.
CountedIn(m, S) == {i \in Counted(m) : m.items[i].ckpt \in S}

(* A checkpoint counts one item more than its mutations, and two when it is closed. *)
LEMMA CheckpointSize ==
    ASSUME NEW m, Lists(m), NEW c \in DOMAIN m.list, Formed(m, c)
    PROVE  Cardinality(CountedIn(m, {c})) =
             m.list[c].numItems + IF m.list[c].state = "closed" THEN 2 ELSE 1
<1> DEFINE M == Of(m, c, "mutation")
           e == Max(ToWrite(m, c))
<1>1. PICK s \in ToWrite(m, c) : Of(m, c, "checkpoint_start") = {s}
  BY DEF Formed
<1>2. \A i \in DOMAIN m.items : m.items[i].op \in Ops
  <2>1. \A i \in DOMAIN m.items : m.items[i] \in Item
    BY DEF Lists, IsManager
  <2> QED  BY <2>1 DEF Item
<1>3. CountedIn(m, {c}) = M \cup Of(m, c, "checkpoint_start") \cup Of(m, c, "checkpoint_end")
  BY <1>2 DEF CountedIn, Counted, Of, ToWrite, Ops
<1>4. IsFiniteSet(M) /\ Cardinality(M) \in Nat
  <2>1. M \in SUBSET DOMAIN m.items
    BY DEF Of, ToWrite
  <2> QED  BY <2>1, FiniteItems, FS_Subset, FS_CardinalityType
<1>5. m.list[c].numItems = Cardinality(M)
  BY DEF Formed
<1>6. s \notin M /\ IsFiniteSet(M \cup {s}) /\ Cardinality(M \cup {s}) = Cardinality(M) + 1
  <2>1. s \in Of(m, c, "checkpoint_start")
    BY <1>1
  <2>2. s \notin M
    BY <2>1 DEF Of
  <2> HIDE DEF M
  <2> QED  BY <1>4, <2>2, FS_AddElement
<1>7. CASE m.list[c].state = "closed"
  <2>1. Of(m, c, "checkpoint_end") = {e}
    BY <1>7 DEF Formed
  <2>2. e \notin M /\ e # s
    <3>1. e \in Of(m, c, "checkpoint_end") /\ s \in Of(m, c, "checkpoint_start")
      BY <1>1, <2>1
    <3> HIDE DEF e
    <3> QED  BY <3>1 DEF Of
  <2> HIDE DEF M, e
  <2>2a. e \notin M \cup {s}
    BY <2>2
  <2>2b. Cardinality((M \cup {s}) \cup {e}) = Cardinality(M \cup {s}) + 1
    BY <1>6, <2>2a, FS_AddElement
  <2>3. Cardinality((M \cup {s}) \cup {e}) = Cardinality(M) + 2
    BY <1>4, <1>6, <2>2b
  <2>4. CountedIn(m, {c}) = (M \cup {s}) \cup {e}
    BY <1>1, <1>3, <2>1
  <2> QED  BY <1>5, <1>7, <2>3, <2>4
<1>8. CASE m.list[c].state # "closed"
  <2>1. Of(m, c, "checkpoint_end") = {}
    BY <1>8 DEF Formed
  <2>2. CountedIn(m, {c}) = M \cup {s}
    BY <1>1, <1>3, <2>1
  <2> HIDE DEF M
  <2> QED  BY <1>5, <1>6, <1>8, <2>2
<1> QED  BY <1>7, <1>8

(* So a sum of these sizes counts the items of several checkpoints. *)
LEMMA SizesCount ==
    ASSUME NEW m, Lists(m), WellFormed(m), NEW S \in SUBSET DOMAIN m.list, NEW f,
           \A c \in S : f[c] = m.list[c].numItems + IF m.list[c].state = "closed" THEN 2 ELSE 1
    PROVE  SumOver(f, S) = Cardinality(CountedIn(m, S))
<1> DEFINE T == CountedIn(m, S)
           h == [i \in DOMAIN m.items |-> m.items[i].ckpt]
<1>1. IsFiniteSet(T)
  <2>1. T \in SUBSET DOMAIN m.items
    BY DEF CountedIn, Counted
  <2> QED  BY <2>1, FiniteItems, FS_Subset
<1>2. \A i \in T : h[i] \in S /\ i \in DOMAIN m.items
  BY DEF CountedIn, Counted
<1>3. ASSUME NEW c \in S
      PROVE  f[c] = Cardinality(Fiber(T, h, c))
  <2>1. Fiber(T, h, c) = CountedIn(m, {c})
    BY DEF CountedIn, Counted, Fiber
  <2>2. Formed(m, c)
    BY FormedAll
  <2> QED  BY <2>1, <2>2, CheckpointSize
<1> HIDE DEF T, h
<1>3a. (\A i \in T : h[i] \in S) /\ \A c \in S : f[c] = Cardinality(Fiber(T, h, c))
  BY <1>2, <1>3
<1>4. SumOver(f, S) = Cardinality(T)
  BY <1>1, <1>3a, SumCounts
<1> QED  BY <1>4 DEF T

(* Max is the element that all the others are at most. *)
LEMMA MaxIs ==
    ASSUME NEW S \in SUBSET Nat, NEW x \in S, \A y \in S : y <= x
    PROVE  Max(S) = x
<1> DEFINE M == CHOOSE y \in S : \A z \in S : y >= z
<1>1. M \in S /\ \A z \in S : M >= z
  OBVIOUS
<1>2. M = Max(S)
  BY DEF Max
<1> HIDE DEF M
<1> QED  BY <1>1, <1>2

(* The counted items are finitely many. *)
LEMMA FiniteCounted ==
    ASSUME NEW m, Lists(m)
    PROVE  /\ IsFiniteSet(Counted(m)) /\ Cardinality(Counted(m)) \in Nat
           /\ \A c, op : /\ IsFiniteSet(Of(m, c, op)) /\ Cardinality(Of(m, c, op)) \in Nat
           /\ \A n : /\ IsFiniteSet(ReadBy(m, n)) /\ Cardinality(ReadBy(m, n)) \in Nat
<1>1. IsFiniteSet(DOMAIN m.items)
  BY FiniteItems
<1>2. ASSUME NEW S \in SUBSET DOMAIN m.items
      PROVE  IsFiniteSet(S) /\ Cardinality(S) \in Nat
  BY <1>1, FS_Subset, FS_CardinalityType
<1>3. Counted(m) \in SUBSET DOMAIN m.items /\ \A n : ReadBy(m, n) \in SUBSET DOMAIN m.items
  BY DEF Counted, ReadBy
<1>4. \A c, op : Of(m, c, op) \in SUBSET DOMAIN m.items
  BY DEF Of, ToWrite
<1> QED  BY <1>2, <1>3, <1>4

\* q has one item more than m.
Pushed(m, q, mid, c, op, key) ==
    /\ mid \notin DOMAIN m.items
    /\ q.items = [i \in DOMAIN m.items \cup {mid} |->
                    IF i = mid THEN [ckpt |-> c, op |-> op, key |-> key] ELSE m.items[i]]

(* What a new item adds to. *)
LEMMA PushOf ==
    ASSUME NEW m, NEW q, NEW mid, NEW c, NEW op, NEW key, Pushed(m, q, mid, c, op, key)
    PROVE  /\ q.items[mid].key = key /\ \A i \in DOMAIN m.items : q.items[i] = m.items[i]
           /\ ToWrite(q, c) = ToWrite(m, c) \cup {mid}
           /\ \A d : d # c => ToWrite(q, d) = ToWrite(m, d)
           /\ Of(q, c, op) = Of(m, c, op) \cup {mid}
           /\ \A o : o # op => Of(q, c, o) = Of(m, c, o)
           /\ Counted(q) = IF op = "empty" THEN Counted(m) ELSE Counted(m) \cup {mid}
<1>1. /\ DOMAIN q.items = DOMAIN m.items \cup {mid}
      /\ q.items[mid] = [ckpt |-> c, op |-> op, key |-> key]
      /\ \A i \in DOMAIN m.items : q.items[i] = m.items[i]
  BY DEF Pushed
<1>2. q.items[mid].ckpt = c /\ q.items[mid].op = op /\ q.items[mid].key = key
  BY <1>1
<1>3. /\ ToWrite(q, c) = ToWrite(m, c) \cup {mid}
      /\ \A d : d # c => ToWrite(q, d) = ToWrite(m, d)
  BY <1>1, <1>2 DEF ToWrite
<1>4. /\ Of(q, c, op) = Of(m, c, op) \cup {mid}
      /\ \A o : o # op => Of(q, c, o) = Of(m, c, o)
  BY <1>1, <1>2 DEF ToWrite, Of
<1>5. Counted(q) = IF op = "empty" THEN Counted(m) ELSE Counted(m) \cup {mid}
  BY <1>1, <1>2 DEF Counted
<1> QED  BY <1>1, <1>2, <1>3, <1>4, <1>5

\* What Exact says beside the cursors.
Tallied(m) == WellFormed(m) /\ NumItemsExact(m)

(* Growing leaves what is left of a cursor. *)
LEMMA GrowsOffset ==
    ASSUME NEW m, NEW q, Lists(m), Lists(q), Grows(m, q), NEW n \in DOMAIN m.cursors,
           m.cursors[n].pos \in DOMAIN m.items, OffsetExact(m, n)
    PROVE  OffsetExact(q, n)
<1>1. /\ m.mutationCounter \in Nat /\ DOMAIN m.items \subseteq 1 .. m.mutationCounter
      /\ DOMAIN q.items \subseteq Nat \ {0}
  BY DEF Lists, IsManager, ItemsInOrder
<1>2. q.cursors = m.cursors
  BY DEF Grows
<1>3. ASSUME NEW i \in DOMAIN q.items, i <= m.cursors[n].pos
      PROVE  i \in DOMAIN m.items
  <2>1. i \in 1 .. m.mutationCounter
    BY <1>1, <1>3
  <2> QED  BY <2>1 DEF Grows
<1>4. ReadBy(q, n) = ReadBy(m, n)
  BY <1>2, <1>3 DEF ReadBy, Counted, Grows
<1> QED  BY <1>2, <1>4 DEF OffsetExact

(* A manager that grows keeps its offsets exact. *)
LEMMA GrowsExact ==
    ASSUME NEW m, NEW q, Good(m), Exact(m), Lists(q), Grows(m, q), Tallied(q)
    PROVE  Exact(q)
<1>1. ASSUME NEW n \in DOMAIN m.cursors
      PROVE  OffsetExact(q, n)
  <2>1. m.cursors[n].pos \in DOMAIN m.items
    BY CursorFacts
  <2> QED  BY <2>1, GrowsOffset DEF Good, Exact
<1> QED  BY <1>1 DEF Grows, Exact, Tallied

(* closeOpenCheckpoint counts the end item it pushes. *)
LEMMA CloseTallied ==
    ASSUME NEW m, Lists(m), DOMAIN m.list # {}, Tallied(m), NEW id
    PROVE  Tallied(CloseOpenCheckpoint(m, id))
<1> DEFINE c == Back(m)
           p == PushBack(m, c, "checkpoint_end", NoKey)
           q == [p EXCEPT !.numItems = @ + 1, !.list[c].state = "closed"]
           mid == m.mutationCounter + 1
<1>1. /\ c \in DOMAIN m.list /\ DOMAIN m = Fields /\ m.mutationCounter \in Nat
      /\ DOMAIN m.items \subseteq 1 .. m.mutationCounter /\ m.numItems \in Int
      /\ m.list \in [DOMAIN m.list -> Checkpoint]
  BY BackIn DEF Lists, IsManager, ItemsInOrder
<1>2. mid \notin DOMAIN m.items /\ mid \in Nat /\ \A i \in DOMAIN m.items : i < mid /\ i \in Nat
  BY <1>1
<1> HIDE DEF c
<1>3. /\ DOMAIN p = Fields /\ p.list = m.list /\ p.numItems = m.numItems
      /\ p.items = [i \in DOMAIN m.items \cup {mid} |->
                      IF i = mid THEN [ckpt |-> c, op |-> "checkpoint_end", key |-> NoKey]
                      ELSE m.items[i]]
  BY <1>1, PushBackFields
<1> HIDE DEF p
<1>4. /\ q.items = p.items /\ q.numItems = m.numItems + 1
      /\ q.list = [m.list EXCEPT ![c].state = "closed"]
  BY <1>3 DEF Fields
<1> HIDE DEF q, mid
<1>5. /\ \A i \in DOMAIN m.items : q.items[i] = m.items[i]
      /\ ToWrite(q, c) = ToWrite(m, c) \cup {mid}
      /\ \A d : d # c => ToWrite(q, d) = ToWrite(m, d)
      /\ Of(q, c, "checkpoint_end") = Of(m, c, "checkpoint_end") \cup {mid}
      /\ \A o : o # "checkpoint_end" => Of(q, c, o) = Of(m, c, o)
      /\ Counted(q) = Counted(m) \cup {mid}
  <2>1. Pushed(m, q, mid, c, "checkpoint_end", NoKey)
    BY <1>2, <1>3, <1>4 DEF Pushed
  <2> QED  BY <2>1, PushOf
<1>6. ASSUME m.list[c].state # "closed"
      PROVE  Tallied(q)
  <2>1. NumItemsExact(q)
    <3>1. mid \notin Counted(m)
      BY <1>2 DEF Counted
    <3>2. Cardinality(Counted(m) \cup {mid}) = Cardinality(Counted(m)) + 1
      BY <3>1, FiniteCounted, FS_AddElement
    <3> QED  BY <1>4, <1>5, <3>2 DEF NumItemsExact, Tallied
  <2>2. /\ DOMAIN q.list = DOMAIN m.list /\ q.list[c].state = "closed"
        /\ q.list[c].numItems = m.list[c].numItems
        /\ \A d \in DOMAIN m.list : d # c => q.list[d] = m.list[d]
    BY <1>1, <1>4 DEF Checkpoint
  <2>3. Formed(q, c)
    <3>1. Formed(m, c)
      BY <1>1, FormedAll DEF Tallied
    <3>2. ToWrite(m, c) \subseteq DOMAIN m.items
      BY DEF ToWrite
    <3>3. Of(q, c, "checkpoint_end") = {mid}
      BY <1>5, <1>6, <3>1 DEF Formed
    <3>4. Max(ToWrite(q, c)) = mid
      <4>1. /\ ToWrite(q, c) \in SUBSET Nat /\ mid \in ToWrite(q, c)
            /\ \A i \in ToWrite(q, c) : i <= mid
        BY <1>2, <1>5, <3>2
      <4> QED  BY <4>1, MaxIs
    <3>5. \E s \in ToWrite(q, c) : /\ Of(q, c, "checkpoint_start") = {s}
                                   /\ \A i \in ToWrite(q, c) : i > c => i >= s
      <4>1. PICK s \in ToWrite(m, c) : /\ Of(m, c, "checkpoint_start") = {s}
                                       /\ \A i \in ToWrite(m, c) : i > c => i >= s
        BY <3>1 DEF Formed
      <4>2. s \in DOMAIN m.items
        BY <3>2
      <4> QED  BY <1>2, <1>5, <4>1, <4>2
    <3>6. \A i \in Of(q, c, "mutation") : q.items[i].key # NoKey
      <4>1. Of(m, c, "mutation") \subseteq DOMAIN m.items
        BY DEF Of, ToWrite
      <4> QED  BY <1>5, <3>1, <4>1 DEF Formed
    <3> QED  BY <1>5, <2>2, <3>1, <3>3, <3>4, <3>5, <3>6 DEF Formed
  <2>4. ASSUME NEW d \in DOMAIN m.list, d # c
        PROVE  Formed(q, d)
    <3>1. Formed(m, d)
      BY FormedAll DEF Tallied
    <3>2. \A i \in ToWrite(m, d) : q.items[i] = m.items[i]
      BY <1>5 DEF ToWrite
    <3> QED  BY <1>5, <2>2, <2>4, <3>1, <3>2, FormedSame
  <2> QED  BY <2>1, <2>2, <2>3, <2>4, FormedAll DEF Tallied
<1>7. CASE id # m.list[c].id \/ m.list[c].state = "closed"
  <2>1. CloseOpenCheckpoint(m, id) = m
    BY <1>7 DEF CloseOpenCheckpoint, c
  <2> QED  BY <2>1
<1>8. CASE ~(id # m.list[c].id \/ m.list[c].state = "closed")
  <2>1. CloseOpenCheckpoint(m, id) = q
    BY <1>8 DEF CloseOpenCheckpoint, c, q, p
  <2> QED  BY <1>6, <1>8, <2>1
<1> QED  BY <1>7, <1>8

(* A checkpoint that is appended counts its start item. *)
LEMMA AppendTallied ==
    ASSUME NEW m, Lists(m), NEW id \in Nat, Tallied(m)
    PROVE  Tallied(AppendCheckpoint(m, id))
<1> DEFINE q == AppendCheckpoint(m, id)
           c == m.mutationCounter + 1
           d == c + 1
           p == PushBack(m, c, "empty", NoKey)
           r == PushBack(p, c, "checkpoint_start", NoKey)
           ck == [id |-> id, state |-> "opened", refs |-> 0, numItems |-> 0]
<1>1. /\ DOMAIN p = Fields /\ p.mutationCounter = c
      /\ p.items = [i \in DOMAIN m.items \cup {c} |->
                      IF i = c THEN [ckpt |-> c, op |-> "empty", key |-> NoKey] ELSE m.items[i]]
      /\ p.list = m.list /\ p.numItems = m.numItems
  BY PushBackFields DEF Lists, IsManager
<1>2. /\ DOMAIN r = Fields /\ r.numItems = p.numItems
      /\ r.items = [i \in DOMAIN p.items \cup {d} |->
                      IF i = d THEN [ckpt |-> c, op |-> "checkpoint_start", key |-> NoKey]
                      ELSE p.items[i]]
  BY <1>1, PushBackFields
<1>3. q = [r EXCEPT !.numItems = @ + 1,
                    !.list = [x \in DOMAIN m.list \cup {c} |-> IF x = c THEN ck ELSE m.list[x]]]
  BY DEF AppendCheckpoint
<1> HIDE DEF p, r, q
<1>4. /\ c \in Nat /\ d \in Nat /\ c < d /\ c \notin DOMAIN m.items /\ d \notin DOMAIN m.items
      /\ \A i \in DOMAIN m.items : i < c /\ i \in Nat
  BY DEF Lists, IsManager, ItemsInOrder
<1>5. c \notin DOMAIN m.list
  BY <1>4 DEF Lists, DummiesFirst
<1>6. /\ q.items = r.items /\ q.numItems = m.numItems + 1
      /\ q.list = [x \in DOMAIN m.list \cup {c} |-> IF x = c THEN ck ELSE m.list[x]]
  BY <1>1, <1>2, <1>3 DEF Fields
<1> HIDE DEF c, d
<1>7. /\ DOMAIN q.list = DOMAIN m.list \cup {c}
      /\ q.list[c].state = "opened" /\ q.list[c].numItems = 0
      /\ \A x \in DOMAIN m.list : q.list[x] = m.list[x]
  <2>1. q.list[c] = ck
    BY <1>6
  <2>2. ck.state = "opened" /\ ck.numItems = 0
    OBVIOUS
  <2> QED  BY <1>5, <1>6, <2>1, <2>2
<1>8. Pushed(m, p, c, c, "empty", NoKey)
  BY <1>1, <1>4 DEF Pushed
<1>9. Pushed(p, q, d, c, "checkpoint_start", NoKey)
  <2>1. DOMAIN p.items = DOMAIN m.items \cup {c}
    BY <1>1
  <2>2. d \notin DOMAIN p.items
    BY <1>4, <2>1
  <2> QED  BY <1>2, <1>6, <2>2 DEF Pushed
<1>10. /\ ToWrite(m, c) = {} /\ \A o : Of(m, c, o) = {}
  BY <1>5 DEF Lists, ItemsInOrder, ToWrite, Of
<1>11. /\ ToWrite(p, c) = {c} /\ Of(p, c, "empty") = {c}
       /\ \A o : o # "empty" => Of(p, c, o) = {}
       /\ Counted(p) = Counted(m)
       /\ \A x \in DOMAIN m.list : ToWrite(p, x) = ToWrite(m, x)
       /\ \A i \in DOMAIN m.items : p.items[i] = m.items[i]
       /\ DOMAIN p.items = DOMAIN m.items \cup {c}
  <2>1. DOMAIN p.items = DOMAIN m.items \cup {c}
    BY <1>8 DEF Pushed
  <2> QED  BY <1>5, <1>8, <1>10, <2>1, PushOf
<1>12. /\ ToWrite(q, c) = {c, d} /\ Of(q, c, "empty") = {c} /\ Of(q, c, "checkpoint_start") = {d}
       /\ Of(q, c, "checkpoint_end") = {} /\ Of(q, c, "mutation") = {}
       /\ Counted(q) = Counted(m) \cup {d}
       /\ \A x \in DOMAIN m.list : ToWrite(q, x) = ToWrite(m, x)
       /\ \A i \in DOMAIN m.items : q.items[i] = m.items[i]
  <2>1. /\ ToWrite(q, c) = ToWrite(p, c) \cup {d}
        /\ \A x : x # c => ToWrite(q, x) = ToWrite(p, x)
        /\ Of(q, c, "checkpoint_start") = Of(p, c, "checkpoint_start") \cup {d}
        /\ \A o : o # "checkpoint_start" => Of(q, c, o) = Of(p, c, o)
        /\ Counted(q) = Counted(p) \cup {d}
        /\ \A i \in DOMAIN p.items : q.items[i] = p.items[i]
    BY <1>9, PushOf
  <2> QED  BY <1>5, <1>11, <2>1
<1>13. NumItemsExact(q)
  <2>1. d \notin Counted(m)
    BY <1>4 DEF Counted
  <2>2. Cardinality(Counted(m) \cup {d}) = Cardinality(Counted(m)) + 1
    BY <2>1, FiniteCounted, FS_AddElement
  <2> QED  BY <1>6, <1>12, <2>2 DEF NumItemsExact, Tallied
<1>14. Formed(q, c)
  <2>1. d \in ToWrite(q, c) /\ \A i \in ToWrite(q, c) : i > c => i >= d
    BY <1>4, <1>12
  <2>2. Cardinality(Of(q, c, "mutation")) = 0
    BY <1>12, FS_EmptySet
  <2> QED  BY <1>7, <1>12, <2>1, <2>2 DEF Formed
<1>15. ASSUME NEW x \in DOMAIN m.list
       PROVE  Formed(q, x)
  <2>1. Formed(m, x)
    BY FormedAll DEF Tallied
  <2>2. \A i \in ToWrite(m, x) : q.items[i] = m.items[i]
    BY <1>12 DEF ToWrite
  <2> QED  BY <1>7, <1>12, <2>1, <2>2, FormedSame
<1>16. Tallied(q)
  BY <1>7, <1>13, <1>14, <1>15, FormedAll DEF Tallied
<1> QED  BY <1>16 DEF q

(* addNewCheckpoint. *)
LEMMA AddNewTallied ==
    ASSUME NEW m, Lists(m), NEW id \in Nat, Tallied(m)
    PROVE  Tallied(AddNewCheckpoint(m, id))
<1> DEFINE p == CloseOpenCheckpoint(m, m.list[Back(m)].id)
<1>1. CASE DOMAIN m.list # {} /\ m.list[Back(m)].state = "opened"
  <2>1. Lists(p) /\ Tallied(p)
    BY <1>1, CloseLists, CloseTallied
  <2>2. AddNewCheckpoint(m, id) = AppendCheckpoint(p, id)
    BY <1>1 DEF AddNewCheckpoint
  <2> HIDE DEF p
  <2> QED  BY <2>1, <2>2, AppendTallied
<1>2. CASE ~(DOMAIN m.list # {} /\ m.list[Back(m)].state = "opened")
  <2>1. AddNewCheckpoint(m, id) = AppendCheckpoint(m, id)
    BY <1>2 DEF AddNewCheckpoint
  <2> QED  BY <2>1, AppendTallied
<1> QED  BY <1>1, <1>2

(* closeOpenCheckpoint keeps every count exact. *)
LEMMA CloseExact ==
    ASSUME NEW m, Good(m), Exact(m), NEW id
    PROVE  Exact(CloseOpenCheckpoint(m, id))
<1> DEFINE q == CloseOpenCheckpoint(m, id)
<1>1. Lists(m) /\ DOMAIN m.list # {} /\ Tallied(m)
  BY DEF Good, Exact, Tallied
<1>2. Lists(q) /\ Grows(m, q) /\ Tallied(q)
  BY <1>1, CloseLists, CloseTallied
<1> HIDE DEF q
<1>3. Exact(q)
  BY <1>2, GrowsExact
<1> QED  BY <1>3 DEF q

(* So does addNewCheckpoint. *)
LEMMA AddNewExact ==
    ASSUME NEW m, Good(m), Exact(m), NEW id \in Nat
    PROVE  Exact(AddNewCheckpoint(m, id))
<1> DEFINE q == AddNewCheckpoint(m, id)
<1>1. Lists(m) /\ Tallied(m)
  BY DEF Good, Exact, Tallied
<1>2. Lists(q) /\ Grows(m, q) /\ Tallied(q)
  BY <1>1, AddNewLists, AddNewTallied
<1> HIDE DEF q
<1>3. Exact(q)
  BY <1>2, GrowsExact
<1> QED  BY <1>3 DEF q

(* So does checkOpenCheckpoint. *)
LEMMA CheckOpenExact ==
    ASSUME NEW m, Good(m), Exact(m), NEW forceCreation, NEW elapsed
    PROVE  Exact(CheckOpenCheckpoint(m, forceCreation, elapsed))
<1> DEFINE id == m.list[Back(m)].id
<1>1. id + 1 \in Nat
  BY BackIn DEF Good, Lists, IsManager, Checkpoint
<1>2. Good(CloseOpenCheckpoint(m, id)) /\ Exact(CloseOpenCheckpoint(m, id))
  BY CloseGood, CloseExact
<1>3. Exact(AddNewCheckpoint(CloseOpenCheckpoint(m, id), id + 1))
  BY <1>1, <1>2, AddNewExact
<1> QED  BY <1>3 DEF CheckOpenCheckpoint

\* The same checkpoints, of the same states and sizes.
SameShape(list, other) ==
    /\ DOMAIN other = DOMAIN list
    /\ \A c \in DOMAIN list : /\ other[c].state = list[c].state
                              /\ other[c].numItems = list[c].numItems

(* The counts that are not about cursors depend on the items and these only. *)
LEMMA SameTallied ==
    ASSUME NEW m, NEW q, Tallied(m), q.items = m.items, q.numItems = m.numItems,
           SameShape(m.list, q.list)
    PROVE  Tallied(q)
<1>1. ASSUME NEW c \in DOMAIN m.list
      PROVE  Formed(q, c)
  <2>1. Formed(m, c) /\ ToWrite(q, c) = ToWrite(m, c)
    BY FormedAll DEF Tallied, ToWrite
  <2> QED  BY <2>1, FormedSame DEF SameShape
<1>2. NumItemsExact(q)
  BY DEF Tallied, NumItemsExact, Counted
<1> QED  BY <1>1, <1>2, FormedAll DEF Tallied, SameShape

(* So all counts are exact when each cursor is where it was, or right where it is. *)
LEMMA SameExact ==
    ASSUME NEW m, NEW q, Exact(m), q.items = m.items, q.numItems = m.numItems,
           SameShape(m.list, q.list),
           \A n \in DOMAIN q.cursors :
             \/ /\ n \in DOMAIN m.cursors /\ q.cursors[n].pos = m.cursors[n].pos
                /\ q.cursors[n].offset = m.cursors[n].offset
             \/ OffsetExact(q, n)
    PROVE  Exact(q)
<1>1. Tallied(q)
  BY SameTallied DEF Exact, Tallied
<1>2. ASSUME NEW n \in DOMAIN m.cursors, q.cursors[n].pos = m.cursors[n].pos,
             q.cursors[n].offset = m.cursors[n].offset
      PROVE  OffsetExact(q, n)
  <2>1. ReadBy(q, n) = ReadBy(m, n)
    BY <1>2 DEF ReadBy, Counted
  <2> QED  BY <1>2, <2>1 DEF Exact, OffsetExact
<1>3. \A n \in DOMAIN q.cursors : OffsetExact(q, n)
  BY <1>2
<1> QED  BY <1>1, <1>3 DEF Exact, Tallied

(* setOpenCheckpointId. *)
LEMMA SetIdExact ==
    ASSUME NEW m, Good(m), Exact(m), NEW id
    PROVE  Exact(SetOpenCheckpointId(m, id))
<1> DEFINE c == Back(m)
           q == [m EXCEPT !.list[c].id = id]
<1>1. /\ DOMAIN m = Fields /\ m.list \in [DOMAIN m.list -> Checkpoint] /\ c \in DOMAIN m.list
  BY BackIn DEF Good, Lists, IsManager
<1> HIDE DEF c
<1>2. /\ q.items = m.items /\ q.cursors = m.cursors /\ q.numItems = m.numItems
      /\ q.list = [m.list EXCEPT ![c].id = id]
  BY <1>1 DEF Fields
<1>3. SameShape(m.list, q.list)
  BY <1>1, <1>2 DEF SameShape, Checkpoint
<1> HIDE DEF q
<1>4. Exact(q)
  BY <1>2, <1>3, SameExact
<1> QED  BY <1>4 DEF SetOpenCheckpointId, q, c

(* A manager with one checkpoint, at whose begin the cursors have read nothing. *)
LEMMA StartExact ==
    ASSUME NEW id \in Nat, NEW cs, cs \in [DOMAIN cs -> Cursor],
           Persistence \in DOMAIN cs, DOMAIN cs \subseteq Names
    PROVE  Exact(StartManager(id, cs))
<1> DEFINE e == [items |-> [i \in {} |-> 0], list |-> [c \in {} |-> 0],
                 numItems |-> 0, mutationCounter |-> 0, cursors |-> cs]
           m == AddNewCheckpoint(e, id)
           c == Back(m)
           at == [n \in DOMAIN cs |-> [cs[n] EXCEPT !.ckpt = c, !.pos = c, !.offset = 0]]
           q == [m EXCEPT !.list[c].refs = Cardinality(DOMAIN cs), !.cursors = at]
<1>1. Lists(e)
  <2>1. IsManager(e)
    BY DEF IsManager, Fields
  <2>2. /\ ItemsInOrder(e) /\ DummiesFirst(e) /\ UniqueKeys(e)
        /\ KeysOfMutations(e) /\ ClosedBefore(e)
    BY DEF ItemsInOrder, DummiesFirst, UniqueKeys, KeysOfMutations, ClosedBefore
  <2> QED  BY <2>1, <2>2 DEF Lists
<1>2. DOMAIN e.items = {} /\ DOMAIN e.list = {} /\ e.cursors = cs /\ e.numItems = 0
  OBVIOUS
<1> HIDE DEF e
<1>3. Tallied(e)
  <2>1. Counted(e) = {}
    BY <1>2 DEF Counted
  <2> QED  BY <1>2, <2>1, FS_EmptySet DEF Tallied, WellFormed, NumItemsExact
<1>4. Lists(m) /\ DOMAIN m.list = {c} /\ m.cursors = cs /\ Tallied(m)
  BY <1>1, <1>2, <1>3, AddNewLists, AddNewTallied DEF Grows
<1> HIDE DEF m, c
<1>5. /\ q.items = m.items /\ q.numItems = m.numItems /\ q.cursors = at
      /\ q.list = [m.list EXCEPT ![c].refs = Cardinality(DOMAIN cs)]
      /\ m.list \in [DOMAIN m.list -> Checkpoint]
  BY <1>4 DEF Lists, IsManager, Fields
<1>6. SameShape(m.list, q.list)
  BY <1>4, <1>5 DEF SameShape, Checkpoint
<1>7. ASSUME NEW n \in DOMAIN cs
      PROVE  at[n].pos = c /\ at[n].offset = 0
  <2>1. at[n] = [cs[n] EXCEPT !.ckpt = c, !.pos = c, !.offset = 0] /\ cs[n] \in Cursor
    OBVIOUS
  <2> HIDE DEF at
  <2> QED  BY <2>1 DEF Cursor
<1> HIDE DEF q
<1>8. Tallied(q)
  BY <1>4, <1>5, <1>6, SameTallied
<1>9. ASSUME NEW n \in DOMAIN q.cursors
      PROVE  OffsetExact(q, n)
  <2>1. n \in DOMAIN cs /\ q.cursors[n].pos = c /\ q.cursors[n].offset = 0
    BY <1>5, <1>7
  <2>2. ASSUME NEW i \in DOMAIN m.items, i <= c
        PROVE  m.items[i].op = "empty"
    <3>1. m.items[i].ckpt = c /\ i >= c /\ i \in Nat /\ c \in Nat
      BY <1>4, ItemFacts
    <3>2. i = c
      BY <2>2, <3>1
    <3>3. m.items[c] = [ckpt |-> c, op |-> "empty", key |-> NoKey]
      BY <1>4 DEF Lists, DummiesFirst
    <3> QED  BY <3>2, <3>3
  <2>3. ReadBy(q, n) = {}
    BY <1>5, <2>1, <2>2 DEF ReadBy, Counted
  <2> QED  BY <2>1, <2>3, FS_EmptySet DEF OffsetExact
<1>10. Exact(q)
  BY <1>8, <1>9 DEF Exact, Tallied
<1>11. StartManager(id, cs) = q
  BY DEF StartManager, q, at, c, m, e
<1> QED  BY <1>10, <1>11

(* The counts of a new manager. *)
LEMMA NewExact ==
    ASSUME NEW id \in Nat
    PROVE  Exact(NewManager(id))
<1> DEFINE cs == [n \in {Persistence} |->
                    [ckpt |-> 0, pos |-> 0, offset |-> 0, closedOnly |-> FALSE]]
<1>1. cs \in [DOMAIN cs -> Cursor] /\ Persistence \in DOMAIN cs /\ DOMAIN cs \subseteq Names
  BY DEF Cursor, Names
<1> QED  BY <1>1, StartExact DEF NewManager

(* And of a cleared one. *)
LEMMA ClearExact ==
    ASSUME NEW m, Good(m), NEW active
    PROVE  Exact(Clear(m, active))
<1>1. /\ m.cursors \in [DOMAIN m.cursors -> Cursor]
      /\ Persistence \in DOMAIN m.cursors /\ DOMAIN m.cursors \subseteq Names
  BY DEF Good, Lists, IsManager
<1>2. (IF active THEN 1 ELSE 0) \in Nat
  OBVIOUS
<1> QED  BY <1>1, <1>2, StartExact DEF Clear

(* The counter operations change references only. *)
LEMMA CountersShape ==
    ASSUME NEW list, list \in [DOMAIN list -> Checkpoint], NEW c \in DOMAIN list
    PROVE  /\ SameShape(list, IncrReferenceCounter(list, c))
           /\ SameShape(list, DecrReferenceCounter(list, c))
           /\ IncrReferenceCounter(list, c) \in [DOMAIN list -> Checkpoint]
           /\ DecrReferenceCounter(list, c) \in [DOMAIN list -> Checkpoint]
<1>1. SameShape(list, IncrReferenceCounter(list, c))
  BY DEF IncrReferenceCounter, SameShape, Checkpoint
<1>2. SameShape(list, DecrReferenceCounter(list, c))
  BY DEF DecrReferenceCounter, SameShape, Checkpoint
<1> QED  BY <1>1, <1>2, Counters

(* So does the way of a cursor from checkpoint c to d. *)
LEMMA MoveShape ==
    ASSUME NEW list, list \in [DOMAIN list -> Checkpoint],
           NEW c \in DOMAIN list, NEW d \in DOMAIN list
    PROVE  SameShape(list, IncrReferenceCounter(DecrReferenceCounter(list, c), d))
<1> DEFINE l == DecrReferenceCounter(list, c)
<1>1. SameShape(list, l) /\ l \in [DOMAIN list -> Checkpoint]
  BY CountersShape
<1> HIDE DEF l
<1>2. l \in [DOMAIN l -> Checkpoint] /\ d \in DOMAIN l
  BY <1>1
<1>3. SameShape(l, IncrReferenceCounter(l, d))
  BY <1>2, CountersShape
<1> QED  BY <1>1, <1>3 DEF SameShape, l

(* The offset of a cursor that has read no other items is still right. *)
LEMMA SameRead ==
    ASSUME NEW m, NEW q, Exact(m), NEW n \in DOMAIN m.cursors,
           q.cursors[n].offset = m.cursors[n].offset, ReadBy(q, n) = ReadBy(m, n)
    PROVE  OffsetExact(q, n)
BY DEF Exact, OffsetExact

(* A cursor that moves from the end of a checkpoint to the next dummy has read the same    *)
(* items: the dummy is not counted.                                                       *)
LEMMA DummyNotRead ==
    ASSUME NEW m, Good(m), NEW n \in DOMAIN m.cursors, AtEnd(m, n), CanMove(m, n),
           NEW q, q.items = m.items,
           q.cursors[n].pos = NextCheckpoint(m, m.cursors[n].ckpt)
    PROVE  ReadBy(q, n) = ReadBy(m, n)
<1> DEFINE d == NextCheckpoint(m, m.cursors[n].ckpt)
<1>1. /\ d \in DOMAIN m.list /\ m.cursors[n].pos < d
      /\ \A i \in DOMAIN m.items : i > m.cursors[n].pos => i >= d
  BY NextDummy
<1>2. m.cursors[n].pos \in Nat /\ Lists(m)
  BY CursorFacts, GoodParts
<1> HIDE DEF d
<1>3. /\ d \in Nat /\ \A i \in DOMAIN m.items : i \in Nat
      /\ m.items[d] = [ckpt |-> d, op |-> "empty", key |-> NoKey]
  BY <1>1, <1>2, ItemFacts DEF Lists, DummiesFirst
<1>4. m.items[d].op = "empty"
  BY <1>3
<1>5. ASSUME NEW i \in DOMAIN m.items, m.items[i].op # "empty"
      PROVE  i <= d <=> i <= m.cursors[n].pos
  <2>1. i # d
    BY <1>4, <1>5
  <2> QED  BY <1>1, <1>2, <1>3, <2>1
<1>6. q.cursors[n].pos = d
  BY DEF d
<1> QED  BY <1>5, <1>6 DEF ReadBy, Counted

(* moveCursorToNextCheckpoint at the end of a checkpoint: the dummy it moves to is not *)
(* counted, so the offset stays as it was.                                             *)
LEMMA MoveToNextExact ==
    ASSUME NEW m, Good(m), Exact(m), NEW n \in DOMAIN m.cursors, AtEnd(m, n), CanMove(m, n)
    PROVE  Exact(MoveCursorToNextCheckpoint(m, n))
<1> DEFINE c == m.cursors[n].ckpt
           d == NextCheckpoint(m, c)
           q == MoveCursorToNextCheckpoint(m, n)
<1>1. /\ d \in DOMAIN m.list /\ m.cursors[n].pos < d
      /\ \A i \in DOMAIN m.items : i > m.cursors[n].pos => i >= d
  BY NextDummy
<1>2. /\ DOMAIN m = Fields /\ m.cursors \in [DOMAIN m.cursors -> Cursor]
      /\ m.list \in [DOMAIN m.list -> Checkpoint] /\ Lists(m)
      /\ c \in DOMAIN m.list /\ m.cursors[n].pos \in Nat
  BY GoodParts, CursorFacts DEF Counts
<1>3. /\ q.items = m.items /\ q.numItems = m.numItems
      /\ q.list = IncrReferenceCounter(DecrReferenceCounter(m.list, c), d)
      /\ q.cursors = [m.cursors EXCEPT ![n].ckpt = d, ![n].pos = d]
  BY <1>2 DEF MoveCursorToNextCheckpoint, Fields
<1> HIDE DEF d
<1>4. /\ DOMAIN q.cursors = DOMAIN m.cursors /\ q.cursors[n].pos = d
      /\ q.cursors[n].offset = m.cursors[n].offset
      /\ \A x \in DOMAIN m.cursors \ {n} : q.cursors[x] = m.cursors[x]
  BY <1>2, <1>3 DEF Cursor
<1>5. SameShape(m.list, q.list)
  BY <1>1, <1>2, <1>3, MoveShape
<1> HIDE DEF q
<1>6. OffsetExact(q, n)
  <2>1. ReadBy(q, n) = ReadBy(m, n)
    BY <1>3, <1>4, DummyNotRead DEF d
  <2> QED  BY <1>4, <2>1, SameRead
<1>7. \A x \in DOMAIN q.cursors :
        \/ /\ x \in DOMAIN m.cursors /\ q.cursors[x].pos = m.cursors[x].pos
           /\ q.cursors[x].offset = m.cursors[x].offset
        \/ OffsetExact(q, x)
  BY <1>4, <1>6
<1>8. Exact(q)
  BY <1>3, <1>5, <1>7, SameExact
<1> QED  BY <1>8 DEF q

(* Only the dummy of a checkpoint is not counted. *)
LEMMA DummyAlone ==
    ASSUME NEW m, Lists(m), WellFormed(m), NEW i \in DOMAIN m.items
    PROVE  m.items[i].op = "empty" <=> i = m.items[i].ckpt
<1> DEFINE c == m.items[i].ckpt
<1>1. c \in DOMAIN m.list
  BY ItemFacts
<1>2. Of(m, c, "empty") = {c}
  BY <1>1, FormedAll DEF Formed
<1>3. i \in ToWrite(m, c) /\ c \in Of(m, c, "empty")
  BY <1>2 DEF ToWrite
<1>4. m.items[i].op = "empty" => i \in Of(m, c, "empty")
  BY <1>3 DEF Of
<1>5. i = c => m.items[i].op = "empty"
  BY <1>3 DEF Of
<1> QED  BY <1>2, <1>4, <1>5

(* The offset of a cursor that passed one item more. *)
LEMMA OneMoreRead ==
    ASSUME NEW m, NEW q, Lists(m), Exact(m), NEW n \in DOMAIN m.cursors, m.cursors[n] \in Cursor,
           q.items = m.items, NEW p \in DOMAIN m.items, m.items[p].op # "empty",
           m.cursors[n].pos < p, \A i \in DOMAIN m.items : i > m.cursors[n].pos => i >= p,
           q.cursors[n].pos = p, q.cursors[n].offset = m.cursors[n].offset + 1
    PROVE  OffsetExact(q, n)
<1>1. /\ \A i \in DOMAIN m.items : i \in Nat
      /\ m.cursors[n].pos \in Nat /\ m.cursors[n].offset \in Int
  BY ItemFacts DEF Cursor
<1>2. \A i \in DOMAIN m.items : i <= p <=> i <= m.cursors[n].pos \/ i = p
  BY <1>1
<1>3. ReadBy(q, n) = ReadBy(m, n) \cup {p}
  BY <1>2 DEF ReadBy, Counted
<1>4. p \notin ReadBy(m, n)
  BY <1>1 DEF ReadBy
<1>5. Cardinality(ReadBy(m, n) \cup {p}) = Cardinality(ReadBy(m, n)) + 1
  BY <1>4, FiniteCounted, FS_AddElement
<1>6. Cardinality(ReadBy(m, n)) \in Nat /\ OffsetExact(m, n)
  BY FiniteCounted DEF Exact
<1>7. q.cursors[n].offset - Cardinality(ReadBy(q, n))
        = m.cursors[n].offset - Cardinality(ReadBy(m, n))
  BY <1>1, <1>3, <1>5, <1>6
<1> QED  BY <1>6, <1>7 DEF OffsetExact

(* ++currentPos and ++offset. *)
LEMMA AdvanceExact ==
    ASSUME NEW m, Good(m), Exact(m), NEW n \in DOMAIN m.cursors
    PROVE  Exact(Advance(m, n))
<1> DEFINE c == m.cursors[n].ckpt
           b == m.cursors[n].pos
           S == After(m, c, b)
           q == Advance(m, n)
           p == Min(S)
<1>1. /\ c \in DOMAIN m.list /\ c \in Nat /\ b \in DOMAIN m.items /\ b \in Nat
      /\ m.items[b].ckpt = c /\ m.cursors[n] \in Cursor
  BY CursorFacts
<1>2. CASE AtEnd(m, n)
  BY <1>1, <1>2 DEF Advance
<1>3. CASE ~AtEnd(m, n)
  <2>1. DOMAIN m = Fields /\ m.cursors \in [DOMAIN m.cursors -> Cursor] /\ Lists(m) /\ WellFormed(m)
    BY GoodParts DEF Exact
  <2>2. /\ \A i \in DOMAIN m.items : i \in Nat /\ m.items[i].ckpt \in Nat /\ m.items[i].ckpt <= i
        /\ \A i, j \in DOMAIN m.items : i <= j => m.items[i].ckpt <= m.items[j].ckpt
    BY <2>1, ItemFacts
  <2>3. S # {} /\ S \in SUBSET Nat
    BY <1>3, <2>2 DEF AtEnd, After, ToWrite
  <2>4. p \in S /\ \A x \in S : p <= x
    BY <2>3, MinNat
  <2> HIDE DEF p
  <2>5. p \in DOMAIN m.items /\ p \in Nat /\ p > b /\ m.items[p].ckpt = c
    BY <2>2, <2>4 DEF After, ToWrite
  <2>6. ASSUME NEW i \in DOMAIN m.items, i > b
        PROVE  i >= p
    <3>1. m.items[i].ckpt >= c
      BY <1>1, <2>2, <2>6
    <3>2. CASE m.items[i].ckpt = c
      BY <2>4, <2>6, <3>2 DEF After, ToWrite
    <3>3. CASE m.items[i].ckpt # c
      BY <1>1, <2>2, <2>5, <3>1, <3>3
    <3> QED  BY <3>2, <3>3
  <2>7. m.items[p].op # "empty"
    <3>1. b >= c
      BY <1>1, <2>2
    <3>2. p # c
      BY <1>1, <2>5, <3>1
    <3> QED  BY <2>1, <2>5, <3>2, DummyAlone
  <2>8. /\ q.items = m.items /\ q.numItems = m.numItems /\ q.list = m.list
        /\ q.cursors = [m.cursors EXCEPT ![n].pos = p, ![n].offset = @ + 1]
    BY <1>3, <2>1 DEF Advance, Fields, p
  <2>9. /\ DOMAIN q.cursors = DOMAIN m.cursors /\ q.cursors[n].pos = p
        /\ q.cursors[n].offset = m.cursors[n].offset + 1
        /\ \A x \in DOMAIN m.cursors \ {n} : q.cursors[x] = m.cursors[x]
    BY <2>1, <2>8 DEF Cursor
  <2> HIDE DEF q
  <2>10. OffsetExact(q, n)
    <3>1. /\ m.cursors[n].pos < p
          /\ \A i \in DOMAIN m.items : i > m.cursors[n].pos => i >= p
      BY <1>1, <2>5, <2>6
    <3> HIDE DEF b, c
    <3> QED  BY <1>1, <2>1, <2>5, <2>7, <2>8, <2>9, <3>1, OneMoreRead
  <2>11. \A x \in DOMAIN q.cursors :
           \/ /\ x \in DOMAIN m.cursors /\ q.cursors[x].pos = m.cursors[x].pos
              /\ q.cursors[x].offset = m.cursors[x].offset
           \/ OffsetExact(q, x)
    BY <2>9, <2>10
  <2>12. SameShape(m.list, q.list)
    BY <2>8 DEF SameShape
  <2>13. Exact(q)
    BY <2>8, <2>11, <2>12, SameExact
  <2> QED  BY <2>13 DEF q
<1> QED  BY <1>2, <1>3

(* nextItem. *)
LEMMA NextItemExact ==
    ASSUME NEW m, Good(m), Exact(m), NEW n \in DOMAIN m.cursors
    PROVE  Exact(NextItem(m, n))
<1> DEFINE p == IF AtEnd(m, n) /\ CanMove(m, n) THEN MoveCursorToNextCheckpoint(m, n) ELSE m
<1>1. Good(p) /\ Exact(p) /\ n \in DOMAIN p.cursors
  BY MoveToNextGood, MoveToNextExact
<1>2. Exact(Advance(p, n))
  BY <1>1, AdvanceExact
<1>3. NextItem(m, n) \in {m, p, Advance(p, n)}
  BY DEF NextItem
<1> QED  BY <1>1, <1>2, <1>3

(* getAllItemsFromCurrentPosition: the walk reaches the last item, so the cursor has read *)
(* as many items as the manager counts.                                                   *)
LEMMA GetAllExact ==
    ASSUME NEW m, Good(m), Exact(m), NEW n \in DOMAIN m.cursors
    PROVE  Exact(GetAllItems(m, n))
<1> DEFINE c == m.cursors[n].ckpt
           d == LastReached(m, n)
           S == {x \in DOMAIN m.list : x >= c /\ (m.list[x].state = "opened" \/ x = Back(m))}
           e == Max(ToWrite(m, d))
           q == GetAllItems(m, n)
<1>1. /\ c \in DOMAIN m.list /\ c \in Nat /\ Lists(m) /\ DOMAIN m = Fields
      /\ m.list \in [DOMAIN m.list -> Checkpoint]
      /\ m.cursors \in [DOMAIN m.cursors -> Cursor]
  BY CursorFacts, GoodParts DEF Counts
<1>2. /\ \A i \in DOMAIN m.items : /\ i \in Nat /\ m.items[i].ckpt \in Nat
                                    /\ m.items[i].ckpt \in DOMAIN m.list
      /\ \A i, j \in DOMAIN m.items : i <= j => m.items[i].ckpt <= m.items[j].ckpt
      /\ \A x \in DOMAIN m.list : x \in Nat
  BY <1>1, ItemFacts
<1>3. Back(m) \in DOMAIN m.list /\ \A x \in DOMAIN m.list : x <= Back(m)
  BY BackIn DEF Good
<1>4. d = Back(m)
  <2>1. Back(m) \in S /\ S \in SUBSET Nat
    BY <1>1, <1>2, <1>3
  <2>2. S # {}
    BY <2>1
  <2>3. d \in S
    BY <2>1, <2>2, MinNat DEF LastReached
  <2> HIDE DEF d
  <2>4. d < Back(m) => m.list[d].state = "closed"
    BY <1>3, <2>3 DEF Good, Lists, ClosedBefore
  <2> QED  BY <1>2, <1>3, <2>3, <2>4
<1> HIDE DEF d, S
<1>5. \A i \in DOMAIN m.items : i <= e
  <2>1. /\ m.mutationCounter \in Nat /\ ToWrite(m, d) \in SUBSET (1 .. m.mutationCounter)
        /\ d \in ToWrite(m, d)
    BY <1>1, <1>3, <1>4, Positions
  <2>2. ToWrite(m, d) \in SUBSET (0 .. m.mutationCounter) /\ ToWrite(m, d) # {}
    BY <2>1
  <2>3. e \in ToWrite(m, d) /\ \A i \in ToWrite(m, d) : e >= i
    BY <2>1, <2>2, MaxNat
  <2> HIDE DEF e
  <2>4. e \in DOMAIN m.items /\ m.items[e].ckpt = d
    BY <2>3 DEF ToWrite
  <2>5. ASSUME NEW i \in DOMAIN m.items
        PROVE  i <= e
    <3>1. CASE m.items[i].ckpt = d
      BY <1>2, <2>3, <2>4, <3>1 DEF ToWrite
    <3>2. CASE m.items[i].ckpt # d
      <4>1. m.items[i].ckpt < d
        BY <1>2, <1>3, <1>4, <3>2
      <4> QED  BY <1>2, <2>4, <4>1
    <3> QED  BY <3>1, <3>2
  <2> QED  BY <2>5
<1> HIDE DEF e
<1>6. /\ q.items = m.items /\ q.numItems = m.numItems
      /\ q.list = IF c = d THEN m.list
                  ELSE IncrReferenceCounter(DecrReferenceCounter(m.list, c), d)
      /\ q.cursors = [m.cursors EXCEPT ![n].ckpt = d, ![n].pos = e, ![n].offset = m.numItems]
  BY <1>1 DEF GetAllItems, Fields, d, e
<1>7. /\ DOMAIN q.cursors = DOMAIN m.cursors /\ q.cursors[n].pos = e
      /\ q.cursors[n].offset = m.numItems
      /\ \A x \in DOMAIN m.cursors \ {n} : q.cursors[x] = m.cursors[x]
  BY <1>1, <1>6 DEF Cursor
<1> HIDE DEF q
<1>8. OffsetExact(q, n)
  <2>1. ReadBy(q, n) = Counted(m)
    BY <1>5, <1>6, <1>7 DEF ReadBy, Counted
  <2>2. m.numItems = Cardinality(Counted(m)) /\ Cardinality(Counted(m)) \in Nat
    BY <1>1, FiniteCounted DEF Exact, NumItemsExact
  <2> QED  BY <1>7, <2>1, <2>2 DEF OffsetExact
<1>9. SameShape(m.list, q.list)
  <2>1. SameShape(m.list, IncrReferenceCounter(DecrReferenceCounter(m.list, c), d))
    BY <1>1, <1>3, <1>4, MoveShape
  <2> QED  BY <1>6, <2>1 DEF SameShape
<1>10. \A x \in DOMAIN q.cursors :
         \/ /\ x \in DOMAIN m.cursors /\ q.cursors[x].pos = m.cursors[x].pos
            /\ q.cursors[x].offset = m.cursors[x].offset
         \/ OffsetExact(q, x)
  BY <1>7, <1>8
<1>11. Exact(q)
  BY <1>6, <1>9, <1>10, SameExact
<1> QED  BY <1>11 DEF q

(* decrTapCursorFromCheckpointEnd gives back one item, the checkpoint_end. *)
LEMMA DecrTapExact ==
    ASSUME NEW m, Good(m), Exact(m), NEW n \in DOMAIN m.cursors
    PROVE  Exact(DecrTapCursorFromCheckpointEnd(m, n))
<1> DEFINE c == m.cursors[n].ckpt
           b == m.cursors[n].pos
           p == Prev(m, c, b)
           q == DecrTapCursorFromCheckpointEnd(m, n)
<1>1. CASE m.items[b].op # "checkpoint_end"
  BY <1>1 DEF DecrTapCursorFromCheckpointEnd
<1>2. CASE m.items[b].op = "checkpoint_end"
  <2>1. /\ c \in DOMAIN m.list /\ c \in Nat /\ b \in DOMAIN m.items /\ b \in Nat
        /\ m.items[b].ckpt = c /\ b \in ToWrite(m, c) /\ Lists(m)
        /\ DOMAIN m = Fields /\ m.cursors \in [DOMAIN m.cursors -> Cursor]
        /\ m.cursors[n] \in Cursor
    BY CursorFacts, GoodParts
  <2>2. b # c
    <3>1. m.items[c] = [ckpt |-> c, op |-> "empty", key |-> NoKey]
      BY <2>1 DEF Lists, DummiesFirst
    <3>2. m.items[c].op = "empty"
      BY <3>1
    <3> QED  BY <1>2, <3>2
  <2>3. p \in ToWrite(m, c) /\ p < b
    BY <2>1, <2>2, PrevIn
  <2>4. \A i \in ToWrite(m, c) : i < b => i <= p
    <3> DEFINE S == {i \in ToWrite(m, c) : i < b}
    <3>1. m.mutationCounter \in Nat /\ S \in SUBSET (0 .. m.mutationCounter) /\ c \in S
      BY <2>1, <2>2, Positions
    <3>2. \A i \in S : Max(S) >= i
      BY <3>1, MaxNat
    <3>3. \A i \in S : i \in Nat /\ p \in Nat
      BY <2>1, <2>3, Positions
    <3> QED  BY <3>2, <3>3 DEF Prev
  <2> HIDE DEF p
  <2>5. /\ q.items = m.items /\ q.numItems = m.numItems /\ q.list = m.list
        /\ q.cursors = [m.cursors EXCEPT ![n].offset = @ - 1, ![n].pos = p]
    BY <1>2, <2>1 DEF DecrTapCursorFromCheckpointEnd, Fields, p
  <2>6. /\ DOMAIN q.cursors = DOMAIN m.cursors /\ q.cursors[n].pos = p
        /\ q.cursors[n].offset = m.cursors[n].offset - 1
        /\ \A x \in DOMAIN m.cursors \ {n} : q.cursors[x] = m.cursors[x]
    BY <2>1, <2>5 DEF Cursor
  <2> HIDE DEF q
  <2>7. /\ \A i \in DOMAIN m.items : i \in Nat /\ m.items[i].ckpt \in Nat
        /\ \A i, j \in DOMAIN m.items : i <= j => m.items[i].ckpt <= m.items[j].ckpt
    BY <2>1, ItemFacts
  <2>8. p \in DOMAIN m.items /\ m.items[p].ckpt = c
    BY <2>3 DEF ToWrite
  <2>9. ASSUME NEW i \in DOMAIN m.items
        PROVE  i <= p <=> i <= b /\ i # b
    <3>1. ASSUME i > p, i < b
          PROVE  FALSE
      <4>1. m.items[i].ckpt = c
        BY <2>1, <2>7, <2>8, <3>1
      <4>2. i <= p
        BY <2>4, <3>1, <4>1 DEF ToWrite
      <4> QED  BY <2>7, <2>8, <3>1, <4>2
    <3> QED  BY <2>1, <2>3, <2>7, <2>8, <3>1
  <2>10. ReadBy(q, n) = ReadBy(m, n) \ {b}
    BY <2>5, <2>6, <2>9 DEF ReadBy, Counted
  <2>11. b \in ReadBy(m, n)
    BY <1>2, <2>1 DEF ReadBy, Counted
  <2>12. OffsetExact(q, n)
    <3>1. Cardinality(ReadBy(m, n) \ {b}) = Cardinality(ReadBy(m, n)) - 1
      <4> DEFINE R == ReadBy(m, n)
      <4>1. IsFiniteSet(R) /\ b \in R
        BY <2>1, <2>11, FiniteCounted
      <4> HIDE DEF R
      <4>2. Cardinality(R \ {b}) = Cardinality(R) - 1
        BY <4>1, FS_RemoveElement
      <4> QED  BY <4>2 DEF R
    <3>2. /\ Cardinality(ReadBy(m, n)) \in Nat /\ OffsetExact(m, n) /\ m.cursors[n].offset \in Int
      BY <2>1, FiniteCounted DEF Exact, Cursor
    <3>3. q.cursors[n].offset - Cardinality(ReadBy(q, n))
            = m.cursors[n].offset - Cardinality(ReadBy(m, n))
      BY <2>6, <2>10, <3>1, <3>2
    <3> QED  BY <3>2, <3>3 DEF OffsetExact
  <2>13. \A x \in DOMAIN q.cursors :
           \/ /\ x \in DOMAIN m.cursors /\ q.cursors[x].pos = m.cursors[x].pos
              /\ q.cursors[x].offset = m.cursors[x].offset
           \/ OffsetExact(q, x)
    BY <2>6, <2>12
  <2>14. SameShape(m.list, q.list)
    BY <2>5 DEF SameShape
  <2>15. Exact(q)
    BY <2>5, <2>13, <2>14, SameExact
  <2> QED  BY <2>15 DEF q
<1> QED  BY <1>1, <1>2

(* removeTAPCursor. *)
LEMMA RemoveTAPExact ==
    ASSUME NEW m, Good(m), Exact(m), NEW n \in DOMAIN m.cursors
    PROVE  Exact(RemoveTAPCursor(m, n))
<1> DEFINE q == RemoveTAPCursor(m, n)
<1>1. /\ DOMAIN m = Fields /\ m.cursors[n].ckpt \in DOMAIN m.list
      /\ m.list \in [DOMAIN m.list -> Checkpoint]
  BY GoodParts DEF Counts
<1>2. /\ q.items = m.items /\ q.numItems = m.numItems
      /\ q.list = DecrReferenceCounter(m.list, m.cursors[n].ckpt)
      /\ q.cursors = [x \in DOMAIN m.cursors \ {n} |-> m.cursors[x]]
  BY <1>1 DEF RemoveTAPCursor, Restrict, Fields
<1> HIDE DEF q
<1>3. SameShape(m.list, q.list)
  BY <1>1, <1>2, CountersShape
<1>4. \A x \in DOMAIN q.cursors : /\ x \in DOMAIN m.cursors /\ q.cursors[x].pos = m.cursors[x].pos
                                  /\ q.cursors[x].offset = m.cursors[x].offset
  BY <1>2
<1>5. Exact(q)
  BY <1>2, <1>3, <1>4, SameExact
<1> QED  BY <1>5 DEF q

(* What is counted at or before the begin of a checkpoint is in the checkpoints before. *)
LEMMA BeforeDummy ==
    ASSUME NEW m, Lists(m), WellFormed(m), NEW c \in DOMAIN m.list
    PROVE  {i \in Counted(m) : i <= c} = CountedIn(m, {d \in DOMAIN m.list : d < c})
<1>1. /\ \A i \in DOMAIN m.items : i \in Nat /\ m.items[i].ckpt \in Nat
                                   /\ m.items[i].ckpt \in DOMAIN m.list /\ m.items[i].ckpt <= i
      /\ \A i, j \in DOMAIN m.items : i <= j => m.items[i].ckpt <= m.items[j].ckpt
      /\ c \in Nat /\ c \in DOMAIN m.items /\ m.items[c].ckpt = c
  BY ItemFacts
<1>2. ASSUME NEW i \in Counted(m)
      PROVE  i <= c <=> m.items[i].ckpt < c
  <2>1. i \in DOMAIN m.items /\ i # m.items[i].ckpt
    BY DummyAlone DEF Counted
  <2>2. i > c => m.items[i].ckpt >= c
    BY <1>1, <2>1
  <2>3. i <= c => m.items[i].ckpt < c
    BY <1>1, <2>1
  <2> QED  BY <1>1, <2>1, <2>2, <2>3
<1>3. \A i \in Counted(m) : i \in DOMAIN m.items
  BY DEF Counted
<1> QED  BY <1>1, <1>2, <1>3 DEF CountedIn

(* The rest of a finite set. *)
LEMMA RestCount ==
    ASSUME NEW S, IsFiniteSet(S), NEW A \in SUBSET S
    PROVE  /\ IsFiniteSet(A) /\ Cardinality(A) \in Nat /\ Cardinality(S) \in Nat
           /\ Cardinality(S \ A) = Cardinality(S) - Cardinality(A)
<1>1. IsFiniteSet(A) /\ Cardinality(A) \in Nat /\ Cardinality(S) \in Nat
  BY FS_Subset, FS_CardinalityType
<1>2. S \cap A = A
  OBVIOUS
<1>3. Cardinality(S \ A) = Cardinality(S) - Cardinality(S \cap A)
  BY FS_Difference
<1> QED  BY <1>1, <1>2, <1>3

(* getTAPCursor's start offset is the number of items before its checkpoint, and one more  *)
(* when that is the last one, for want of a checkpoint of the id, and is closed.           *)
LEMMA StartOffsetExact ==
    ASSUME NEW m, Good(m), Exact(m), NEW id, NEW c \in DOMAIN m.list,
           c = IF WithId(m, id) = {} THEN Back(m) ELSE Min(WithId(m, id))
    PROVE  StartOffset(m, id, c) - Cardinality({i \in Counted(m) : i <= c}) \in {0, 1}
<1> DEFINE S == {d \in DOMAIN m.list : d < c}
           R == CountedIn(m, S)
           C == Counted(m)
<1>1. Lists(m) /\ WellFormed(m) /\ m.numItems = Cardinality(C) /\ IsFiniteSet(C)
  BY GoodParts, FiniteCounted DEF Exact, NumItemsExact
<1>2. {i \in Counted(m) : i <= c} = R
  BY <1>1, BeforeDummy
<1>3. R \in SUBSET C
  BY DEF CountedIn
<1>4. \A d \in DOMAIN m.list : d \in Nat
  BY <1>1, ItemFacts
<1>5. CASE WithId(m, id) = {}
  <2> DEFINE L == CountedIn(m, {c})
             e == IF m.list[c].state = "closed" THEN 2 ELSE 1
  <2>1. c = Back(m) /\ \A d \in DOMAIN m.list : d <= c
    BY <1>1, <1>5, BackIn DEF Good
  <2>2. L \in SUBSET C /\ C \ L = R
    <3>1. \A i \in C : m.items[i].ckpt \in DOMAIN m.list
      BY <1>1, ItemFacts DEF Counted
    <3> QED  BY <1>4, <2>1, <3>1 DEF CountedIn
  <2>3. Cardinality(L) = m.list[c].numItems + e
    <3>1. Formed(m, c)
      BY <1>1, FormedAll
    <3> QED  BY <1>1, <3>1, CheckpointSize
  <2>4. StartOffset(m, id, c) = Cardinality(C) - (m.list[c].numItems + 1)
    BY <1>1, <1>5 DEF StartOffset
  <2>5. m.list[c].numItems \in Nat /\ e \in {1, 2}
    BY GoodParts DEF Counts, Checkpoint
  <2> HIDE DEF R, C, L, e
  <2>6. Cardinality(R) = Cardinality(C) - Cardinality(L) /\ Cardinality(C) \in Nat
    BY <1>1, <2>2, RestCount
  <2>7. StartOffset(m, id, c) - Cardinality(R) \in {0, 1}
    BY <2>3, <2>4, <2>5, <2>6
  <2> QED  BY <1>2, <2>7
<1>6. CASE WithId(m, id) # {}
  <2> DEFINE f == [d \in DOMAIN m.list |-> m.list[d].numItems + 2]
  <2>1. StartOffset(m, id, c) = SumOver(f, S)
    BY <1>6 DEF StartOffset
  <2>2. \A d \in S : m.list[d].state = "closed"
    BY <1>1 DEF Lists, ClosedBefore
  <2>3. \A d \in S : f[d] = m.list[d].numItems + IF m.list[d].state = "closed" THEN 2 ELSE 1
    BY <2>2
  <2>4. S \in SUBSET DOMAIN m.list
    OBVIOUS
  <2> HIDE DEF f, S
  <2>5. SumOver(f, S) = Cardinality(R)
    BY <1>1, <2>3, <2>4, SizesCount
  <2> HIDE DEF R
  <2>6. Cardinality(R) \in Nat
    BY <1>1, <1>3, RestCount
  <2> QED  BY <1>2, <2>1, <2>5, <2>6
<1> QED  BY <1>5, <1>6

(* registerTAPCursor, unless it takes the position of a second checkpoint of that id. *)
LEMMA RegisterExact ==
    ASSUME NEW m, Good(m), Exact(m), NEW n \in TapNames, NEW id, NEW closedOnly \in BOOLEAN,
           NEW fromBeginning
    PROVE  Exact(RegisterTAPCursor(m, n, id, closedOnly, fromBeginning))
<1> DEFINE c == IF WithId(m, id) = {} THEN Back(m) ELSE Min(WithId(m, id))
           keep == KeepsPosition(m, n, id, fromBeginning)
           pos == IF keep THEN m.cursors[n].pos ELSE c
           off == IF keep THEN m.cursors[n].offset ELSE StartOffset(m, id, c)
           k == [ckpt |-> c, pos |-> pos, offset |-> off, closedOnly |-> closedOnly]
           l == IF n \in DOMAIN m.cursors
                THEN DecrReferenceCounter(m.list, m.cursors[n].ckpt) ELSE m.list
           q == RegisterTAPCursor(m, n, id, closedOnly, fromBeginning)
<1>1. DOMAIN m = Fields /\ Lists(m) /\ m.list \in [DOMAIN m.list -> Checkpoint]
  BY GoodParts DEF Counts
<1>2. c \in DOMAIN m.list
  <2>1. Back(m) \in DOMAIN m.list
    BY <1>1, BackIn DEF Good
  <2>2. WithId(m, id) # {} => Min(WithId(m, id)) \in DOMAIN m.list
    <3>1. WithId(m, id) \in SUBSET Nat /\ WithId(m, id) \subseteq DOMAIN m.list
      BY <1>1, Positions DEF WithId
    <3> QED  BY <3>1, MinNat
  <2> QED  BY <2>1, <2>2
<1>3. StartOffset(m, id, c) - Cardinality({i \in Counted(m) : i <= c}) \in {0, 1}
  BY <1>2, StartOffsetExact
<1>4. /\ q.items = m.items /\ q.numItems = m.numItems /\ q.list = IncrReferenceCounter(l, c)
      /\ q.cursors = [x \in DOMAIN m.cursors \cup {n} |-> IF x = n THEN k ELSE m.cursors[x]]
  BY <1>1 DEF RegisterTAPCursor, Fields
<1>5. k.pos = pos /\ k.offset = off
  OBVIOUS
<1> HIDE DEF k, q, c, l
<1>6. SameShape(m.list, q.list)
  <2>1. SameShape(m.list, l) /\ l \in [DOMAIN l -> Checkpoint] /\ DOMAIN l = DOMAIN m.list
    <3>1. n \in DOMAIN m.cursors => m.cursors[n].ckpt \in DOMAIN m.list
      BY CursorFacts
    <3>2. CASE n \in DOMAIN m.cursors
      BY <1>1, <3>1, <3>2, CountersShape DEF l
    <3>3. CASE n \notin DOMAIN m.cursors
      BY <1>1, <3>3 DEF SameShape, l
    <3> QED  BY <3>2, <3>3
  <2>2. SameShape(l, q.list)
    BY <1>2, <1>4, <2>1, CountersShape
  <2> QED  BY <2>1, <2>2 DEF SameShape
<1>7. /\ DOMAIN q.cursors = DOMAIN m.cursors \cup {n}
      /\ q.cursors[n].pos = pos /\ q.cursors[n].offset = off
      /\ \A x \in DOMAIN m.cursors \ {n} : q.cursors[x] = m.cursors[x]
  BY <1>4, <1>5
<1>8. \/ /\ n \in DOMAIN m.cursors /\ q.cursors[n].pos = m.cursors[n].pos
         /\ q.cursors[n].offset = m.cursors[n].offset
      \/ OffsetExact(q, n)
  <2>1. CASE keep
    BY <1>7, <2>1 DEF KeepsPosition
  <2>2. CASE ~keep
    <3>1. q.cursors[n].pos = c /\ q.cursors[n].offset = StartOffset(m, id, c)
      BY <1>7, <2>2
    <3>2. ReadBy(q, n) = {i \in Counted(m) : i <= c}
      BY <1>4, <3>1 DEF ReadBy, Counted
    <3>3. n # Persistence
      BY NameAssumption
    <3> QED  BY <1>3, <3>1, <3>2, <3>3 DEF OffsetExact
  <2> QED  BY <2>1, <2>2
<1> HIDE DEF pos, off, keep
<1>9. \A x \in DOMAIN q.cursors :
        \/ /\ x \in DOMAIN m.cursors /\ q.cursors[x].pos = m.cursors[x].pos
           /\ q.cursors[x].offset = m.cursors[x].offset
        \/ OffsetExact(q, x)
  BY <1>7, <1>8
<1>10. Exact(q)
  BY <1>4, <1>6, <1>9, SameExact
<1> QED  BY <1>10 DEF q

(* moveCursorsAtEnd: none of the moved cursors has read anything more. *)
LEMMA MoveCursorsExact ==
    ASSUME NEW m, Good(m), Exact(m), NEW oldId
    PROVE  Exact(MoveCursorsAtEnd(m, oldId))
<1> DEFINE moved == {n \in DOMAIN m.cursors : /\ m.list[m.cursors[n].ckpt].id = oldId
                                              /\ AtEnd(m, n) /\ CanMove(m, n)}
           Target(n) == NextCheckpoint(m, m.cursors[n].ckpt)
           Left(c) == {n \in moved : m.cursors[n].ckpt = c}
           Came(c) == {n \in moved : Target(n) = c}
           q == MoveCursorsAtEnd(m, oldId)
<1>1. /\ DOMAIN m = Fields /\ m.cursors \in [DOMAIN m.cursors -> Cursor]
      /\ m.list \in [DOMAIN m.list -> Checkpoint]
  BY GoodParts DEF Counts
<1>2. /\ q.items = m.items /\ q.numItems = m.numItems
      /\ q.list = [c \in DOMAIN m.list |->
                     [m.list[c] EXCEPT !.refs = @ - Cardinality(Left(c)) + Cardinality(Came(c))]]
      /\ q.cursors = [n \in DOMAIN m.cursors |->
                        IF n \in moved
                        THEN [m.cursors[n] EXCEPT !.ckpt = Target(n), !.pos = Target(n)]
                        ELSE m.cursors[n]]
  BY <1>1 DEF MoveCursorsAtEnd, Fields
<1>3. \A n \in moved : n \in DOMAIN m.cursors /\ AtEnd(m, n) /\ CanMove(m, n)
  OBVIOUS
<1> HIDE DEF moved, Target, Left, Came, q
<1>4. /\ DOMAIN q.cursors = DOMAIN m.cursors
      /\ \A n \in DOMAIN m.cursors :
           /\ q.cursors[n].pos = IF n \in moved THEN Target(n) ELSE m.cursors[n].pos
           /\ q.cursors[n].offset = m.cursors[n].offset
  <2>1. DOMAIN q.cursors = DOMAIN m.cursors
    BY <1>2
  <2>2. ASSUME NEW n \in DOMAIN m.cursors
        PROVE  /\ q.cursors[n].pos = IF n \in moved THEN Target(n) ELSE m.cursors[n].pos
               /\ q.cursors[n].offset = m.cursors[n].offset
    <3> DEFINE t == Target(n)
    <3>1. /\ m.cursors[n] \in Cursor
          /\ q.cursors[n] = IF n \in moved THEN [m.cursors[n] EXCEPT !.ckpt = t, !.pos = t]
                            ELSE m.cursors[n]
      BY <1>1, <1>2
    <3> HIDE DEF t
    <3>2. /\ q.cursors[n].pos = IF n \in moved THEN t ELSE m.cursors[n].pos
          /\ q.cursors[n].offset = m.cursors[n].offset
      BY <3>1 DEF Cursor
    <3> QED  BY <3>2 DEF t
  <2> QED  BY <2>1, <2>2
<1>5. SameShape(m.list, q.list)
  BY <1>1, <1>2 DEF SameShape, Checkpoint
<1>6. ASSUME NEW n \in moved
      PROVE  OffsetExact(q, n)
  <2>1. q.cursors[n].pos = NextCheckpoint(m, m.cursors[n].ckpt)
    BY <1>3, <1>4 DEF Target
  <2>2. ReadBy(q, n) = ReadBy(m, n)
    BY <1>2, <1>3, <2>1, DummyNotRead
  <2> QED  BY <1>3, <1>4, <2>2, SameRead
<1>7. \A n \in DOMAIN q.cursors :
        \/ /\ n \in DOMAIN m.cursors /\ q.cursors[n].pos = m.cursors[n].pos
           /\ q.cursors[n].offset = m.cursors[n].offset
        \/ OffsetExact(q, n)
  BY <1>4, <1>6
<1>8. Exact(q)
  BY <1>2, <1>5, <1>7, SameExact
<1> QED  BY <1>8 DEF q

(* One item of a set is replaced by a new one, or the new one is just added. *)
LEMMA ReplaceCount ==
    ASSUME NEW S, IsFiniteSet(S), NEW old \in SUBSET S, \A i, j \in old : i = j,
           NEW x, x \notin S
    PROVE  Cardinality((S \ old) \cup {x}) = Cardinality(S) + IF old = {} THEN 1 ELSE 0
<1>1. Cardinality(S) \in Nat
  BY FS_CardinalityType
<1>2. CASE old = {}
  <2>1. (S \ old) \cup {x} = S \cup {x}
    BY <1>2
  <2>2. Cardinality(S \cup {x}) = Cardinality(S) + 1
    BY FS_AddElement
  <2> QED  BY <1>2, <2>1, <2>2
<1>3. CASE old # {}
  <2>1. PICK o \in old : TRUE
    BY <1>3
  <2>2. S \ old = S \ {o}
    BY <2>1
  <2>3. IsFiniteSet(S \ {o}) /\ Cardinality(S \ {o}) = Cardinality(S) - 1
    BY <2>1, FS_RemoveElement
  <2>4. Cardinality((S \ {o}) \cup {x}) = Cardinality(S \ {o}) + 1
    BY <2>3, FS_AddElement
  <2>5. (S \ old) \cup {x} = (S \ {o}) \cup {x}
    BY <2>2
  <2>6. Cardinality((S \ {o}) \cup {x}) = Cardinality(S)
    BY <1>1, <2>3, <2>4
  <2> QED  BY <1>1, <1>3, <2>5, <2>6
<1> QED  BY <1>2, <1>3

(* In an open checkpoint every position with no key, its dummy and its start, is before   *)
(* the mutations: a cursor that has read an erased item is seen to have, and counts down. *)
LEMMA ShiftOffset ==
    ASSUME NEW m, Good(m), Exact(m), m.list[Back(m)].state # "closed",
           NEW n \in DOMAIN m.cursors, NEW key \in Keys, NEW o,
           o \in Index(m, Back(m), key)
    PROVE  ShiftCursor(m, n, Index(m, Back(m), key)).offset
             = m.cursors[n].offset - IF o <= m.cursors[n].pos THEN 1 ELSE 0
<1> DEFINE c == Back(m)
           old == Index(m, c, key)
           cur == m.cursors[n]
           b == cur.pos
           off == IF m.items[b].key # NoKey /\ \E i \in old : i <= b
                  THEN DecrOffset(n, cur.offset, 1) ELSE cur.offset
           pos == IF b \in old THEN Prev(m, cur.ckpt, b) ELSE b
           k == ShiftCursor(m, n, old)
<1>1. /\ cur \in Cursor /\ cur.ckpt \in DOMAIN m.list /\ b \in DOMAIN m.items /\ b \in Nat
      /\ m.items[b].ckpt = cur.ckpt /\ Lists(m) /\ WellFormed(m)
      /\ c \in DOMAIN m.list /\ \A d \in DOMAIN m.list : d <= c
  BY CursorFacts, GoodParts, BackIn DEF Good, Exact
<1>2. /\ \A i \in DOMAIN m.items : i \in Nat /\ m.items[i].ckpt \in Nat
      /\ \A i, j \in DOMAIN m.items : i <= j => m.items[i].ckpt <= m.items[j].ckpt
      /\ \A i \in DOMAIN m.items : m.items[i].op \in Ops
  <2>1. \A i \in DOMAIN m.items : m.items[i] \in Item
    BY <1>1 DEF Lists, IsManager
  <2> QED  BY <1>1, <2>1, ItemFacts DEF Item
<1>3. /\ o \in DOMAIN m.items /\ m.items[o].ckpt = c /\ m.items[o].key = key
      /\ \A i \in old : i = o
  BY <1>1, KeyAssumption DEF Index, ToWrite, Lists, UniqueKeys
<1>4. m.items[o].op = "mutation"
  BY <1>1, <1>3, KeyAssumption DEF Lists, KeysOfMutations
<1>5. CASE cur.ckpt # c
  <2>1. k = cur
    BY <1>5 DEF ShiftCursor
  <2>2. ~(o <= b)
    BY <1>1, <1>2, <1>3, <1>5
  <2> QED  BY <1>1, <2>1, <2>2 DEF Cursor
<1>6. CASE cur.ckpt = c
  <2>1. k = [cur EXCEPT !.offset = off, !.pos = pos]
    BY <1>6 DEF ShiftCursor
  <2>2. k.offset = off
    <3> HIDE DEF off, pos, k
    <3> QED  BY <1>1, <2>1 DEF Cursor
  <2>3. cur.offset \in Int /\ OffsetExact(m, n)
    BY <1>1 DEF Cursor, Exact
  <2>4. CASE o <= b
    <3>1. m.items[b].key # NoKey
      <4>1. PICK s \in ToWrite(m, c) : /\ Of(m, c, "checkpoint_start") = {s}
                                       /\ \A i \in ToWrite(m, c) : i > c => i >= s
        BY <1>1, FormedAll DEF Formed
      <4>2. o # c /\ c <= o /\ c \in Nat
        <5>1. c \in Nat /\ c <= o
          BY <1>1, <1>2, <1>3, Positions DEF ToWrite
        <5>2. m.items[o].op = "empty" <=> o = m.items[o].ckpt
          BY <1>1, <1>3, DummyAlone
        <5> QED  BY <1>3, <1>4, <5>1, <5>2
      <4>3. o >= s /\ o # s /\ s \in Nat
        <5>1. s \in Of(m, c, "checkpoint_start")
          BY <4>1
        <5>2. s \in DOMAIN m.items /\ m.items[s].op = "checkpoint_start"
          BY <5>1 DEF Of, ToWrite
        <5>3. o \in ToWrite(m, c) /\ o > c
          BY <1>2, <1>3, <4>2 DEF ToWrite
        <5> QED  BY <1>2, <1>4, <4>1, <5>2, <5>3
      <4>4. b \in ToWrite(m, c) /\ b > s /\ b > c
        BY <1>1, <1>2, <1>3, <1>6, <2>4, <4>2, <4>3 DEF ToWrite
      <4>5. b \notin Of(m, c, "empty") /\ b \notin Of(m, c, "checkpoint_start")
        <5>1. Of(m, c, "empty") = {c}
          BY <1>1, FormedAll DEF Formed
        <5> QED  BY <1>1, <4>1, <4>2, <4>3, <4>4, <5>1
      <4>6. Of(m, c, "checkpoint_end") = {}
        BY <1>1, FormedAll DEF Formed
      <4>7. b \in Of(m, c, "mutation")
        BY <1>1, <1>2, <4>4, <4>5, <4>6 DEF Of, Ops
      <4> QED  BY <1>1, <4>7, FormedAll DEF Formed
    <3>2. off = DecrOffset(n, cur.offset, 1)
      BY <2>4, <3>1
    <3>3. n = Persistence => cur.offset >= 1
      <4> DEFINE R == ReadBy(m, n)
      <4>1. o \in R /\ IsFiniteSet(R)
        BY <1>1, <1>3, <1>4, <2>4, FiniteCounted DEF ReadBy, Counted
      <4>2. n = Persistence => cur.offset - Cardinality(R) = 0
        BY <2>3 DEF OffsetExact
      <4> HIDE DEF R
      <4>3. Cardinality(R) >= 1 /\ Cardinality(R) \in Nat
        BY <4>1, FS_EmptySet, FS_CardinalityType
      <4> QED  BY <2>3, <4>2, <4>3
    <3>4. DecrOffset(n, cur.offset, 1) = cur.offset - 1
      BY <2>3, <3>3 DEF DecrOffset
    <3> QED  BY <2>2, <2>4, <3>2, <3>4
  <2>5. CASE ~(o <= b)
    <3>1. off = cur.offset
      BY <1>3, <2>5
    <3> QED  BY <2>2, <2>3, <2>5, <3>1
  <2> QED  BY <2>4, <2>5
<1> QED  BY <1>5, <1>6

(* Checkpoint::queueDirty: an item of the same key makes room for the new one. *)
LEMMA QueueInOpenExact ==
    ASSUME NEW m, Good(m), Exact(m), m.list[Back(m)].state # "closed", NEW key \in Keys
    PROVE  Exact(QueueInOpenCheckpoint(m, key))
<1> DEFINE c == Back(m)
           old == Index(m, c, key)
           mid == m.mutationCounter + 1
           one == IF old = {} THEN 1 ELSE 0
           e == [m EXCEPT !.items = Restrict(@, DOMAIN @ \ old),
                          !.cursors = [n \in DOMAIN @ |-> ShiftCursor(m, n, old)]]
           f == IF old = {} THEN m ELSE e
           p == PushBack(f, c, "mutation", key)
           q == QueueInOpenCheckpoint(m, key)
<1>1. /\ DOMAIN m = Fields /\ Lists(m) /\ Tallied(m) /\ m.numItems \in Int
      /\ m.mutationCounter \in Nat /\ DOMAIN m.items \subseteq 1 .. m.mutationCounter
      /\ m.list \in [DOMAIN m.list -> Checkpoint] /\ c \in DOMAIN m.list
  BY GoodParts, BackIn DEF Good, Lists, IsManager, ItemsInOrder, Exact, Tallied
<1>2. /\ DOMAIN f = Fields /\ f.mutationCounter = m.mutationCounter
      /\ f.list = m.list /\ f.numItems = m.numItems
      /\ DOMAIN f.items = DOMAIN m.items \ old
      /\ \A i \in DOMAIN f.items : f.items[i] = m.items[i]
      /\ f.cursors = [n \in DOMAIN m.cursors |->
                        IF old = {} THEN m.cursors[n] ELSE ShiftCursor(m, n, old)]
  <2>1. /\ DOMAIN e = Fields /\ e.mutationCounter = m.mutationCounter
        /\ e.list = m.list /\ e.numItems = m.numItems
        /\ e.items = [i \in DOMAIN m.items \ old |-> m.items[i]]
        /\ e.cursors = [n \in DOMAIN m.cursors |-> ShiftCursor(m, n, old)]
    BY <1>1 DEF Restrict, Fields
  <2> HIDE DEF e
  <2>2. CASE old = {}
    <3>1. f = m
      BY <2>2
    <3>2. m.cursors = [n \in DOMAIN m.cursors |-> m.cursors[n]]
      BY GoodParts
    <3> HIDE DEF f, old
    <3> QED  BY <1>1, <2>2, <3>1, <3>2
  <2>3. CASE old # {}
    <3>1. f = e
      BY <2>3
    <3> HIDE DEF f, old
    <3> QED  BY <2>1, <2>3, <3>1
  <2> QED  BY <2>2, <2>3
<1> HIDE DEF f
<1>3. /\ old \subseteq DOMAIN m.items
      /\ \A i \in old : /\ m.items[i].key = key /\ m.items[i].ckpt = c
                        /\ m.items[i].op = "mutation"
      /\ \A i, j \in old : i = j
  <2>1. old \subseteq DOMAIN m.items /\ \A i \in old : m.items[i].key = key /\ m.items[i].ckpt = c
    BY DEF Index, ToWrite
  <2> QED  BY <1>1, <2>1, KeyAssumption DEF Lists, UniqueKeys, KeysOfMutations
<1>4. /\ q.items = p.items /\ q.cursors = p.cursors /\ q.numItems = p.numItems + one
      /\ DOMAIN q.list = DOMAIN m.list /\ q.list[c].state = m.list[c].state
      /\ q.list[c].numItems = m.list[c].numItems + one
      /\ \A d \in DOMAIN m.list : d # c => q.list[d] = m.list[d]
  <2>1. DOMAIN p = Fields /\ p.list = m.list /\ p.numItems = m.numItems
    <3>1. DOMAIN f = Fields
      BY <1>2
    <3>2. DOMAIN p = Fields /\ p.list = f.list /\ p.numItems = f.numItems
      BY <3>1 DEF PushBack, Fields
    <3> HIDE DEF p
    <3> QED  BY <1>2, <3>2
  <2>2. CASE old = {}
    <3>1. q = [p EXCEPT !.list[c].numItems = @ + 1, !.numItems = @ + 1]
      BY <2>2 DEF QueueInOpenCheckpoint, f
    <3> HIDE DEF p, q, c
    <3>2. /\ q.items = p.items /\ q.cursors = p.cursors /\ q.numItems = p.numItems + 1
          /\ q.list = [m.list EXCEPT ![c].numItems = @ + 1]
      BY <2>1, <3>1 DEF Fields
    <3>3. /\ DOMAIN q.list = DOMAIN m.list /\ q.list[c].state = m.list[c].state
          /\ q.list[c].numItems = m.list[c].numItems + 1
          /\ \A d \in DOMAIN m.list : d # c => q.list[d] = m.list[d]
      BY <1>1, <3>2 DEF Checkpoint
    <3> HIDE DEF old
    <3> QED  BY <2>2, <3>2, <3>3
  <2>3. CASE old # {}
    <3>1. q = p
      BY <2>3 DEF QueueInOpenCheckpoint, f
    <3>2. m.list[c].numItems + 0 = m.list[c].numItems
      BY <1>1 DEF Checkpoint
    <3> HIDE DEF p, q, c, old
    <3> QED  BY <1>1, <2>1, <2>3, <3>1, <3>2
  <2> QED  BY <2>2, <2>3
<1>5. /\ p.cursors = f.cursors /\ p.numItems = m.numItems
      /\ p.items = [i \in DOMAIN f.items \cup {mid} |->
                      IF i = mid THEN [ckpt |-> c, op |-> "mutation", key |-> key]
                      ELSE f.items[i]]
  <2>1. /\ p.cursors = f.cursors /\ p.numItems = f.numItems
        /\ p.items = [i \in DOMAIN f.items \cup {f.mutationCounter + 1} |->
                        IF i = f.mutationCounter + 1
                        THEN [ckpt |-> c, op |-> "mutation", key |-> key] ELSE f.items[i]]
    BY <1>2, PushBackFields
  <2>2. f.mutationCounter + 1 = mid /\ f.numItems = m.numItems
    BY <1>2
  <2> HIDE DEF p, mid, c
  <2> QED  BY <2>1, <2>2
<1> HIDE DEF p, q, e
<1>6. mid \in Nat /\ mid \notin DOMAIN m.items /\ \A i \in DOMAIN m.items : i \in Nat /\ i < mid
  BY <1>1
<1>7. ASSUME NEW d, NEW op
      PROVE  /\ ToWrite(f, d) = ToWrite(m, d) \ old /\ Of(f, d, op) = Of(m, d, op) \ old
             /\ Counted(f) = Counted(m) \ old
  BY <1>2 DEF ToWrite, Of, Counted
<1>8. /\ \A i \in DOMAIN m.items \ old : q.items[i] = m.items[i]
      /\ q.items[mid].key = key
      /\ ToWrite(q, c) = (ToWrite(m, c) \ old) \cup {mid}
      /\ \A d : d # c => ToWrite(q, d) = ToWrite(m, d)
      /\ Of(q, c, "mutation") = (Of(m, c, "mutation") \ old) \cup {mid}
      /\ \A o : o # "mutation" => Of(q, c, o) = Of(m, c, o)
      /\ Counted(q) = (Counted(m) \ old) \cup {mid}
  <2>1. Pushed(f, q, mid, c, "mutation", key)
    BY <1>2, <1>4, <1>5, <1>6 DEF Pushed
  <2> HIDE DEF mid
  <2>2. /\ q.items[mid].key = key /\ \A i \in DOMAIN f.items : q.items[i] = f.items[i]
        /\ ToWrite(q, c) = ToWrite(f, c) \cup {mid}
        /\ \A d : d # c => ToWrite(q, d) = ToWrite(f, d)
        /\ Of(q, c, "mutation") = Of(f, c, "mutation") \cup {mid}
        /\ \A o : o # "mutation" => Of(q, c, o) = Of(f, c, o)
        /\ Counted(q) = Counted(f) \cup {mid}
    BY <2>1, PushOf
  <2>3. \A d : d # c => ToWrite(m, d) \ old = ToWrite(m, d)
    BY <1>3 DEF ToWrite
  <2>4. \A o : o # "mutation" => Of(m, c, o) \ old = Of(m, c, o)
    BY <1>3 DEF Of
  <2> HIDE DEF c, old
  <2> QED  BY <1>2, <1>7, <2>2, <2>3, <2>4
<1>9. /\ old \in SUBSET Counted(m) /\ old \in SUBSET Of(m, c, "mutation")
      /\ Counted(m) \in SUBSET DOMAIN m.items /\ Of(m, c, "mutation") \in SUBSET DOMAIN m.items
  BY <1>3 DEF Counted, Of, ToWrite
<1>10. NumItemsExact(q)
  <2> DEFINE C == Counted(m)
  <2>1. mid \notin C /\ IsFiniteSet(C) /\ old \in SUBSET C /\ m.numItems = Cardinality(C)
    BY <1>1, <1>6, <1>9, FiniteCounted DEF Tallied, NumItemsExact
  <2> HIDE DEF C, old, mid
  <2>2. Cardinality((C \ old) \cup {mid}) = Cardinality(C) + one
    BY <1>3, <2>1, ReplaceCount
  <2> HIDE DEF one
  <2> QED  BY <1>4, <1>5, <1>8, <2>1, <2>2 DEF NumItemsExact, C
<1>11. Formed(q, c)
  <2> DEFINE M == Of(m, c, "mutation")
  <2>1. Formed(m, c)
    BY <1>1, FormedAll DEF Tallied
  <2>2. m.list[c].numItems + one = Cardinality(Of(q, c, "mutation"))
    <3>1. mid \notin M /\ IsFiniteSet(M) /\ old \in SUBSET M /\ m.list[c].numItems = Cardinality(M)
      BY <1>1, <1>6, <1>9, <2>1, FiniteCounted DEF Formed
    <3> HIDE DEF M, old, mid
    <3>2. Cardinality((M \ old) \cup {mid}) = Cardinality(M) + one
      BY <1>3, <3>1, ReplaceCount
    <3> HIDE DEF one
    <3> QED  BY <1>8, <3>1, <3>2 DEF M
  <2>3. \E s \in ToWrite(q, c) : /\ Of(q, c, "checkpoint_start") = {s}
                                 /\ \A i \in ToWrite(q, c) : i > c => i >= s
    <3>1. PICK s \in ToWrite(m, c) : /\ Of(m, c, "checkpoint_start") = {s}
                                     /\ \A i \in ToWrite(m, c) : i > c => i >= s
      BY <2>1 DEF Formed
    <3>2. s \in Of(m, c, "checkpoint_start")
      BY <3>1
    <3>3. s \notin old /\ s \in DOMAIN m.items
      BY <1>3, <3>2 DEF Of, ToWrite
    <3>4. s \in Nat /\ s < mid
      BY <1>6, <3>3
    <3> HIDE DEF mid, old, c
    <3>5. s \in ToWrite(q, c) /\ \A i \in ToWrite(q, c) : i > c => i >= s
      BY <1>6, <1>8, <3>1, <3>3, <3>4
    <3> QED  BY <1>8, <3>1, <3>5
  <2>4. Of(q, c, "empty") = {c} /\ Of(q, c, "checkpoint_end") = {} /\ q.list[c].state # "closed"
    BY <1>4, <1>8, <2>1 DEF Formed
  <2>5. \A i \in Of(q, c, "mutation") : q.items[i].key # NoKey
    BY <1>8, <1>9, <2>1, KeyAssumption DEF Formed
  <2> HIDE DEF c, one
  <2> QED  BY <1>4, <2>2, <2>3, <2>4, <2>5 DEF Formed
<1>12. ASSUME NEW d \in DOMAIN m.list, d # c
       PROVE  Formed(q, d)
  <2>1. Formed(m, d)
    BY <1>1, FormedAll DEF Tallied
  <2>2. \A i \in ToWrite(m, d) : q.items[i] = m.items[i]
    BY <1>3, <1>8, <1>12 DEF ToWrite
  <2>3. q.list[d].state = m.list[d].state /\ q.list[d].numItems = m.list[d].numItems
    BY <1>4, <1>12
  <2> QED  BY <1>8, <1>12, <2>1, <2>2, <2>3, FormedSame
<1>13. DOMAIN q.cursors = DOMAIN m.cursors
  BY <1>2, <1>4, <1>5
<1>14. ASSUME NEW n \in DOMAIN m.cursors
       PROVE  OffsetExact(q, n)
  <2> DEFINE R == ReadBy(m, n)
             k == ShiftCursor(m, n, old)
             b == m.cursors[n].pos
  <2>1. q.cursors[n] = IF old = {} THEN m.cursors[n] ELSE k
    BY <1>2, <1>4, <1>5
  <2>2. /\ b \in Nat /\ b < mid /\ IsFiniteSet(R) /\ OffsetExact(m, n)
        /\ m.cursors[n].offset \in Int
    BY <1>1, <1>6, CursorFacts, FiniteCounted DEF Exact, Cursor
  <2>3. /\ q.cursors[n].pos \in Nat /\ q.cursors[n].pos < mid
        /\ \A i \in DOMAIN m.items \ old : i > q.cursors[n].pos <=> i > b
    <3>1. CASE old = {}
      BY <2>1, <2>2, <3>1
    <3>2. CASE old # {}
      <4>1. /\ k.pos \in Nat /\ k.pos <= b
            /\ \A i \in DOMAIN m.items \ old : i > k.pos <=> i > b
        BY ShiftPlace
      <4>2. q.cursors[n] = k
        BY <2>1, <3>2
      <4> HIDE DEF k, b, mid, old
      <4> QED  BY <1>6, <2>2, <4>1, <4>2
    <3> QED  BY <3>1, <3>2
  <2>4. ReadBy(q, n) = R \ old
    <3>1. \A i \in Counted(m) \ old : i <= q.cursors[n].pos <=> i <= b
      BY <1>6, <1>9, <2>2, <2>3
    <3> HIDE DEF old, mid
    <3>2. ~(mid <= q.cursors[n].pos)
      BY <1>6, <2>3
    <3> QED  BY <1>8, <3>1, <3>2 DEF ReadBy
  <2>5. CASE old = {}
    BY <2>1, <2>4, <2>5, <2>2 DEF OffsetExact
  <2>6. CASE old # {}
    <3>1. PICK o \in old : TRUE
      BY <2>6
    <3>2. old = {o}
      BY <1>3, <3>1
    <3>3. k.offset = m.cursors[n].offset - IF o <= b THEN 1 ELSE 0
      BY <3>1, ShiftOffset
    <3>4. o \in R <=> o <= b
      BY <1>9, <3>1 DEF ReadBy
    <3>5. q.cursors[n].offset = k.offset
      BY <2>1, <2>6
    <3> HIDE DEF old, k, b, R
    <3>6. Cardinality(R) \in Nat /\ Cardinality(R \ {o}) = Cardinality(R) - IF o \in R THEN 1 ELSE 0
      BY <2>2, FS_CardinalityType, FS_RemoveElement
    <3>7. q.cursors[n].offset - Cardinality(R \ {o}) = m.cursors[n].offset - Cardinality(R)
      BY <2>2, <3>3, <3>4, <3>5, <3>6
    <3> QED  BY <2>2, <2>4, <3>2, <3>7 DEF OffsetExact, R
  <2> QED  BY <2>5, <2>6
<1>15. Exact(q)
  BY <1>4, <1>10, <1>11, <1>12, <1>13, <1>14, FormedAll DEF Exact
<1> QED  BY <1>15 DEF q

(* CheckpointManager::queueDirty. *)
LEMMA QueueDirtyExact ==
    ASSUME NEW m, Good(m), Exact(m), m.list[Back(m)].state # "closed", NEW key \in Keys,
           NEW active, NEW slave, NEW elapsed
    PROVE  Exact(QueueDirty(m, key, active, slave, elapsed))
<1> DEFINE q == QueueInOpenCheckpoint(m, key)
<1>1. Good(q) /\ Exact(q)
  BY QueueInOpenGood, QueueInOpenExact
<1>2. Exact(CheckOpenCheckpoint(q, FALSE, elapsed))
  BY <1>1, CheckOpenExact
<1> QED  BY <1>1, <1>2 DEF QueueDirty

(* Without some checkpoints, when numItems goes down by what they count. *)
LEMMA WithoutTallied ==
    ASSUME NEW m, Lists(m), Tallied(m), NEW gone, NEW q,
           q.items = WithoutCheckpoints(m, gone).items,
           q.list = WithoutCheckpoints(m, gone).list,
           q.numItems = m.numItems - Cardinality(CountedIn(m, gone))
    PROVE  /\ Tallied(q)
           /\ Counted(q) = Counted(m) \ CountedIn(m, gone)
           /\ CountedIn(m, gone) \in SUBSET Counted(m)
<1> DEFINE w == WithoutCheckpoints(m, gone)
           G == CountedIn(m, gone)
           C == Counted(m)
<1>1. DOMAIN m = Fields
  BY DEF Lists, IsManager
<1>2. /\ w.items = [i \in {i \in DOMAIN m.items : m.items[i].ckpt \notin gone} |-> m.items[i]]
      /\ DOMAIN w.list = DOMAIN m.list \ gone
      /\ \A c \in DOMAIN w.list : w.list[c] = m.list[c] /\ ToWrite(w, c) = ToWrite(m, c)
  <2>1. w.items = [i \in {i \in DOMAIN m.items : m.items[i].ckpt \notin gone} |-> m.items[i]]
    BY <1>1 DEF WithoutCheckpoints, Restrict, Fields
  <2> QED  BY <2>1, WithoutLists
<1>3. /\ \A i \in DOMAIN w.items : i \in DOMAIN m.items /\ w.items[i] = m.items[i]
      /\ DOMAIN w.items = {i \in DOMAIN m.items : m.items[i].ckpt \notin gone}
  BY <1>2
<1>4. q.items = w.items /\ q.list = w.list
  OBVIOUS
<1> HIDE DEF w
<1>5. Counted(q) = C \ G /\ G \in SUBSET C
  BY <1>3, <1>4 DEF Counted, CountedIn
<1>6. NumItemsExact(q)
  <2>1. IsFiniteSet(C) /\ m.numItems = Cardinality(C) /\ q.numItems = m.numItems - Cardinality(G)
    BY FiniteCounted DEF Tallied, NumItemsExact
  <2> HIDE DEF C, G
  <2>2. Cardinality(C \ G) = Cardinality(C) - Cardinality(G)
    BY <1>5, <2>1, RestCount
  <2> QED  BY <1>5, <2>1, <2>2 DEF NumItemsExact
<1>7. ASSUME NEW c \in DOMAIN q.list
      PROVE  Formed(q, c)
  <2>1. c \in DOMAIN m.list /\ Formed(m, c)
    BY <1>2, <1>4, FormedAll DEF Tallied
  <2>2. ToWrite(q, c) = ToWrite(m, c) /\ q.list[c] = m.list[c]
    BY <1>2, <1>4 DEF ToWrite
  <2>3. \A i \in ToWrite(m, c) : q.items[i] = m.items[i]
    BY <1>3, <1>4, <2>2 DEF ToWrite
  <2> QED  BY <2>1, <2>2, <2>3, FormedSame
<1>8. Tallied(q)
  BY <1>6, <1>7, FormedAll DEF Tallied
<1> QED  BY <1>5, <1>8

(* Freeing unreferenced checkpoints: they are closed, and all their items have been read  *)
(* by every cursor.                                                                       *)
LEMMA RemoveUnrefExact ==
    ASSUME NEW m, Good(m), Exact(m)
    PROVE  Exact(RemoveUnrefPrefix(m))
<1> DEFINE gone == UnrefPrefix(m)
           f == [c \in DOMAIN m.list |-> m.list[c].numItems + 2]
           num == SumOver(f, gone)
           w == WithoutCheckpoints(m, gone)
           q == RemoveUnrefPrefix(m)
           G == CountedIn(m, gone)
<1>1. /\ DOMAIN m = Fields /\ Lists(m) /\ Tallied(m)
      /\ m.cursors \in [DOMAIN m.cursors -> Cursor] /\ Persistence \in DOMAIN m.cursors
  BY GoodParts DEF Exact, Tallied
<1>2. gone \in SUBSET DOMAIN m.list
  BY DEF UnrefPrefix
<1>3. \A c \in gone : m.list[c].state = "closed"
  <2> DEFINE b == m.cursors[Persistence].ckpt
  <2>1. b \in DOMAIN m.list /\ m.list[b].refs # 0
    BY <1>1, CursorFacts, Referenced
  <2>2. ASSUME NEW c \in gone
        PROVE  c < b
    <3>1. ~(b <= c)
      BY <2>1 DEF UnrefPrefix
    <3>2. c \in Nat /\ b \in Nat
      BY <1>1, <1>2, <2>1, ItemFacts
    <3> HIDE DEF b
    <3> QED  BY <3>1, <3>2
  <2> QED  BY <1>1, <1>2, <2>1, <2>2 DEF Lists, ClosedBefore
<1>4. num = Cardinality(G)
  <2>1. \A c \in gone :
          f[c] = m.list[c].numItems + IF m.list[c].state = "closed" THEN 2 ELSE 1
    BY <1>2, <1>3
  <2> HIDE DEF f, gone
  <2> QED  BY <1>1, <1>2, <2>1, SizesCount DEF Tallied
<1>5. \A n \in DOMAIN m.cursors : G \subseteq ReadBy(m, n)
  <2>1. ASSUME NEW n \in DOMAIN m.cursors, NEW i \in G
        PROVE  i <= m.cursors[n].pos
    <3>1. i \in DOMAIN m.items /\ m.items[i].ckpt \in gone
      BY DEF CountedIn, Counted
    <3>2. ~(i > m.cursors[n].pos)
      BY <3>1, UnreadStays
    <3>3. i \in Nat /\ m.cursors[n].pos \in Nat
      BY <1>1, <3>1, ItemFacts, CursorFacts
    <3> QED  BY <3>2, <3>3
  <2> QED  BY <2>1 DEF ReadBy, CountedIn
<1>6. DOMAIN w = Fields /\ w.numItems = m.numItems /\ w.cursors = m.cursors
  BY <1>1 DEF WithoutCheckpoints, Fields
<1>7. q = [w EXCEPT !.numItems = @ - num,
                    !.cursors = [n \in DOMAIN @ |->
                       [m.cursors[n] EXCEPT !.offset = DecrOffset(n, @, num)]]]
  BY DEF RemoveUnrefPrefix
<1> HIDE DEF q, num
<1>8. /\ q.items = w.items /\ q.list = w.list /\ q.numItems = m.numItems - num
      /\ q.cursors = [n \in DOMAIN m.cursors |->
                        [m.cursors[n] EXCEPT !.offset = DecrOffset(n, @, num)]]
  <2> HIDE DEF w
  <2> QED  BY <1>6, <1>7 DEF Fields
<1> HIDE DEF w, gone, G
<1>9. Tallied(q) /\ Counted(q) = Counted(m) \ G
  BY <1>1, <1>4, <1>8, WithoutTallied DEF w, G
<1>10. DOMAIN q.cursors = DOMAIN m.cursors
  BY <1>8
<1>11. ASSUME NEW n \in DOMAIN m.cursors
       PROVE  OffsetExact(q, n)
  <2> DEFINE R == ReadBy(m, n)
             o == DecrOffset(n, m.cursors[n].offset, num)
  <2>1. m.cursors[n] \in Cursor /\ IsFiniteSet(R) /\ OffsetExact(m, n) /\ G \in SUBSET R
    BY <1>1, <1>5, FiniteCounted DEF Exact
  <2>2. q.cursors[n].pos = m.cursors[n].pos /\ q.cursors[n].offset = o
    <3>1. q.cursors[n] = [m.cursors[n] EXCEPT !.offset = o]
      BY <1>8
    <3> HIDE DEF o
    <3> QED  BY <2>1, <3>1 DEF Cursor
  <2>3. ReadBy(q, n) = R \ G
    BY <1>9, <2>2 DEF ReadBy
  <2>4. m.cursors[n].offset \in Int
    BY <2>1 DEF Cursor
  <2>5. m.cursors[n].offset - Cardinality(R) \in IF n = Persistence THEN {0} ELSE {0, 1}
    BY <2>1 DEF OffsetExact
  <2> HIDE DEF R
  <2>6. /\ Cardinality(G) \in Nat /\ Cardinality(R) \in Nat /\ IsFiniteSet(R \ G)
        /\ Cardinality(R \ G) = Cardinality(R) - Cardinality(G)
    BY <2>1, RestCount, FS_Subset
  <2>7. Cardinality(R \ G) \in Nat
    BY <2>6, FS_CardinalityType
  <2>8. o = m.cursors[n].offset - num
    BY <1>4, <2>4, <2>5, <2>6, <2>7 DEF DecrOffset
  <2> HIDE DEF o
  <2>9. q.cursors[n].offset - Cardinality(R \ G) = m.cursors[n].offset - Cardinality(R)
    BY <1>4, <2>2, <2>4, <2>6, <2>8
  <2> QED  BY <2>3, <2>5, <2>9 DEF OffsetExact
<1>12. Exact(q)
  BY <1>9, <1>10, <1>11 DEF Exact, Tallied
<1> QED  BY <1>12 DEF q

(* removeClosedUnrefCheckpoints. *)
LEMMA RemoverExact ==
    ASSUME NEW m, Good(m), Exact(m), NEW mayCreate, NEW forceCreation, NEW elapsed
    PROVE  Exact(RemoveClosedUnrefCheckpoints(m, mayCreate, forceCreation, elapsed))
<1> DEFINE oldId == ClosedByRemover(m, mayCreate, forceCreation, elapsed)
           p == IF mayCreate THEN CheckOpenCheckpoint(m, forceCreation, elapsed) ELSE m
           r == IF oldId > 0 THEN MoveCursorsAtEnd(p, oldId) ELSE p
<1>1. Good(p) /\ Exact(p)
  BY CheckOpenGood, CheckOpenExact
<1> HIDE DEF p, oldId
<1>2. Good(r) /\ Exact(r)
  BY <1>1, MoveCursorsGood, MoveCursorsExact
<1> HIDE DEF r
<1>3. Exact(RemoveUnrefPrefix(r))
  BY <1>2, RemoveUnrefExact
<1> QED  BY <1>3 DEF RemoveClosedUnrefCheckpoints, r, p, oldId

(* The checkpoint that addNewCheckpoint adds is open and counts its start item only. *)
LEMMA NewestEmpty ==
    ASSUME NEW m, Lists(m), NEW id \in Nat
    PROVE  LET q == AddNewCheckpoint(m, id)
           IN  q.list[Back(q)].state = "opened" /\ q.list[Back(q)].numItems = 0
<1> DEFINE q == AddNewCheckpoint(m, id)
           h == CloseOpenCheckpoint(m, m.list[Back(m)].id)
           ck == [id |-> id, state |-> "opened", refs |-> 0, numItems |-> 0]
<1>1. Back(q) \notin DOMAIN m.list /\ DOMAIN q.list = DOMAIN m.list \cup {Back(q)}
  BY AddNewLists
<1>2. ASSUME NEW r, Lists(r), q = AppendCheckpoint(r, id), DOMAIN r.list = DOMAIN m.list
      PROVE  q.list[Back(q)] = ck
  <2> DEFINE c == r.mutationCounter + 1
             m1 == PushBack(r, c, "empty", NoKey)
             m2 == PushBack(m1, c, "checkpoint_start", NoKey)
  <2>1. DOMAIN r = Fields
    BY <1>2 DEF Lists, IsManager
  <2>2. DOMAIN m2 = Fields
    BY <2>1 DEF PushBack, Fields
  <2>3. q = [m2 EXCEPT !.numItems = @ + 1,
                       !.list = [d \in DOMAIN r.list \cup {c} |-> IF d = c THEN ck ELSE r.list[d]]]
    BY <1>2 DEF AppendCheckpoint
  <2> HIDE DEF m2, c, ck, q
  <2>4. q.list = [d \in DOMAIN r.list \cup {c} |-> IF d = c THEN ck ELSE r.list[d]]
    BY <2>2, <2>3 DEF Fields
  <2>5. Back(q) = c
    BY <1>1, <1>2, <2>4
  <2> QED  BY <2>4, <2>5
<1>3. q.list[Back(q)] = ck
  <2>1. CASE DOMAIN m.list # {} /\ m.list[Back(m)].state = "opened"
    <3>1. Lists(h) /\ DOMAIN h.list = DOMAIN m.list
      BY <2>1, CloseLists
    <3>2. q = AppendCheckpoint(h, id)
      BY <2>1 DEF AddNewCheckpoint
    <3> HIDE DEF q, h, ck
    <3> QED  BY <1>2, <3>1, <3>2
  <2>2. CASE ~(DOMAIN m.list # {} /\ m.list[Back(m)].state = "opened")
    <3>1. q = AppendCheckpoint(m, id)
      BY <2>2 DEF AddNewCheckpoint
    <3> HIDE DEF q, ck
    <3> QED  BY <1>2, <3>1
  <2> QED  BY <2>1, <2>2
<1>4. ck.state = "opened" /\ ck.numItems = 0
  OBVIOUS
<1> HIDE DEF q, ck
<1>5. q.list[Back(q)].state = "opened" /\ q.list[Back(q)].numItems = 0
  BY <1>3, <1>4
<1> QED  BY <1>5 DEF q

(* What is rolled back is the checkpoints from some one on. *)
LEMMA RolledBackTail ==
    ASSUME NEW m, Lists(m), NEW id
    PROVE  /\ RolledBack(m, id) \in SUBSET DOMAIN m.list
           /\ \A c \in RolledBack(m, id), d \in DOMAIN m.list : d >= c => d \in RolledBack(m, id)
<1>1. \A d \in DOMAIN m.list : d \in Nat
  BY ItemFacts
<1> DEFINE A == {c \in DOMAIN m.list : m.list[c].id >= id}
           x == Min(A)
<1>2. CASE A # {}
  <2>1. A \in SUBSET Nat
    BY <1>1
  <2>2. x \in A
    BY <1>2, <2>1, MinNat
  <2> HIDE DEF x
  <2>3. x \in Nat
    BY <2>1, <2>2
  <2>4. RolledBack(m, id) \in {{}, {c \in DOMAIN m.list : c >= x}}
    BY DEF RolledBack, x
  <2> QED  BY <1>1, <2>3, <2>4
<1>3. CASE A = {}
  <2>1. RolledBack(m, id) = {}
    BY <1>3 DEF RolledBack
  <2> QED  BY <2>1
<1> QED  BY <1>2, <1>3

(* A cursor before the checkpoints that go away has read none of their items. *)
LEMMA TailUnread ==
    ASSUME NEW m, Good(m), NEW gone \in SUBSET DOMAIN m.list,
           \A c \in gone, d \in DOMAIN m.list : d >= c => d \in gone,
           NEW n \in DOMAIN m.cursors, m.cursors[n].ckpt \notin gone,
           NEW i \in DOMAIN m.items, m.items[i].ckpt \in gone
    PROVE  i > m.cursors[n].pos
<1> DEFINE b == m.cursors[n].pos
<1>1. /\ m.cursors[n].ckpt \in DOMAIN m.list /\ b \in DOMAIN m.items /\ b \in Nat
      /\ m.items[b].ckpt = m.cursors[n].ckpt
  BY CursorFacts
<1>2. /\ i \in Nat /\ m.items[i].ckpt \in Nat /\ m.items[b].ckpt \in Nat
      /\ i <= b => m.items[i].ckpt <= m.items[b].ckpt
  BY <1>1, ItemFacts DEF Good
<1>3. ~(m.items[b].ckpt >= m.items[i].ckpt)
  BY <1>1
<1> HIDE DEF b
<1>4. i > b
  BY <1>1, <1>2, <1>3
<1> QED  BY <1>4 DEF b

(* A roll-back: the cursors it repositions have everything left of the new checkpoint.    *)
LEMMA RollBackExact ==
    ASSUME NEW m, Good(m), Exact(m), NEW id \in Nat
    PROVE  Exact(RollBack(m, id))
<1> DEFINE gone == RolledBack(m, id)
           f == [c \in DOMAIN m.list |->
                   m.list[c].numItems + IF m.list[c].state = "closed" THEN 2 ELSE 1]
           num == SumOver(f, gone)
           v == WithoutCheckpoints(m, gone)
           w == [v EXCEPT !.numItems = @ - num]
           p == AddNewCheckpoint(w, id)
           c == Back(p)
           moved == {n \in DOMAIN m.cursors : m.cursors[n].ckpt \in gone}
           cs == [n \in DOMAIN m.cursors |->
                    IF n \in moved
                    THEN [m.cursors[n] EXCEPT !.ckpt = c, !.pos = c, !.offset = p.numItems - 1]
                    ELSE m.cursors[n]]
           q == RollBack(m, id)
           G == CountedIn(m, gone)
<1>1. /\ DOMAIN m = Fields /\ Lists(m) /\ Tallied(m) /\ m.numItems \in Int
      /\ m.cursors \in [DOMAIN m.cursors -> Cursor]
  BY GoodParts DEF Exact, Tallied
<1>2. /\ gone \in SUBSET DOMAIN m.list
      /\ \A x \in gone, d \in DOMAIN m.list : d >= x => d \in gone
  BY <1>1, RolledBackTail
<1> HIDE DEF gone
<1>3. num = Cardinality(G) /\ num \in Nat
  <2>1. \A x \in gone :
          f[x] = m.list[x].numItems + IF m.list[x].state = "closed" THEN 2 ELSE 1
    BY <1>2
  <2> HIDE DEF f
  <2>2. num = Cardinality(G)
    BY <1>1, <1>2, <2>1, SizesCount DEF Tallied
  <2>3. G \in SUBSET Counted(m) /\ IsFiniteSet(Counted(m))
    BY <1>1, FiniteCounted DEF CountedIn
  <2> HIDE DEF G, num
  <2> QED  BY <2>2, <2>3, RestCount
<1> HIDE DEF num, G
<1>4. /\ Lists(v) /\ v.numItems = m.numItems /\ v.cursors = m.cursors
  BY <1>1, WithoutLists
<1>5. \A i \in DOMAIN m.items : m.items[i].ckpt \notin gone =>
        i \in DOMAIN v.items
  BY <1>1 DEF WithoutCheckpoints, Restrict, Fields
<1> HIDE DEF v
<1>6. /\ DOMAIN w = Fields /\ w.items = v.items /\ w.list = v.list
      /\ w.mutationCounter = v.mutationCounter /\ w.cursors = m.cursors
      /\ w.numItems = m.numItems - num
  BY <1>4 DEF Lists, IsManager, Fields
<1> HIDE DEF w
<1>7. Lists(w)
  <2>1. w.numItems \in Int /\ w.cursors \in [DOMAIN v.cursors -> Cursor]
    BY <1>1, <1>3, <1>4, <1>6
  <2> QED  BY <1>4, <1>6, <2>1, SameLists
<1>8. Tallied(w) /\ Counted(w) = Counted(m) \ G
  BY <1>1, <1>3, <1>6, WithoutTallied DEF v, G
<1>9. /\ Lists(p) /\ Grows(w, p) /\ Tallied(p) /\ DOMAIN p.list = DOMAIN w.list \cup {c}
      /\ p.list[c].state = "opened" /\ p.list[c].numItems = 0
  BY <1>7, <1>8, AddNewLists, AddNewTallied, NewestEmpty
<1>10. q = [p EXCEPT !.list[c].refs = @ + Cardinality(moved),
                     !.cursors = [n \in DOMAIN @ |->
                        IF n \in moved
                        THEN [m.cursors[n] EXCEPT !.ckpt = c, !.pos = c, !.offset = p.numItems - 1]
                        ELSE m.cursors[n]]]
  BY DEF RollBack, p, w, v, num, gone
<1>11. c \in DOMAIN p.list /\ \A d \in DOMAIN p.list : d <= c
  BY <1>9, BackIn
<1> HIDE DEF p, c, q, moved
<1>12. /\ DOMAIN p = Fields /\ p.cursors = m.cursors /\ p.numItems \in Int
       /\ p.list \in [DOMAIN p.list -> Checkpoint]
  BY <1>6, <1>9 DEF Lists, IsManager, Grows
<1>13. /\ q.items = p.items /\ q.numItems = p.numItems /\ q.cursors = cs
       /\ q.list = [p.list EXCEPT ![c].refs = @ + Cardinality(moved)]
  BY <1>10, <1>12 DEF Fields
<1>14. Tallied(q)
  <2> DEFINE k == Cardinality(moved)
  <2>1. q.list = [p.list EXCEPT ![c].refs = @ + k]
    BY <1>13
  <2> HIDE DEF k
  <2>2. SameShape(p.list, q.list)
    BY <1>12, <2>1 DEF SameShape, Checkpoint
  <2> QED  BY <1>9, <1>13, <2>2, SameTallied
<1>15. ASSUME NEW n \in moved
       PROVE  OffsetExact(q, n)
  <2> DEFINE C == Counted(p)
             L == CountedIn(p, {c})
             o == p.numItems - 1
  <2>1. n \in DOMAIN m.cursors /\ m.cursors[n] \in Cursor
    BY <1>1 DEF moved
  <2>2. q.cursors[n].pos = c /\ q.cursors[n].offset = o
    <3>1. q.cursors[n] = [m.cursors[n] EXCEPT !.ckpt = c, !.pos = c, !.offset = o]
      BY <1>13, <2>1
    <3> HIDE DEF o
    <3> QED  BY <2>1, <3>1 DEF Cursor
  <2>3. ReadBy(q, n) = CountedIn(p, {d \in DOMAIN p.list : d < c})
    <3>1. ReadBy(q, n) = {i \in Counted(p) : i <= c}
      BY <1>13, <2>2 DEF ReadBy, Counted
    <3> QED  BY <1>9, <1>11, <3>1, BeforeDummy DEF Tallied
  <2>4. ReadBy(q, n) = C \ L /\ L \in SUBSET C
    <3>1. \A i \in C : p.items[i].ckpt \in DOMAIN p.list
      BY <1>9, ItemFacts DEF Counted
    <3>2. \A d \in DOMAIN p.list : d \in Nat
      BY <1>9, ItemFacts
    <3> QED  BY <1>11, <2>3, <3>1, <3>2 DEF CountedIn
  <2>5. Cardinality(L) = 1
    <3>1. Formed(p, c)
      BY <1>9, <1>11, FormedAll DEF Tallied
    <3>2. Cardinality(L) = p.list[c].numItems + IF p.list[c].state = "closed" THEN 2 ELSE 1
      BY <1>9, <1>11, <3>1, CheckpointSize
    <3> HIDE DEF L
    <3> QED  BY <1>9, <3>2
  <2>6. IsFiniteSet(C) /\ p.numItems = Cardinality(C)
    BY <1>9, FiniteCounted DEF Tallied, NumItemsExact
  <2> HIDE DEF C, L
  <2>7. Cardinality(C \ L) = Cardinality(C) - 1 /\ Cardinality(C) \in Nat
    BY <2>4, <2>5, <2>6, RestCount
  <2>8. q.cursors[n].offset - Cardinality(ReadBy(q, n)) = 0
    BY <2>2, <2>4, <2>6, <2>7
  <2> QED  BY <2>8 DEF OffsetExact
<1>16. ASSUME NEW n \in DOMAIN m.cursors, n \notin moved
       PROVE  OffsetExact(q, n)
  <2>1. m.cursors[n].ckpt \notin gone /\ q.cursors[n] = m.cursors[n]
    BY <1>13, <1>16 DEF moved
  <2>2. ASSUME NEW i \in G
        PROVE  ~(i <= m.cursors[n].pos)
    <3>1. i \in DOMAIN m.items /\ m.items[i].ckpt \in gone
      BY DEF G, CountedIn, Counted
    <3>2. i > m.cursors[n].pos
      BY <1>2, <2>1, <3>1, TailUnread
    <3>3. i \in Nat /\ m.cursors[n].pos \in Nat
      BY <1>1, <3>1, ItemFacts, CursorFacts
    <3> QED  BY <3>2, <3>3
  <2>3. ReadBy(w, n) = ReadBy(m, n)
    BY <1>6, <1>8, <2>2 DEF ReadBy
  <2>4. OffsetExact(w, n)
    BY <1>6, <2>3, SameRead
  <2>5. w.cursors[n].pos \in DOMAIN w.items /\ n \in DOMAIN w.cursors
    <3>1. /\ m.cursors[n].pos \in DOMAIN m.items
          /\ m.items[m.cursors[n].pos].ckpt = m.cursors[n].ckpt
      BY CursorFacts
    <3> QED  BY <1>5, <1>6, <2>1, <3>1
  <2>6. OffsetExact(p, n)
    BY <1>7, <1>9, <2>4, <2>5, GrowsOffset
  <2>7. ReadBy(q, n) = ReadBy(p, n)
    BY <1>12, <1>13, <2>1 DEF ReadBy, Counted
  <2> QED  BY <1>12, <2>1, <2>6, <2>7 DEF OffsetExact
<1>17. \A n \in DOMAIN q.cursors : OffsetExact(q, n)
  BY <1>13, <1>15, <1>16
<1>18. Exact(q)
  BY <1>14, <1>17 DEF Exact, Tallied
<1> QED  BY <1>18 DEF q

(* checkAndAddNewCheckpoint. *)
LEMMA CheckAndAddExact ==
    ASSUME NEW m, Good(m), Exact(m), NEW id \in Nat
    PROVE  Exact(CheckAndAddNewCheckpoint(m, id))
BY SetIdExact, RollBackExact, AddNewExact DEF CheckAndAddNewCheckpoint
-----------------------------------------------------------------------------
(* The state machine *)

USE DEF CheckpointIds

(* A new vbucket satisfies the inductive invariant. *)
LEMMA InitIInv ==
    ASSUME Init
    PROVE  IInv
<1>1. PICK id \in CheckpointIds : cm = NewManager(id)
  BY DEF Init
<1>2. id \in Nat
  BY BoundAssumption
<1>3. Good(cm)
  BY <1>1, <1>2, NewGood
<1>4. TypeOK
  BY <1>3, BoundAssumption DEF Init, TypeOK, Good, Lists, VBStates
<1> QED  BY <1>3, <1>4 DEF IInv

(* Each step that replaces the manager puts a good one in its place. *)
LEMMA StepGood ==
    ASSUME IInv, Next
    PROVE  Good(cm')
<1>1. Good(cm) /\ TypeOK /\ Persistence \in DOMAIN cm.cursors
  BY GoodParts DEF IInv
<1>2. \A id \in CheckpointIds : id \in Nat
  BY BoundAssumption
<1>3. \A n \in TapNames : n \in Names /\ n # Persistence
  BY NameAssumption DEF Names
<1>4. ASSUME NEW k \in Keys, NEW elapsed \in BOOLEAN, Mutate(k, elapsed)
      PROVE  Good(cm')
  <2>1. Good(QueueDirty(cm, k, IsActive, InconsistentSlave, elapsed))
    BY <1>1, QueueDirtyGood
  <2> QED  BY <1>1, <1>4, <2>1 DEF Mutate
<1>5. ASSUME NEW id \in CheckpointIds, CheckpointStart(id)
      PROVE  Good(cm')
  <2>1. Good(CheckAndAddNewCheckpoint(cm, id))
    BY <1>1, <1>2, CheckAndAddGood
  <2> QED  BY <1>5, <2>1 DEF CheckpointStart
<1>6. ASSUME NEW id \in CheckpointIds, CheckpointEnd(id)
      PROVE  Good(cm')
  <2>1. Good(CloseOpenCheckpoint(cm, id))
    BY <1>1, CloseGood
  <2> QED  BY <1>6, <2>1 DEF CheckpointEnd
<1>7. ASSUME NEW highMem \in BOOLEAN, NEW elapsed \in BOOLEAN,
             CheckVBOpenCheckpoint(highMem, elapsed)
      PROVE  Good(cm')
  <2>1. Good(CheckOpenCheckpoint(cm, IsCheckpointCreationForHighMemUsage(cm, highMem), elapsed))
    BY <1>1, CheckOpenGood
  <2> QED  BY <1>7, <2>1 DEF CheckVBOpenCheckpoint
<1>8. ASSUME NEW highMem \in BOOLEAN, NEW elapsed \in BOOLEAN, RemoveCheckpoints(highMem, elapsed)
      PROVE  Good(cm')
  <2>1. Good(RemoveClosedUnrefCheckpoints(cm, MayCreate(cm, IsActive, InconsistentSlave),
               IsCheckpointCreationForHighMemUsage(cm, highMem), elapsed))
    BY <1>1, RemoverGood
  <2> QED  BY <1>8, <2>1 DEF RemoveCheckpoints
<1>9. ASSUME NEW htEmpty \in BOOLEAN, InitialVBucketStream(htEmpty)
      PROVE  Good(cm')
  <2> DEFINE m == IF htEmpty THEN cm ELSE Clear(cm, IsActive)
  <2>1. Good(m)
    BY <1>1, ClearGood
  <2>2. Good(SetOpenCheckpointId(m, 0))
    BY <2>1, SetIdGood
  <2> QED  BY <1>9, <2>2 DEF InitialVBucketStream
<1>10. ASSUME CloseBackfill \/ ActivateCheck \/ ActivateSetState \/ \E to \in States : SetState(to)
       PROVE  Good(cm')
  BY <1>1, <1>10 DEF CloseBackfill, ActivateCheck, ActivateSetState, SetState
<1>11. ASSUME Reset
       PROVE  Good(cm')
  BY <1>1, <1>11, ClearGood DEF Reset
<1>12. ASSUME ActivateSetId
       PROVE  Good(cm')
  BY <1>1, <1>12, SetIdGood DEF ActivateSetId
<1>13. ASSUME BeginFlush
       PROVE  Good(cm')
  <2>1. Good(GetAllItems(cm, Persistence))
    BY <1>1, GetAllGood
  <2> QED  BY <1>13, <2>1 DEF BeginFlush
<1>14. ASSUME NEW n \in TapNames, RemoveCursor(n)
       PROVE  Good(cm')
  <2>1. n \in DOMAIN cm.cursors /\ cm' = RemoveTAPCursor(cm, n)
    BY <1>14 DEF RemoveCursor
  <2>2. Good(RemoveTAPCursor(cm, n))
    BY <1>1, <1>3, <2>1, RemoveTAPGood
  <2> QED  BY <2>1, <2>2
<1>15. ASSUME NEW n \in TapNames, Next1(n)
       PROVE  Good(cm')
  <2>1. n \in DOMAIN cm.cursors /\ cm' = NextItem(cm, n)
    BY <1>15 DEF Next1
  <2>2. Good(NextItem(cm, n))
    BY <1>1, <2>1, NextItemGood
  <2> QED  BY <2>1, <2>2
<1>16. ASSUME NEW n \in TapNames, PutBackCheckpointEnd(n)
       PROVE  Good(cm')
  <2>1. n \in DOMAIN cm.cursors /\ cm' = DecrTapCursorFromCheckpointEnd(cm, n)
    BY <1>16 DEF PutBackCheckpointEnd
  <2>2. Good(DecrTapCursorFromCheckpointEnd(cm, n))
    BY <1>1, <2>1, DecrTapGood
  <2> QED  BY <2>1, <2>2
<1>17. ASSUME NEW n \in TapNames, NEW id \in CheckpointIds, NEW closedOnly \in BOOLEAN,
              NEW fromBeginning \in BOOLEAN, RegisterCursor(n, id, closedOnly, fromBeginning)
       PROVE  Good(cm')
  <2>1. CASE MixesCheckpoints(n, id, fromBeginning)
    BY <1>1, <1>17, <2>1 DEF RegisterCursor
  <2>2. CASE ~MixesCheckpoints(n, id, fromBeginning)
    <3>1. KeepsPosition(cm, n, id, fromBeginning) => cm.cursors[n].ckpt = Min(WithId(cm, id))
      BY <2>2 DEF MixesCheckpoints
    <3>2. Good(RegisterTAPCursor(cm, n, id, closedOnly, fromBeginning))
      BY <1>1, <1>3, <3>1, RegisterGood
    <3> QED  BY <1>17, <2>2, <3>2 DEF RegisterCursor
  <2> QED  BY <2>1, <2>2
<1> QED  BY <1>4, <1>5, <1>6, <1>7, <1>8, <1>9, <1>10, <1>11, <1>12, <1>13, <1>14, <1>15,
            <1>16, <1>17 DEF Next

(* The variables beside the manager keep their types. *)
LEMMA StepTypes ==
    ASSUME TypeOK, Next
    PROVE  /\ vbState' \in VBStates
           /\ activation' \in {"none", "setId", "setState"}
           /\ backfillPhase' \in BOOLEAN
           /\ status' \in {"ok", "abort", "undefined"}
<1>1. vbState' \in VBStates
  BY BoundAssumption DEF TypeOK, VBStates, Next, Mutate, CheckpointStart, CheckpointEnd,
     CheckVBOpenCheckpoint, RemoveCheckpoints, InitialVBucketStream, CloseBackfill, Reset,
     SetState, ActivateCheck, ActivateSetId, ActivateSetState, BeginFlush, RemoveCursor,
     Next1, PutBackCheckpointEnd, RegisterCursor
<1>2. activation' \in {"none", "setId", "setState"}
  BY DEF TypeOK, Next, Mutate, CheckpointStart, CheckpointEnd,
     CheckVBOpenCheckpoint, RemoveCheckpoints, InitialVBucketStream, CloseBackfill, Reset,
     SetState, ActivateCheck, ActivateSetId, ActivateSetState, BeginFlush, RemoveCursor,
     Next1, PutBackCheckpointEnd, RegisterCursor
<1>3. backfillPhase' \in BOOLEAN
  BY DEF TypeOK, Next, Mutate, CheckpointStart, CheckpointEnd,
     CheckVBOpenCheckpoint, RemoveCheckpoints, InitialVBucketStream, CloseBackfill, Reset,
     SetState, ActivateCheck, ActivateSetId, ActivateSetState, BeginFlush, RemoveCursor,
     Next1, PutBackCheckpointEnd, RegisterCursor
<1>4. status' \in {"ok", "abort", "undefined"}
  BY DEF TypeOK, Next, Mutate, CheckpointStart, CheckpointEnd,
     CheckVBOpenCheckpoint, RemoveCheckpoints, InitialVBucketStream, CloseBackfill, Reset,
     SetState, ActivateCheck, ActivateSetId, ActivateSetState, BeginFlush, RemoveCursor,
     Next1, PutBackCheckpointEnd, RegisterCursor
<1> QED  BY <1>1, <1>2, <1>3, <1>4

(* The inductive invariant is preserved by every step, and by stuttering. *)
LEMMA NextIInv ==
    ASSUME IInv, [Next]_vars
    PROVE  IInv'
<1>1. CASE Next
  <2>1. Good(cm')
    BY <1>1, StepGood
  <2>2. IsManager(cm')
    BY <2>1 DEF Good, Lists
  <2>3. TypeOK'
    BY <1>1, <2>2, StepTypes DEF IInv, TypeOK
  <2> QED  BY <2>1, <2>3 DEF IInv
<1>2. CASE UNCHANGED vars
  BY <1>2 DEF IInv, TypeOK, vars
<1> QED  BY <1>1, <1>2

(* What checkpoint.cc keeps between any two calls holds at all times. *)
THEOREM QueueInvariant == Spec => []IInv
BY InitIInv, NextIInv, PTL DEF Spec

(* Type correctness of the vbucket's queue. *)
THEOREM QueueTypes == Spec => []TypeOK
<1>1. IInv => TypeOK
  BY DEF IInv
<1> QED  BY <1>1, QueueInvariant, PTL

(* No cursor ever refers to a checkpoint or to an item that is gone: deduplication   *)
(* shifts it (Checkpoint::queueDirty), the remover frees unreferenced checkpoints    *)
(* only, and a roll-back or a reset repositions it.                                  *)
THEOREM NoCursorDangles == Spec => []NoDanglingCursor
<1>1. IInv => NoDanglingCursor
  BY DEF IInv, Good, NoDanglingCursor
<1> QED  BY <1>1, QueueInvariant, PTL

(* referenceCounter is at all times the number of cursors in its checkpoint, through *)
(* every increment and decrement of checkpoint.cc.                                   *)
THEOREM ReferencesAreExact == Spec => []RefCountsExact
<1>1. IInv => RefCountsExact
  BY DEF IInv, Good, RefCountsExact
<1> QED  BY <1>1, QueueInvariant, PTL

(* What a cursor has still to read is never evicted (isKeyResidentInCheckpoints, which   *)
(* the item pager asks): its checkpoint is referenced, so the remover has not freed it,  *)
(* and deduplication leaves one mutation of the key in it.                               *)
THEOREM UnreadIsResident == Spec => []PendingIsResident
<1>1. IInv => PendingIsResident
  BY NewestIsResident DEF IInv, PendingIsResident
<1> QED  BY <1>1, QueueInvariant, PTL

(* Each step that replaces the manager keeps its counts exact. *)
LEMMA StepExact ==
    ASSUME IInv, Exact(cm), Next
    PROVE  Exact(cm')
<1>1. Good(cm) /\ TypeOK /\ Persistence \in DOMAIN cm.cursors
  BY GoodParts DEF IInv
<1>2. \A id \in CheckpointIds : id \in Nat
  BY BoundAssumption
<1>3. ASSUME NEW k \in Keys, NEW elapsed \in BOOLEAN, Mutate(k, elapsed)
      PROVE  Exact(cm')
  <2>1. CASE cm.list[Back(cm)].state = "closed"
    BY <1>3, <2>1 DEF Mutate
  <2>2. CASE cm.list[Back(cm)].state # "closed"
    <3>1. Exact(QueueDirty(cm, k, IsActive, InconsistentSlave, elapsed))
      BY <1>1, <2>2, QueueDirtyExact
    <3> QED  BY <1>3, <2>2, <3>1 DEF Mutate
  <2> QED  BY <2>1, <2>2
<1>4. ASSUME NEW id \in CheckpointIds, CheckpointStart(id)
      PROVE  Exact(cm')
  <2>1. Exact(CheckAndAddNewCheckpoint(cm, id))
    BY <1>1, <1>2, CheckAndAddExact
  <2> QED  BY <1>4, <2>1 DEF CheckpointStart
<1>5. ASSUME NEW id \in CheckpointIds, CheckpointEnd(id)
      PROVE  Exact(cm')
  <2>1. Exact(CloseOpenCheckpoint(cm, id))
    BY <1>1, CloseExact
  <2> QED  BY <1>5, <2>1 DEF CheckpointEnd
<1>6. ASSUME NEW highMem \in BOOLEAN, NEW elapsed \in BOOLEAN,
             CheckVBOpenCheckpoint(highMem, elapsed)
      PROVE  Exact(cm')
  <2>1. Exact(CheckOpenCheckpoint(cm, IsCheckpointCreationForHighMemUsage(cm, highMem), elapsed))
    BY <1>1, CheckOpenExact
  <2> QED  BY <1>6, <2>1 DEF CheckVBOpenCheckpoint
<1>7. ASSUME NEW highMem \in BOOLEAN, NEW elapsed \in BOOLEAN, RemoveCheckpoints(highMem, elapsed)
      PROVE  Exact(cm')
  <2>1. Exact(RemoveClosedUnrefCheckpoints(cm, MayCreate(cm, IsActive, InconsistentSlave),
                IsCheckpointCreationForHighMemUsage(cm, highMem), elapsed))
    BY <1>1, RemoverExact
  <2> QED  BY <1>7, <2>1 DEF RemoveCheckpoints
<1>8. ASSUME NEW htEmpty \in BOOLEAN, InitialVBucketStream(htEmpty)
      PROVE  Exact(cm')
  <2> DEFINE m == IF htEmpty THEN cm ELSE Clear(cm, IsActive)
  <2>1. Good(m) /\ Exact(m)
    BY <1>1, ClearGood, ClearExact
  <2>2. Exact(SetOpenCheckpointId(m, 0))
    BY <2>1, SetIdExact
  <2> QED  BY <1>8, <2>2 DEF InitialVBucketStream
<1>9. ASSUME CloseBackfill \/ ActivateCheck \/ ActivateSetState \/ \E to \in States : SetState(to)
      PROVE  Exact(cm')
  BY <1>9 DEF CloseBackfill, ActivateCheck, ActivateSetState, SetState
<1>10. ASSUME Reset
       PROVE  Exact(cm')
  BY <1>1, <1>10, ClearExact DEF Reset
<1>11. ASSUME ActivateSetId
       PROVE  Exact(cm')
  BY <1>1, <1>11, SetIdExact DEF ActivateSetId
<1>12. ASSUME BeginFlush
       PROVE  Exact(cm')
  <2>1. Exact(GetAllItems(cm, Persistence))
    BY <1>1, GetAllExact
  <2> QED  BY <1>12, <2>1 DEF BeginFlush
<1>13. ASSUME NEW n \in TapNames, RemoveCursor(n)
       PROVE  Exact(cm')
  <2>1. n \in DOMAIN cm.cursors /\ cm' = RemoveTAPCursor(cm, n)
    BY <1>13 DEF RemoveCursor
  <2>2. Exact(RemoveTAPCursor(cm, n))
    BY <1>1, <2>1, RemoveTAPExact
  <2> QED  BY <2>1, <2>2
<1>14. ASSUME NEW n \in TapNames, Next1(n)
       PROVE  Exact(cm')
  <2>1. n \in DOMAIN cm.cursors /\ cm' = NextItem(cm, n)
    BY <1>14 DEF Next1
  <2>2. Exact(NextItem(cm, n))
    BY <1>1, <2>1, NextItemExact
  <2> QED  BY <2>1, <2>2
<1>15. ASSUME NEW n \in TapNames, PutBackCheckpointEnd(n)
       PROVE  Exact(cm')
  <2>1. n \in DOMAIN cm.cursors /\ cm' = DecrTapCursorFromCheckpointEnd(cm, n)
    BY <1>15 DEF PutBackCheckpointEnd
  <2>2. Exact(DecrTapCursorFromCheckpointEnd(cm, n))
    BY <1>1, <2>1, DecrTapExact
  <2> QED  BY <2>1, <2>2
<1>16. ASSUME NEW n \in TapNames, NEW id \in CheckpointIds, NEW closedOnly \in BOOLEAN,
              NEW fromBeginning \in BOOLEAN, RegisterCursor(n, id, closedOnly, fromBeginning)
       PROVE  Exact(cm')
  <2>1. Exact(RegisterTAPCursor(cm, n, id, closedOnly, fromBeginning))
    BY <1>1, RegisterExact
  <2> QED  BY <1>16, <2>1 DEF RegisterCursor
<1> QED  BY <1>3, <1>4, <1>5, <1>6, <1>7, <1>8, <1>9, <1>10, <1>11, <1>12, <1>13, <1>14, <1>15,
            <1>16 DEF Next

(* numItems of the manager and of each checkpoint, the shape of the checkpoints that the  *)
(* sums over them rely on, and the offset of each cursor stay exact: ep_flusher_todo and  *)
(* queue_size are what there is to write.                                                 *)
THEOREM CountsAreExact == Spec => []CountsExact
<1>1. Init => Exact(cm)
  <2>1. ASSUME Init
        PROVE  Exact(cm)
    <3>1. PICK id \in CheckpointIds : cm = NewManager(id)
      BY <2>1 DEF Init
    <3>2. id \in Nat
      BY BoundAssumption
    <3> QED  BY <3>1, <3>2, NewExact
  <2> QED  BY <2>1
<1>2. IInv /\ Exact(cm) /\ [Next]_vars => Exact(cm)'
  BY StepExact DEF vars
<1>3. IInv /\ Exact(cm) => CountsExact
  BY DEF IInv, Good, CountsExact
<1> QED  BY QueueInvariant, <1>1, <1>2, <1>3, PTL DEF Spec
-----------------------------------------------------------------------------
(* The refinement of the abstract queue *)

(* The steps of the abstract queue, in terms of Pending: one that no reader sees. *)
LEMMA InternalStep ==
    ASSUME event' = UQ!NoEvent, Pending(cm') = Pending(cm)
    PROVE  UQ!Next
BY DEF Pending, UQ!Next, UQ!Internal

(* A mutation is queued. *)
LEMMA QueueStep ==
    ASSUME NEW k \in Keys, event' = UQ!Queued(k),
           Pending(cm') = [n \in DOMAIN cm.cursors |-> Pending(cm)[n] \cup {k}]
    PROVE  UQ!Next
<1>1. UQ!Queue(k)
  BY DEF Pending, UQ!Queue
<1> QED  BY <1>1 DEF UQ!Next

(* The flusher is given everything. *)
LEMMA TakeAllStep ==
    ASSUME event' = UQ!Taken(Persistence, Pending(cm)[Persistence]),
           Pending(cm') = [Pending(cm) EXCEPT ![Persistence] = {}]
    PROVE  UQ!Next
<1>1. event'.type = "take"
  BY DEF UQ!Taken
<1>2. UQ!TakeAll
  BY <1>1 DEF Pending, UQ!TakeAll
<1> QED  BY <1>2 DEF UQ!Next

(* A TAP cursor is given one key. *)
LEMMA TakeOneStep ==
    ASSUME NEW n \in TapNames, n \in DOMAIN cm.cursors, NEW k, k # NoKey,
           event' = UQ!Taken(n, {k}), Given(cm, cm', n, k)
    PROVE  UQ!Next
<1>1. /\ k \in Keys /\ n \in DOMAIN Pending(cm) /\ k \in Pending(cm)[n]
      /\ Pending(cm') \in {Pending(cm), [Pending(cm) EXCEPT ![n] = @ \ {k}]}
  BY DEF Given, Pending
<1>2. UQ!TakeOne(n)
  BY <1>1 DEF Pending, UQ!TakeOne
<1> QED  BY <1>2 DEF UQ!Next

(* Mutations are taken back. *)
LEMMA DropStep ==
    ASSUME event' = UQ!Dropped, OwesLess(cm, cm')
    PROVE  UQ!Next
<1>1. UQ!Drop
  BY DEF OwesLess, Pending, UQ!Drop
<1> QED  BY <1>1 DEF UQ!Next

(* A cursor is placed. *)
LEMMA RegisterStep ==
    ASSUME NEW n \in TapNames, event' = UQ!NoEvent, Places(cm, cm', n)
    PROVE  UQ!Next
<1>1. UQ!Register(n)
  BY DEF Places, Pending, UQ!Register
<1> QED  BY <1>1 DEF UQ!Next

(* A cursor is removed. *)
LEMMA RemoveStep ==
    ASSUME NEW n \in TapNames, event' = UQ!NoEvent,
           Pending(cm') = [x \in DOMAIN Pending(cm) \ {n} |-> Pending(cm)[x]]
    PROVE  UQ!Next
<1>1. UQ!Remove(n)
  BY DEF Pending, UQ!Remove
<1> QED  BY <1>1 DEF UQ!Next

(* A new vbucket owes nothing to the persistence cursor, the only one there is. *)
LEMMA InitRefines ==
    ASSUME Init
    PROVE  UQ!Init
<1> DEFINE cs == [n \in {Persistence} |->
                    [ckpt |-> 0, pos |-> 0, offset |-> 0, closedOnly |-> FALSE]]
<1>1. PICK id \in CheckpointIds : cm = NewManager(id)
  BY DEF Init
<1>2. cs \in [DOMAIN cs -> Cursor] /\ Persistence \in DOMAIN cs /\ DOMAIN cs \subseteq Names
  BY DEF Cursor, Names
<1>3. id \in Nat
  BY BoundAssumption DEF CheckpointIds
<1>4. Pending(cm) = [n \in {Persistence} |-> {}]
  BY <1>1, <1>2, <1>3, StartKeyless DEF NewManager
<1> QED  BY <1>4 DEF Init, UQ!Init, Pending

(* Every step of the vbucket's queue is a step of the abstract one, or a stutter. *)
LEMMA NextRefines ==
    ASSUME IInv, Next
    PROVE  UQ!Next
<1>1. Good(cm) /\ DOMAIN cm = Fields /\ Persistence \in DOMAIN cm.cursors
  BY GoodParts DEF IInv
<1>2. \A id \in CheckpointIds : id \in Nat
  BY BoundAssumption DEF CheckpointIds
<1>3. \A n \in TapNames : n \in Names /\ n # Persistence
  BY NameAssumption DEF Names
<1>4. ASSUME NEW k \in Keys, NEW elapsed \in BOOLEAN, Mutate(k, elapsed)
      PROVE  UQ!Next
  <2>1. CASE cm' = cm /\ event' = UQ!NoEvent
    BY <2>1, InternalStep
  <2>2. CASE /\ cm' = QueueDirty(cm, k, IsActive, InconsistentSlave, elapsed)
             /\ event' = UQ!Queued(k)
    <3>1. Pending(cm') = [n \in DOMAIN cm.cursors |-> Pending(cm)[n] \cup {k}]
      BY <1>1, <2>2, QueueDirtyPending
    <3> QED  BY <2>2, <3>1, QueueStep
  <2> QED  BY <1>4, <2>1, <2>2 DEF Mutate
<1>5. ASSUME NEW id \in CheckpointIds, CheckpointStart(id)
      PROVE  UQ!Next
  <2>1. /\ cm' = CheckAndAddNewCheckpoint(cm, id)
        /\ event' = IF RolledBack(cm, id) # {} THEN UQ!Dropped ELSE UQ!NoEvent
    BY <1>5 DEF CheckpointStart
  <2>2. CASE RolledBack(cm, id) # {}
    <3>1. id # 0 /\ cm.list[Back(cm)].id # 0
      BY <2>2 DEF RolledBack
    <3>2. cm' = RollBack(cm, id) /\ event' = UQ!Dropped
      BY <2>1, <2>2, <3>1 DEF CheckAndAddNewCheckpoint
    <3>3. OwesLess(cm, cm')
      BY <1>1, <1>2, <3>2, RollBackPending
    <3> QED  BY <3>2, <3>3, DropStep
  <2>3. CASE RolledBack(cm, id) = {}
    <3>1. cm' \in {cm, SetOpenCheckpointId(cm, id), AddNewCheckpoint(cm, id)}
      BY <2>1, <2>3 DEF CheckAndAddNewCheckpoint
    <3>2. Pending(cm') = Pending(cm)
      BY <1>1, <1>2, <3>1, SetIdPending, AddNewPending
    <3> QED  BY <2>1, <2>3, <3>2, InternalStep
  <2> QED  BY <2>2, <2>3
<1>6. ASSUME NEW id \in CheckpointIds, CheckpointEnd(id)
      PROVE  UQ!Next
  <2>1. Pending(CloseOpenCheckpoint(cm, id)) = Pending(cm)
    BY <1>1, ClosePending
  <2> QED  BY <1>6, <2>1, InternalStep DEF CheckpointEnd
<1>7. ASSUME NEW highMem \in BOOLEAN, NEW elapsed \in BOOLEAN,
             CheckVBOpenCheckpoint(highMem, elapsed)
      PROVE  UQ!Next
  <2>1. Pending(CheckOpenCheckpoint(cm, IsCheckpointCreationForHighMemUsage(cm, highMem), elapsed))
          = Pending(cm)
    BY <1>1, CheckOpenPending
  <2> QED  BY <1>7, <2>1, InternalStep DEF CheckVBOpenCheckpoint
<1>8. ASSUME NEW highMem \in BOOLEAN, NEW elapsed \in BOOLEAN, RemoveCheckpoints(highMem, elapsed)
      PROVE  UQ!Next
  <2>1. Pending(RemoveClosedUnrefCheckpoints(cm, MayCreate(cm, IsActive, InconsistentSlave),
               IsCheckpointCreationForHighMemUsage(cm, highMem), elapsed)) = Pending(cm)
    BY <1>1, RemoverPending
  <2> QED  BY <1>8, <2>1, InternalStep DEF RemoveCheckpoints
<1>9. ASSUME NEW htEmpty \in BOOLEAN, InitialVBucketStream(htEmpty)
      PROVE  UQ!Next
  <2> DEFINE m == IF htEmpty THEN cm ELSE Clear(cm, IsActive)
  <2>1. /\ cm' = SetOpenCheckpointId(m, 0)
        /\ event' = IF htEmpty THEN UQ!NoEvent ELSE UQ!Dropped
    BY <1>9 DEF InitialVBucketStream
  <2>2. DOMAIN m = Fields
    BY <1>1, ClearGood, GoodParts
  <2>3. Pending(cm') = Pending(m)
    BY <2>1, <2>2, SetIdPending
  <2>4. CASE htEmpty
    BY <2>1, <2>3, <2>4, InternalStep
  <2>5. CASE ~htEmpty
    <3>1. OwesLess(cm, cm')
      BY <1>1, <2>3, <2>5, ClearPending DEF OwesLess
    <3> QED  BY <2>1, <2>5, <3>1, DropStep
  <2> QED  BY <2>4, <2>5
<1>10. ASSUME CloseBackfill \/ ActivateCheck \/ ActivateSetState \/ \E to \in States : SetState(to)
       PROVE  UQ!Next
  <2>1. cm' = cm /\ event' = UQ!NoEvent
    BY <1>10 DEF CloseBackfill, ActivateCheck, ActivateSetState, SetState
  <2> QED  BY <2>1, InternalStep
<1>11. ASSUME Reset
       PROVE  UQ!Next
  <2>1. OwesLess(cm, cm') /\ event' = UQ!Dropped
    BY <1>1, <1>11, ClearPending DEF Reset
  <2> QED  BY <2>1, DropStep
<1>12. ASSUME ActivateSetId
       PROVE  UQ!Next
  <2>1. Pending(cm') = Pending(cm) /\ event' = UQ!NoEvent
    BY <1>1, <1>12, SetIdPending DEF ActivateSetId
  <2> QED  BY <2>1, InternalStep
<1>13. ASSUME BeginFlush
       PROVE  UQ!Next
  <2>1. /\ KeysOf(AllItems(cm, Persistence)) = Pending(cm)[Persistence]
        /\ Pending(GetAllItems(cm, Persistence)) = [Pending(cm) EXCEPT ![Persistence] = {}]
    BY <1>1, GetAllPending DEF KeysOf
  <2> QED  BY <1>13, <2>1, TakeAllStep DEF BeginFlush
<1>14. ASSUME NEW n \in TapNames, RemoveCursor(n)
       PROVE  UQ!Next
  <2>1. n \in DOMAIN cm.cursors /\ cm' = RemoveTAPCursor(cm, n) /\ event' = UQ!NoEvent
    BY <1>14 DEF RemoveCursor
  <2>2. Pending(cm') = [x \in DOMAIN Pending(cm) \ {n} |-> Pending(cm)[x]]
    BY <1>1, <2>1, RemoveTAPPending
  <2> QED  BY <2>1, <2>2, RemoveStep
<1>15. ASSUME NEW n \in TapNames, Next1(n)
       PROVE  UQ!Next
  <2> DEFINE m == NextItem(cm, n)
             p == m.cursors[n].pos
             key == m.items[p].key
  <2>1. /\ n \in DOMAIN cm.cursors /\ cm' = m
        /\ event' = IF p = cm.cursors[n].pos \/ key = NoKey
                    THEN UQ!NoEvent ELSE UQ!Taken(n, {key})
    BY <1>15 DEF Next1
  <2>2. IF p = cm.cursors[n].pos THEN Pending(m) = Pending(cm) ELSE Given(cm, m, n, key)
    BY <1>1, <2>1, NextItemPending
  <2> HIDE DEF m
  <2>3. CASE p = cm.cursors[n].pos \/ key = NoKey
    <3>1. Pending(m) = Pending(cm)
      BY <2>2, <2>3 DEF Given
    <3> QED  BY <2>1, <2>3, <3>1, InternalStep
  <2>4. CASE ~(p = cm.cursors[n].pos \/ key = NoKey)
    BY <2>1, <2>2, <2>4, TakeOneStep
  <2> QED  BY <2>3, <2>4
<1>16. ASSUME NEW n \in TapNames, PutBackCheckpointEnd(n)
       PROVE  UQ!Next
  <2>1. /\ n \in DOMAIN cm.cursors /\ cm' = DecrTapCursorFromCheckpointEnd(cm, n)
        /\ event' = UQ!NoEvent
    BY <1>16 DEF PutBackCheckpointEnd
  <2>2. Pending(cm') = Pending(cm)
    BY <1>1, <2>1, DecrTapPending
  <2> QED  BY <2>1, <2>2, InternalStep
<1>17. ASSUME NEW n \in TapNames, NEW id \in CheckpointIds, NEW closedOnly \in BOOLEAN,
              NEW fromBeginning \in BOOLEAN, RegisterCursor(n, id, closedOnly, fromBeginning)
       PROVE  UQ!Next
  <2>1. CASE cm' = cm /\ event' = UQ!NoEvent
    BY <2>1, InternalStep
  <2>2. CASE /\ cm' = RegisterTAPCursor(cm, n, id, closedOnly, fromBeginning)
             /\ event' = UQ!NoEvent
    <3>1. Places(cm, cm', n)
      BY <1>1, <2>2, RegisterPending
    <3> QED  BY <2>2, <3>1, RegisterStep
  <2> QED  BY <1>17, <2>1, <2>2 DEF RegisterCursor
<1> QED  BY <1>4, <1>5, <1>6, <1>7, <1>8, <1>9, <1>10, <1>11, <1>12, <1>13, <1>14, <1>15,
            <1>16, <1>17 DEF Next

(* The checkpoint manager implements the abstract unified queue, whatever its readers,  *)
(* the flusher, the remover and the master's messages do: a key that is owed to a       *)
(* cursor stays owed until it is handed out or taken back, and nothing else is.         *)
THEOREM QueueRefinesUnifiedQueue == Spec => ImplementsUnifiedQueue
<1>1. Init => UQ!Init
  BY InitRefines
<1>2. IInv /\ [Next]_vars =>
        [UQ!Next]_<<[n \in DOMAIN cm.cursors |->
                      {k \in Keys : \E i \in DOMAIN cm.items :
                                      i > cm.cursors[n].pos /\ cm.items[i].key = k}], event>>
  BY NextRefines DEF vars
<1> QED  BY <1>1, <1>2, QueueInvariant, PTL DEF Spec, ImplementsUnifiedQueue, UQ!Spec
=============================================================================
