-------------------------- MODULE PersistenceProofs --------------------------
(***************************************************************************)
(* The way of a mutation to the disk and back, for any keys, clients,      *)
(* mutations, failures and crashes: EntriesFit is inductive, and what is   *)
(* clean, quiet or behind a committed checkpoint is stored.                *)
(***************************************************************************)
EXTENDS Persistence, FiniteSetTheorems, WellFoundedInduction, TLAPS

-----------------------------------------------------------------------------
(* Row ids *)

LEMMA NatLeast ==
    ASSUME NEW T \in SUBSET Nat, T # {}
    PROVE  \E m \in T : \A n \in T : m <= n
<1> DEFINE R == OpToRel(<, Nat)
<1>1. \E x \in T : \A y \in T : ~ (<<y, x>> \in R)
  <2>1. IsWellFoundedOn(R, Nat)
    BY NatLessThanWellFounded
  <2> HIDE DEF R
  <2> QED  BY <2>1, WFMin
<1>2. \A x, y \in Nat : y < x => <<y, x>> \in R
  BY DEF OpToRel
<1>3. PICK x \in T : \A y \in T : ~ (<<y, x>> \in R)
  BY <1>1
<1>4. \A y \in T : ~ (y < x)
  <2> HIDE DEF R
  <2> QED  BY <1>2, <1>3
<1>5. \A y \in T : x <= y
  BY <1>4
<1> QED  BY <1>5

\* Of the sizes at which a set of rows has no largest id there is a least, and it is none.
LEMMA LargestRow ==
    ASSUME NEW S \in SUBSET Rows, IsFiniteSet(S)
    PROVE  \E m \in {0} \cup {r.row : r \in S} : \A r \in S : r.row <= m
<1> DEFINE Bounded(U) == \E m \in {0} \cup {r.row : r \in U} : \A r \in U : r.row <= m
           T == {n \in Nat : \E U \in SUBSET Rows :
                               IsFiniteSet(U) /\ Cardinality(U) = n /\ ~Bounded(U)}
<1> SUFFICES ASSUME ~Bounded(S) PROVE FALSE
  OBVIOUS
<1>1. T # {} /\ T \in SUBSET Nat
  BY FS_CardinalityType
<1>2. PICK m \in T : \A n \in T : m <= n
  <2> HIDE DEF T
  <2> QED  BY <1>1, NatLeast
<1>3. PICK U \in SUBSET Rows : IsFiniteSet(U) /\ Cardinality(U) = m /\ ~Bounded(U)
  BY <1>2
<1>4. U # {}
  BY <1>3
<1>5. PICK x \in U : TRUE
  BY <1>4
<1> DEFINE V == U \ {x}
<1>6. IsFiniteSet(V) /\ Cardinality(V) = m - 1 /\ Cardinality(V) \in Nat
  BY <1>3, <1>5, FS_RemoveElement, FS_CardinalityType
<1>7. Bounded(V)
  <2> SUFFICES ASSUME ~Bounded(V) PROVE FALSE
    OBVIOUS
  <2>1. m - 1 \in T
    BY <1>3, <1>6
  <2> HIDE DEF T, V
  <2> QED  BY <1>2, <2>1, <1>1
<1>8. PICK b \in {0} \cup {r.row : r \in V} : \A r \in V : r.row <= b
  BY <1>7
<1>9. b \in Nat /\ x.row \in Nat /\ \A r \in U : r.row \in Nat
  BY <1>3, <1>5, <1>8 DEF Rows, RowIds
<1>10. CASE x.row <= b
  BY <1>3, <1>8, <1>9, <1>10
<1>11. CASE b < x.row
  <2>1. \A r \in U : r.row <= x.row
    BY <1>8, <1>9, <1>11
  <2> QED  BY <1>3, <1>5, <2>1
<1> QED  BY <1>9, <1>10, <1>11

\* The storage never gives out the id of a row that is there.
LEMMA NewRowIsNew ==
    ASSUME TypeOK
    PROVE  NewRow \in RowIds /\ \A r \in txn.rows : r.row < NewRow
<1>1. txn.rows \in SUBSET Rows /\ IsFiniteSet(txn.rows)
  BY DEF TypeOK, Storage
<1> DEFINE M == {0} \cup {r.row : r \in txn.rows}
           Bound(m) == \A r \in txn.rows : r.row <= m
           b == CHOOSE m \in M : Bound(m)
<1>2. \E m \in M : Bound(m)
  BY <1>1, LargestRow
<1>3. b \in M /\ Bound(b)
  <2> HIDE DEF M, Bound
  <2> QED  BY <1>2
<1>4. b \in Nat /\ \A r \in txn.rows : r.row \in Nat
  BY <1>1, <1>3 DEF Rows, RowIds
<1>5. NewRow = 1 + b
  BY DEF NewRow
<1> HIDE DEF b
<1> QED  BY <1>3, <1>4, <1>5 DEF RowIds

-----------------------------------------------------------------------------
(* Types *)

\* What stands for nothing is told from the rest by one field.
LEMMA Forms ==
    ASSUME TypeOK, BatchFits
    PROVE  /\ \A k \in Keys : Exists(k) <=> mem[k].cas >= 1
           /\ \A c \in Clients : pending[c] # NoOp <=> pending[c].key \in Keys
           /\ \A k \in Keys : queue[k] # NoItem <=> queue[k].op # "none"
           /\ \A k \in Keys : writing[k] # NoItem <=> writing[k].op # "none"
           /\ cur # NoCur <=> cur.key \in Keys
<1> USE PersistenceAssumption DEF TypeOK, BatchFits, OpsFit, ItemsFit, IsQueued, HandedFits
<1>1. \A k \in Keys : Exists(k) <=> mem[k].cas >= 1
  BY DEF Exists, NoEntry
<1>2. \A c \in Clients : pending[c] # NoOp <=> pending[c].key \in Keys
  BY DEF NoOp
<1>3. \A k \in Keys : queue[k] # NoItem <=> queue[k].op # "none"
  BY DEF NoItem
<1>4. \A k \in Keys : writing[k] # NoItem <=> writing[k].op # "none"
  BY DEF NoItem
<1>5. cur # NoCur <=> cur.key \in Keys
  BY DEF NoCur
<1> QED  BY <1>1, <1>2, <1>3, <1>4, <1>5

LEMMA NothingTypes ==
    /\ NoItem \in Items /\ NoEntry \in Entries
    /\ NoOp \in Ops /\ NoCur \in Statements /\ NoFetch \in Fetches /\ NoFlush \in Flushes
    /\ Empty \in Storage /\ IsFiniteSet({})
<1>1. NoItem \in Items /\ NoEntry \in Entries
  BY PersistenceAssumption DEF NoItem, Items, NoEntry, Entries, NoId
<1>2. Empty \in Storage /\ IsFiniteSet({})
  BY PersistenceAssumption, FS_EmptySet DEF Empty, Storage
<1> QED  BY <1>1, <1>2, PersistenceAssumption
     DEF NoOp, NoCur, NoFetch, NoFlush, NoId, Ops, Statements, Fetches, Flushes

\* What queueDirty and the deletion of an expired value do to the types.
LEMMA QueueTypes ==
    ASSUME TypeOK, NEW k \in Keys, NEW item \in Items, Queue(k, item)
    PROVE  queue' \in [Keys -> Items] /\ queued' \in Nat /\ queued' = queued + 1
           /\ queue'[k].op = item.op /\ queue'[k].cas = item.cas /\ queue'[k].seq = queued + 1
           /\ \A j \in Keys \ {k} : queue'[j] = queue[j]
<1> DEFINE i == [item EXCEPT !.seq = queued + 1]
<1>0. queued \in Nat
  BY DEF TypeOK
<1>1. i \in Items /\ i.op = item.op /\ i.cas = item.cas /\ i.seq = queued + 1
  BY <1>0 DEF Items
<1>2. queue' = [queue EXCEPT ![k] = i] /\ queued' = queued + 1
  BY DEF Queue
<1> HIDE DEF i
<1> QED  BY <1>1, <1>2 DEF TypeOK

LEMMA ItemTypes ==
    ASSUME NEW op \in {"set", "del"}, NEW n \in 0 .. MaxMutations
    PROVE  /\ Item(op, n) \in Items
           /\ Item(op, n).op = op /\ Item(op, n).cas = n
BY DEF Item, Items

LEMMA DeletedTypes ==
    ASSUME NEW e \in Entries, NEW n \in 0 .. MaxMutations
    PROVE  /\ SoftDeleted(e, n) \in Entries
           /\ SoftDeleted(e, n).cas = n /\ SoftDeleted(e, n).id = e.id
           /\ SoftDeleted(e, n).dirty /\ SoftDeleted(e, n).deleted
           /\ SoftDeleted(e, n).exp = e.exp /\ SoftDeleted(e, n).resident = e.resident
<1>1. /\ SoftDeleted(e, n).cas = n /\ SoftDeleted(e, n).id = e.id
      /\ SoftDeleted(e, n).dirty /\ SoftDeleted(e, n).deleted
      /\ SoftDeleted(e, n).exp = e.exp /\ SoftDeleted(e, n).resident = e.resident
  BY DEF SoftDeleted, Entries
<1>2. \A f \in Entries : [f EXCEPT !.cas = n] \in Entries
  BY DEF Entries
<1>3. \A f \in Entries : [f EXCEPT !.data = 0] \in Entries
  BY PersistenceAssumption DEF Entries
<1>4. \A f \in Entries : [f EXCEPT !.dirty = TRUE] \in Entries
  BY DEF Entries
<1>5. \A f \in Entries : [f EXCEPT !.deleted = TRUE] \in Entries
  BY DEF Entries
<1>6. SoftDeleted(e, n) \in Entries
  BY <1>2, <1>3, <1>4, <1>5 DEF SoftDeleted
<1> QED  BY <1>1, <1>6

\* A change of one field leaves the others and the other entries alone.
Alike(e, f) ==
    /\ e.cas = f.cas /\ e.resident = f.resident /\ e.deleted = f.deleted /\ e.exp = f.exp

LEMMA IdChanges ==
    ASSUME NEW m \in [Keys -> Entries], NEW k \in Keys, NEW i \in {NoId, PendingId} \cup RowIds
    PROVE  /\ [m EXCEPT ![k].id = i] \in [Keys -> Entries]
           /\ [m EXCEPT ![k].id = i][k].id = i
           /\ [m EXCEPT ![k].id = i][k].dirty = m[k].dirty
           /\ [m EXCEPT ![k].id = i][k].data = m[k].data
           /\ Alike([m EXCEPT ![k].id = i][k], m[k])
           /\ \A j \in Keys \ {k} : [m EXCEPT ![k].id = i][j] = m[j]
<1> DEFINE e == [m[k] EXCEPT !.id = i]
<1>1. e \in Entries /\ e.id = i /\ e.dirty = m[k].dirty /\ e.data = m[k].data /\ Alike(e, m[k])
  BY DEF Entries, Alike
<1>2. [m EXCEPT ![k].id = i] = [m EXCEPT ![k] = e]
  OBVIOUS
<1> HIDE DEF e
<1> QED  BY <1>1, <1>2

LEMMA DirtyChanges ==
    ASSUME NEW m \in [Keys -> Entries], NEW k \in Keys, NEW b \in BOOLEAN
    PROVE  /\ [m EXCEPT ![k].dirty = b] \in [Keys -> Entries]
           /\ [m EXCEPT ![k].dirty = b][k].dirty = b
           /\ [m EXCEPT ![k].dirty = b][k].id = m[k].id
           /\ [m EXCEPT ![k].dirty = b][k].data = m[k].data
           /\ Alike([m EXCEPT ![k].dirty = b][k], m[k])
           /\ \A j \in Keys \ {k} : [m EXCEPT ![k].dirty = b][j] = m[j]
<1> DEFINE e == [m[k] EXCEPT !.dirty = b]
<1>1. e \in Entries /\ e.id = m[k].id /\ e.dirty = b /\ e.data = m[k].data /\ Alike(e, m[k])
  BY DEF Entries, Alike
<1>2. [m EXCEPT ![k].dirty = b] = [m EXCEPT ![k] = e]
  OBVIOUS
<1> HIDE DEF e
<1> QED  BY <1>1, <1>2

LEMMA ValueChanges ==
    ASSUME mem \in [Keys -> Entries], NEW k \in Keys, NEW b \in BOOLEAN,
           NEW n \in 0 .. MaxMutations,
           mem' = [mem EXCEPT ![k].resident = b, ![k].data = n]
    PROVE  /\ mem' \in [Keys -> Entries]
           /\ mem'[k].resident = b /\ mem'[k].data = n
           /\ mem'[k].id = mem[k].id /\ mem'[k].dirty = mem[k].dirty /\ mem'[k].cas = mem[k].cas
           /\ mem'[k].deleted = mem[k].deleted /\ mem'[k].exp = mem[k].exp
           /\ \A j \in Keys \ {k} : mem'[j] = mem[j]
<1> DEFINE d == [mem[k] EXCEPT !.resident = b]
           e == [d EXCEPT !.data = n]
           g == [mem EXCEPT ![k].resident = b]
           f == [g EXCEPT ![k].data = n]
<1>1. /\ d \in Entries /\ d.id = mem[k].id /\ d.dirty = mem[k].dirty /\ d.cas = mem[k].cas
      /\ d.resident = b /\ d.deleted = mem[k].deleted /\ d.exp = mem[k].exp
  BY DEF Entries
<1>2. g = [mem EXCEPT ![k] = d]
  OBVIOUS
<1> HIDE DEF d, g
<1>3. /\ e \in Entries /\ e.id = mem[k].id /\ e.dirty = mem[k].dirty /\ e.cas = mem[k].cas
      /\ e.resident = b /\ e.data = n /\ e.deleted = mem[k].deleted /\ e.exp = mem[k].exp
  BY <1>1 DEF Entries
<1>4. f = [mem EXCEPT ![k] = e]
  BY <1>1, <1>2
<1>5. f = mem'
  BY DEF g
<1> HIDE DEF e, f
<1>6. /\ f \in [Keys -> Entries] /\ f[k] = e /\ \A j \in Keys \ {k} : f[j] = mem[j]
  BY <1>3, <1>4
<1> QED  BY <1>3, <1>5, <1>6

-----------------------------------------------------------------------------
(* What each action does, entry by entry, and that it keeps the types *)

Others(k) == \A j \in Keys \ {k} : mem'[j] = mem[j]

OthersQueued(k) == \A j \in Keys \ {k} : queue'[j] = queue[j]

OthersTaken(k) == \A j \in Keys \ {k} : writing'[j] = writing[j]

LEMMA TakenTypes ==
    ASSUME TypeOK, NEW k \in Keys, NEW item \in Items, writing' = [writing EXCEPT ![k] = item]
    PROVE  writing' \in [Keys -> Items] /\ writing'[k] = item /\ OthersTaken(k)
BY DEF TypeOK, OthersTaken

LEMMA OpTypes ==
    ASSUME TypeOK, NEW c \in Clients, NEW o \in Ops, pending' = [pending EXCEPT ![c] = o]
    PROVE  /\ pending' \in [Clients -> Ops] /\ pending'[c] = o
           /\ \A d \in Clients \ {c} : pending'[d] = pending[d]
BY DEF TypeOK

LEMMA AppliedTypes ==
    ASSUME TypeOK, NEW rows \in SUBSET Rows, cur.key \in Keys, txn' = Applied(rows)
    PROVE  /\ txn' \in Storage /\ txn'.rows = rows /\ txn'.id = txn.id
           /\ txn'.applied[cur.key] = cur.item.seq
           /\ \A j \in Keys \ {cur.key} : txn'.applied[j] = txn.applied[j]
<1> DEFINE k == cur.key
           t == [txn EXCEPT !.rows = rows]
           a == [txn.applied EXCEPT ![k] = cur.item.seq]
<1>1. /\ t \in Storage /\ t.rows = rows /\ t.id = txn.id /\ t.applied = txn.applied
      /\ txn.applied \in [Keys -> Nat]
  BY DEF TypeOK, Storage
<1>2. cur.item.seq \in Nat
  BY DEF TypeOK, Statements, Items
<1>3. txn' = [t EXCEPT !.applied = a]
  BY <1>1 DEF Applied
<1>4. k \in Keys
  OBVIOUS
<1>5. a \in [Keys -> Nat] /\ a[k] = cur.item.seq /\ \A j \in Keys \ {k} : a[j] = txn.applied[j]
  BY <1>1, <1>2, <1>4
<1> HIDE DEF t, a
<1>6. txn' \in Storage /\ txn'.rows = rows /\ txn'.id = txn.id /\ txn'.applied = a
  BY <1>1, <1>3, <1>5 DEF Storage
<1> QED  BY <1>5, <1>6

LEMMA SetEffect ==
    ASSUME TypeOK, NEW c \in Clients, NEW k \in Keys, Set(c, k)
    PROVE  /\ TypeOK'
           /\ mem'[k].cas = mutations + 1 /\ mem'[k].data = mutations + 1 /\ mem'[k].dirty
           /\ mem'[k].id = mem[k].id /\ mem'[k].resident /\ ~mem'[k].deleted
           /\ Others(k) /\ mutations' = mutations + 1 /\ mutations + 1 \in Numbers
           /\ pending'[c].key = k /\ pending'[c].item.op = "set"
           /\ pending'[c].item.cas = mutations + 1
           /\ \A d \in Clients \ {c} : pending'[d] = pending[d]
<1> DEFINE n == mutations + 1
           e == [cas |-> n, data |-> n, dirty |-> TRUE, id |-> mem[k].id,
                 resident |-> TRUE, deleted |-> FALSE, exp |-> n \in Volatile]
           o == [key |-> k, item |-> Item("set", n)]
<1>1. n \in 0 .. MaxMutations /\ n \in Numbers /\ mutations' = n
  BY PersistenceAssumption DEF Set, Numbers, TypeOK
<1>2. mem[k].id \in {NoId, PendingId} \cup RowIds
  BY DEF TypeOK, Entries
<1>3. mem' = [mem EXCEPT ![k] = e] /\ pending' = [pending EXCEPT ![c] = o]
  BY DEF Set
<1> HIDE DEF n
<1>4. /\ e \in Entries /\ e.cas = n /\ e.data = n /\ e.dirty /\ e.id = mem[k].id
      /\ e.resident /\ ~e.deleted
  BY <1>1, <1>2 DEF Entries
<1>5. o \in Ops /\ o.key = k /\ o.item.op = "set" /\ o.item.cas = n
  BY <1>1, ItemTypes DEF Ops
<1> HIDE DEF e, o
<1>6. mem' \in [Keys -> Entries] /\ mem'[k] = e /\ Others(k)
  BY <1>3, <1>4 DEF TypeOK, Others
<1>7. /\ pending' \in [Clients -> Ops] /\ pending'[c] = o
      /\ \A d \in Clients \ {c} : pending'[d] = pending[d]
  BY <1>3, <1>5, OpTypes
<1>8. harmed' \subseteq Keys
  BY DEF Set, Overlap, TypeOK
<1>9. TypeOK'
  BY <1>1, <1>6, <1>7, <1>8 DEF Set, TypeOK, flushVars
<1> QED  BY <1>1, <1>4, <1>5, <1>6, <1>7, <1>9 DEF n

LEMMA QueueDirtyEffect ==
    ASSUME TypeOK, BatchFits, NEW c \in Clients, QueueDirty(c)
    PROVE  /\ TypeOK' /\ pending[c].key \in Keys /\ queued' = queued + 1
           /\ pending'[c] = NoOp /\ \A d \in Clients \ {c} : pending'[d] = pending[d]
           /\ queue'[pending[c].key].op = pending[c].item.op
           /\ queue'[pending[c].key].cas = pending[c].item.cas
           /\ queue'[pending[c].key].seq = queued + 1
           /\ OthersQueued(pending[c].key)
<1>1. pending[c].key \in Keys
  BY Forms DEF QueueDirty
<1>2. pending[c].item \in Items
  BY DEF TypeOK, Ops
<1>3. Queue(pending[c].key, pending[c].item)
  BY DEF QueueDirty
<1>4. /\ queue' \in [Keys -> Items] /\ queued' \in Nat /\ queued' = queued + 1
      /\ queue'[pending[c].key].op = pending[c].item.op
      /\ queue'[pending[c].key].cas = pending[c].item.cas
      /\ queue'[pending[c].key].seq = queued + 1
      /\ OthersQueued(pending[c].key)
  BY <1>1, <1>2, <1>3, QueueTypes DEF OthersQueued
<1>5. /\ pending' \in [Clients -> Ops] /\ pending'[c] = NoOp
      /\ \A d \in Clients \ {c} : pending'[d] = pending[d]
  BY NothingTypes, OpTypes DEF QueueDirty
<1>6. TypeOK'
  BY <1>4, <1>5 DEF QueueDirty, TypeOK, flushVars, bounds
<1> QED  BY <1>1, <1>4, <1>5, <1>6

\* The deletion of an entry, with or without an item for it.
Deletes(k) ==
    /\ mem'[k].cas = mutations + 1 /\ mem'[k].dirty /\ mem'[k].deleted
    /\ mem'[k].id = mem[k].id /\ mem'[k].exp = mem[k].exp /\ Others(k)
    /\ mutations' = mutations + 1 /\ mutations + 1 \in Numbers

QueuesDeletion(k) ==
    /\ queue'[k].op = "del" /\ queue'[k].cas = mutations + 1 /\ queue'[k].seq = queued + 1
    /\ queued' = queued + 1 /\ OthersQueued(k)

LEMMA DeletesEffect ==
    ASSUME TypeOK, NEW k \in Keys, mutations + 1 \in Numbers, mutations' = mutations + 1,
           mem' = [mem EXCEPT ![k] = SoftDeleted(mem[k], mutations + 1)]
    PROVE  Deletes(k) /\ mem' \in [Keys -> Entries] /\ mutations' \in 0 .. MaxMutations
<1> DEFINE n == mutations + 1
           e == SoftDeleted(mem[k], n)
<1>1. n \in 0 .. MaxMutations
  BY PersistenceAssumption DEF Numbers, TypeOK
<1>2. mem[k] \in Entries
  BY DEF TypeOK
<1> HIDE DEF n
<1>3. /\ e \in Entries /\ e.cas = n /\ e.id = mem[k].id /\ e.dirty /\ e.deleted
      /\ e.exp = mem[k].exp
  BY <1>1, <1>2, DeletedTypes
<1>4. mem' = [mem EXCEPT ![k] = e]
  BY DEF n
<1> HIDE DEF e
<1>5. mem'[k] = e /\ mem' \in [Keys -> Entries] /\ Others(k)
  BY <1>3, <1>4 DEF TypeOK, Others
<1> QED  BY <1>1, <1>3, <1>5 DEF n, Deletes

LEMMA QueuesDeletionEffect ==
    ASSUME TypeOK, NEW k \in Keys, mutations + 1 \in Numbers,
           Queue(k, Item("del", mutations + 1))
    PROVE  QueuesDeletion(k) /\ queue' \in [Keys -> Items] /\ queued' \in Nat
<1> DEFINE n == mutations + 1
           i == Item("del", n)
<1>1. n \in 0 .. MaxMutations
  BY PersistenceAssumption DEF Numbers, TypeOK
<1> HIDE DEF n
<1>2. i \in Items /\ i.op = "del" /\ i.cas = n
  BY <1>1, ItemTypes
<1>3. Queue(k, i)
  BY DEF n
<1> HIDE DEF i
<1> QED  BY <1>2, <1>3, QueueTypes DEF QueuesDeletion, OthersQueued, n

LEMMA PurgeEffect ==
    ASSUME TypeOK, NEW k \in Keys, PurgeExpired(k)
    PROVE  /\ Deletes(k) /\ mem' \in [Keys -> Entries] /\ mutations' \in 0 .. MaxMutations
           /\ QueuesDeletion(k) /\ queue' \in [Keys -> Items] /\ queued' \in Nat
BY DeletesEffect, QueuesDeletionEffect DEF PurgeExpired

LEMMA DeleteEffect ==
    ASSUME TypeOK, NEW c \in Clients, NEW k \in Keys, NEW access \in BOOLEAN,
           Delete(c, k, access)
    PROVE  /\ TypeOK' /\ Deletes(k)
           /\ \/ ~access /\ IsExpired(k) /\ mem[k].id = NoId /\ UNCHANGED <<queue, queued>>
              \/ QueuesDeletion(k)
<1>1. mutations + 1 \in Numbers
  BY DEF Delete
<1>2. Deletes(k) /\ mem' \in [Keys -> Entries] /\ mutations' \in 0 .. MaxMutations
  BY <1>1, DeletesEffect DEF Delete
<1>3. harmed' \subseteq Keys
  BY DEF Delete, Overlap, TypeOK
<1>4. CASE UNCHANGED <<queue, queued>> /\ ~access /\ IsExpired(k) /\ mem[k].id = NoId
  BY <1>2, <1>3, <1>4 DEF Delete, TypeOK, flushVars
<1>5. CASE Queue(k, Item("del", mutations + 1))
  <2>1. QueuesDeletion(k) /\ queue' \in [Keys -> Items] /\ queued' \in Nat
    BY <1>1, <1>5, QueuesDeletionEffect
  <2>2. TypeOK'
    BY <1>2, <1>3, <2>1 DEF Delete, TypeOK, flushVars
  <2> QED  BY <1>2, <2>1, <2>2
<1> QED  BY <1>4, <1>5 DEF Delete

LEMMA EvictEffect ==
    ASSUME TypeOK, NEW k \in Keys, Evict(k)
    PROVE  /\ TypeOK' /\ ~mem'[k].resident /\ ~mem'[k].dirty /\ mem'[k].id = mem[k].id
           /\ mem'[k].cas = mem[k].cas /\ mem'[k].deleted = mem[k].deleted
           /\ mem'[k].exp = mem[k].exp /\ Others(k)
<1>1. mem' = [mem EXCEPT ![k].resident = FALSE, ![k].data = 0] /\ ~mem[k].dirty
  BY DEF Evict
<1>2. mem \in [Keys -> Entries] /\ 0 \in 0 .. MaxMutations
  BY PersistenceAssumption DEF TypeOK
<1>3. /\ mem' \in [Keys -> Entries] /\ mem'[k].resident = FALSE
      /\ mem'[k].id = mem[k].id /\ mem'[k].dirty = mem[k].dirty /\ mem'[k].cas = mem[k].cas
      /\ mem'[k].deleted = mem[k].deleted /\ mem'[k].exp = mem[k].exp /\ Others(k)
  BY <1>1, <1>2, ValueChanges DEF Others
<1>4. TypeOK'
  BY <1>3 DEF Evict, TypeOK, flushVars, bounds, history
<1> QED  BY <1>1, <1>3, <1>4

LEMMA BgFetchEffect ==
    ASSUME TypeOK, NEW k \in Keys, BgFetch(k)
    PROVE  TypeOK' /\ fetch'.stage = "queued" /\ fetch'.key = k
<1> DEFINE f == [stage |-> "queued", key |-> k, row |-> mem[k].id, data |-> 0]
<1>1. mem[k].id \in {NoId, PendingId} \cup RowIds /\ 0 \in 0 .. MaxMutations
  BY PersistenceAssumption DEF TypeOK, Entries
<1>2. f \in Fetches /\ f.stage = "queued" /\ f.key = k
  BY <1>1 DEF Fetches
<1>3. fetch' = f
  BY DEF BgFetch
<1> HIDE DEF f
<1> QED  BY <1>2, <1>3 DEF BgFetch, TypeOK, flushVars, bounds, history

LEMMA FetchReadEffect ==
    ASSUME TypeOK, BatchFits, FetchRead
    PROVE  /\ TypeOK' /\ harmed \subseteq harmed'
           /\ \/ fetch' = NoFetch
              \/ /\ fetch'.stage = "read" /\ fetch'.key = fetch.key
                 /\ \E r \in Visible : r.row = fetch.row /\ fetch'.data = r.data
                                       /\ (fetch.key \notin harmed' => r.key = fetch.key)
<1> DEFINE found == {r \in Visible : r.row = fetch.row}
           r0 == CHOOSE r \in found : TRUE
           a == [fetch EXCEPT !.stage = "read"]
           b == [a EXCEPT !.data = r0.data]
<1>1. fetch.key \in Keys /\ fetch \in Fetches
  BY DEF BatchFits, TasksFit, TypeOK, FetchRead
<1>2. Visible \subseteq Rows
  BY DEF Visible, TypeOK, Storage
<1>3. harmed \subseteq harmed' /\ harmed' \subseteq Keys
  BY <1>1 DEF FetchRead, TypeOK
<1>4. CASE found = {}
  <2>1. fetch' = NoFetch
    BY <1>4 DEF FetchRead
  <2> QED  BY <1>3, <2>1, NothingTypes DEF FetchRead, TypeOK, flushVars, bounds
<1>5. CASE found # {}
  <2>1. r0 \in found
    BY <1>5
  <2>2. r0 \in Visible /\ r0.row = fetch.row /\ r0.data \in 0 .. MaxMutations
    BY <1>2, <2>1, PersistenceAssumption DEF Rows, Numbers
  <2>3. fetch.key \notin harmed' => r0.key = fetch.key
    BY <2>1, <1>1 DEF FetchRead
  <2>4. fetch' = b
    BY <1>5 DEF FetchRead
  <2> HIDE DEF r0
  <2>5. a \in Fetches /\ a.stage = "read" /\ a.key = fetch.key
    BY <1>1 DEF Fetches
  <2> HIDE DEF a
  <2>6. b \in Fetches /\ b.stage = "read" /\ b.key = fetch.key /\ b.data = r0.data
    BY <2>2, <2>5 DEF Fetches
  <2> HIDE DEF b
  <2>7. TypeOK'
    BY <1>3, <2>4, <2>6 DEF FetchRead, TypeOK, flushVars, bounds
  <2> QED  BY <1>3, <2>2, <2>3, <2>4, <2>6, <2>7
<1> QED  BY <1>4, <1>5

LEMMA FetchDoneEffect ==
    ASSUME TypeOK, BatchFits, FetchDone
    PROVE  /\ TypeOK' /\ fetch' = NoFetch /\ fetch.key \in Keys
           /\ \/ UNCHANGED <<mem, queue, queued, mutations>>
              \/ /\ Live(fetch.key) /\ ~mem[fetch.key].resident
                 /\ mem'[fetch.key].data = fetch.data
                 /\ mem'[fetch.key].id = mem[fetch.key].id
                 /\ mem'[fetch.key].dirty = mem[fetch.key].dirty
                 /\ mem'[fetch.key].cas = mem[fetch.key].cas
                 /\ mem'[fetch.key].deleted = mem[fetch.key].deleted
                 /\ mem'[fetch.key].exp = mem[fetch.key].exp
                 /\ mem'[fetch.key].resident /\ Others(fetch.key)
                 /\ UNCHANGED <<queue, queued, mutations>>
              \/ Live(fetch.key) /\ IsExpired(fetch.key) /\ Deletes(fetch.key)
                 /\ QueuesDeletion(fetch.key)
<1> DEFINE k == fetch.key
<1>1. k \in Keys /\ fetch \in Fetches /\ mem \in [Keys -> Entries]
  BY DEF BatchFits, TasksFit, TypeOK, FetchDone
<1>2. fetch.data \in 0 .. MaxMutations
  BY <1>1 DEF Fetches
<1>3. CASE UNCHANGED <<mem, queue, mutations, queued>>
  BY <1>1, <1>3, NothingTypes DEF FetchDone, TypeOK, flushVars
<1>4. CASE /\ Live(k) /\ ~mem[k].resident
           /\ mem' = [mem EXCEPT ![k].resident = TRUE, ![k].data = fetch.data]
           /\ UNCHANGED <<queue, mutations, queued>>
  <2> HIDE DEF k
  <2>1. /\ mem' \in [Keys -> Entries] /\ mem'[k].resident = TRUE /\ mem'[k].data = fetch.data
        /\ mem'[k].id = mem[k].id /\ mem'[k].dirty = mem[k].dirty /\ mem'[k].cas = mem[k].cas
        /\ mem'[k].deleted = mem[k].deleted /\ mem'[k].exp = mem[k].exp /\ Others(k)
    BY <1>1, <1>2, <1>4, ValueChanges DEF Others
  <2>2. TypeOK' /\ fetch' = NoFetch
    BY <2>1, <1>4, NothingTypes DEF FetchDone, TypeOK, flushVars
  <2> QED  BY <1>1, <1>4, <2>1, <2>2 DEF k
<1>5. CASE Live(k) /\ IsExpired(k) /\ PurgeExpired(k)
  <2> HIDE DEF k
  <2>1. /\ Deletes(k) /\ mem' \in [Keys -> Entries] /\ mutations' \in 0 .. MaxMutations
        /\ QueuesDeletion(k) /\ queue' \in [Keys -> Items] /\ queued' \in Nat
    BY <1>1, <1>5, PurgeEffect
  <2>2. TypeOK' /\ fetch' = NoFetch
    BY <2>1, NothingTypes DEF FetchDone, TypeOK, flushVars
  <2> QED  BY <1>1, <1>5, <2>1, <2>2 DEF k
<1> QED  BY <1>3, <1>4, <1>5 DEF FetchDone

LEMMA BeginFlushEffect ==
    ASSUME TypeOK, BeginFlush
    PROVE  /\ TypeOK' /\ flush'.on /\ flush'.id = openId - 1
           /\ \A k \in Keys : writing'[k] = queue[k] /\ queue'[k] = NoItem
<1> DEFINE f == [on |-> TRUE, id |-> openId - 1]
           q == [k \in Keys |-> NoItem]
<1>1. openId - 1 \in 0 .. MaxCheckpoints
  BY PersistenceAssumption DEF TypeOK
<1>2. f \in Flushes /\ f.on /\ f.id = openId - 1
  BY <1>1 DEF Flushes
<1>3. q \in [Keys -> Items] /\ \A k \in Keys : q[k] = NoItem
  BY NothingTypes
<1>4. flush' = f /\ queue' = q /\ writing' = queue
  BY DEF BeginFlush
<1> HIDE DEF f, q
<1> QED  BY <1>2, <1>3, <1>4 DEF BeginFlush, TypeOK, bounds, history

LEMMA CloseCheckpointEffect ==
    ASSUME TypeOK, CloseCheckpoint
    PROVE  /\ TypeOK' /\ openId' = openId + 1 /\ openId \in 1 .. MaxCheckpoints
           /\ \A k \in Keys : due'[openId][k] = LastQueued(k)
           /\ \A c \in (1 .. MaxCheckpoints) \ {openId} : due'[c] = due[c]
<1> DEFINE d == [k \in Keys |-> LastQueued(k)]
<1>1. openId \in 1 .. MaxCheckpoints /\ openId + 1 \in 1 .. (MaxCheckpoints + 1)
  BY PersistenceAssumption DEF CloseCheckpoint, TypeOK
<1>2. \A k \in Keys : LastQueued(k) \in Nat
  BY DEF TypeOK, LastQueued, LastTaken, Items, Statements, Storage
<1>3. d \in [Keys -> Nat] /\ \A k \in Keys : d[k] = LastQueued(k)
  BY <1>2
<1>4. due' = [due EXCEPT ![openId] = d] /\ openId' = openId + 1
  BY DEF CloseCheckpoint
<1> HIDE DEF d
<1>5. /\ due' \in [1 .. MaxCheckpoints -> [Keys -> Nat]] /\ due'[openId] = d
      /\ \A c \in (1 .. MaxCheckpoints) \ {openId} : due'[c] = due[c]
  BY <1>1, <1>3, <1>4 DEF TypeOK
<1>6. TypeOK'
  BY <1>1, <1>4, <1>5 DEF CloseCheckpoint, TypeOK, flushVars, bounds
<1> QED  BY <1>1, <1>3, <1>4, <1>5, <1>6

LEMMA QuietEffect ==
    ASSUME TypeOK, Expire \/ Commit \/ CompleteFlush
    PROVE  TypeOK' /\ time <= time'
<1>1. CASE Expire
  BY <1>1 DEF Expire, TypeOK, memVars, flushVars, bounds, history
<1>2. CASE Commit
  BY <1>2 DEF Commit, TypeOK, memVars, flushVars, bounds, history
<1>3. CASE CompleteFlush
  <2>1. flush.id \in 0 .. MaxCheckpoints
    BY DEF TypeOK, Flushes
  <2> QED  BY <1>3, <2>1, NothingTypes DEF CompleteFlush, TypeOK, memVars, bounds, history
<1> QED  BY <1>1, <1>2, <1>3

LEMMA SnapshotEffect ==
    ASSUME TypeOK, Snapshot
    PROVE  /\ TypeOK' /\ txn'.rows = txn.rows /\ txn'.applied = txn.applied
           /\ txn'.id \in {0, persistedId} /\ disk' \in {disk, txn'}
<1>1. \A i \in 0 .. MaxCheckpoints :
        /\ [txn EXCEPT !.id = i] \in Storage /\ [txn EXCEPT !.id = i].rows = txn.rows
        /\ [txn EXCEPT !.id = i].applied = txn.applied /\ [txn EXCEPT !.id = i].id = i
  BY DEF TypeOK, Storage
<1>2. persistedId \in 0 .. MaxCheckpoints /\ 0 \in 0 .. MaxCheckpoints
  BY PersistenceAssumption DEF TypeOK
<1>3. /\ \E i \in {0, persistedId} : txn' = [txn EXCEPT !.id = i]
      /\ disk' \in {disk, txn'}
  BY DEF Snapshot
<1>4. /\ txn' \in Storage /\ txn'.rows = txn.rows /\ txn'.applied = txn.applied
      /\ txn'.id \in {0, persistedId} /\ disk' \in {disk, txn'}
  BY <1>1, <1>2, <1>3
<1>5. failures' \in 0 .. MaxFailures
  BY PersistenceAssumption DEF Snapshot, TypeOK
<1>6. snapshot' = FALSE
  BY DEF Snapshot
<1>7. disk' \in Storage /\ IsFiniteSet(txn'.rows) /\ IsFiniteSet(disk'.rows)
  BY <1>4 DEF TypeOK
<1>8. TypeOK'
  BY <1>4, <1>5, <1>6, <1>7 DEF Snapshot, TypeOK, memVars, history
<1> QED  BY <1>4, <1>8

LEMMA HandOverTypes ==
    ASSUME TypeOK, NEW k \in Keys, NEW item \in Items, NEW i \in {NoId, PendingId} \cup RowIds,
           HandOver(k, item, i)
    PROVE  cur' \in Statements /\ cur'.key = k /\ cur'.item = item /\ cur'.id = i
<1> DEFINE s == [key |-> k, item |-> item, id |-> i]
<1>1. s \in Statements /\ s.key = k /\ s.item = item /\ s.id = i
  BY DEF Statements
<1>2. cur' = s
  BY DEF HandOver
<1> HIDE DEF s
<1> QED  BY <1>1, <1>2

\* The batch's item of k is the storage's.
HandsOver(k) ==
    /\ cur'.key = k /\ cur'.item.cas = writing[k].cas /\ cur'.item.seq = writing[k].seq
    /\ cur'.id = mem[k].id /\ OthersTaken(k)

LEMMA FlushSetEffect ==
    ASSUME TypeOK, NEW k \in Keys, FlushSet(k)
    PROVE  /\ TypeOK' /\ HandsOver(k) /\ Others(k) /\ Alike(mem'[k], mem[k])
           /\ cur'.item.op = "set" /\ writing'[k] = NoItem
           /\ mem'[k].id = WithPendingId(mem[k].id) /\ mem'[k].data = mem[k].data
           /\ mem'[k].dirty = (mem[k].dirty /\ mem[k].cas # writing[k].cas)
<1> DEFINE i == WithPendingId(mem[k].id)
           b == mem[k].dirty /\ mem[k].cas # writing[k].cas
           m == [mem EXCEPT ![k].id = i]
<1>1. mem[k].id \in {NoId, PendingId} \cup RowIds /\ mem \in [Keys -> Entries]
  BY DEF TypeOK, Entries
<1>2. i \in {NoId, PendingId} \cup RowIds /\ b \in BOOLEAN
  BY <1>1 DEF WithPendingId
<1>3. mem' = [m EXCEPT ![k].dirty = b]
  BY <1>1 DEF FlushSet
<1> HIDE DEF b, i
<1>4. /\ m \in [Keys -> Entries] /\ m[k].id = i /\ m[k].data = mem[k].data
      /\ Alike(m[k], mem[k]) /\ \A j \in Keys \ {k} : m[j] = mem[j]
  BY <1>1, <1>2, IdChanges
<1> HIDE DEF m
<1>5. /\ mem' \in [Keys -> Entries] /\ mem'[k].dirty = b /\ mem'[k].id = i
      /\ mem'[k].data = mem[k].data /\ Alike(mem'[k], m[k]) /\ \A j \in Keys \ {k} : mem'[j] = m[j]
  BY <1>2, <1>3, <1>4, DirtyChanges
<1>6. Alike(mem'[k], mem[k]) /\ Others(k)
  BY <1>4, <1>5 DEF Alike, Others
<1>7. writing[k] \in Items
  BY DEF TypeOK
<1>8. cur' \in Statements /\ cur'.key = k /\ cur'.item = writing[k] /\ cur'.id = mem[k].id
  BY <1>1, <1>7, HandOverTypes DEF FlushSet
<1>9. writing' \in [Keys -> Items] /\ writing'[k] = NoItem /\ OthersTaken(k)
  BY NothingTypes, TakenTypes DEF FlushSet, Without
<1>10. TypeOK'
  BY <1>5, <1>8, <1>9 DEF FlushSet, HandOver, TypeOK, bounds, history
<1> QED  BY <1>5, <1>6, <1>8, <1>9, <1>10 DEF FlushSet, HandsOver, b, i

LEMMA FlushDelEffect ==
    ASSUME TypeOK, NEW k \in Keys, FlushDel(k)
    PROVE  /\ TypeOK' /\ HandsOver(k) /\ Others(k) /\ Alike(mem'[k], mem[k])
           /\ cur'.item.op = "del"
           /\ writing'[k] = IF mem[k].id = PendingId THEN writing[k] ELSE NoItem
           /\ mem'[k].id = WithPendingId(mem[k].id) /\ mem'[k].data = mem[k].data
           /\ mem'[k].dirty = mem[k].dirty
<1> DEFINE i == WithPendingId(mem[k].id)
<1>1. mem[k].id \in {NoId, PendingId} \cup RowIds /\ mem \in [Keys -> Entries]
  BY DEF TypeOK, Entries
<1>2. i \in {NoId, PendingId} \cup RowIds
  BY <1>1 DEF WithPendingId
<1>3. mem' = [mem EXCEPT ![k].id = i]
  BY DEF FlushDel
<1> HIDE DEF i
<1>4. /\ mem' \in [Keys -> Entries] /\ mem'[k].id = i /\ mem'[k].data = mem[k].data
      /\ mem'[k].dirty = mem[k].dirty
      /\ Alike(mem'[k], mem[k]) /\ \A j \in Keys \ {k} : mem'[j] = mem[j]
  BY <1>1, <1>2, <1>3, IdChanges
<1>7. writing[k] \in Items
  BY DEF TypeOK
<1>8. cur' \in Statements /\ cur'.key = k /\ cur'.item = writing[k] /\ cur'.id = mem[k].id
  BY <1>1, <1>7, HandOverTypes DEF FlushDel
<1>9. /\ writing' \in [Keys -> Items] /\ OthersTaken(k)
      /\ writing'[k] = IF mem[k].id = PendingId THEN writing[k] ELSE NoItem
  <2>1. CASE mem[k].id = PendingId
    BY <2>1 DEF FlushDel, TypeOK, OthersTaken
  <2>2. CASE mem[k].id # PendingId
    <3>1. writing' = Without(k)
      BY <2>2 DEF FlushDel
    <3> QED  BY <2>2, <3>1, NothingTypes, TakenTypes DEF Without
  <2> QED  BY <2>1, <2>2
<1>10. TypeOK'
  BY <1>4, <1>8, <1>9 DEF FlushDel, HandOver, TypeOK, bounds, history
<1> QED  BY <1>4, <1>8, <1>9, <1>10 DEF FlushDel, HandsOver, Others, i

LEMMA FlushExpiredEffect ==
    ASSUME TypeOK, NEW k \in Keys, FlushExpired(k)
    PROVE  /\ TypeOK' /\ HandsOver(k) /\ Others(k) /\ Alike(mem'[k], mem[k])
           /\ cur'.item.op = "del" /\ writing'[k] = NoItem
           /\ mem'[k].id = NoId /\ mem'[k].data = mem[k].data /\ ~mem'[k].dirty
<1> DEFINE m == [mem EXCEPT ![k].dirty = FALSE]
           item == [writing[k] EXCEPT !.op = "del"]
<1>1. mem[k].id \in {NoId, PendingId} \cup RowIds /\ mem \in [Keys -> Entries]
  BY DEF TypeOK, Entries
<1>2. NoId \in {NoId, PendingId} \cup RowIds /\ FALSE \in BOOLEAN
  OBVIOUS
<1>3. mem' = [m EXCEPT ![k].id = NoId]
  BY <1>1 DEF FlushExpired
<1>4. /\ m \in [Keys -> Entries] /\ m[k].dirty = FALSE /\ m[k].data = mem[k].data
      /\ Alike(m[k], mem[k]) /\ \A j \in Keys \ {k} : m[j] = mem[j]
  BY <1>1, <1>2, DirtyChanges
<1> HIDE DEF m
<1>5. /\ mem' \in [Keys -> Entries] /\ mem'[k].dirty = FALSE /\ mem'[k].id = NoId
      /\ mem'[k].data = mem[k].data /\ Alike(mem'[k], m[k]) /\ \A j \in Keys \ {k} : mem'[j] = m[j]
  BY <1>2, <1>3, <1>4, IdChanges
<1>6. Alike(mem'[k], mem[k]) /\ Others(k)
  BY <1>4, <1>5 DEF Alike, Others
<1>7. writing[k] \in Items
  BY DEF TypeOK
<1>8. item \in Items /\ item.op = "del" /\ item.cas = writing[k].cas /\ item.seq = writing[k].seq
  BY <1>7 DEF Items
<1>9. HandOver(k, item, mem[k].id)
  BY DEF FlushExpired
<1> HIDE DEF item
<1>10. cur' \in Statements /\ cur'.key = k /\ cur'.item = item /\ cur'.id = mem[k].id
  BY <1>1, <1>8, <1>9, HandOverTypes
<1>11. writing' \in [Keys -> Items] /\ writing'[k] = NoItem /\ OthersTaken(k)
  BY NothingTypes, TakenTypes DEF FlushExpired, Without
<1>12. TypeOK'
  BY <1>5, <1>10, <1>11 DEF FlushExpired, HandOver, TypeOK, bounds, history
<1> QED  BY <1>5, <1>6, <1>8, <1>10, <1>11, <1>12 DEF HandsOver

\* Nothing of the queue changes, or an expired value of k is deleted and the deletion queued.
Purges(k) == Live(k) /\ IsExpired(k) /\ Deletes(k) /\ QueuesDeletion(k)

LEMMA FlushMissingEffect ==
    ASSUME TypeOK, NEW k \in Keys, FlushMissing(k)
    PROVE  /\ TypeOK' /\ writing'[k] = NoItem /\ OthersTaken(k)
           /\ txn'.rows = txn.rows /\ txn'.id = txn.id /\ txn'.applied[k] = writing[k].seq
           /\ \A j \in Keys \ {k} : txn'.applied[j] = txn.applied[j]
           /\ \/ ~Exists(k) /\ UNCHANGED <<mem, queue, mutations, queued>>
              \/ Purges(k)
<1> DEFINE a == [txn.applied EXCEPT ![k] = writing[k].seq]
<1>1. writing[k].seq \in Nat /\ txn \in Storage /\ txn.applied \in [Keys -> Nat]
  BY DEF TypeOK, Items, Storage
<1>2. /\ a \in [Keys -> Nat] /\ a[k] = writing[k].seq
      /\ \A j \in Keys \ {k} : a[j] = txn.applied[j]
  BY <1>1
<1>3. txn' = [txn EXCEPT !.applied = a]
  BY <1>1 DEF FlushMissing
<1> HIDE DEF a
<1>4. txn' \in Storage /\ txn'.rows = txn.rows /\ txn'.id = txn.id /\ txn'.applied = a
  BY <1>1, <1>2, <1>3 DEF Storage
<1>5. writing' \in [Keys -> Items] /\ writing'[k] = NoItem /\ OthersTaken(k)
  BY NothingTypes, TakenTypes DEF FlushMissing
<1>6. CASE ~Exists(k) /\ UNCHANGED <<mem, queue, mutations, queued>>
  <2>1. TypeOK'
    BY <1>4, <1>5, <1>6 DEF FlushMissing, TypeOK
  <2> QED  BY <1>2, <1>4, <1>5, <1>6, <2>1
<1>7. CASE Live(k) /\ IsExpired(k) /\ PurgeExpired(k)
  <2>1. /\ Purges(k) /\ mem' \in [Keys -> Entries] /\ mutations' \in 0 .. MaxMutations
        /\ queue' \in [Keys -> Items] /\ queued' \in Nat
    BY <1>7, PurgeEffect DEF Purges
  <2>2. TypeOK'
    BY <1>4, <1>5, <2>1 DEF FlushMissing, TypeOK
  <2> QED  BY <1>2, <1>4, <1>5, <2>1, <2>2
<1> QED  BY <1>6, <1>7 DEF FlushMissing

LEMMA HandedKey ==
    ASSUME TypeOK, BatchFits, cur.item.op \in {"set", "del"} \/ cur # NoCur
    PROVE  cur.key \in Keys /\ cur # NoCur /\ Exists(cur.key) /\ cur.item.op \in {"set", "del"}
BY DEF BatchFits, HandedFits, NoCur, NoItem

LEMMA HandedNumber ==
    ASSUME TypeOK, BatchFits, cur.item.op \in {"set", "del"} \/ cur # NoCur
    PROVE  cur.item.cas \in Numbers
<1>1. cur.item.cas \in 0 .. MaxMutations
  BY DEF TypeOK, Statements, Items
<1>2. cur.item.cas >= 1
  <2>1. cur # NoCur
    BY HandedKey
  <2>2. cur.item.cas \in 1 .. mutations /\ mutations \in Nat
    BY <2>1 DEF BatchFits, HandedFits, TypeOK
  <2> QED  BY <2>2
<1> QED  BY <1>1, <1>2, PersistenceAssumption DEF Numbers

\* The statement with the storage has been carried out on the rows.
Applies(rows) ==
    /\ txn'.rows = rows /\ txn'.id = txn.id /\ txn'.applied[cur.key] = cur.item.seq
    /\ \A j \in Keys \ {cur.key} : txn'.applied[j] = txn.applied[j]

LEMMA InsertEffect ==
    ASSUME TypeOK, BatchFits, Insert
    PROVE  /\ TypeOK' /\ Others(cur.key) /\ cur' = NoCur /\ NewRow \in RowIds
           /\ Applies(txn.rows \cup {Row(NewRow, cur.key, cur.item.cas)})
           /\ Row(NewRow, cur.key, cur.item.cas) \in Rows
           /\ Alike(mem'[cur.key], mem[cur.key]) /\ mem'[cur.key].dirty = mem[cur.key].dirty
           /\ mem'[cur.key].data = mem[cur.key].data /\ mem'[cur.key].id = NewRow
<1> DEFINE k == cur.key
           n == NewRow
           row == Row(n, k, cur.item.cas)
           rows == txn.rows \cup {row}
<1>1. k \in Keys /\ Exists(k)
  BY HandedKey DEF Insert
<1>2. n \in RowIds
  BY NewRowIsNew
<1>3. cur.item.cas \in Numbers
  BY HandedNumber DEF Insert
<1> HIDE DEF n
<1>4. row \in Rows
  BY <1>1, <1>2, <1>3 DEF Rows, Row
<1> HIDE DEF row
<1>5. rows \in SUBSET Rows /\ IsFiniteSet(rows)
  BY <1>4, FS_AddElement DEF TypeOK, Storage
<1>6. txn' = Applied(rows)
  BY DEF Insert, row, n
<1> HIDE DEF rows
<1>7. txn' \in Storage /\ Applies(rows)
  BY <1>1, <1>5, <1>6, AppliedTypes DEF Applies
<1>8. mem' = [mem EXCEPT ![k].id = n] /\ mem \in [Keys -> Entries]
  BY <1>1 DEF Insert, n, TypeOK
<1>9. /\ mem' \in [Keys -> Entries] /\ mem'[k].id = n /\ mem'[k].dirty = mem[k].dirty
      /\ mem'[k].data = mem[k].data /\ Alike(mem'[k], mem[k]) /\ Others(k)
  BY <1>1, <1>2, <1>8, IdChanges DEF Others
<1>10. cur' = NoCur
  BY DEF Insert
<1>11. IsFiniteSet(txn'.rows)
  BY <1>5, <1>7 DEF Applies
<1>12. TypeOK'
  BY <1>7, <1>9, <1>10, <1>11, NothingTypes DEF Insert, TypeOK, bounds, history
<1> QED  BY <1>2, <1>4, <1>7, <1>9, <1>10, <1>12 DEF rows, row, n

UpdatedRows == {IF r.row = cur.id THEN Row(r.row, cur.key, cur.item.cas) ELSE r : r \in txn.rows}

LEMMA UpdateEffect ==
    ASSUME TypeOK, BatchFits, Update
    PROVE  /\ TypeOK' /\ cur' = NoCur /\ Applies(UpdatedRows) /\ harmed' = harmed \cup Victims
<1> DEFINE Up(r) == IF r.row = cur.id THEN Row(r.row, cur.key, cur.item.cas) ELSE r
           f == [r \in txn.rows |-> Up(r)]
<1>1. cur.key \in Keys
  BY HandedKey DEF Update
<1>2. cur.item.cas \in Numbers
  BY HandedNumber DEF Update
<1>3. txn.rows \subseteq Rows /\ IsFiniteSet(txn.rows)
  BY DEF TypeOK, Storage
<1>4. \A r \in txn.rows : Up(r) \in Rows
  BY <1>1, <1>2, <1>3 DEF Rows, Row
<1>5. UpdatedRows = {Up(r) : r \in txn.rows}
  BY DEF UpdatedRows
<1> HIDE DEF Up
<1>6. UpdatedRows \in SUBSET Rows
  BY <1>4, <1>5
<1>7. f \in Surjection(txn.rows, UpdatedRows)
  BY <1>5 DEF Surjection
<1> HIDE DEF f
<1>8. IsFiniteSet(UpdatedRows)
  BY <1>3, <1>7, FS_Surjection
<1>9. txn' = Applied(UpdatedRows)
  BY DEF Update, UpdatedRows
<1>10. txn' \in Storage /\ Applies(UpdatedRows)
  BY <1>1, <1>6, <1>9, AppliedTypes DEF Applies
<1>11. IsFiniteSet(txn'.rows)
  BY <1>8, <1>10 DEF Applies
<1>12. cur' = NoCur /\ harmed' = harmed \cup Victims /\ Victims \subseteq Keys
  BY DEF Update, Victims
<1>13. TypeOK'
  BY <1>10, <1>11, <1>12, NothingTypes DEF Update, TypeOK, bounds, memVars
<1> QED  BY <1>10, <1>12, <1>13

KeptRows == {r \in txn.rows : r.row # cur.id}

LEMMA DeleteRowEffect ==
    ASSUME TypeOK, BatchFits, DeleteRow
    PROVE  /\ TypeOK' /\ cur' = NoCur /\ Applies(KeptRows)
           /\ harmed \cup Victims \subseteq harmed'
           /\ \/ /\ ~(Live(cur.key) /\ IsExpired(cur.key)) /\ harmed' = harmed \cup Victims
                 /\ Others(cur.key) /\ UNCHANGED <<queue, mutations, queued>>
                 /\ \/ mem[cur.key].deleted /\ mem'[cur.key] = NoEntry
                    \/ /\ ~mem[cur.key].deleted /\ Alike(mem'[cur.key], mem[cur.key])
                       /\ mem'[cur.key].dirty = mem[cur.key].dirty
                       /\ mem'[cur.key].data = mem[cur.key].data /\ mem'[cur.key].id = NoId
              \/ Purges(cur.key) /\ cur.key \in harmed'
<1> DEFINE k == cur.key
           e == IF mem[k].deleted THEN NoEntry ELSE [mem[k] EXCEPT !.id = NoId]
<1>1. k \in Keys
  BY HandedKey DEF DeleteRow
<1>2. KeptRows \in SUBSET Rows /\ IsFiniteSet(KeptRows)
  BY FS_Subset DEF KeptRows, TypeOK, Storage
<1>3. txn' = Applied(KeptRows)
  BY DEF DeleteRow, KeptRows
<1>4. txn' \in Storage /\ Applies(KeptRows)
  BY <1>1, <1>2, <1>3, AppliedTypes DEF Applies
<1>5. IsFiniteSet(txn'.rows)
  BY <1>2, <1>4 DEF Applies
<1>6. /\ cur' = NoCur /\ harmed \cup Victims \subseteq harmed' /\ harmed' \subseteq Keys
  BY <1>1 DEF DeleteRow, Victims, TypeOK
<1>7. CASE /\ ~(Live(k) /\ IsExpired(k)) /\ mem' = [mem EXCEPT ![k] = e]
           /\ harmed' = harmed \cup Victims /\ UNCHANGED <<queue, mutations, queued>>
  <2>1. mem[k] \in Entries /\ NoId \in {NoId, PendingId} \cup RowIds
    BY <1>1 DEF TypeOK
  <2>2. /\ e \in Entries
        /\ \/ mem[k].deleted /\ e = NoEntry
           \/ /\ ~mem[k].deleted /\ Alike(e, mem[k]) /\ e.dirty = mem[k].dirty
              /\ e.data = mem[k].data /\ e.id = NoId
    <3>1. CASE mem[k].deleted
      BY <3>1, NothingTypes
    <3>2. CASE ~mem[k].deleted
      BY <2>1, <3>2 DEF Entries, Alike
    <3> QED  BY <3>1, <3>2
  <2> HIDE DEF e
  <2>3. mem' \in [Keys -> Entries] /\ mem'[k] = e /\ Others(k)
    BY <1>1, <1>7, <2>2 DEF TypeOK, Others
  <2>4. TypeOK'
    BY <1>4, <1>5, <1>6, <1>7, <2>3, NothingTypes DEF DeleteRow, TypeOK
  <2> QED  BY <1>4, <1>6, <1>7, <2>2, <2>3, <2>4
<1>8. CASE Live(k) /\ IsExpired(k) /\ PurgeExpired(k) /\ harmed' = harmed \cup Victims \cup {k}
  <2>1. /\ Purges(k) /\ mem' \in [Keys -> Entries] /\ mutations' \in 0 .. MaxMutations
        /\ queue' \in [Keys -> Items] /\ queued' \in Nat
    BY <1>1, <1>8, PurgeEffect DEF Purges
  <2>2. TypeOK'
    BY <1>4, <1>5, <1>6, <2>1, NothingTypes DEF DeleteRow, TypeOK
  <2> QED  BY <1>4, <1>6, <1>8, <2>1, <2>2
<1> QED  BY <1>7, <1>8 DEF DeleteRow

LEMMA RedirtyEffect ==
    ASSUME TypeOK, BatchFits, Redirty
    PROVE  /\ TypeOK' /\ cur' = NoCur /\ cur.key \in Keys /\ Others(cur.key)
           /\ writing'[cur.key] = cur.item /\ OthersTaken(cur.key)
           /\ harmed \subseteq harmed' /\ Alike(mem'[cur.key], mem[cur.key])
           /\ mem'[cur.key].dirty /\ mem'[cur.key].data = mem[cur.key].data
           /\ mem'[cur.key].id = IF mem[cur.key].id = PendingId THEN NoId ELSE mem[cur.key].id
           /\ cur.key \notin harmed' =>
                /\ cur.item.op = "del" => mem[cur.key].id = cur.id
                /\ cur.item.op = "set" => mem[cur.key].resident
<1> DEFINE k == cur.key
           m == [mem EXCEPT ![k].dirty = TRUE]
           i == IF mem[k].id = PendingId THEN NoId ELSE mem[k].id
<1>1. k \in Keys /\ Exists(k)
  BY HandedKey DEF Redirty
<1>2. mem \in [Keys -> Entries] /\ i \in {NoId, PendingId} \cup RowIds /\ TRUE \in BOOLEAN
  BY <1>1 DEF TypeOK, Entries
<1>3. /\ m \in [Keys -> Entries] /\ m[k].dirty = TRUE /\ m[k].data = mem[k].data
      /\ m[k].id = mem[k].id
      /\ Alike(m[k], mem[k]) /\ \A j \in Keys \ {k} : m[j] = mem[j]
  BY <1>1, <1>2, DirtyChanges
<1>4. mem' = [m EXCEPT ![k].id = i]
  <2>1. mem' = [m EXCEPT ![k].id = IF m[k].id = PendingId THEN NoId ELSE m[k].id]
    BY <1>1, <1>3 DEF Redirty
  <2> QED  BY <2>1, <1>3
<1> HIDE DEF m, i
<1>5. /\ mem' \in [Keys -> Entries] /\ mem'[k].dirty = TRUE /\ mem'[k].id = i
      /\ mem'[k].data = mem[k].data /\ Alike(mem'[k], m[k]) /\ \A j \in Keys \ {k} : mem'[j] = m[j]
  BY <1>1, <1>2, <1>3, <1>4, IdChanges
<1>6. Alike(mem'[k], mem[k]) /\ Others(k)
  BY <1>3, <1>5 DEF Alike, Others
<1>7. cur.item \in Items
  BY DEF TypeOK, Statements
<1>8. writing' \in [Keys -> Items] /\ writing'[k] = cur.item /\ OthersTaken(k)
  BY <1>1, <1>7, TakenTypes DEF Redirty
<1>9. /\ harmed \subseteq harmed' /\ harmed' \subseteq Keys
      /\ k \notin harmed' =>
           /\ cur.item.op = "del" => mem[k].id = cur.id
           /\ cur.item.op = "set" => mem[k].resident
  BY <1>1 DEF Redirty, TypeOK
<1>10. failures' \in 0 .. MaxFailures /\ cur' = NoCur
  BY PersistenceAssumption DEF Redirty, TypeOK
<1>11. TypeOK'
  BY <1>5, <1>8, <1>9, <1>10, NothingTypes DEF Redirty, TypeOK
<1> QED  BY <1>1, <1>5, <1>6, <1>8, <1>9, <1>10, <1>11 DEF i

LEMMA CrashEffect ==
    ASSUME TypeOK, Crash
    PROVE  /\ TypeOK' /\ cur' = NoCur /\ fetch' = NoFetch /\ flush' = NoFlush
           /\ \A k \in Keys : mem'[k] = NoEntry /\ queue'[k] = NoItem /\ writing'[k] = NoItem
           /\ \A c \in Clients : pending'[c] = NoOp
<1> DEFINE m == [k \in Keys |-> NoEntry]
           q == [k \in Keys |-> NoItem]
           p == [c \in Clients |-> NoOp]
<1>1. /\ m \in [Keys -> Entries] /\ q \in [Keys -> Items] /\ p \in [Clients -> Ops]
      /\ \A k \in Keys : m[k] = NoEntry /\ q[k] = NoItem
      /\ \A c \in Clients : p[c] = NoOp
  BY NothingTypes
<1>2. mem' = m /\ queue' = q /\ writing' = q /\ pending' = p
  BY DEF Crash
<1> HIDE DEF m, q, p
<1>3. disk.id \in 0 .. MaxCheckpoints /\ disk.rows \subseteq Rows
  BY DEF TypeOK, Storage
<1>4. /\ openId' \in 1 .. (MaxCheckpoints + 1) /\ crashes' \in 0 .. MaxCrashes
      /\ persistedId' \in 0 .. MaxCheckpoints /\ snapshot' \in BOOLEAN
  <2>1. /\ openId' = disk.id + 1 /\ persistedId' = disk.id /\ snapshot' = FALSE
        /\ crashes' = crashes + 1 /\ crashes < MaxCrashes
    BY DEF Crash
  <2>2. crashes \in 0 .. MaxCrashes
    BY DEF TypeOK
  <2>3. openId' \in 1 .. (MaxCheckpoints + 1) /\ persistedId' \in 0 .. MaxCheckpoints
    BY <1>3, <2>1, PersistenceAssumption
  <2>4. crashes' \in 0 .. MaxCrashes
    BY <2>1, <2>2, PersistenceAssumption
  <2> QED  BY <2>1, <2>3, <2>4
<1>5. cur' = NoCur /\ fetch' = NoFetch /\ flush' = NoFlush
  BY DEF Crash
<1>6. TypeOK'
  BY <1>1, <1>2, <1>3, <1>4, <1>5, NothingTypes DEF Crash, TypeOK, history
<1> QED  BY <1>1, <1>2, <1>5, <1>6

LoadedEntry(r) ==
    IF Live(r.key) /\ ~IsExpired(r.key) THEN mem[r.key]
    ELSE [cas |-> r.data, data |-> r.data, dirty |-> FALSE,
          id |-> IF Exists(r.key) THEN mem[r.key].id ELSE r.row,
          resident |-> TRUE, deleted |-> FALSE, exp |-> r.data \in Volatile]

LEMMA LoadEffect ==
    ASSUME TypeOK, Load
    PROVE  /\ TypeOK'
           /\ \E r \in warmup :
                /\ r.key \in Keys /\ r \in Rows
                /\ warmup' = warmup \ {r} /\ Others(r.key) /\ LoadedEntry(r) \in Entries
                /\ \/ /\ mem'[r.key] = LoadedEntry(r) /\ UNCHANGED <<queue, mutations, queued>>
                      /\ ~(time = 2 /\ r.data \in Volatile)
                   \/ /\ mem'[r.key].cas = mutations + 1 /\ mem'[r.key].dirty
                      /\ mem'[r.key].deleted /\ mem'[r.key].id = LoadedEntry(r).id
                      /\ mem'[r.key].exp = LoadedEntry(r).exp
                      /\ mutations' = mutations + 1 /\ mutations + 1 \in Numbers
                      /\ time = 2 /\ r.data \in Volatile
                      /\ \/ UNCHANGED <<queue, queued>> /\ LoadedEntry(r).id = NoId
                         \/ QueuesDeletion(r.key)
<1>1. PICK r \in warmup :
        /\ warmup' = warmup \ {r}
        /\ \/ /\ ~(time = 2 /\ r.data \in Volatile)
              /\ mem' = [mem EXCEPT ![r.key] = LoadedEntry(r)]
              /\ UNCHANGED <<queue, mutations, queued>>
           \/ /\ time = 2 /\ r.data \in Volatile /\ mutations + 1 \in Numbers
              /\ mutations' = mutations + 1
              /\ mem' = [mem EXCEPT ![r.key] = SoftDeleted(LoadedEntry(r), mutations + 1)]
              /\ IF LoadedEntry(r).exp /\ LoadedEntry(r).id = NoId THEN UNCHANGED <<queue, queued>>
                 ELSE Queue(r.key, Item("del", mutations + 1))
        /\ UNCHANGED <<pending, openId, fetch, flushVars, txn, disk,
                       time, failures, crashes, due, harmed>>
  BY DEF Load, LoadedEntry
<1> DEFINE k == r.key
           e == LoadedEntry(r)
           n == mutations + 1
<1>2. r \in Rows /\ k \in Keys /\ mem[k] \in Entries /\ warmup' \subseteq Rows
  BY <1>1 DEF TypeOK, Rows
<1>3. e \in Entries
  <2>1. CASE Live(k) /\ ~IsExpired(k)
    BY <1>2, <2>1 DEF LoadedEntry
  <2>2. CASE ~(Live(k) /\ ~IsExpired(k))
    <3> DEFINE i == IF Exists(k) THEN mem[k].id ELSE r.row
               b == r.data \in Volatile
    <3>1. i \in {NoId, PendingId} \cup RowIds /\ b \in BOOLEAN /\ r.data \in 0 .. MaxMutations
      BY <1>2, PersistenceAssumption DEF Entries, Rows, Numbers
    <3>2. e = [cas |-> r.data, data |-> r.data, dirty |-> FALSE, id |-> i,
               resident |-> TRUE, deleted |-> FALSE, exp |-> b]
      BY <2>2 DEF LoadedEntry
    <3> HIDE DEF i, b, e
    <3> QED  BY <3>1, <3>2 DEF Entries
  <2> QED  BY <2>1, <2>2
<1> HIDE DEF e
<1>4. CASE /\ ~(time = 2 /\ r.data \in Volatile) /\ mem' = [mem EXCEPT ![k] = e]
           /\ UNCHANGED <<queue, mutations, queued>>
  <2>1. mem' \in [Keys -> Entries] /\ mem'[k] = e /\ Others(k)
    BY <1>2, <1>3, <1>4 DEF TypeOK, Others
  <2>2. TypeOK'
    BY <1>1, <1>2, <1>4, <2>1 DEF TypeOK, flushVars
  <2> QED  BY <1>1, <1>2, <1>3, <1>4, <2>1, <2>2 DEF e
<1>5. CASE /\ time = 2 /\ r.data \in Volatile /\ n \in Numbers /\ mutations' = n
           /\ mem' = [mem EXCEPT ![k] = SoftDeleted(e, n)]
           /\ IF e.exp /\ e.id = NoId THEN UNCHANGED <<queue, queued>>
              ELSE Queue(k, Item("del", n))
  <2> DEFINE d == SoftDeleted(e, n)
  <2>1. n \in 0 .. MaxMutations
    BY <1>5, PersistenceAssumption DEF Numbers, TypeOK
  <2>2. mem' = [mem EXCEPT ![k] = d]
    BY <1>5
  <2> HIDE DEF n
  <2>3. d \in Entries /\ d.cas = n /\ d.dirty /\ d.deleted /\ d.id = e.id /\ d.exp = e.exp
    BY <1>3, <2>1, DeletedTypes
  <2> HIDE DEF d
  <2>4. mem' \in [Keys -> Entries] /\ mem'[k] = d /\ Others(k)
    BY <1>2, <2>2, <2>3 DEF TypeOK, Others
  <2>5. CASE UNCHANGED <<queue, queued>> /\ e.id = NoId
    <3>1. TypeOK'
      BY <1>1, <1>2, <1>5, <2>1, <2>4, <2>5 DEF TypeOK, flushVars
    <3> QED  BY <1>1, <1>2, <1>3, <1>5, <2>3, <2>4, <2>5, <3>1 DEF e, n
  <2>6. CASE Queue(k, Item("del", n))
    <3>1. QueuesDeletion(k) /\ queue' \in [Keys -> Items] /\ queued' \in Nat
      BY <1>2, <1>5, <2>6, QueuesDeletionEffect DEF n
    <3>2. TypeOK'
      BY <1>1, <1>2, <1>5, <2>1, <2>4, <3>1, SMTT(40) DEF TypeOK, flushVars
    <3> QED  BY <1>1, <1>2, <1>3, <1>5, <2>3, <2>4, <3>1, <3>2 DEF e, n
  <2> QED  BY <1>5, <2>5, <2>6
<1> QED  BY <1>1, <1>4, <1>5 DEF e

-----------------------------------------------------------------------------
(* Which actions change what *)

LEMMA PendingChanges ==
    ASSUME [Next]_vars
    PROVE  \/ UNCHANGED pending \/ Crash
           \/ \E c \in Clients : QueueDirty(c) \/ \E k \in Keys : Set(c, k)
BY ZenonT(40)
   DEF Next, vars, memVars, flushVars, bounds, history, Set, QueueDirty, Delete, Expire, Evict,
       CloseCheckpoint, BgFetch, FetchRead, FetchDone, BeginFlush, FlushMissing, FlushExpired,
       FlushSet, FlushDel, HandOver, Insert, Update, DeleteRow, Redirty, Commit, CompleteFlush,
       Snapshot, Crash, Load

LEMMA MutationsGrow ==
    ASSUME TypeOK, BatchFits, [Next]_vars
    PROVE  mutations' \in Nat /\ mutations <= mutations'
<1> USE DEF memVars, flushVars, bounds, history
<1>0. mutations \in Nat
  BY DEF TypeOK
<1>1. \A k \in Keys : PurgeExpired(k) => mutations' = mutations + 1
  BY DEF PurgeExpired
<1>2. mutations' \in {mutations, mutations + 1}
  BY <1>1, ZenonT(40) DEF Next, vars, Set, QueueDirty, Delete, Expire, Evict,
       CloseCheckpoint, BgFetch, FetchRead, FetchDone, BeginFlush, FlushMissing, FlushExpired,
       FlushSet, FlushDel, HandOver, Insert, Update, DeleteRow, Redirty, Commit, CompleteFlush,
       Snapshot, Crash, Load, PurgeExpired
<1> QED  BY <1>0, <1>2

LEMMA CurChanges ==
    ASSUME [Next]_vars
    PROVE  \/ UNCHANGED cur \/ cur' = NoCur
           \/ \E k \in Keys : FlushExpired(k) \/ FlushSet(k) \/ FlushDel(k)
BY ZenonT(40)
   DEF Next, vars, memVars, flushVars, bounds, history, Set, QueueDirty, Delete, Expire, Evict,
       CloseCheckpoint, BgFetch, FetchRead, FetchDone, BeginFlush, FlushMissing, FlushExpired,
       FlushSet, FlushDel, HandOver, Insert, Update, DeleteRow, Redirty, Commit, CompleteFlush,
       Snapshot, Crash, Load

LEMMA QueueChanges ==
    ASSUME [Next]_vars
    PROVE  \/ UNCHANGED queue \/ Crash \/ Load \/ FetchDone \/ DeleteRow \/ BeginFlush
           \/ \E c \in Clients : \/ QueueDirty(c)
                                 \/ \E k \in Keys : \E access \in BOOLEAN : Delete(c, k, access)
           \/ \E k \in Keys : FlushMissing(k)
BY DEF Next, vars, memVars, flushVars, bounds, history, Set, Expire, Evict,
       CloseCheckpoint, BgFetch, FetchRead, FlushExpired,
       FlushSet, FlushDel, HandOver, Insert, Update, Redirty, Commit, CompleteFlush,
       Snapshot

LEMMA WritingChanges ==
    ASSUME [Next]_vars
    PROVE  \/ UNCHANGED writing \/ Crash \/ BeginFlush \/ Redirty
           \/ \E k \in Keys : FlushMissing(k) \/ FlushExpired(k) \/ FlushSet(k) \/ FlushDel(k)
BY ZenonT(40)
   DEF Next, vars, memVars, flushVars, bounds, history, Set, QueueDirty, Delete, Expire, Evict,
       CloseCheckpoint, BgFetch, FetchRead, FetchDone,
       Insert, Update, DeleteRow, Commit, CompleteFlush, Snapshot, Load

LEMMA MemChanges ==
    ASSUME [Next]_vars
    PROVE  \/ UNCHANGED mem \/ Crash \/ Load \/ FetchDone \/ Insert \/ DeleteRow \/ Redirty
           \/ \E k \in Keys : \/ Evict(k)
                              \/ FlushMissing(k) \/ FlushExpired(k) \/ FlushSet(k) \/ FlushDel(k)
                              \/ \E c \in Clients : \/ Set(c, k)
                                                    \/ \E access \in BOOLEAN : Delete(c, k, access)
BY SMTT(40)
   DEF Next, vars, memVars, flushVars, bounds, history, QueueDirty, Expire,
       CloseCheckpoint, BgFetch, FetchRead, BeginFlush, Update, Commit, CompleteFlush, Snapshot

LEMMA FetchChanges ==
    ASSUME [Next]_vars
    PROVE  UNCHANGED fetch \/ fetch' = NoFetch \/ FetchRead \/ \E k \in Keys : BgFetch(k)
BY ZenonT(40)
   DEF Next, vars, memVars, flushVars, bounds, history, Set, QueueDirty, Delete, Expire, Evict,
       CloseCheckpoint, BgFetch, FetchRead, FetchDone, BeginFlush, FlushMissing, FlushExpired,
       FlushSet, FlushDel, HandOver, Insert, Update, DeleteRow, Redirty, Commit, CompleteFlush,
       Snapshot, Crash, Load

LEMMA FlushChanges ==
    ASSUME [Next]_vars
    PROVE  UNCHANGED flush \/ BeginFlush \/ CompleteFlush \/ Crash
BY ZenonT(40)
   DEF Next, vars, memVars, flushVars, bounds, history, Set, QueueDirty, Delete, Expire, Evict,
       CloseCheckpoint, BgFetch, FetchRead, FetchDone, FlushMissing, FlushExpired,
       FlushSet, FlushDel, HandOver, Insert, Update, DeleteRow, Redirty, Commit,
       Snapshot, Load

-----------------------------------------------------------------------------
(* The batch, and what is with the storage *)

LEMMA OpsKept ==
    ASSUME TypeOK, BatchFits, [Next]_vars
    PROVE  OpsFit'
<1> SUFFICES ASSUME NEW d \in Clients
             PROVE  \/ pending'[d] = NoOp
                    \/ /\ pending'[d].key \in Keys /\ pending'[d].item.op = "set"
                       /\ pending'[d].item.cas \in 1 .. mutations'
  BY DEF OpsFit
<1>1. mutations \in Nat /\ mutations' \in Nat /\ mutations <= mutations'
  BY MutationsGrow DEF TypeOK
<1>2. CASE pending'[d] = pending[d]
  BY <1>1, <1>2 DEF BatchFits, OpsFit
<1>3. ASSUME NEW c \in Clients, QueueDirty(c) PROVE pending'[d] = NoOp \/ pending'[d] = pending[d]
  BY <1>3, QueueDirtyEffect
<1>4. ASSUME NEW c \in Clients, NEW k \in Keys, Set(c, k)
      PROVE  \/ pending'[d] = pending[d]
             \/ /\ pending'[d].key \in Keys /\ pending'[d].item.op = "set"
                /\ pending'[d].item.cas \in 1 .. mutations'
  BY <1>1, <1>4, SetEffect
<1>5. CASE Crash
  BY <1>5, CrashEffect
<1> QED  BY <1>2, <1>3, <1>4, <1>5, PendingChanges

LEMMA ItemsKept ==
    ASSUME TypeOK, BatchFits, [Next]_vars
    PROVE  ItemsFit'
<1>1. mutations \in Nat /\ mutations' \in Nat /\ mutations <= mutations'
  BY MutationsGrow DEF TypeOK
<1> SUFFICES ASSUME NEW j \in Keys
             PROVE  IsQueued(queue[j])' /\ IsQueued(writing[j])' /\ (Exists(j)' => mem'[j].cas >= 1)
  BY DEF ItemsFit
<1>3. IsQueued(queue[j]) /\ IsQueued(writing[j]) /\ (Exists(j) => mem[j].cas >= 1)
  BY DEF BatchFits, ItemsFit
<1>4. IsQueued(queue[j])'
  <2> USE <1>1, <1>3 DEF IsQueued
  <2>1. CASE queue'[j] = queue[j]
    BY <2>1
  <2>2. CASE \E k \in Keys : QueuesDeletion(k) /\ mutations' = mutations + 1
    BY <2>1, <2>2 DEF QueuesDeletion, OthersQueued
  <2>3. CASE queue'[j] = NoItem
    BY <2>3
  <2>4. ASSUME NEW c \in Clients, QueueDirty(c) PROVE IsQueued(queue[j])'
    <3>1. /\ pending[c].key \in Keys /\ pending[c].item.op = "set"
          /\ pending[c].item.cas \in 1 .. mutations
      BY <2>4, Forms DEF BatchFits, OpsFit, QueueDirty
    <3> QED  BY <2>1, <2>4, <3>1, QueueDirtyEffect DEF OthersQueued
  <2>5. ASSUME NEW c \in Clients, NEW k \in Keys, NEW access \in BOOLEAN, Delete(c, k, access)
        PROVE  IsQueued(queue[j])'
    BY <2>1, <2>2, <2>5, DeleteEffect DEF Deletes
  <2>6. CASE FetchDone
    BY <2>1, <2>2, <2>6, FetchDoneEffect DEF Deletes
  <2>7. CASE DeleteRow
    BY <2>1, <2>2, <2>7, DeleteRowEffect, HandedKey DEF Purges, Deletes, DeleteRow
  <2>8. ASSUME NEW k \in Keys, FlushMissing(k) PROVE IsQueued(queue[j])'
    BY <2>1, <2>2, <2>8, FlushMissingEffect DEF Purges, Deletes
  <2>9. CASE Load
    BY <2>1, <2>2, <2>9, LoadEffect
  <2> QED  BY <2>1, <2>3, <2>4, <2>5, <2>6, <2>7, <2>8, <2>9, QueueChanges, BeginFlushEffect, CrashEffect
<1>5. IsQueued(writing[j])'
  <2> USE <1>1, <1>3 DEF IsQueued
  <2>1. CASE writing'[j] \in {writing[j], queue[j], NoItem}
    BY <2>1
  <2>2. CASE Redirty
    <3>1. cur.key \in Keys /\ cur.item.op # "none" /\ cur.item.cas \in 1 .. mutations
      BY <2>2, HandedKey DEF BatchFits, HandedFits, Redirty
    <3> QED  BY <2>1, <2>2, <3>1, RedirtyEffect DEF OthersTaken
  <2>3. ASSUME NEW k \in Keys, FlushMissing(k) \/ FlushExpired(k) \/ FlushSet(k) \/ FlushDel(k)
        PROVE  writing'[j] \in {writing[j], queue[j], NoItem}
    BY <2>3, FlushMissingEffect, FlushExpiredEffect, FlushSetEffect, FlushDelEffect
       DEF HandsOver, OthersTaken
  <2> QED  BY <2>1, <2>2, <2>3, WritingChanges, BeginFlushEffect, CrashEffect
<1>6. Exists(j)' => mem'[j].cas >= 1
  <2>1. CASE mem'[j] = mem[j]
    BY <1>3, <2>1 DEF Exists
  <2>2. CASE mem'[j] = NoEntry
    BY <2>2 DEF Exists
  <2>3. CASE mem'[j].cas >= 1
    BY <2>3
  <2>4. CASE Exists(j) /\ mem'[j].cas = mem[j].cas
    BY <1>3, <2>4
  <2>5. ASSUME NEW k \in Keys, Deletes(k) PROVE mem'[j] = mem[j] \/ mem'[j].cas >= 1
    BY <1>1, <2>5 DEF Deletes, Others
  <2>6. ASSUME NEW k \in Keys, Others(k), Exists(k), mem'[k].cas = mem[k].cas
        PROVE  Exists(j)' => mem'[j].cas >= 1
    BY <2>1, <2>4, <2>6 DEF Others
  <2>7. ASSUME NEW c \in Clients, NEW k \in Keys, Set(c, k) PROVE mem'[j] = mem[j] \/ mem'[j].cas >= 1
    BY <1>1, <2>7, SetEffect DEF Others
  <2>8. ASSUME NEW c \in Clients, NEW k \in Keys, NEW access \in BOOLEAN, Delete(c, k, access)
        PROVE mem'[j] = mem[j] \/ mem'[j].cas >= 1
    BY <2>5, <2>8, DeleteEffect
  <2>9. ASSUME NEW k \in Keys, Evict(k) PROVE Exists(j)' => mem'[j].cas >= 1
    BY <2>6, <2>9, EvictEffect DEF Evict, Live
  <2>10. CASE FetchDone
    BY <2>1, <2>5, <2>6, <2>10, FetchDoneEffect DEF Live
  <2>11. ASSUME NEW k \in Keys, FlushMissing(k) PROVE mem'[j] = mem[j] \/ mem'[j].cas >= 1
    BY <2>5, <2>11, FlushMissingEffect DEF Purges
  <2>12. ASSUME NEW k \in Keys, FlushExpired(k) \/ FlushSet(k) \/ FlushDel(k)
         PROVE  Exists(j)' => mem'[j].cas >= 1
    <3>1. Exists(k)
      BY <2>12 DEF FlushExpired, FlushSet, FlushDel
    <3> QED  BY <2>6, <2>12, <3>1, FlushExpiredEffect, FlushSetEffect, FlushDelEffect DEF Alike
  <2>13. CASE Insert \/ Redirty
    <3>1. cur.key \in Keys /\ Exists(cur.key)
      BY <2>13, HandedKey DEF Insert, Redirty
    <3> QED  BY <2>6, <2>13, <3>1, InsertEffect, RedirtyEffect DEF Alike
  <2>14. CASE DeleteRow
    <3>1. cur.key \in Keys /\ Exists(cur.key)
      BY <2>14, HandedKey DEF DeleteRow
    <3> QED  BY <2>1, <2>2, <2>5, <2>6, <2>14, <3>1, DeleteRowEffect DEF Alike, Purges, Others
  <2>15. CASE Load
    <3>1. PICK r \in warmup :
            /\ r.key \in Keys /\ r \in Rows /\ Others(r.key)
            /\ mem'[r.key] = LoadedEntry(r) \/ mem'[r.key].cas = mutations + 1
      BY <2>15, LoadEffect
    <3>2. LoadedEntry(r) = mem[r.key] \/ LoadedEntry(r).cas = r.data
      BY DEF LoadedEntry
    <3>3. r.data >= 1
      BY <3>1, PersistenceAssumption DEF Rows, Numbers
    <3> QED  BY <1>1, <2>1, <2>3, <3>1, <3>2, <3>3 DEF Others
  <2> QED  BY <2>1, <2>2, <2>3, <2>7, <2>8, <2>9, <2>10, <2>11, <2>12, <2>13, <2>14, <2>15,
              MemChanges, CrashEffect
<1> QED  BY <1>4, <1>5, <1>6

LEMMA HandedKept ==
    ASSUME TypeOK, BatchFits, [Next]_vars
    PROVE  HandedFits'
<1>1. mutations \in Nat /\ mutations' \in Nat /\ mutations <= mutations'
  BY MutationsGrow DEF TypeOK
<1>2. CASE cur' = NoCur
  BY <1>2 DEF HandedFits
<1>3. ASSUME UNCHANGED cur, cur # NoCur PROVE HandedFits'
  <2> DEFINE k == cur.key
  <2>1. /\ k \in Keys /\ Exists(k) /\ cur.item.op \in {"set", "del"}
        /\ cur.item.cas \in 1 .. mutations
        /\ cur.item.op = "set" => cur.id # PendingId
        /\ cur.id # PendingId => writing[k] = NoItem
    BY <1>3, HandedKey DEF BatchFits, HandedFits
  <2> HIDE DEF k
  <2>2. writing'[k] = writing[k]
    BY <1>3, <2>1, WritingChanges, NothingTypes
       DEF Crash, BeginFlush, Redirty, FlushMissing, FlushExpired, FlushSet, FlushDel,
           Takes, Dispatches
  <2>3. mem'[k] # NoEntry
    <3>1. CASE mem'[k] = mem[k]
      BY <2>1, <3>1 DEF Exists
    <3>2. CASE mem'[k].cas >= 1
      BY <3>2 DEF Exists, NoEntry
    <3>3. mutations + 1 >= 1 /\ mem[k].cas >= 1
      BY <1>1, <2>1, Forms
    <3>4. ASSUME NEW j \in Keys, Deletes(j) PROVE mem'[k] = mem[k] \/ mem'[k].cas >= 1
      BY <2>1, <3>3, <3>4 DEF Deletes, Others
    <3>5. ASSUME NEW c \in Clients, NEW j \in Keys, Set(c, j)
          PROVE  mem'[k] = mem[k] \/ mem'[k].cas >= 1
      BY <2>1, <3>3, <3>5, SetEffect DEF Others
    <3>6. ASSUME NEW c \in Clients, NEW j \in Keys, NEW access \in BOOLEAN, Delete(c, j, access)
          PROVE  mem'[k] = mem[k] \/ mem'[k].cas >= 1
      BY <3>4, <3>6, DeleteEffect
    <3>7. ASSUME NEW j \in Keys, Evict(j) PROVE mem'[k] = mem[k] \/ mem'[k].cas >= 1
      BY <2>1, <3>3, <3>7, EvictEffect DEF Others
    <3>8. CASE FetchDone
      BY <2>1, <3>1, <3>2, <3>3, <3>4, <3>8, FetchDoneEffect DEF Others
    <3>9. CASE Load
      <4>1. warmup # {}
        BY <3>9 DEF Load
      <4>2. PICK r \in warmup :
              /\ r.key \in Keys /\ r \in Rows /\ Others(r.key)
              /\ mem'[r.key] = LoadedEntry(r) \/ mem'[r.key].cas = mutations + 1
        BY <3>9, LoadEffect
      <4>3. LoadedEntry(r) = mem[r.key] \/ LoadedEntry(r).cas = r.data
        BY DEF LoadedEntry
      <4>4. r.data >= 1
        BY <4>2, PersistenceAssumption DEF Rows, Numbers
      <4> QED  BY <2>1, <3>1, <3>2, <3>3, <4>2, <4>3, <4>4 DEF Others
    <3>10. ~(\E j \in Keys : FlushMissing(j) \/ FlushExpired(j) \/ FlushSet(j) \/ FlushDel(j))
      BY <1>3 DEF FlushMissing, FlushExpired, FlushSet, FlushDel, Takes, Dispatches
    <3>11. ~Crash /\ ~Insert /\ ~DeleteRow /\ ~Redirty
      BY <1>3 DEF Crash, Insert, DeleteRow, Redirty
    <3> QED  BY <3>1, <3>2, <3>5, <3>6, <3>7, <3>8, <3>9, <3>10, <3>11, MemChanges
  <2>4. cur'.key = k /\ cur'.item = cur.item /\ cur'.id = cur.id
    BY <1>3 DEF k
  <2>5. cur.item.cas \in 1 .. mutations'
    BY <1>1, <2>1
  <2> QED  BY <2>1, <2>2, <2>3, <2>4, <2>5 DEF HandedFits, Exists
<1>4. ASSUME NEW k \in Keys, FlushExpired(k) \/ FlushSet(k) \/ FlushDel(k) PROVE HandedFits'
  <2>1. /\ Exists(k) /\ writing[k] # NoItem /\ UNCHANGED mutations
        /\ HandsOver(k) /\ Alike(mem'[k], mem[k]) /\ cur'.item.op \in {"set", "del"}
        /\ cur'.item.op = "set" => cur'.id # PendingId
        /\ cur'.id # PendingId => writing'[k] = NoItem
    <3>1. CASE FlushExpired(k)
      BY <3>1, FlushExpiredEffect DEF FlushExpired, Takes, HandOver, bounds
    <3>2. CASE FlushSet(k)
      BY <3>2, FlushSetEffect DEF FlushSet, Takes, HandOver, bounds, HandsOver
    <3>3. CASE FlushDel(k)
      BY <3>3, FlushDelEffect DEF FlushDel, Takes, HandOver, bounds, HandsOver
    <3> QED  BY <1>4, <3>1, <3>2, <3>3
  <2>2. mem'[k].cas >= 1
    BY <2>1, Forms DEF Alike
  <2>3. Exists(k)'
    BY <2>2 DEF Exists, NoEntry
  <2>4. writing[k].cas \in 1 .. mutations
    BY <2>1 DEF BatchFits, ItemsFit, IsQueued
  <2>5. cur'.key = k /\ cur'.item.cas = writing[k].cas
    BY <2>1 DEF HandsOver
  <2> QED  BY <2>1, <2>3, <2>4, <2>5 DEF HandedFits
<1> QED  BY <1>2, <1>3, <1>4, CurChanges

LEMMA TasksKept ==
    ASSUME TypeOK, BatchFits, [Next]_vars
    PROVE  TasksFit'
<1>1. ~flush'.on => cur' = NoCur /\ \A k \in Keys : writing'[k] = NoItem
  <2> SUFFICES ASSUME ~flush'.on
               PROVE  cur' = NoCur /\ \A k \in Keys : writing'[k] = NoItem
    OBVIOUS
  <2>1. CASE Crash
    BY <2>1, CrashEffect
  <2>2. CASE CompleteFlush
    BY <2>2 DEF CompleteFlush, Dispatches
  <2>3. ~BeginFlush
    BY BeginFlushEffect
  <2>4. CASE UNCHANGED flush /\ ~BeginFlush
    <3>1. ~flush.on /\ cur = NoCur /\ \A k \in Keys : writing[k] = NoItem
      BY <2>4 DEF BatchFits, TasksFit
    <3>2. ~(\E k \in Keys : FlushMissing(k) \/ FlushExpired(k) \/ FlushSet(k) \/ FlushDel(k))
      BY <3>1 DEF FlushMissing, FlushExpired, FlushSet, FlushDel, Takes
    <3>3. ~Redirty
      BY <3>1 DEF Redirty
    <3> QED  BY <2>1, <2>4, <3>1, <3>2, <3>3, CurChanges, WritingChanges
  <2> QED  BY <2>1, <2>2, <2>3, <2>4, FlushChanges
<1>2. fetch'.stage = "none" \/ fetch'.key \in Keys
  <2>1. CASE UNCHANGED fetch
    BY <2>1 DEF BatchFits, TasksFit
  <2>2. CASE fetch' = NoFetch
    BY <2>2 DEF NoFetch
  <2>3. CASE FetchRead
    <3>1. fetch.key \in Keys
      BY <2>3 DEF FetchRead, BatchFits, TasksFit
    <3> QED  BY <2>2, <2>3, <3>1, FetchReadEffect
  <2>4. ASSUME NEW k \in Keys, BgFetch(k) PROVE fetch'.key \in Keys
    BY <2>4, BgFetchEffect
  <2> QED  BY <2>1, <2>2, <2>3, <2>4, FetchChanges
<1>3. ~SeparateReader /\ fetch'.stage = "read" => cur' = NoCur
  <2> SUFFICES ASSUME ~SeparateReader, fetch'.stage = "read" PROVE cur' = NoCur
    OBVIOUS
  <2>1. CASE FetchRead
    BY <2>1 DEF FetchRead, flushVars
  <2>2. CASE UNCHANGED fetch
    <3>1. cur = NoCur /\ fetch.stage = "read"
      BY <2>2 DEF BatchFits, TasksFit
    <3>2. ~(\E k \in Keys : FlushExpired(k) \/ FlushSet(k) \/ FlushDel(k))
      BY <3>1 DEF FlushExpired, FlushSet, FlushDel, Takes, Dispatches
    <3> QED  BY <3>1, <3>2, CurChanges
  <2>3. fetch' # NoFetch /\ \A k \in Keys : ~BgFetch(k)
    BY BgFetchEffect DEF NoFetch
  <2> QED  BY <2>1, <2>2, <2>3, FetchChanges
<1> QED  BY <1>1, <1>2, <1>3 DEF TasksFit

LEMMA BatchKept ==
    ASSUME TypeOK, BatchFits, [Next]_vars
    PROVE  BatchFits'
BY OpsKept, ItemsKept, HandedKept, TasksKept DEF BatchFits

LEMMA TypesKept ==
    ASSUME TypeOK, BatchFits, [Next]_vars
    PROVE  TypeOK'
<1>1. CASE UNCHANGED vars
  BY <1>1 DEF TypeOK, vars, memVars, flushVars, bounds, history
<1>2. CASE Next
  BY <1>2, SetEffect, QueueDirtyEffect, DeleteEffect, EvictEffect, BgFetchEffect, FetchReadEffect,
     FetchDoneEffect, BeginFlushEffect, CloseCheckpointEffect, QuietEffect, SnapshotEffect,
     FlushSetEffect, FlushDelEffect, FlushExpiredEffect, FlushMissingEffect, InsertEffect,
     UpdateEffect, DeleteRowEffect, RedirtyEffect, CrashEffect, LoadEffect DEF Next
<1> QED  BY <1>1, <1>2

LEMMA TxnChanges ==
    ASSUME [Next]_vars
    PROVE  \/ UNCHANGED txn \/ Insert \/ Update \/ DeleteRow \/ Snapshot \/ Crash
           \/ \E k \in Keys : FlushMissing(k)
BY ZenonT(40)
   DEF Next, vars, memVars, flushVars, bounds, history, Set, QueueDirty, Delete, Expire, Evict,
       CloseCheckpoint, BgFetch, FetchRead, FetchDone, BeginFlush, FlushExpired,
       FlushSet, FlushDel, HandOver, Redirty, Commit, CompleteFlush, Load

LEMMA DiskChanges ==
    ASSUME [Next]_vars
    PROVE  UNCHANGED disk \/ Commit \/ Snapshot
BY ZenonT(40)
   DEF Next, vars, memVars, flushVars, bounds, history, Set, QueueDirty, Delete, Expire, Evict,
       CloseCheckpoint, BgFetch, FetchRead, FetchDone, BeginFlush, FlushMissing, FlushExpired,
       FlushSet, FlushDel, HandOver, Insert, Update, DeleteRow, Redirty, CompleteFlush, Crash, Load

LEMMA CheckpointChanges ==
    ASSUME [Next]_vars
    PROVE  /\ UNCHANGED <<openId, due>> \/ CloseCheckpoint \/ Crash
           /\ UNCHANGED persistedId \/ CompleteFlush \/ Crash
BY ZenonT(40)
   DEF Next, vars, memVars, flushVars, bounds, history, Set, QueueDirty, Delete, Expire, Evict,
       CloseCheckpoint, BgFetch, FetchRead, FetchDone, BeginFlush, FlushMissing, FlushExpired,
       FlushSet, FlushDel, HandOver, Insert, Update, DeleteRow, Redirty, Commit, CompleteFlush,
       Snapshot, Crash, Load

-----------------------------------------------------------------------------
(* The items of a key, in the order of queueing *)

LEMMA SeqTypes ==
    ASSUME TypeOK
    PROVE  /\ queued \in Nat /\ cur.item.seq \in Nat
           /\ \A k \in Keys : /\ queue[k].seq \in Nat /\ writing[k].seq \in Nat
                              /\ txn.applied[k] \in Nat /\ disk.applied[k] \in Nat
                              /\ LastTaken(k) \in Nat /\ LastQueued(k) \in Nat
BY DEF TypeOK, Items, Statements, Storage, LastTaken, LastQueued

\* A step within a flush takes no new item, and applies none that is older.
LEMMA TakenStays ==
    ASSUME TypeOK, BatchFits, OrderFits, [Next]_vars, ~Crash, ~BeginFlush, NEW j \in Keys
    PROVE  /\ LastTaken(j)' = LastTaken(j)
           /\ txn.applied[j] <= txn'.applied[j] /\ txn'.applied[j] <= LastTaken(j)
           /\ cur'.key = j => txn'.applied[j] <= cur'.item.seq /\ cur'.item.seq <= LastTaken(j)
<1>1. /\ txn.applied[j] \in Nat /\ LastTaken(j) \in Nat /\ cur.item.seq \in Nat
      /\ writing[j].seq \in Nat
      /\ txn.applied[j] <= LastTaken(j)
      /\ cur.key = j => txn.applied[j] <= cur.item.seq /\ cur.item.seq <= LastTaken(j)
  BY SeqTypes DEF OrderFits
<1>2. NoCur.key \notin Keys
  BY PersistenceAssumption DEF NoCur
<1>3. CASE /\ UNCHANGED cur /\ writing'[j] = writing[j] /\ txn'.applied[j] = txn.applied[j]
  BY <1>1, <1>3 DEF LastTaken
<1>4. ASSUME NEW k \in Keys, FlushExpired(k) \/ FlushSet(k) \/ FlushDel(k)
      PROVE  /\ LastTaken(j)' = LastTaken(j)
             /\ txn.applied[j] <= txn'.applied[j] /\ txn'.applied[j] <= LastTaken(j)
             /\ cur'.key = j => txn'.applied[j] <= cur'.item.seq /\ cur'.item.seq <= LastTaken(j)
  <2>1. cur = NoCur /\ UNCHANGED txn /\ writing[k] # NoItem
    BY <1>4 DEF FlushExpired, FlushSet, FlushDel, Takes, Dispatches, HandOver
  <2>2. HandsOver(k) /\ writing'[k] \in {writing[k], NoItem}
    BY <1>4, FlushExpiredEffect, FlushSetEffect, FlushDelEffect
  <2>3. CASE j = k
    <3>1. LastTaken(j) = writing[j].seq
      BY <2>1, <2>3 DEF LastTaken
    <3>2. LastTaken(j)' = writing[j].seq
      BY <2>1, <2>2, <2>3 DEF LastTaken, HandsOver
    <3> QED  BY <1>1, <2>1, <2>2, <2>3, <3>1, <3>2 DEF HandsOver
  <2>4. CASE j # k
    <3>1. writing'[j] = writing[j] /\ cur'.key # j /\ cur.key # j
      BY <1>2, <2>1, <2>2, <2>4 DEF HandsOver, OthersTaken
    <3> QED  BY <1>1, <2>1, <3>1 DEF LastTaken
  <2> QED  BY <2>3, <2>4
<1>5. ASSUME NEW k \in Keys, FlushMissing(k)
      PROVE  /\ LastTaken(j)' = LastTaken(j)
             /\ txn.applied[j] <= txn'.applied[j] /\ txn'.applied[j] <= LastTaken(j)
             /\ cur'.key = j => txn'.applied[j] <= cur'.item.seq /\ cur'.item.seq <= LastTaken(j)
  <2>1. cur = NoCur /\ cur' = NoCur /\ writing[k] # NoItem
    BY <1>5 DEF FlushMissing, Takes, Dispatches
  <2>2. /\ writing'[k] = NoItem /\ OthersTaken(k) /\ txn'.applied[k] = writing[k].seq
        /\ \A i \in Keys \ {k} : txn'.applied[i] = txn.applied[i]
    BY <1>5, FlushMissingEffect
  <2>3. cur.key # j /\ cur'.key # j
    BY <1>2, <2>1
  <2>4. CASE j = k
    BY <1>1, <2>1, <2>2, <2>3, <2>4 DEF LastTaken
  <2>5. CASE j # k
    BY <1>1, <2>1, <2>2, <2>3, <2>5 DEF LastTaken, OthersTaken
  <2> QED  BY <2>4, <2>5
<1>6. CASE Insert \/ Update \/ DeleteRow
  <2>1. cur' = NoCur /\ cur.key \in Keys /\ txn'.applied[cur.key] = cur.item.seq
        /\ \A i \in Keys \ {cur.key} : txn'.applied[i] = txn.applied[i]
    BY <1>6, InsertEffect, UpdateEffect, DeleteRowEffect, HandedKey
       DEF Applies, Insert, Update, DeleteRow
  <2>2. UNCHANGED writing
    BY <1>6 DEF Insert, Update, DeleteRow
  <2>3. cur'.key # j
    BY <1>2, <2>1
  <2>4. CASE j = cur.key
    BY <1>1, <2>1, <2>2, <2>3, <2>4 DEF LastTaken
  <2>5. CASE j # cur.key
    BY <1>1, <2>1, <2>2, <2>3, <2>5 DEF LastTaken
  <2> QED  BY <2>4, <2>5
<1>7. CASE Redirty
  <2>1. /\ cur' = NoCur /\ cur.key \in Keys /\ writing'[cur.key] = cur.item
        /\ OthersTaken(cur.key) /\ UNCHANGED txn
    BY <1>7, RedirtyEffect DEF Redirty
  <2>2. writing[cur.key] = NoItem /\ cur.item # NoItem
    <3>1. cur # NoCur /\ cur.id # PendingId
      BY <1>7, HandedKey DEF Redirty, BatchFits, HandedFits, RowIds, PendingId
    <3> QED  BY <3>1 DEF BatchFits, HandedFits, NoItem
  <2>3. cur'.key # j
    BY <1>2, <2>1
  <2>4. CASE j = cur.key
    BY <1>1, <2>1, <2>2, <2>3, <2>4 DEF LastTaken
  <2>5. CASE j # cur.key
    BY <1>1, <2>1, <2>3, <2>5 DEF LastTaken, OthersTaken
  <2> QED  BY <2>4, <2>5
<1>8. CASE Snapshot
  BY <1>3, <1>8, SnapshotEffect DEF Snapshot
<1>9. ~Insert /\ ~Update /\ ~DeleteRow => UNCHANGED cur \/ Redirty \/ Crash
           \/ \E k \in Keys : FlushExpired(k) \/ FlushSet(k) \/ FlushDel(k)
  BY DEF Next, vars, memVars, flushVars, bounds, history, Set, QueueDirty, Delete, Expire, Evict,
       CloseCheckpoint, BgFetch, FetchRead, FetchDone, BeginFlush, FlushMissing, Commit,
       CompleteFlush, Snapshot, Load
<1> QED  BY <1>3, <1>4, <1>5, <1>6, <1>7, <1>8, <1>9, TxnChanges, WritingChanges

\* The queue of a key only gets newer items.
LEMMA QueueGrows ==
    ASSUME TypeOK, BatchFits, [Next]_vars, ~Crash, ~BeginFlush, NEW j \in Keys
    PROVE  /\ queued <= queued'
           /\ \/ queue'[j] = queue[j]
              \/ queue'[j] # NoItem /\ queue'[j].seq = queued + 1 /\ queued' = queued + 1
<1> DEFINE P == /\ queued <= queued'
                /\ \/ queue'[j] = queue[j]
                   \/ queue'[j] # NoItem /\ queue'[j].seq = queued + 1 /\ queued' = queued + 1
<1>1. queued \in Nat
  BY DEF TypeOK
<1>2. ASSUME UNCHANGED <<queue, queued>> PROVE P
  BY <1>1, <1>2
<1>3. ASSUME NEW k \in Keys, QueuesDeletion(k) PROVE P
  BY <1>1, <1>3 DEF QueuesDeletion, OthersQueued, NoItem
<1>4. ASSUME NEW c \in Clients, QueueDirty(c) PROVE P
  <2>1. pending[c].item.op = "set"
    BY <1>4, Forms DEF BatchFits, OpsFit, QueueDirty
  <2> QED  BY <1>1, <1>4, <2>1, QueueDirtyEffect DEF OthersQueued, NoItem
<1>5. UNCHANGED queued \/ \E k \in Keys : QueuesDeletion(k)
      \/ \E c \in Clients : QueueDirty(c)
  <2>1. \/ UNCHANGED queued \/ FetchDone \/ DeleteRow \/ Load
        \/ \E k \in Keys : FlushMissing(k)
        \/ \E c \in Clients : \/ QueueDirty(c)
                              \/ \E k \in Keys : \E access \in BOOLEAN : Delete(c, k, access)
    BY DEF Next, vars, memVars, flushVars, bounds, history, Set, Expire, Evict,
       CloseCheckpoint, BgFetch, FetchRead, BeginFlush, FlushExpired,
       FlushSet, FlushDel, HandOver, Insert, Update, Redirty, Commit, CompleteFlush,
       Snapshot, Crash
  <2> QED  BY <2>1, FetchDoneEffect, DeleteRowEffect, LoadEffect, FlushMissingEffect, DeleteEffect,
              HandedKey DEF Purges, DeleteRow
<1> HIDE DEF P
<1>6. UNCHANGED <<queue, queued>> \/ (\E k \in Keys : QueuesDeletion(k))
      \/ \E c \in Clients : QueueDirty(c)
  <2>1. CASE UNCHANGED queue
    BY <1>5, <2>1
  <2>2. CASE FetchDone \/ DeleteRow \/ Load
    BY <2>2, FetchDoneEffect, DeleteRowEffect, LoadEffect, HandedKey DEF Purges, DeleteRow
  <2>3. ASSUME NEW k \in Keys, FlushMissing(k)
        PROVE  UNCHANGED <<queue, queued>> \/ QueuesDeletion(k)
    BY <2>3, FlushMissingEffect DEF Purges
  <2>4. ASSUME NEW c \in Clients, NEW k \in Keys, NEW access \in BOOLEAN, Delete(c, k, access)
        PROVE  UNCHANGED <<queue, queued>> \/ QueuesDeletion(k)
    BY <2>4, DeleteEffect
  <2> QED  BY <2>1, <2>2, <2>3, <2>4, QueueChanges
<1>7. P
  BY <1>2, <1>3, <1>4, <1>6
<1> QED  BY <1>7 DEF P

LEMMA BeginTakes ==
    ASSUME TypeOK, BatchFits, OrderFits, BeginFlush, NEW j \in Keys
    PROVE  /\ UNCHANGED <<txn, disk, queued>> /\ cur' = NoCur
           /\ LastTaken(j)' = LastQueued(j) /\ LastQueued(j)' = LastQueued(j)
           /\ txn.applied[j] <= LastQueued(j) /\ LastTaken(j) <= LastQueued(j)
<1>1. /\ cur = NoCur /\ cur' = NoCur /\ writing[j] = NoItem /\ UNCHANGED <<txn, disk, queued>>
  BY DEF BeginFlush, Dispatches, BatchFits, TasksFit, history
<1>2. writing'[j] = queue[j] /\ queue'[j] = NoItem
  BY BeginFlushEffect
<1>3. NoCur.key # j
  BY PersistenceAssumption DEF NoCur
<1>4. LastTaken(j)' = LastQueued(j)
  BY <1>1, <1>2, <1>3 DEF LastTaken, LastQueued
<1>5. LastQueued(j)' = LastTaken(j)'
  BY <1>2 DEF LastQueued
<1>6. /\ txn.applied[j] <= LastTaken(j) /\ LastTaken(j) <= LastQueued(j)
      /\ txn.applied[j] \in Nat /\ LastTaken(j) \in Nat /\ LastQueued(j) \in Nat
  BY SeqTypes DEF OrderFits
<1> QED  BY <1>1, <1>4, <1>5, <1>6

LEMMA CrashTakes ==
    ASSUME TypeOK, Crash, NEW j \in Keys
    PROVE  /\ txn' = disk /\ UNCHANGED <<disk, queued, due>> /\ cur' = NoCur
           /\ LastTaken(j)' = disk.applied[j] /\ LastQueued(j)' = disk.applied[j]
<1>1. NoCur.key # j
  BY PersistenceAssumption DEF NoCur
<1>2. /\ txn' = disk /\ UNCHANGED <<disk, queued, due>> /\ cur' = NoCur
      /\ writing'[j] = NoItem /\ queue'[j] = NoItem
  BY CrashEffect DEF Crash, history
<1> QED  BY <1>1, <1>2 DEF LastTaken, LastQueued

\* What no step but a crash undoes.
LEMMA QueuedGrows ==
    ASSUME TypeOK, BatchFits, OrderFits, [Next]_vars, ~Crash, ~BeginFlush, NEW j \in Keys
    PROVE  /\ LastQueued(j) <= LastQueued(j)' /\ LastTaken(j)' <= LastQueued(j)'
           /\ LastQueued(j)' <= queued'
<1>1. LastTaken(j)' = LastTaken(j)
  BY TakenStays
<1>2. /\ queued <= queued'
      /\ \/ queue'[j] = queue[j]
         \/ queue'[j] # NoItem /\ queue'[j].seq = queued + 1 /\ queued' = queued + 1
  BY QueueGrows
<1>3. /\ LastTaken(j) <= LastQueued(j) /\ LastQueued(j) <= queued /\ queued \in Nat
      /\ LastTaken(j) \in Nat /\ LastQueued(j) \in Nat
  BY SeqTypes DEF OrderFits
<1>4. queued' \in Nat
  BY TypesKept DEF TypeOK
<1>5. CASE queue'[j] = queue[j]
  <2>1. LastQueued(j)' = LastQueued(j)
    BY <1>1, <1>5 DEF LastQueued
  <2> QED  BY <1>1, <1>2, <1>3, <1>4, <2>1
<1>6. CASE queue'[j] # NoItem /\ queue'[j].seq = queued + 1 /\ queued' = queued + 1
  <2>1. LastQueued(j)' = queued + 1
    BY <1>6 DEF LastQueued
  <2> QED  BY <1>1, <1>3, <1>6, <2>1
<1> QED  BY <1>2, <1>5, <1>6

LEMMA OrderKept ==
    ASSUME TypeOK, BatchFits, OrderFits, [Next]_vars
    PROVE  OrderFits'
<1> SUFFICES ASSUME NEW j \in Keys
             PROVE  /\ disk'.applied[j] <= queued'
                    /\ txn'.applied[j] <= LastTaken(j)' /\ LastTaken(j)' <= LastQueued(j)'
                    /\ LastQueued(j)' <= queued'
                    /\ cur'.key = j => /\ txn'.applied[j] <= cur'.item.seq
                                       /\ cur'.item.seq <= LastTaken(j)'
  BY DEF OrderFits
<1>1. TypeOK'
  BY TypesKept
<1>2. /\ queued \in Nat /\ cur.item.seq \in Nat /\ queue[j].seq \in Nat /\ writing[j].seq \in Nat
      /\ txn.applied[j] \in Nat /\ disk.applied[j] \in Nat
      /\ LastTaken(j) \in Nat /\ LastQueued(j) \in Nat
  BY SeqTypes
<1>3. /\ disk.applied[j] <= queued
      /\ txn.applied[j] <= LastTaken(j) /\ LastTaken(j) <= LastQueued(j)
      /\ LastQueued(j) <= queued
  BY DEF OrderFits
<1>4. NoCur.key # j
  BY PersistenceAssumption DEF NoCur
<1>5. CASE Crash
  BY <1>2, <1>3, <1>4, <1>5, CrashTakes
<1>6. CASE BeginFlush
  BY <1>2, <1>3, <1>4, <1>6, BeginTakes
<1>7. CASE ~Crash /\ ~BeginFlush
  <2>1. /\ LastTaken(j)' = LastTaken(j)
        /\ txn.applied[j] <= txn'.applied[j] /\ txn'.applied[j] <= LastTaken(j)
        /\ cur'.key = j => txn'.applied[j] <= cur'.item.seq /\ cur'.item.seq <= LastTaken(j)
    BY <1>7, TakenStays
  <2>2. /\ LastTaken(j)' <= LastQueued(j)' /\ LastQueued(j)' <= queued' /\ queued <= queued'
        /\ queued' \in Nat /\ LastQueued(j)' \in Nat /\ txn'.applied[j] \in Nat
    <3>1. queued' \in Nat /\ txn'.applied[j] \in Nat
      BY <1>1 DEF TypeOK, Storage
    <3>2. LastQueued(j)' \in Nat
      BY <1>1 DEF TypeOK, LastQueued, LastTaken, Items, Statements, Storage
    <3> QED  BY <1>7, <3>1, <3>2, QueuedGrows, QueueGrows
  <2>3. disk'.applied[j] <= queued'
    <3>1. disk'.applied[j] \in {disk.applied[j], txn.applied[j], txn'.applied[j]}
      BY DiskChanges, SnapshotEffect DEF Commit
    <3> QED  BY <1>2, <1>3, <2>1, <2>2, <3>1
  <2> QED  BY <1>7, <2>1, <2>2, <2>3
<1> QED  BY <1>5, <1>6, <1>7

LEMMA Below ==
    ASSUME NEW a \in Nat, NEW b \in Nat, NEW c \in Nat, a <= b - 1, b <= c
    PROVE  a \in 0 .. (c - 1)
OBVIOUS

LEMMA CheckpointsKept ==
    ASSUME TypeOK, BatchFits, OrderFits, CheckpointsFit, [Next]_vars
    PROVE  CheckpointsFit'
<1>1. TypeOK'
  BY TypesKept
<1>2. /\ openId \in Nat /\ flush.id \in Nat /\ persistedId \in Nat /\ txn.id \in Nat
      /\ disk.id \in Nat /\ openId >= 1
  BY DEF TypeOK, Flushes, Storage
<1>3. /\ flush.id <= openId - 1 /\ persistedId <= openId - 1 /\ txn.id <= openId - 1
      /\ disk.id <= openId - 1
  BY DEF CheckpointsFit
<1>4. {flush'.id, persistedId', txn'.id, disk'.id} \subseteq 0 .. (openId' - 1)
  <2>1. CASE Crash
    <3>1. openId' = disk.id + 1 /\ persistedId' = disk.id /\ txn' = disk /\ UNCHANGED disk
          /\ flush'.id = 0
      BY <2>1, CrashEffect DEF Crash, NoFlush
    <3> QED  BY <1>2, <3>1
  <2>2. CASE ~Crash
    <3>1. openId' \in {openId, openId + 1}
      BY <2>2, CheckpointChanges, CloseCheckpointEffect
    <3>2. flush'.id \in {0, flush.id, openId - 1}
      <4>1. CompleteFlush => flush'.id = 0
        BY DEF CompleteFlush, NoFlush
      <4> QED  BY <2>2, <4>1, FlushChanges, BeginFlushEffect
    <3>3. persistedId' \in {persistedId, flush.id}
      BY <2>2, CheckpointChanges DEF CompleteFlush
    <3>4. txn'.id \in {0, txn.id, persistedId}
      <4>1. CASE Insert \/ Update \/ DeleteRow
        BY <4>1, InsertEffect, UpdateEffect, DeleteRowEffect DEF Applies
      <4> QED  BY <2>2, <4>1, TxnChanges, SnapshotEffect, FlushMissingEffect
    <3>5. disk'.id \in {disk.id, txn.id, txn'.id}
      BY DiskChanges, SnapshotEffect DEF Commit
    <3>6. /\ openId' \in Nat /\ openId <= openId'
      BY <1>2, <3>1
    <3>7. flush'.id \in 0 .. (openId' - 1)
      BY <1>2, <1>3, <3>2, <3>6
    <3>8. persistedId' \in 0 .. (openId' - 1)
      <4>1. CASE persistedId' = persistedId
        <5>1. persistedId \in Nat /\ persistedId <= openId - 1 /\ openId \in Nat
          BY <1>2, <1>3
        <5>2. persistedId \in 0 .. (openId' - 1)
          BY <3>6, <5>1, Below
        <5> QED  BY <4>1, <5>2
      <4>2. CASE persistedId' = flush.id
        BY <1>2, <1>3, <3>6, <4>2
      <4> QED  BY <3>3, <4>1, <4>2
    <3>9. txn'.id \in 0 .. (openId' - 1)
      BY <1>2, <1>3, <3>4, <3>6
    <3>10. disk'.id \in 0 .. (openId' - 1)
      BY <1>2, <1>3, <3>5, <3>6, <3>9
    <3> QED  BY <3>7, <3>8, <3>9, <3>10
  <2> QED  BY <2>1, <2>2
<1>5. ASSUME NEW c \in 1 .. MaxCheckpoints, NEW j \in Keys
      PROVE  /\ c < openId' => LastQueued(j)' >= due'[c][j]
             /\ c <= flush'.id => LastTaken(j)' >= due'[c][j]
             /\ c <= persistedId' \/ c <= txn'.id => txn'.applied[j] >= due'[c][j]
             /\ c <= disk'.id => disk'.applied[j] >= due'[c][j]
  <2>0. due[c][j] \in Nat /\ due'[c][j] \in Nat /\ c \in Nat
    <3>1. due[c] \in [Keys -> Nat] /\ due'[c] \in [Keys -> Nat]
      BY <1>1 DEF TypeOK
    <3> QED  BY <3>1
  <2>1. /\ LastTaken(j) \in Nat /\ LastQueued(j) \in Nat /\ txn.applied[j] \in Nat
        /\ disk.applied[j] \in Nat /\ due[c][j] \in Nat /\ c \in Nat
    BY <2>0, SeqTypes
  <2>2. /\ LastTaken(j)' \in Nat /\ LastQueued(j)' \in Nat /\ txn'.applied[j] \in Nat
        /\ disk'.applied[j] \in Nat /\ due'[c][j] \in Nat
    <3>1. LastTaken(j)' \in Nat /\ LastQueued(j)' \in Nat
      BY <1>1 DEF TypeOK, LastQueued, LastTaken, Items, Statements, Storage
    <3>2. txn'.applied[j] \in Nat /\ disk'.applied[j] \in Nat
      BY <1>1 DEF TypeOK, Storage
    <3> QED  BY <2>0, <3>1, <3>2
  <2>3. /\ c < openId => LastQueued(j) >= due[c][j]
        /\ c <= flush.id => LastTaken(j) >= due[c][j]
        /\ c <= persistedId \/ c <= txn.id => txn.applied[j] >= due[c][j]
        /\ c <= disk.id => disk.applied[j] >= due[c][j]
    BY DEF CheckpointsFit
  <2>4. CASE Crash
    <3>1. openId' = disk.id + 1 /\ persistedId' = disk.id /\ flush'.id = 0
      BY <2>4, CrashEffect DEF Crash, NoFlush
    <3>2. /\ txn' = disk /\ UNCHANGED <<disk, due>>
          /\ LastTaken(j)' = disk.applied[j] /\ LastQueued(j)' = disk.applied[j]
      BY <2>4, CrashTakes
    <3> QED  BY <1>2, <2>1, <2>3, <3>1, <3>2
  <2>5. CASE BeginFlush
    <3>1. /\ UNCHANGED <<txn, disk, openId, due, persistedId>> /\ flush'.id = openId - 1
          /\ LastTaken(j)' = LastQueued(j) /\ LastQueued(j)' = LastQueued(j)
      BY <2>5, BeginTakes, BeginFlushEffect DEF BeginFlush, history
    <3> QED  BY <1>2, <2>1, <2>3, <3>1
  <2>6. CASE ~Crash /\ ~BeginFlush
    <3>1. /\ LastTaken(j)' = LastTaken(j) /\ txn.applied[j] <= txn'.applied[j]
          /\ LastQueued(j) <= LastQueued(j)'
      BY <2>6, TakenStays, QueuedGrows
    <3>2. /\ openId' = openId /\ due'[c][j] = due[c][j]
          \/ /\ openId' = openId + 1
             /\ due'[c][j] = IF c = openId THEN LastQueued(j) ELSE due[c][j]
             /\ UNCHANGED <<flush, persistedId, txn, disk>>
      <4>1. CASE UNCHANGED <<openId, due>>
        BY <4>1
      <4>2. CASE CloseCheckpoint
        BY <4>2, CloseCheckpointEffect DEF CloseCheckpoint, flushVars
      <4> QED  BY <2>6, <4>1, <4>2, CheckpointChanges
    <3>3. CASE openId' = openId /\ due'[c][j] = due[c][j]
      <4>1. c < openId' => LastQueued(j)' >= due'[c][j]
        BY <1>2, <2>1, <2>2, <2>3, <3>1, <3>3
      <4>2. c <= flush'.id => LastTaken(j)' >= due'[c][j]
        <5>1. flush'.id \in {0, flush.id}
          <6>1. CompleteFlush => flush'.id = 0
            BY DEF CompleteFlush, NoFlush
          <6> QED  BY <2>6, <6>1, FlushChanges
        <5> QED  BY <1>2, <2>1, <2>2, <2>3, <3>1, <3>3, <5>1
      <4>3. c <= persistedId' => txn'.applied[j] >= due'[c][j]
        <5>1. CASE UNCHANGED persistedId
          BY <1>2, <2>1, <2>2, <2>3, <3>1, <3>3, <5>1
        <5>2. CASE CompleteFlush
          <6>1. cur = NoCur /\ writing[j] = NoItem /\ UNCHANGED txn
                /\ persistedId' \in {persistedId, flush.id}
            BY <5>2 DEF CompleteFlush, Dispatches
          <6>2. LastTaken(j) = txn.applied[j]
            BY <6>1, PersistenceAssumption DEF LastTaken, NoCur
          <6> QED  BY <1>2, <2>1, <2>2, <2>3, <3>1, <3>3, <6>1, <6>2
        <5> QED  BY <2>6, <5>1, <5>2, CheckpointChanges
      <4>4. c <= txn'.id => txn'.applied[j] >= due'[c][j]
        <5>1. txn'.id \in {0, txn.id, persistedId}
          <6>1. CASE Insert \/ Update \/ DeleteRow
            BY <6>1, InsertEffect, UpdateEffect, DeleteRowEffect DEF Applies
          <6> QED  BY <2>6, <6>1, TxnChanges, SnapshotEffect, FlushMissingEffect
        <5> QED  BY <1>2, <2>1, <2>2, <2>3, <3>1, <3>3, <5>1
      <4>5. c <= disk'.id => disk'.applied[j] >= due'[c][j]
        <5>1. disk' \in {disk, txn, txn'}
          BY DiskChanges, SnapshotEffect DEF Commit
        <5> QED  BY <1>2, <2>1, <2>2, <2>3, <3>1, <3>3, <4>4, <5>1
      <4> QED  BY <4>1, <4>2, <4>3, <4>4, <4>5
    <3>4. CASE /\ openId' = openId + 1
               /\ due'[c][j] = IF c = openId THEN LastQueued(j) ELSE due[c][j]
               /\ UNCHANGED <<flush, persistedId, txn, disk>>
      BY <1>2, <1>3, <2>1, <2>2, <2>3, <3>1, <3>4, SMTT(40)
    <3> QED  BY <3>2, <3>3, <3>4
  <2> QED  BY <2>4, <2>5, <2>6
<1> QED  BY <1>4, <1>5 DEF CheckpointsFit

-----------------------------------------------------------------------------
(* Rows and the warmup *)

LEMMA HarmedGrows ==
    ASSUME [Next]_vars
    PROVE  harmed \subseteq harmed'
BY ZenonT(40)
   DEF Next, vars, memVars, flushVars, bounds, history, Set, QueueDirty, Delete, Expire, Evict,
       CloseCheckpoint, BgFetch, FetchRead, FetchDone, BeginFlush, FlushMissing, FlushExpired,
       FlushSet, FlushDel, HandOver, Insert, Update, DeleteRow, Redirty, Commit, CompleteFlush,
       Snapshot, Crash, Load

LEMMA WarmupChanges ==
    ASSUME [Next]_vars
    PROVE  UNCHANGED warmup \/ Crash \/ Load
BY ZenonT(40)
   DEF Next, vars, memVars, flushVars, bounds, history, Set, QueueDirty, Delete, Expire, Evict,
       CloseCheckpoint, BgFetch, FetchRead, FetchDone, BeginFlush, FlushMissing, FlushExpired,
       FlushSet, FlushDel, HandOver, Insert, Update, DeleteRow, Redirty, Commit, CompleteFlush,
       Snapshot

LEMMA RowsKept ==
    ASSUME TypeOK, BatchFits, RowsFit, OneRowPerKey, [Next]_vars
    PROVE  RowsFit'
<1>1. \A r, s \in txn.rows : r.row = s.row => r = s
  BY DEF RowsFit
<1>2. \A r, s \in disk.rows : r.row = s.row \/ (r.key = s.key /\ r.key \notin harmed) => r = s
  BY DEF RowsFit
<1>3. \A r, s \in txn'.rows : r.row = s.row => r = s
  <2>1. CASE txn'.rows = txn.rows
    BY <1>1, <2>1
  <2>2. CASE Insert
    <3> DEFINE new == Row(NewRow, cur.key, cur.item.cas)
    <3>1. txn'.rows = txn.rows \cup {new} /\ NewRow \in RowIds
      BY <2>2, InsertEffect DEF Applies
    <3>2. new.row = NewRow
      BY DEF Row
    <3>3. \A r \in txn.rows : r.row # NewRow
      <4>1. \A r \in txn.rows : r.row < NewRow /\ r.row \in Nat
        BY NewRowIsNew DEF TypeOK, Storage, Rows, RowIds
      <4>2. NewRow \in Nat
        BY <3>1 DEF RowIds
      <4> HIDE DEF new
      <4> QED  BY <4>1, <4>2
    <3> HIDE DEF new
    <3> QED  BY <1>1, <3>1, <3>2, <3>3
  <2>3. CASE Update
    <3>1. txn'.rows = UpdatedRows
      BY <2>3, UpdateEffect DEF Applies
    <3> DEFINE Up(r) == IF r.row = cur.id THEN Row(r.row, cur.key, cur.item.cas) ELSE r
    <3>2. UpdatedRows = {Up(r) : r \in txn.rows} /\ \A r \in txn.rows : Up(r).row = r.row
      BY DEF UpdatedRows, Row
    <3> HIDE DEF Up
    <3> QED  BY <1>1, <3>1, <3>2
  <2>4. CASE DeleteRow
    BY <1>1, <2>4, DeleteRowEffect DEF Applies, KeptRows
  <2>5. CASE Crash
    BY <1>2, <2>5 DEF Crash
  <2> QED  BY <2>1, <2>2, <2>3, <2>4, <2>5, TxnChanges, SnapshotEffect, FlushMissingEffect
<1>4. \A r, s \in disk'.rows : r.row = s.row \/ (r.key = s.key /\ r.key \notin harmed') => r = s
  <2>1. disk'.rows \in {disk.rows, txn.rows}
    BY DiskChanges, SnapshotEffect DEF Commit
  <2>2. \A r, s \in txn.rows : r.key = s.key /\ r.key \notin harmed => r = s
    BY DEF OneRowPerKey
  <2> QED  BY <1>1, <1>2, <2>1, <2>2, HarmedGrows
<1> QED  BY <1>3, <1>4 DEF RowsFit

LEMMA OneRowFollows ==
    ASSUME TypeOK, BatchFits, RowsFit, WarmupFits, \A k \in Keys \ harmed : KeyFits(k)
    PROVE  OneRowPerKey
<1> SUFFICES ASSUME NEW r \in txn.rows, NEW s \in txn.rows, r.key = s.key, r.key \notin harmed
             PROVE  r = s
  BY DEF OneRowPerKey
<1> DEFINE k == r.key
<1>1. k \in Keys /\ r.row \in RowIds /\ s.row \in RowIds
  BY DEF TypeOK, Storage, Rows
<1>2. RowIsKnown(k) /\ IdFits(k)
  BY <1>1 DEF KeyFits
<1>3. r.row = s.row => r = s
  BY DEF RowsFit
<1>4. CASE r \in warmup
  <2>1. ~flush.on /\ ~Exists(k) /\ warmup \subseteq disk.rows
    BY <1>4 DEF WarmupFits
  <2>2. cur.key # k
    BY <1>1, <2>1, PersistenceAssumption DEF BatchFits, TasksFit, NoCur
  <2>3. s \in warmup
    BY <1>2, <2>1, <2>2 DEF RowIsKnown
  <2> QED  BY <1>4, <2>1, <2>3 DEF RowsFit
<1>5. CASE s \in warmup
  <2>1. ~flush.on /\ ~Exists(k) /\ warmup \subseteq disk.rows
    BY <1>5 DEF WarmupFits
  <2>2. cur.key # k
    BY <1>1, <2>1, PersistenceAssumption DEF BatchFits, TasksFit, NoCur
  <2>3. r \in warmup
    BY <1>2, <2>1, <2>2 DEF RowIsKnown
  <2> QED  BY <1>5, <2>1, <2>3 DEF RowsFit
<1>6. CASE r \notin warmup /\ s \notin warmup
  <2>1. /\ mem[k].id = r.row \/ (cur.key = k /\ cur.item.op = "del" /\ cur.id = r.row)
        /\ mem[k].id = s.row \/ (cur.key = k /\ cur.item.op = "del" /\ cur.id = s.row)
    BY <1>2, <1>6 DEF RowIsKnown
  <2>2. cur.key = k /\ cur.item.op = "del" => mem[k].id \in {NoId, PendingId, cur.id}
    BY <1>2 DEF IdFits
  <2>3. r.row \notin {NoId, PendingId} /\ s.row \notin {NoId, PendingId}
    BY <1>1 DEF RowIds, NoId, PendingId
  <2> QED  BY <1>3, <2>1, <2>2, <2>3
<1> QED  BY <1>4, <1>5, <1>6

LEMMA WarmupKept ==
    ASSUME TypeOK, BatchFits, RowsFit, WarmupFits, [Next]_vars
    PROVE  WarmupFits'
<1> SUFFICES ASSUME warmup' # {}
             PROVE  /\ ~flush'.on /\ fetch' = NoFetch /\ \A c \in Clients : pending'[c] = NoOp
                    /\ warmup' \subseteq txn'.rows /\ warmup' \subseteq disk'.rows
                    /\ \A r \in warmup' : r.key \notin harmed' =>
                         mem'[r.key] = NoEntry /\ queue'[r.key] = NoItem
  BY DEF WarmupFits, Exists
<1>1. CASE Crash
  <2>1. \A r \in disk.rows : r.key \in Keys
    BY DEF TypeOK, Storage, Rows
  <2>2. txn' = disk /\ disk' = disk /\ warmup' = disk.rows
    BY <1>1 DEF Crash
  <2> QED  BY <1>1, <2>1, <2>2, CrashEffect DEF NoFlush
<1>2. CASE ~Crash
  <2>1. warmup # {}
    BY <1>2, WarmupChanges DEF Load
  <2>2. /\ ~flush.on /\ fetch = NoFetch /\ \A c \in Clients : pending[c] = NoOp
        /\ warmup \subseteq txn.rows /\ warmup \subseteq disk.rows
        /\ \A r \in warmup : r.key \notin harmed => mem[r.key] = NoEntry /\ queue[r.key] = NoItem
        /\ cur = NoCur
    BY <2>1 DEF WarmupFits, BatchFits, TasksFit, Exists
  <2>3. /\ ~BeginFlush /\ ~CompleteFlush /\ ~FetchRead /\ ~FetchDone /\ ~Snapshot /\ ~Insert /\ ~Update
        /\ ~DeleteRow /\ ~Redirty /\ ~Expire
        /\ \A k \in Keys : /\ ~BgFetch(k) /\ ~FlushMissing(k) /\ ~FlushExpired(k) /\ ~FlushSet(k)
                           /\ ~FlushDel(k)
        /\ \A c \in Clients : /\ ~QueueDirty(c)
                              /\ \A k \in Keys : /\ ~Set(c, k)
                                                 /\ \A access \in BOOLEAN : ~Delete(c, k, access)
    <3>1. ~Dispatches /\ ~Serves
      BY <2>1 DEF Dispatches, Serves
    <3>2. /\ ~BeginFlush /\ ~CompleteFlush /\ ~Snapshot /\ ~Expire
          /\ \A k \in Keys : /\ ~BgFetch(k) /\ ~FlushMissing(k) /\ ~FlushExpired(k) /\ ~FlushSet(k)
                             /\ ~FlushDel(k)
      BY <2>1, <3>1 DEF BeginFlush, CompleteFlush, Snapshot, Expire, BgFetch, FlushMissing,
                        FlushExpired, FlushSet, FlushDel, Takes
    <3>3. ~FetchRead /\ ~FetchDone
      BY <2>2 DEF FetchRead, FetchDone, NoFetch
    <3>4. ~Insert /\ ~Update /\ ~DeleteRow /\ ~Redirty
      BY <2>2 DEF Insert, Update, DeleteRow, Redirty, NoCur, NoItem
    <3>5. \A c \in Clients : /\ ~QueueDirty(c)
                             /\ \A k \in Keys : /\ ~Set(c, k)
                                                /\ \A access \in BOOLEAN : ~Delete(c, k, access)
      BY <2>2, <3>1 DEF QueueDirty, Set, Delete
    <3> QED  BY <3>2, <3>3, <3>4, <3>5
  <2>4. ~flush'.on
    BY <1>2, <2>2, <2>3, FlushChanges
  <2>5. fetch' = NoFetch
    BY <1>2, <2>2, <2>3, FetchChanges
  <2>6. \A c \in Clients : pending'[c] = NoOp
    BY <1>2, <2>2, <2>3, PendingChanges
  <2>7. UNCHANGED txn /\ disk' \in {disk, txn}
    BY <1>2, <2>3, TxnChanges, DiskChanges DEF Commit
  <2>8. warmup' \subseteq warmup
    BY <1>2, WarmupChanges, LoadEffect
  <2>9. ASSUME NEW r \in warmup', r.key \notin harmed'
        PROVE  mem'[r.key] = NoEntry /\ queue'[r.key] = NoItem
    <3>1. /\ r \in warmup /\ r.key \in Keys /\ r.key \notin harmed
          /\ mem[r.key] = NoEntry /\ queue[r.key] = NoItem
      BY <2>2, <2>8, <2>9, HarmedGrows DEF TypeOK, Rows
    <3>2. CASE Load
      <4>1. PICK s \in warmup :
              /\ s.key \in Keys /\ warmup' = warmup \ {s} /\ Others(s.key)
              /\ UNCHANGED queue \/ QueuesDeletion(s.key)
        BY <3>2, LoadEffect
      <4>2. r # s /\ r \in disk.rows /\ s \in disk.rows
        BY <2>2, <2>9, <3>1, <4>1
      <4>3. r.key # s.key
        BY <3>1, <4>2 DEF RowsFit
      <4> QED  BY <3>1, <4>1, <4>3 DEF Others, QueuesDeletion, OthersQueued
    <3>3. CASE ~Load
      <4>1. UNCHANGED queue
        BY <1>2, <2>3, <3>3, QueueChanges
      <4>2. UNCHANGED mem \/ \E k \in Keys : Evict(k)
        BY <1>2, <2>3, <3>3, MemChanges
      <4>3. ASSUME NEW k \in Keys, Evict(k) PROVE mem'[r.key] = mem[r.key]
        <5>1. k # r.key
          BY <3>1, <4>3 DEF Evict, Live, Exists
        <5> QED  BY <3>1, <4>3, <5>1, EvictEffect DEF Others
      <4> QED  BY <3>1, <4>1, <4>2, <4>3
    <3> QED  BY <3>2, <3>3
  <2> QED  BY <2>2, <2>4, <2>5, <2>6, <2>7, <2>8, <2>9
<1> QED  BY <1>1, <1>2

-----------------------------------------------------------------------------
(* What a step leaves alone, for a key *)

SamePending(k) ==
    \A c \in Clients : pending'[c] = pending[c] \/ (pending[c].key # k /\ pending'[c].key # k)

SameCur(k) == cur' = cur \/ (cur.key # k /\ cur'.key # k)

SameItems(k) == queue'[k] = queue[k] /\ writing'[k] = writing[k] /\ SamePending(k)

SameRows(k) ==
    /\ \A r \in Rows : r.key = k => (r \in txn'.rows <=> r \in txn.rows)
    /\ \A r \in warmup : r.key = k => r \in warmup'

\* No value is being brought back for the key, or it is the one that was.
SameFetch(k) ==
    fetch' = fetch \/ fetch'.stage # "read" \/ fetch'.key # k

\* The row of the key, and what its entry says of it.
RowPart(k) == RowIsKnown(k) /\ IdIsValid(k) /\ IdFits(k)

\* The items of the key, and what its entry says of them.
ItemPart(k) == DirtyIsQueued(k) /\ CleanIsLast(k) /\ GoneIsQueued(k) /\ ValueFits(k)

LEMMA KeyParts == \A k : KeyFits(k) <=> RowPart(k) /\ ItemPart(k)
BY DEF KeyFits, RowPart, ItemPart

LEMMA RowPartFrame ==
    ASSUME TypeOK, TypeOK', NEW k \in Keys, RowPart(k),
           mem'[k].id = mem[k].id, Exists(k) => mem'[k] # NoEntry, SameCur(k), SameRows(k)
    PROVE  RowPart(k)'
<1>1. txn.rows \subseteq Rows /\ txn'.rows \subseteq Rows
  BY DEF TypeOK, Storage
<1>2. RowIsKnown(k)'
  BY <1>1 DEF RowPart, RowIsKnown, SameCur, SameRows, Exists
<1>3. IdIsValid(k)'
  BY <1>1 DEF RowPart, IdIsValid, SameCur, SameRows
<1>4. IdFits(k)'
  BY DEF RowPart, IdFits, SameCur
<1> QED  BY <1>2, <1>3, <1>4 DEF RowPart

LEMMA UnqueuedFrame ==
    ASSUME NEW k \in Keys, SamePending(k)
    PROVE  Unqueued(k)' <=> Unqueued(k)
BY DEF SamePending, Unqueued

LEMMA OutstandingFrame ==
    ASSUME NEW k \in Keys, SameItems(k)
    PROVE  /\ Unqueued(k)' <=> Unqueued(k)
           /\ Outstanding(k)' <=> Outstanding(k)
BY UnqueuedFrame DEF SameItems, Outstanding

LEMMA RowsOfFrame ==
    ASSUME TypeOK, TypeOK', NEW k \in Keys, SameRows(k)
    PROVE  RowsOf(k)' = RowsOf(k)
<1>1. txn.rows \subseteq Rows /\ txn'.rows \subseteq Rows
  BY DEF TypeOK, Storage
<1> QED  BY <1>1 DEF RowsOf, SameRows

LEMMA RowTyped ==
    ASSUME NEW r \in Rows
    PROVE  r = Row(r.row, r.key, r.data)
BY DEF Rows, Row

\* Where the value itself is does not matter to what is outstanding.
LEMMA LedgerFrame ==
    ASSUME TypeOK, TypeOK', NEW k \in Keys, ItemPart(k),
           time <= time', SameItems(k), SameCur(k), SameRows(k),
           mem'[k].cas = mem[k].cas, mem'[k].id = mem[k].id, mem'[k].dirty = mem[k].dirty,
           mem'[k].deleted = mem[k].deleted, mem'[k].exp = mem[k].exp,
           mem'[k] # NoEntry <=> mem[k] # NoEntry
    PROVE  /\ DirtyIsQueued(k)' /\ CleanIsLast(k)' /\ GoneIsQueued(k)'
           /\ Live(k)' <=> Live(k)
<1>1. /\ Unqueued(k)' <=> Unqueued(k)
      /\ Outstanding(k)' <=> Outstanding(k)
      /\ queue'[k] = queue[k] /\ writing'[k] = writing[k]
  BY OutstandingFrame DEF SameItems
<1>2. RowsOf(k)' = RowsOf(k)
  BY RowsOfFrame
<1>3. (Exists(k)' <=> Exists(k)) /\ (Live(k)' <=> Live(k)) /\ (IsExpiring(k) => IsExpiring(k)')
  BY SMTT(40) DEF Exists, Live, IsExpiring, TypeOK
<1>4. DirtyIsQueued(k)'
  <2>1. ASSUME NEW c \in Clients, pending[c].key = k PROVE pending'[c] = pending[c]
    BY <2>1 DEF SameItems, SamePending
  <2> QED  BY <1>1, <1>3, <2>1 DEF ItemPart, DirtyIsQueued, SameCur
<1>5. CleanIsLast(k)'
  <2>1. ASSUME Row(mem[k].id, k, mem[k].cas) \in txn.rows
        PROVE  Row(mem[k].id, k, mem[k].cas) \in txn'.rows
    <3>1. Row(mem[k].id, k, mem[k].cas) \in Rows
      BY <2>1 DEF TypeOK, Storage
    <3> QED  BY <2>1, <3>1 DEF SameRows, Row
  <2>2. Row(mem[k].id, k, mem[k].cas)' = Row(mem[k].id, k, mem[k].cas)
    BY DEF Row
  <2> QED  BY <1>1, <1>3, <2>1, <2>2 DEF ItemPart, CleanIsLast, SameCur
<1>6. GoneIsQueued(k)'
  BY <1>1, <1>2, <1>3 DEF ItemPart, GoneIsQueued, SameCur
<1> QED  BY <1>3, <1>4, <1>5, <1>6

LEMMA ItemPartFrame ==
    ASSUME TypeOK, TypeOK', NEW k \in Keys, ItemPart(k),
           time <= time', mem'[k] = mem[k], SameItems(k), SameCur(k), SameRows(k), SameFetch(k)
    PROVE  ItemPart(k)'
<1>1. /\ DirtyIsQueued(k)' /\ CleanIsLast(k)' /\ GoneIsQueued(k)'
      /\ Live(k)' <=> Live(k)
  BY LedgerFrame
<1>2. ValueFits(k)'
  <2>1. \A c \in Clients : pending'[c].key = k <=> pending[c].key = k
    BY DEF SameItems, SamePending
  <2> QED  BY <1>1, <2>1 DEF ItemPart, ValueFits, SameFetch
<1> QED  BY <1>1, <1>2 DEF ItemPart

\* A key that the step does not touch.
Untouched(k) ==
    mem'[k] = mem[k] /\ SameItems(k) /\ SameCur(k) /\ SameRows(k) /\ SameFetch(k)

LEMMA UntouchedKept ==
    ASSUME TypeOK, BatchFits, TypeOK', BatchFits', NEW k \in Keys, KeyFits(k),
           time <= time', Untouched(k)
    PROVE  KeyFits(k)'
<1>1. RowPart(k) /\ ItemPart(k)
  BY KeyParts
<1>2. RowPart(k)'
  BY <1>1, RowPartFrame DEF Untouched, Exists
<1>3. ItemPart(k)'
  BY <1>1, ItemPartFrame DEF Untouched
<1> QED  BY <1>2, <1>3 DEF KeyFits, RowPart, ItemPart

LEMMA TimeGrows ==
    ASSUME TypeOK, [Next]_vars
    PROVE  time <= time'
<1>1. time \in Nat
  BY DEF TypeOK
<1>2. time' \in {time, time + 1}
  BY ZenonT(40)
     DEF Next, vars, memVars, flushVars, bounds, history, Set, QueueDirty, Delete, Expire, Evict,
       CloseCheckpoint, BgFetch, FetchRead, FetchDone, BeginFlush, FlushMissing, FlushExpired,
       FlushSet, FlushDel, HandOver, Insert, Update, DeleteRow, Redirty, Commit, CompleteFlush,
       Snapshot, Crash, Load
<1> QED  BY <1>1, <1>2

\* A key that nothing has hit keeps what holds of it.
LEMMA SpareKey ==
    ASSUME EntriesFit, [Next]_vars, NEW j \in Keys \ harmed'
    PROVE  /\ KeyFits(j) /\ j \in Keys /\ j \notin harmed /\ time <= time'
           /\ TypeOK /\ BatchFits /\ TypeOK' /\ BatchFits'
           /\ RowPart(j) /\ ItemPart(j) /\ mutations <= mutations'
           /\ NoCur.key # j /\ NoItem.op = "none" /\ NoItem.cas = 0
<1>1. TypeOK /\ BatchFits
  BY DEF EntriesFit
<1>2. TypeOK' /\ BatchFits' /\ time <= time' /\ mutations <= mutations'
  BY <1>1, TypesKept, BatchKept, TimeGrows, MutationsGrow
<1>3. j \in Keys \ harmed
  BY HarmedGrows
<1>4. KeyFits(j)
  BY <1>3 DEF EntriesFit
<1>5. NoCur.key # j /\ NoItem.op = "none" /\ NoItem.cas = 0
  BY PersistenceAssumption DEF NoCur, NoItem
<1> QED  BY <1>1, <1>2, <1>3, <1>4, <1>5, KeyParts

LEMMA PassiveKeys ==
    ASSUME EntriesFit, [Next]_vars, NEW j \in Keys \ harmed',
           \/ Expire \/ CloseCheckpoint \/ Commit \/ CompleteFlush \/ Snapshot
           \/ UNCHANGED vars \/ \E k \in Keys : BgFetch(k)
    PROVE  KeyFits(j)'
<1> USE DEF vars, memVars, flushVars, bounds, history
<1>1. UNCHANGED <<mem, queue, writing, pending, cur, warmup>>
  BY DEF Expire, CloseCheckpoint, Commit, CompleteFlush, Snapshot, BgFetch
<1>2. txn'.rows = txn.rows
  <2>1. CASE Snapshot
    BY <2>1, SnapshotEffect DEF EntriesFit
  <2>2. CASE ~Snapshot
    BY <2>2 DEF Expire, CloseCheckpoint, Commit, CompleteFlush, BgFetch
  <2> QED  BY <2>1, <2>2
<1>3. SameFetch(j)
  <2>1. UNCHANGED fetch \/ \E k \in Keys : BgFetch(k)
    BY DEF Expire, CloseCheckpoint, Commit, CompleteFlush, Snapshot
  <2>2. ASSUME NEW k \in Keys, BgFetch(k) PROVE fetch'.stage # "read"
    BY <2>2, BgFetchEffect DEF EntriesFit
  <2> QED  BY <2>1, <2>2 DEF SameFetch
<1>4. Untouched(j)
  BY <1>1, <1>2, <1>3 DEF Untouched, SameItems, SamePending, SameCur, SameRows
<1> QED  BY <1>4, SpareKey, UntouchedKept

LEMMA SetKeys ==
    ASSUME EntriesFit, [Next]_vars, NEW j \in Keys \ harmed',
           NEW c \in Clients, NEW k \in Keys, Set(c, k)
    PROVE  KeyFits(j)'
<1> USE SpareKey
<1>1. /\ mem'[k].cas = mutations + 1 /\ mem'[k].data = mutations + 1 /\ mem'[k].dirty
      /\ mem'[k].id = mem[k].id /\ mem'[k].resident /\ ~mem'[k].deleted
      /\ Others(k)
      /\ pending'[c].key = k /\ pending'[c].item.op = "set"
      /\ pending'[c].item.cas = mutations + 1
      /\ \A d \in Clients \ {c} : pending'[d] = pending[d]
  BY SetEffect
<1>2. /\ pending[c] = NoOp /\ UNCHANGED <<queue, writing, cur, txn, warmup, fetch>>
      /\ harmed' = harmed \cup Overlap(k)
  BY DEF Set, flushVars
<1>3. SameCur(j) /\ SameRows(j) /\ SameFetch(j)
  BY <1>2 DEF SameCur, SameRows, SameFetch
<1>4. CASE j # k
  <2>1. pending[c].key # j
    BY <1>2, Forms
  <2>2. SameItems(j)
    BY <1>1, <1>2, <1>4, <2>1 DEF SameItems, SamePending
  <2> QED  BY <1>1, <1>3, <1>4, <2>2, UntouchedKept DEF Untouched, Others
<1>5. CASE j = k
  <2>1. ~Unqueued(j)
    BY <1>2, <1>5 DEF Overlap, Unqueued
  <2>2. mutations \in Nat /\ mem'[j].cas >= 1
    BY <1>1, <1>5 DEF TypeOK
  <2>3. mem'[j] # NoEntry
    BY <2>2 DEF NoEntry
  <2>4. RowPart(j)'
    BY <1>1, <1>3, <1>5, <2>3, RowPartFrame
  <2>5. Live(j)'
    BY <1>1, <1>5, <2>3 DEF Live, Exists
  <2>6. DirtyIsQueued(j)'
    <3>1. queue[j].cas <= mutations /\ writing[j].cas <= mutations
          /\ queue[j].cas \in Nat /\ writing[j].cas \in Nat
      BY <2>2 DEF BatchFits, ItemsFit, IsQueued
    <3>2. cur.key = j => cur.item.cas <= mutations /\ cur.item.cas \in Nat
      BY <2>2 DEF BatchFits, HandedFits
    <3>3. /\ cur'.key = j => cur'.item.cas # mem'[j].cas
          /\ queue'[j].cas # mem'[j].cas /\ writing'[j].cas # mem'[j].cas
      BY <1>1, <1>2, <1>5, <2>2, <3>1, <3>2
    <3> QED  BY <1>1, <1>5, <3>3 DEF DirtyIsQueued
  <2>7. CleanIsLast(j)' /\ GoneIsQueued(j)'
    BY <1>1, <1>5 DEF CleanIsLast, GoneIsQueued
  <2>8. ValueFits(j)'
    <3>1. \A d \in Clients : pending'[d].key = j => d = c
      BY <1>1, <2>1 DEF Unqueued
    <3> QED  BY <1>1, <1>5, <3>1 DEF ValueFits
  <2> QED  BY <2>4, <2>6, <2>7, <2>8 DEF KeyFits, RowPart
<1> QED  BY <1>4, <1>5

LEMMA QueueDirtyKeys ==
    ASSUME EntriesFit, [Next]_vars, NEW j \in Keys \ harmed', NEW c \in Clients, QueueDirty(c)
    PROVE  KeyFits(j)'
<1> DEFINE k == pending[c].key
<1> USE SpareKey
<1>1. /\ k \in Keys /\ pending'[c] = NoOp /\ \A d \in Clients \ {c} : pending'[d] = pending[d]
      /\ queue'[k].op = pending[c].item.op /\ queue'[k].cas = pending[c].item.cas
      /\ OthersQueued(k)
  BY QueueDirtyEffect
<1>2. /\ UNCHANGED <<mem, writing, cur, txn, warmup, fetch, time>>
      /\ pending[c].item.op = "set" /\ pending[c].item.cas \in 1 .. mutations
  BY DEF QueueDirty, flushVars, BatchFits, OpsFit
<1>3. SameCur(j) /\ SameRows(j) /\ SameFetch(j)
  BY <1>2 DEF SameCur, SameRows, SameFetch
<1>4. NoOp.key # j
  BY PersistenceAssumption DEF NoOp
<1>5. CASE j # k
  <2>1. SameItems(j)
    BY <1>1, <1>2, <1>4, <1>5 DEF SameItems, SamePending, OthersQueued
  <2> QED  BY <1>2, <1>3, <2>1, UntouchedKept DEF Untouched
<1>6. CASE j = k
  <2>1. RowPart(j)'
    BY <1>2, <1>3, RowPartFrame DEF Exists
  <2>2. Unqueued(j) /\ \A d \in Clients : pending[d].key = j => d = c
    BY <1>6 DEF Unqueued, ItemPart, ValueFits
  <2>3. ~Unqueued(j)'
    BY <1>1, <1>4, <2>2 DEF Unqueued
  <2>4. /\ queue'[j].op = "set" /\ queue'[j].cas = pending[c].item.cas /\ queue'[j] # NoItem
    BY <1>1, <1>2, <1>6
  <2>5. (Live(j)' <=> Live(j)) /\ (Exists(j)' <=> Exists(j)) /\ (IsExpiring(j)' <=> IsExpiring(j))
    BY <1>2 DEF Live, Exists, IsExpiring
  <2>6. DirtyIsQueued(j)'
    <3> SUFFICES ASSUME Live(j), mem[j].dirty
                 PROVE  /\ cur.key = j => cur.item.cas # mem[j].cas
                        /\ queue'[j].op = "set" /\ queue'[j].cas = mem[j].cas
                        /\ writing[j].cas # mem[j].cas
      BY <1>2, <2>3, <2>5 DEF DirtyIsQueued
    <3>1. /\ cur.key = j => cur.item.cas # mem[j].cas
          /\ \E d \in Clients : /\ pending[d].key = j /\ pending[d].item.op = "set"
                                /\ pending[d].item.cas = mem[j].cas
          /\ writing[j].cas # mem[j].cas
      BY <2>2 DEF ItemPart, DirtyIsQueued
    <3> QED  BY <2>2, <2>4, <3>1
  <2>7. CleanIsLast(j)'
    <3> SUFFICES ASSUME Live(j), ~mem[j].dirty PROVE mem[j].id = NoId /\ IsExpiring(j)
      BY <1>2, <2>5 DEF CleanIsLast
    <3> QED  BY <2>2 DEF ItemPart, CleanIsLast, Outstanding
  <2>8. GoneIsQueued(j)'
    <3> SUFFICES ASSUME Exists(j), mem[j].deleted PROVE Outstanding(j)' /\ IsExpiring(j)
      BY <1>2, <2>5 DEF GoneIsQueued
    <3>1. IsExpiring(j)
      BY <2>2 DEF ItemPart, GoneIsQueued, Outstanding
    <3> QED  BY <2>4, <3>1 DEF Outstanding
  <2>9. ValueFits(j)'
    <3>1. \A d \in Clients : pending'[d].key # j
      BY <2>3 DEF Unqueued
    <3> QED  BY <1>2, <2>5, <3>1 DEF ItemPart, ValueFits
  <2> QED  BY <2>1, <2>6, <2>7, <2>8, <2>9 DEF KeyFits, RowPart
<1> QED  BY <1>5, <1>6

\* A key whose value is deleted, and the deletion queued.
LEMMA DeletedItems ==
    ASSUME NEW j \in Keys, ValueFits(j), Deletes(j), QueuesDeletion(j), SamePending(j),
           ~Unqueued(j) \/ IsExpired(j), UNCHANGED time, TypeOK
    PROVE  ItemPart(j)'
<1>1. mem'[j].deleted /\ ~Live(j)'
  BY DEF Deletes, Live
<1>2. queue'[j].op = "del" /\ queue'[j] # NoItem
  BY DEF QueuesDeletion, NoItem
<1>3. (Unqueued(j)' <=> Unqueued(j)) /\ Outstanding(j)'
  BY <1>2, UnqueuedFrame DEF Outstanding
<1>4. IsExpired(j) => IsExpiring(j)'
  BY DEF IsExpired, IsExpiring, Deletes
<1>5. DirtyIsQueued(j)' /\ CleanIsLast(j)'
  BY <1>1 DEF DirtyIsQueued, CleanIsLast
<1>6. GoneIsQueued(j)'
  BY <1>2, <1>3, <1>4 DEF GoneIsQueued
<1>7. ValueFits(j)'
  <2>1. \A c \in Clients : pending'[c].key = j <=> pending[c].key = j
    BY DEF SamePending
  <2> QED  BY <1>1, <2>1 DEF ValueFits
<1> QED  BY <1>5, <1>6, <1>7 DEF ItemPart

LEMMA TxnRowIds ==
    ASSUME TypeOK
    PROVE  \A r \in txn.rows : r.row \in RowIds /\ r.row \notin {NoId, PendingId} /\ r \in Rows
<1>1. txn.rows \subseteq Rows
  BY DEF TypeOK, Storage
<1>2. \A r \in Rows : r.row \in RowIds
  BY DEF Rows
<1> QED  BY <1>1, <1>2 DEF RowIds, NoId, PendingId

LEMMA DeleteKeys ==
    ASSUME EntriesFit, [Next]_vars, NEW j \in Keys \ harmed',
           NEW c \in Clients, NEW k \in Keys, NEW access \in BOOLEAN, Delete(c, k, access)
    PROVE  KeyFits(j)'
<1> USE SpareKey
<1>1. /\ Deletes(k)
      /\ \/ ~access /\ IsExpired(k) /\ mem[k].id = NoId /\ UNCHANGED <<queue, queued>>
         \/ QueuesDeletion(k)
  BY DeleteEffect
<1>2. /\ UNCHANGED <<pending, writing, cur, txn, warmup, fetch, time>>
      /\ harmed' = harmed \cup Overlap(k) /\ Live(k) /\ warmup = {}
  BY DEF Delete, flushVars, Serves
<1>3. SameCur(j) /\ SameRows(j) /\ SameFetch(j) /\ SamePending(j)
  BY <1>2 DEF SameCur, SameRows, SameFetch, SamePending
<1>4. CASE j # k
  <2>1. SameItems(j) /\ mem'[j] = mem[j]
    BY <1>1, <1>2, <1>3, <1>4 DEF SameItems, Deletes, Others, QueuesDeletion, OthersQueued
  <2> QED  BY <1>2, <1>3, <2>1, UntouchedKept DEF Untouched
<1>5. CASE j = k
  <2>1. ~Unqueued(j)
    BY <1>2, <1>5 DEF Overlap, Unqueued
  <2>2. /\ mem'[j].deleted /\ mem'[j].id = mem[j].id /\ mem'[j].exp = mem[j].exp
        /\ mem'[j] # NoEntry
    BY <1>1, <1>5 DEF Deletes, NoEntry
  <2>3. RowPart(j)'
    BY <1>3, <2>2, RowPartFrame
  <2>4. CASE QueuesDeletion(k)
    BY <1>1, <1>2, <1>3, <1>5, <2>1, <2>3, <2>4, DeletedItems DEF KeyFits, RowPart, ItemPart
  <2>5. CASE ~access /\ IsExpired(k) /\ mem[k].id = NoId /\ UNCHANGED <<queue, queued>>
    <3>1. SameItems(j)
      BY <1>2, <1>3, <2>5 DEF SameItems
    <3>2. (Unqueued(j)' <=> Unqueued(j)) /\ (Outstanding(j)' <=> Outstanding(j))
      BY <3>1, OutstandingFrame
    <3>3. RowsOf(j)' = RowsOf(j) /\ ~Live(j)' /\ IsExpiring(j)' /\ IsExpiring(j)
      BY <1>2, <1>3, <1>5, <2>2, <2>5, RowsOfFrame DEF Live, IsExpired, IsExpiring
    <3>4. DirtyIsQueued(j)' /\ CleanIsLast(j)'
      BY <3>3 DEF DirtyIsQueued, CleanIsLast
    <3>5. ValueFits(j)'
      BY <1>2, <3>3 DEF ItemPart, ValueFits
    <3>6. GoneIsQueued(j)'
      <4>1. CASE Outstanding(j)
        BY <3>2, <3>3, <4>1 DEF GoneIsQueued
      <4>2. CASE ~Outstanding(j) /\ cur.key = j
        <5>1. cur.item.op = "del"
          <6>1. cur.item.op \in {"set", "del"}
            BY <4>2 DEF BatchFits, HandedFits
          <6> QED  BY <1>5, <2>5, <4>2, <6>1 DEF RowPart, IdFits, NoId, PendingId
        <5> QED  BY <1>2, <3>2, <4>2, <5>1 DEF GoneIsQueued
      <4>3. CASE ~Outstanding(j) /\ cur.key # j
        <5>1. \A r \in txn.rows : r.row # NoId
          BY TxnRowIds
        <5>2. RowsOf(j) = {}
          BY <1>2, <1>5, <2>5, <4>3, <5>1 DEF RowPart, RowIsKnown, RowsOf
        <5> QED  BY <1>2, <3>2, <3>3, <4>3, <5>2 DEF GoneIsQueued
      <4> QED  BY <4>1, <4>2, <4>3
    <3> QED  BY <2>3, <3>4, <3>5, <3>6 DEF KeyFits, RowPart
  <2> QED  BY <1>1, <2>4, <2>5
<1> QED  BY <1>4, <1>5

LEMMA FlagsAlike ==
    ASSUME NEW e \in Entries, NEW f \in Entries, ~e.dirty, ~f.dirty
    PROVE  e.dirty = f.dirty
BY DEF Entries

LEMMA EvictKeys ==
    ASSUME EntriesFit, [Next]_vars, NEW j \in Keys \ harmed', NEW k \in Keys, Evict(k)
    PROVE  KeyFits(j)'
<1> USE SpareKey
<1>1. /\ ~mem'[k].resident /\ ~mem'[k].dirty /\ mem'[k].id = mem[k].id
      /\ mem'[k].cas = mem[k].cas /\ mem'[k].deleted = mem[k].deleted
      /\ mem'[k].exp = mem[k].exp /\ Others(k)
  BY EvictEffect
<1>2. /\ UNCHANGED <<pending, queue, writing, cur, txn, warmup, fetch, time>>
      /\ Live(k) /\ ~mem[k].dirty
  BY DEF Evict, flushVars
<1>3. /\ SameCur(j) /\ SameRows(j) /\ SameFetch(j) /\ SameItems(j)
  BY <1>2 DEF SameCur, SameRows, SameFetch, SamePending, SameItems
<1>4. CASE j # k
  BY <1>1, <1>2, <1>3, <1>4, UntouchedKept DEF Untouched, Others
<1>5. CASE j = k
  <2>1. mem'[j] # NoEntry
    <3>1. mem'[j].cas >= 1
      BY <1>1, <1>2, <1>5, Forms DEF Live
    <3> QED  BY <3>1 DEF NoEntry
  <2>2. RowPart(j)'
    BY <1>1, <1>3, <1>5, <2>1, RowPartFrame
  <2>3. /\ DirtyIsQueued(j)' /\ CleanIsLast(j)' /\ GoneIsQueued(j)'
        /\ Live(j)' <=> Live(j)
    <3>1. /\ mem'[j].dirty = mem[j].dirty /\ mem[j] # NoEntry
          /\ mem[j] \in Entries /\ mem'[j] \in Entries
      BY <1>1, <1>2, <1>5, FlagsAlike DEF Live, Exists, TypeOK
    <3> QED  BY <1>1, <1>2, <1>3, <1>5, <2>1, <3>1, LedgerFrame
  <2>4. ValueFits(j)'
    BY <1>1, <1>2, <1>5, <2>3 DEF ItemPart, ValueFits
  <2> QED  BY <2>2, <2>3, <2>4 DEF KeyFits, RowPart
<1> QED  BY <1>4, <1>5

\* The row that is read is the key's only one, and holds its newest value.
LEMMA FetchReadKeys ==
    ASSUME EntriesFit, [Next]_vars, NEW j \in Keys \ harmed', FetchRead
    PROVE  KeyFits(j)'
<1> USE SpareKey
<1>1. \/ fetch' = NoFetch
      \/ /\ fetch'.stage = "read" /\ fetch'.key = fetch.key
         /\ \E r \in Visible : r.row = fetch.row /\ fetch'.data = r.data
                               /\ (fetch.key \notin harmed' => r.key = fetch.key)
  BY FetchReadEffect
<1>2. /\ UNCHANGED <<mem, pending, queue, writing, cur, txn, warmup, time>>
      /\ fetch.stage = "queued" /\ (SeparateReader \/ cur = NoCur)
  BY DEF FetchRead, flushVars
<1>3. /\ SameCur(j) /\ SameRows(j) /\ SameItems(j)
  BY <1>2 DEF SameCur, SameRows, SamePending, SameItems
<1>4. CASE SameFetch(j)
  BY <1>2, <1>3, <1>4, UntouchedKept DEF Untouched
<1>5. CASE ~SameFetch(j)
  <2>1. fetch'.stage = "read" /\ fetch'.key = j /\ fetch.key = j
    BY <1>1, <1>5 DEF SameFetch, NoFetch
  <2>2. PICK r \in Visible : fetch'.data = r.data /\ r.key = j
    BY <1>1, <1>5, <2>1 DEF SameFetch, NoFetch
  <2>3. ASSUME ~SeparateReader, Live(j), ~mem[j].dirty PROVE fetch'.data = mem[j].cas
    <3>1. r \in txn.rows /\ r \in Rows /\ cur = NoCur /\ cur.key # j
      BY <1>2, <2>2, <2>3 DEF Visible, TypeOK, Storage
    <3>2. warmup = {}
      BY <1>2 DEF EntriesFit, WarmupFits, NoFetch
    <3>3. mem[j].id = r.row /\ r.row # NoId
      BY <2>2, <3>1, <3>2 DEF RowPart, RowIsKnown, Rows, RowIds, NoId
    <3>4. Row(mem[j].id, j, mem[j].cas) \in txn.rows
      BY <2>3, <3>1, <3>3 DEF ItemPart, CleanIsLast
    <3>5. r = Row(mem[j].id, j, mem[j].cas)
      BY <2>2, <3>1, <3>4 DEF EntriesFit, OneRowPerKey, Row
    <3> QED  BY <2>2, <3>5 DEF Row
  <2>4. RowPart(j)'
    BY <1>2, <1>3, RowPartFrame DEF Exists
  <2>5. /\ DirtyIsQueued(j)' /\ CleanIsLast(j)' /\ GoneIsQueued(j)'
        /\ Live(j)' <=> Live(j)
    BY <1>2, <1>3, LedgerFrame
  <2>6. ValueFits(j)'
    BY <1>2, <2>3, <2>5 DEF ItemPart, ValueFits
  <2> QED  BY <2>4, <2>5, <2>6 DEF KeyFits, RowPart
<1> QED  BY <1>4, <1>5

LEMMA FetchDoneKeys ==
    ASSUME EntriesFit, [Next]_vars, NEW j \in Keys \ harmed', FetchDone
    PROVE  KeyFits(j)'
<1> DEFINE k == fetch.key
<1> USE SpareKey
<1>1. /\ fetch' = NoFetch /\ k \in Keys
      /\ \/ UNCHANGED <<mem, queue, queued, mutations>>
         \/ /\ Live(k) /\ ~mem[k].resident
            /\ mem'[k].data = fetch.data
            /\ mem'[k].id = mem[k].id /\ mem'[k].dirty = mem[k].dirty /\ mem'[k].cas = mem[k].cas
            /\ mem'[k].deleted = mem[k].deleted /\ mem'[k].exp = mem[k].exp
            /\ mem'[k].resident /\ Others(k)
            /\ UNCHANGED <<queue, queued, mutations>>
         \/ Live(k) /\ IsExpired(k) /\ Deletes(k) /\ QueuesDeletion(k)
  BY FetchDoneEffect
<1>2. UNCHANGED <<pending, writing, cur, txn, warmup, time>>
  BY DEF FetchDone, flushVars
<1>3. SameCur(j) /\ SameRows(j) /\ SamePending(j) /\ SameFetch(j)
  BY <1>1, <1>2 DEF SameCur, SameRows, SamePending, SameFetch, NoFetch
<1>4. CASE mem'[j] = mem[j] /\ queue'[j] = queue[j]
  BY <1>2, <1>3, <1>4, UntouchedKept DEF Untouched, SameItems
<1>5. CASE /\ Live(k) /\ ~mem[k].resident /\ j = k
           /\ mem'[k].id = mem[k].id /\ mem'[k].dirty = mem[k].dirty /\ mem'[k].cas = mem[k].cas
           /\ mem'[k].deleted = mem[k].deleted /\ mem'[k].exp = mem[k].exp
           /\ mem'[k].resident /\ UNCHANGED <<queue, queued, mutations>>
  <2>1. mem'[j] # NoEntry /\ mem[j] # NoEntry
    <3>1. mem[j].cas >= 1
      BY <1>5, Forms DEF Live
    <3> QED  BY <1>5, <3>1 DEF NoEntry
  <2>2. SameItems(j)
    BY <1>2, <1>3, <1>5 DEF SameItems
  <2>3. RowPart(j)'
    BY <1>3, <1>5, <2>1, RowPartFrame
  <2>4. /\ DirtyIsQueued(j)' /\ CleanIsLast(j)' /\ GoneIsQueued(j)'
        /\ Live(j)' <=> Live(j)
    BY <1>2, <1>3, <1>5, <2>1, <2>2, LedgerFrame
  <2>5. ValueFits(j)'
    <3>1. fetch'.stage # "read"
      BY <1>1 DEF NoFetch
    <3> QED  BY <1>2, <1>5, <2>4, <3>1 DEF ItemPart, ValueFits
  <2> QED  BY <2>3, <2>4, <2>5 DEF KeyFits, RowPart
<1>6. CASE j = k /\ Live(k) /\ IsExpired(k) /\ Deletes(k) /\ QueuesDeletion(k)
  <2>1. mem'[j] # NoEntry /\ mem'[j].id = mem[j].id
    BY <1>6 DEF Deletes, NoEntry
  <2>2. RowPart(j)'
    BY <1>3, <2>1, RowPartFrame
  <2>3. ItemPart(j)'
    BY <1>2, <1>3, <1>6, DeletedItems DEF ItemPart
  <2> QED  BY <2>2, <2>3 DEF KeyFits, RowPart, ItemPart
<1>7. CASE j # k
  <2>1. mem'[j] = mem[j] /\ queue'[j] = queue[j]
    BY <1>1, <1>7 DEF Others, Deletes, QueuesDeletion, OthersQueued
  <2> QED  BY <1>4, <2>1
<1> QED  BY <1>1, <1>4, <1>5, <1>6, <1>7

\* The queue becomes the batch.
LEMMA BeginFlushKeys ==
    ASSUME EntriesFit, [Next]_vars, NEW j \in Keys \ harmed', BeginFlush
    PROVE  KeyFits(j)'
<1> USE SpareKey
<1>1. writing'[j] = queue[j] /\ queue'[j] = NoItem
  BY BeginFlushEffect
<1>2. /\ UNCHANGED <<mem, pending, cur, txn, warmup, time, fetch>> /\ cur = NoCur
      /\ writing[j] = NoItem
  BY DEF BeginFlush, Dispatches, BatchFits, TasksFit
<1>3. SameCur(j) /\ SameRows(j) /\ SamePending(j)
  BY <1>2 DEF SameCur, SameRows, SamePending
<1>4. RowPart(j)'
  BY <1>2, <1>3, RowPartFrame DEF Exists
<1>5. /\ Unqueued(j)' <=> Unqueued(j)
      /\ Outstanding(j)' <=> Outstanding(j)
  BY <1>1, <1>2, <1>3, UnqueuedFrame DEF Outstanding
<1>6. /\ RowsOf(j)' = RowsOf(j) /\ (Exists(j)' <=> Exists(j)) /\ (Live(j)' <=> Live(j))
      /\ (IsExpiring(j)' <=> IsExpiring(j))
      /\ Row(mem[j].id, j, mem[j].cas)' = Row(mem[j].id, j, mem[j].cas)
  BY <1>2 DEF RowsOf, Exists, Live, IsExpiring, Row
<1>7. DirtyIsQueued(j)'
  <2> SUFFICES ASSUME Live(j), mem[j].dirty
               PROVE  \/ /\ \E c \in Clients : /\ pending[c].key = j
                                               /\ pending[c].item.op = "set"
                                               /\ pending[c].item.cas = mem[j].cas
                         /\ NoItem.cas # mem[j].cas /\ queue[j].cas # mem[j].cas
                      \/ ~Unqueued(j) /\ queue[j].op = "set" /\ queue[j].cas = mem[j].cas
    BY <1>1, <1>2, <1>5, <1>6 DEF DirtyIsQueued
  <2>1. mem[j].cas >= 1 /\ mem[j].cas # NoItem.cas
    BY Forms DEF Live
  <2> QED  BY <1>2, <2>1 DEF ItemPart, DirtyIsQueued
<1>8. CleanIsLast(j)'
  BY <1>2, <1>5, <1>6 DEF ItemPart, CleanIsLast
<1>9. GoneIsQueued(j)'
  BY <1>1, <1>2, <1>5, <1>6 DEF ItemPart, GoneIsQueued
<1>10. ValueFits(j)'
  BY <1>2, <1>6 DEF ItemPart, ValueFits
<1> QED  BY <1>4, <1>7, <1>8, <1>9, <1>10 DEF KeyFits, RowPart

LEMMA FlushMissingKeys ==
    ASSUME EntriesFit, [Next]_vars, NEW j \in Keys \ harmed', NEW k \in Keys, FlushMissing(k)
    PROVE  KeyFits(j)'
<1> USE SpareKey
<1>1. /\ writing'[k] = NoItem /\ OthersTaken(k) /\ txn'.rows = txn.rows
      /\ \/ ~Exists(k) /\ UNCHANGED <<mem, queue, mutations, queued>>
         \/ Purges(k)
  BY FlushMissingEffect
<1>2. UNCHANGED <<pending, cur, warmup, time, fetch>>
  BY DEF FlushMissing
<1>3. SameCur(j) /\ SameRows(j) /\ SamePending(j) /\ SameFetch(j)
  BY <1>1, <1>2 DEF SameCur, SameRows, SamePending, SameFetch
<1>4. CASE j # k
  <2>1. mem'[j] = mem[j] /\ SameItems(j)
    BY <1>1, <1>3, <1>4
       DEF SameItems, Purges, Deletes, Others, QueuesDeletion, OthersQueued, OthersTaken
  <2> QED  BY <1>2, <1>3, <2>1, UntouchedKept DEF Untouched
<1>5. CASE j = k /\ ~Exists(k) /\ UNCHANGED mem
  <2>1. RowPart(j)'
    BY <1>3, <1>5, RowPartFrame DEF Exists
  <2>2. ~Exists(j)' /\ ~Live(j)'
    BY <1>5 DEF Exists, Live
  <2>3. ItemPart(j)'
    BY <1>2, <2>2 DEF ItemPart, DirtyIsQueued, CleanIsLast, GoneIsQueued, ValueFits
  <2> QED  BY <2>1, <2>3 DEF KeyFits, RowPart, ItemPart
<1>6. CASE j = k /\ Purges(k)
  <2>1. mem'[j] # NoEntry /\ mem'[j].id = mem[j].id
    BY <1>6 DEF Purges, Deletes, NoEntry
  <2>2. RowPart(j)'
    BY <1>3, <2>1, RowPartFrame
  <2>3. ItemPart(j)'
    BY <1>2, <1>3, <1>6, DeletedItems DEF ItemPart, Purges
  <2> QED  BY <2>2, <2>3 DEF KeyFits, RowPart, ItemPart
<1> QED  BY <1>1, <1>4, <1>5, <1>6

\* The flusher hands over an item of a key when the storage has none.
LEMMA TakesFrom ==
    ASSUME EntriesFit, [Next]_vars, NEW j \in Keys \ harmed', Takes(j), Exists(j)
    PROVE  /\ warmup = {} /\ cur.key # j /\ cur = NoCur /\ writing[j] # NoItem /\ Outstanding(j)
           /\ mem[j].id # PendingId /\ mem[j].cas >= 1
           /\ ~SeparateReader => fetch.stage # "read"
           /\ \A r \in txn.rows : r.key = j => mem[j].id = r.row /\ r.row \notin {NoId, PendingId}
<1> USE SpareKey
<1>1. warmup = {} /\ cur = NoCur /\ writing[j] # NoItem
      /\ (~SeparateReader => fetch.stage # "read")
  BY DEF Takes, Dispatches
<1>2. cur.key # j /\ mem[j].cas >= 1
  BY <1>1, Forms
<1>3. mem[j].id # PendingId
  BY <1>2 DEF RowPart, IdFits
<1>4. \A r \in txn.rows : r.key = j => mem[j].id = r.row /\ r.row \notin {NoId, PendingId}
  BY <1>1, <1>2, TxnRowIds DEF RowPart, RowIsKnown
<1> QED  BY <1>1, <1>2, <1>3, <1>4 DEF Outstanding

LEMMA FlushExpiredKeys ==
    ASSUME EntriesFit, [Next]_vars, NEW j \in Keys \ harmed', NEW k \in Keys, FlushExpired(k)
    PROVE  KeyFits(j)'
<1> USE SpareKey
<1>1. /\ HandsOver(k) /\ Others(k) /\ Alike(mem'[k], mem[k])
      /\ cur'.item.op = "del" /\ writing'[k] = NoItem /\ mem'[k].id = NoId /\ ~mem'[k].dirty
  BY FlushExpiredEffect
<1>2. /\ UNCHANGED <<pending, queue, txn, warmup, time, fetch>> /\ cur = NoCur
      /\ Takes(k) /\ Exists(k) /\ IsExpiring(k)
  BY DEF FlushExpired, HandOver, Takes, Dispatches
<1>3. SameRows(j) /\ SamePending(j) /\ SameFetch(j)
  BY <1>2 DEF SameRows, SamePending, SameFetch
<1>4. CASE j # k
  <2>1. mem'[j] = mem[j] /\ SameItems(j) /\ SameCur(j)
    BY <1>1, <1>2, <1>3, <1>4 DEF SameItems, SameCur, HandsOver, Others, OthersTaken
  <2> QED  BY <1>3, <2>1, UntouchedKept DEF Untouched
<1>5. CASE j = k
  <2>1. /\ warmup = {} /\ cur.key # j /\ mem[j].id # PendingId /\ mem[j].cas >= 1
        /\ ~SeparateReader => fetch.stage # "read"
        /\ \A r \in txn.rows : r.key = j => mem[j].id = r.row
    BY <1>2, <1>5, TakesFrom
  <2>2. /\ mem'[j].exp = mem[j].exp /\ cur'.key = j /\ cur'.id = mem[j].id
        /\ IsExpiring(j)'
    BY <1>1, <1>2, <1>5 DEF Alike, HandsOver, IsExpiring
  <2>3. RowIsKnown(j)'
    BY <1>1, <1>2, <2>1, <2>2 DEF RowIsKnown
  <2>4. IdIsValid(j)'
    <3>1. mem'[j].id \notin RowIds
      BY <1>1, <1>5 DEF NoId, RowIds
    <3> QED  BY <1>2, <2>2, <3>1 DEF RowPart, IdIsValid
  <2>5. IdFits(j)'
    BY <1>1, <1>5, <2>1, <2>2 DEF IdFits
  <2>6. DirtyIsQueued(j)' /\ CleanIsLast(j)'
    BY <1>1, <1>5, <2>2 DEF DirtyIsQueued, CleanIsLast
  <2>7. GoneIsQueued(j)'
    BY <1>1, <2>2 DEF GoneIsQueued
  <2>8. ValueFits(j)'
    BY <1>1, <1>2, <1>5, <2>1 DEF ItemPart, ValueFits
  <2> QED  BY <2>3, <2>4, <2>5, <2>6, <2>7, <2>8 DEF KeyFits
<1> QED  BY <1>4, <1>5

LEMMA FlushSetKeys ==
    ASSUME EntriesFit, [Next]_vars, NEW j \in Keys \ harmed', NEW k \in Keys, FlushSet(k)
    PROVE  KeyFits(j)'
<1> USE SpareKey
<1>1. /\ HandsOver(k) /\ Others(k) /\ Alike(mem'[k], mem[k])
      /\ cur'.item.op = "set" /\ writing'[k] = NoItem /\ mem'[k].id = WithPendingId(mem[k].id)
      /\ mem'[k].dirty = (mem[k].dirty /\ mem[k].cas # writing[k].cas)
  BY FlushSetEffect
<1>2. /\ UNCHANGED <<pending, queue, txn, warmup, time, fetch>> /\ cur = NoCur
      /\ Takes(k) /\ Exists(k) /\ ~IsExpiring(k) /\ writing[k].op = "set"
  BY DEF FlushSet, HandOver, Takes, Dispatches
<1>3. SameRows(j) /\ SamePending(j) /\ SameFetch(j)
  BY <1>2 DEF SameRows, SamePending, SameFetch
<1>4. CASE j # k
  <2>1. mem'[j] = mem[j] /\ SameItems(j) /\ SameCur(j)
    BY <1>1, <1>2, <1>3, <1>4 DEF SameItems, SameCur, HandsOver, Others, OthersTaken
  <2> QED  BY <1>3, <2>1, UntouchedKept DEF Untouched
<1>5. CASE j = k
  <2>1. /\ warmup = {} /\ cur.key # j /\ mem[j].id # PendingId /\ mem[j].cas >= 1
        /\ writing[j] # NoItem /\ Outstanding(j)
        /\ ~SeparateReader => fetch.stage # "read"
        /\ \A r \in txn.rows : r.key = j => mem[j].id = r.row /\ r.row \notin {NoId, PendingId}
    BY <1>2, <1>5, TakesFrom
  <2>2. /\ mem'[j].cas = mem[j].cas /\ mem'[j].deleted = mem[j].deleted
        /\ mem'[j].resident = mem[j].resident
        /\ cur'.key = j /\ cur'.id = mem[j].id /\ cur'.item.cas = writing[j].cas
        /\ mem'[j].id = (IF mem[j].id = NoId THEN PendingId ELSE mem[j].id)
    BY <1>1, <1>5 DEF Alike, HandsOver, WithPendingId
  <2>3. /\ mem'[j] # NoEntry /\ (Live(j)' <=> Live(j)) /\ Exists(j)'
    <3>1. mem'[j] # NoEntry
      BY <2>1, <2>2 DEF NoEntry
    <3> QED  BY <1>2, <1>5, <2>2, <3>1 DEF Live, Exists
  <2>4. Unqueued(j)' <=> Unqueued(j)
    BY <1>3, UnqueuedFrame
  <2>5. RowIsKnown(j)'
    BY <1>2, <2>1, <2>2, <2>3 DEF RowIsKnown
  <2>6. IdIsValid(j)'
    <3>1. PendingId \notin RowIds
      BY DEF PendingId, RowIds
    <3> QED  BY <1>2, <2>2, <3>1 DEF RowPart, IdIsValid
  <2>7. IdFits(j)'
    BY <1>1, <2>1, <2>2 DEF IdFits
  <2>8. DirtyIsQueued(j)'
    <3> SUFFICES ASSUME Live(j), mem[j].dirty, mem[j].cas # writing[j].cas
                 PROVE  \/ /\ \E c \in Clients : /\ pending[c].key = j
                                                 /\ pending[c].item.op = "set"
                                                 /\ pending[c].item.cas = mem[j].cas
                           /\ queue[j].cas # mem[j].cas
                        \/ ~Unqueued(j) /\ queue[j].op = "set" /\ queue[j].cas = mem[j].cas
      <4>1. NoItem.cas # mem[j].cas
        BY <2>1
      <4> QED  BY <1>1, <1>2, <1>5, <2>2, <2>3, <2>4, <4>1 DEF DirtyIsQueued
    <3> QED  BY DEF ItemPart, DirtyIsQueued
  <2>9. CleanIsLast(j)'
    <3> SUFFICES ASSUME Live(j), ~mem[j].dirty \/ mem[j].cas = writing[j].cas
                 PROVE  ~Outstanding(j)' /\ mem'[j].id # NoId /\ cur'.item.cas = mem[j].cas
      BY <1>1, <1>2, <1>5, <2>2, <2>3 DEF CleanIsLast
    <3>1. mem[j].dirty
      BY <1>2, <1>5, <2>1 DEF ItemPart, CleanIsLast
    <3>2. mem[j].cas = writing[j].cas
      BY <3>1
    <3>3. ~Unqueued(j) /\ queue[j] = NoItem
      BY <3>1, <3>2 DEF ItemPart, DirtyIsQueued
    <3>4. ~Outstanding(j)'
      BY <1>1, <1>2, <1>5, <2>4, <3>3 DEF Outstanding
    <3>5. NoId # PendingId
      BY DEF NoId, PendingId
    <3> QED  BY <2>2, <3>2, <3>4, <3>5
  <2>10. GoneIsQueued(j)'
    <3> SUFFICES ASSUME mem[j].deleted PROVE Outstanding(j)' /\ ~Unqueued(j)' /\ queue'[j].op = "del"
      BY <2>2 DEF GoneIsQueued
    <3>1. ~Unqueued(j) /\ queue[j].op = "del"
      BY <1>2, <1>5, <2>1 DEF ItemPart, GoneIsQueued
    <3> QED  BY <1>2, <2>4, <3>1 DEF Outstanding, NoItem
  <2>11. ValueFits(j)'
    BY <1>1, <1>2, <1>5, <2>1, <2>2, <2>3 DEF ItemPart, ValueFits
  <2> QED  BY <2>5, <2>6, <2>7, <2>8, <2>9, <2>10, <2>11 DEF KeyFits
<1> QED  BY <1>4, <1>5

LEMMA FlushDelKeys ==
    ASSUME EntriesFit, [Next]_vars, NEW j \in Keys \ harmed', NEW k \in Keys, FlushDel(k)
    PROVE  KeyFits(j)'
<1> USE SpareKey
<1>1. /\ HandsOver(k) /\ Others(k) /\ Alike(mem'[k], mem[k])
      /\ cur'.item.op = "del" /\ mem'[k].id = WithPendingId(mem[k].id)
      /\ writing'[k] = IF mem[k].id = PendingId THEN writing[k] ELSE NoItem
      /\ mem'[k].dirty = mem[k].dirty
  BY FlushDelEffect
<1>2. /\ UNCHANGED <<pending, queue, txn, warmup, time, fetch>> /\ cur = NoCur
      /\ Takes(k) /\ Exists(k) /\ ~IsExpiring(k) /\ writing[k].op = "del"
  BY DEF FlushDel, HandOver, Takes, Dispatches
<1>3. SameRows(j) /\ SamePending(j) /\ SameFetch(j)
  BY <1>2 DEF SameRows, SamePending, SameFetch
<1>4. CASE j # k
  <2>1. mem'[j] = mem[j] /\ SameItems(j) /\ SameCur(j)
    BY <1>1, <1>2, <1>3, <1>4 DEF SameItems, SameCur, HandsOver, Others, OthersTaken
  <2> QED  BY <1>3, <2>1, UntouchedKept DEF Untouched
<1>5. CASE j = k
  <2>1. /\ warmup = {} /\ cur.key # j /\ mem[j].id # PendingId /\ mem[j].cas >= 1
        /\ writing[j] # NoItem /\ Outstanding(j)
        /\ ~SeparateReader => fetch.stage # "read"
        /\ \A r \in txn.rows : r.key = j => mem[j].id = r.row /\ r.row \notin {NoId, PendingId}
    BY <1>2, <1>5, TakesFrom
  <2>2. /\ mem'[j].cas = mem[j].cas /\ mem'[j].deleted = mem[j].deleted
        /\ mem'[j].resident = mem[j].resident /\ writing'[j] = NoItem
        /\ cur'.key = j /\ cur'.id = mem[j].id /\ cur'.item.cas = writing[j].cas
        /\ mem'[j].id = (IF mem[j].id = NoId THEN PendingId ELSE mem[j].id)
    BY <1>1, <1>5, <2>1 DEF Alike, HandsOver, WithPendingId
  <2>3. /\ mem'[j] # NoEntry /\ (Live(j)' <=> Live(j)) /\ Exists(j)'
    <3>1. mem'[j] # NoEntry
      BY <2>1, <2>2 DEF NoEntry
    <3> QED  BY <1>2, <1>5, <2>2, <3>1 DEF Live, Exists
  <2>4. Unqueued(j)' <=> Unqueued(j)
    BY <1>3, UnqueuedFrame
  <2>5. RowIsKnown(j)'
    BY <1>2, <2>1, <2>2, <2>3 DEF RowIsKnown
  <2>6. IdIsValid(j)'
    <3>1. PendingId \notin RowIds
      BY DEF PendingId, RowIds
    <3> QED  BY <1>2, <2>2, <3>1 DEF RowPart, IdIsValid
  <2>7. IdFits(j)'
    BY <1>1, <2>1, <2>2 DEF IdFits
  <2>8. DirtyIsQueued(j)'
    <3> SUFFICES ASSUME Live(j), mem[j].dirty
                 PROVE  /\ writing[j].cas # mem[j].cas
                        /\ \/ /\ \E c \in Clients : /\ pending[c].key = j
                                                    /\ pending[c].item.op = "set"
                                                    /\ pending[c].item.cas = mem[j].cas
                              /\ queue[j].cas # mem[j].cas
                           \/ ~Unqueued(j) /\ queue[j].op = "set" /\ queue[j].cas = mem[j].cas
      <4>1. NoItem.cas # mem[j].cas
        BY <2>1
      <4> QED  BY <1>1, <1>2, <1>5, <2>2, <2>3, <2>4, <4>1 DEF DirtyIsQueued
    <3> QED  BY <1>2, <1>5 DEF ItemPart, DirtyIsQueued
  <2>9. CleanIsLast(j)'
    <3>1. Live(j) => mem[j].dirty
      BY <1>2, <1>5, <2>1 DEF ItemPart, CleanIsLast
    <3> QED  BY <1>1, <1>5, <2>3, <3>1 DEF CleanIsLast
  <2>10. GoneIsQueued(j)'
    <3> SUFFICES ASSUME mem[j].deleted
                 PROVE  \/ Outstanding(j)' /\ ~Unqueued(j)' /\ queue'[j].op = "del"
                        \/ ~Outstanding(j)'
      BY <1>1, <2>2 DEF GoneIsQueued
    <3>1. \/ ~Unqueued(j) /\ queue[j].op = "del"
          \/ ~Unqueued(j) /\ queue[j] = NoItem
      BY <1>2, <1>5, <2>1 DEF ItemPart, GoneIsQueued
    <3> QED  BY <1>2, <2>2, <2>4, <3>1 DEF Outstanding
  <2>11. ValueFits(j)'
    BY <1>1, <1>2, <1>5, <2>1, <2>2, <2>3 DEF ItemPart, ValueFits
  <2> QED  BY <2>5, <2>6, <2>7, <2>8, <2>9, <2>10, <2>11 DEF KeyFits
<1> QED  BY <1>4, <1>5

\* What the storage has been handed of a key.
LEMMA HandedSpare ==
    ASSUME EntriesFit, [Next]_vars, NEW j \in Keys \ harmed', cur.key = j
    PROVE  /\ cur # NoCur /\ Exists(j) /\ mem[j].cas >= 1 /\ writing[j] = NoItem /\ warmup = {}
           /\ cur.id # PendingId /\ cur.item.op \in {"set", "del"} /\ cur.item.cas >= 1
           /\ cur.item.op = "set" => mem[j].id = (IF cur.id = NoId THEN PendingId ELSE cur.id)
           /\ cur.item.op = "del" => \/ mem[j].id \in {NoId, cur.id}
                                     \/ mem[j].id = PendingId /\ cur.id = NoId
           /\ ~SeparateReader => fetch.stage # "read"
<1> USE SpareKey
<1>1. cur # NoCur /\ mem[j].cas >= 1 /\ Exists(j) /\ cur.item.op \in {"set", "del"}
  BY Forms, HandedKey
<1>2. cur.id # PendingId
  BY DEF RowPart, IdFits
<1>3. writing[j] = NoItem /\ cur.item.cas >= 1
  BY <1>1, <1>2 DEF BatchFits, HandedFits, TypeOK
<1>4. flush.on /\ (~SeparateReader => fetch.stage # "read")
  BY <1>1 DEF BatchFits, TasksFit
<1>5. warmup = {}
  BY <1>4 DEF EntriesFit, WarmupFits
<1> QED  BY <1>1, <1>2, <1>3, <1>4, <1>5 DEF RowPart, IdFits

LEMMA InsertKeys ==
    ASSUME EntriesFit, [Next]_vars, NEW j \in Keys \ harmed', Insert
    PROVE  KeyFits(j)'
<1> DEFINE k == cur.key
           new == Row(NewRow, k, cur.item.cas)
<1> USE SpareKey
<1>1. /\ k \in Keys /\ Others(k) /\ cur' = NoCur /\ NewRow \in RowIds
      /\ txn'.rows = txn.rows \cup {new} /\ new \in Rows
      /\ Alike(mem'[k], mem[k]) /\ mem'[k].dirty = mem[k].dirty /\ mem'[k].id = NewRow
  BY HandedKey, InsertEffect DEF Applies, Insert
<1>2. /\ UNCHANGED <<pending, queue, writing, warmup, time, fetch>>
      /\ cur.item.op = "set" /\ cur.id = NoId
  BY DEF Insert
<1>3. SamePending(j) /\ SameFetch(j) /\ SameItems(j)
  BY <1>2 DEF SamePending, SameFetch, SameItems
<1>4. new.row = NewRow /\ new.key = k
  BY DEF Row
<1> HIDE DEF new
<1>5. CASE j # k
  <2>1. mem'[j] = mem[j] /\ SameCur(j) /\ SameRows(j)
    BY <1>1, <1>2, <1>4, <1>5 DEF SameCur, SameRows, Others
  <2> QED  BY <1>3, <2>1, UntouchedKept DEF Untouched
<1>6. CASE j = k
  <2>1. /\ Exists(j) /\ mem[j].cas >= 1 /\ warmup = {} /\ mem[j].id = PendingId
    BY <1>2, <1>6, HandedSpare
  <2>2. /\ mem'[j].cas = mem[j].cas /\ mem'[j].deleted = mem[j].deleted
        /\ mem'[j].resident = mem[j].resident /\ mem'[j].exp = mem[j].exp
        /\ mem'[j].dirty = mem[j].dirty /\ mem'[j].id = NewRow
    BY <1>1, <1>6 DEF Alike
  <2>3. /\ mem'[j] # NoEntry /\ (Live(j)' <=> Live(j)) /\ Exists(j)'
        /\ IsExpiring(j)' <=> IsExpiring(j)
    <3>1. mem'[j] # NoEntry
      BY <2>1, <2>2 DEF NoEntry
    <3> QED  BY <1>2, <2>1, <2>2, <3>1 DEF Live, Exists, IsExpiring
  <2>4. (Unqueued(j)' <=> Unqueued(j)) /\ (Outstanding(j)' <=> Outstanding(j))
    BY <1>3, OutstandingFrame
  <2>5. RowIsKnown(j)'
    <3>1. \A r \in txn.rows : r.key # j
      BY <1>2, <2>1, TxnRowIds DEF RowPart, RowIsKnown
    <3> QED  BY <1>1, <1>4, <2>2, <2>3, <3>1 DEF RowIsKnown
  <2>6. IdIsValid(j)'
    BY <1>1, <1>4, <1>6, <2>2 DEF IdIsValid
  <2>7. IdFits(j)'
    <3>1. NewRow # PendingId
      BY <1>1 DEF RowIds, PendingId
    <3> QED  BY <1>1, <2>2, <3>1 DEF IdFits
  <2>8. DirtyIsQueued(j)'
    <3>1. cur'.key # j
      BY <1>1
    <3>2. UNCHANGED <<pending, queue[j], writing[j]>> /\ (Unqueued(j)' <=> Unqueued(j))
      BY <1>2, <2>4
    <3>3. mem'[j].cas = mem[j].cas /\ (mem'[j].dirty => mem[j].dirty) /\ (Live(j)' => Live(j))
      BY <2>2, <2>3
    <3> QED  BY <3>1, <3>2, <3>3 DEF ItemPart, DirtyIsQueued
  <2>9. CleanIsLast(j)'
    <3> SUFFICES ASSUME Live(j), ~mem[j].dirty
                 PROVE  ~Outstanding(j) /\ NewRow # NoId /\ Row(NewRow, j, mem[j].cas) \in txn'.rows
      BY <1>1, <2>2, <2>3, <2>4 DEF CleanIsLast
    <3>1. mem[j].id # NoId /\ NewRow # NoId
      BY <1>1, <2>1 DEF PendingId, NoId, RowIds
    <3>2. ~Outstanding(j) /\ cur.item.cas = mem[j].cas
      BY <1>6, <3>1 DEF ItemPart, CleanIsLast
    <3> QED  BY <1>1, <1>6, <3>1, <3>2 DEF new
  <2>10. GoneIsQueued(j)'
    <3> SUFFICES ASSUME mem[j].deleted
                 PROVE  /\ Outstanding(j)
                        /\ \/ IsExpiring(j)
                           \/ ~Unqueued(j) /\ queue[j].op = "del"
                           \/ ~Unqueued(j) /\ queue[j] = NoItem /\ writing[j].op = "del"
      BY <1>2, <2>2, <2>3, <2>4 DEF GoneIsQueued
    <3> QED  BY <1>2, <1>6, <2>1 DEF ItemPart, GoneIsQueued
  <2>11. ValueFits(j)'
    BY <1>2, <2>2, <2>3 DEF ItemPart, ValueFits
  <2> QED  BY <2>5, <2>6, <2>7, <2>8, <2>9, <2>10, <2>11 DEF KeyFits
<1> QED  BY <1>5, <1>6

LEMMA UpdateKeys ==
    ASSUME EntriesFit, [Next]_vars, NEW j \in Keys \ harmed', Update
    PROVE  KeyFits(j)'
<1> DEFINE k == cur.key
           Up(r) == IF r.row = cur.id THEN Row(r.row, k, cur.item.cas) ELSE r
<1> USE SpareKey
<1>1. k \in Keys /\ cur' = NoCur /\ txn'.rows = {Up(r) : r \in txn.rows} /\ j \notin Victims
  BY HandedKey, UpdateEffect DEF Applies, Update, UpdatedRows
<1>2. /\ UNCHANGED <<mem, pending, queue, writing, warmup, time, fetch>>
      /\ cur.item.op = "set" /\ cur.id # NoId
  BY DEF Update, memVars
<1>3. SamePending(j) /\ SameFetch(j) /\ SameItems(j)
  BY <1>2 DEF SamePending, SameFetch, SameItems
<1>4. /\ \A r \in txn.rows : Up(r).row = r.row
      /\ \A r \in txn.rows : r.row # cur.id => Up(r) = r
      /\ \A r \in txn.rows : r.row = cur.id => Up(r) = Row(cur.id, k, cur.item.cas)
      /\ Row(cur.id, k, cur.item.cas).key = k
  BY DEF Row
<1> HIDE DEF Up
<1>5. CASE j # k
  <2>1. \A r \in txn.rows : r.key = j => r.row # cur.id
    BY <1>1, <1>5 DEF Victims
  <2>2. \A r \in Rows : r.key = j => (r \in txn'.rows <=> r \in txn.rows)
    BY <1>1, <1>4, <1>5, <2>1
  <2>3. SameCur(j) /\ SameRows(j)
    BY <1>1, <1>2, <1>5, <2>2 DEF SameCur, SameRows
  <2> QED  BY <1>2, <1>3, <2>3, UntouchedKept DEF Untouched
<1>6. CASE j = k
  <2>1. /\ Exists(j) /\ mem[j].cas >= 1 /\ warmup = {} /\ mem[j].id = cur.id
        /\ cur.id # PendingId
    BY <1>2, <1>6, HandedSpare
  <2>2. PICK r \in txn.rows : r.row = cur.id
    <3>1. cur.id \in RowIds
      BY <1>2, <2>1 DEF TypeOK, Statements
    <3> QED  BY <1>6, <3>1 DEF RowPart, IdIsValid
  <2>3. /\ Live(j)' <=> Live(j)
        /\ Exists(j)' <=> Exists(j)
        /\ IsExpiring(j)' <=> IsExpiring(j)
    BY <1>2 DEF Live, Exists, IsExpiring
  <2>4. (Unqueued(j)' <=> Unqueued(j)) /\ (Outstanding(j)' <=> Outstanding(j))
    BY <1>3, OutstandingFrame
  <2>5. Row(cur.id, j, cur.item.cas) \in txn'.rows
    BY <1>1, <1>4, <1>6, <2>2
  <2>6. RowIsKnown(j)'
    <3>1. \A s \in txn.rows : s.key = j => s.row = cur.id
      BY <1>2, <2>1 DEF RowPart, RowIsKnown
    <3>2. \A s \in txn'.rows : s.key = j => s.row = cur.id
      BY <1>1, <1>4, <3>1
    <3> QED  BY <1>2, <2>1, <2>3, <3>2 DEF RowIsKnown
  <2>7. IdIsValid(j)'
    <3>1. Row(cur.id, j, cur.item.cas).row = cur.id /\ Row(cur.id, j, cur.item.cas).key = j
      BY DEF Row
    <3> QED  BY <1>1, <1>2, <2>1, <2>5, <3>1 DEF IdIsValid
  <2>8. IdFits(j)'
    BY <1>1, <1>2, <2>1 DEF IdFits
  <2>9. DirtyIsQueued(j)'
    BY <1>1, <1>2, <2>3, <2>4 DEF ItemPart, DirtyIsQueued
  <2>10. CleanIsLast(j)'
    <3> SUFFICES ASSUME Live(j), ~mem[j].dirty
                 PROVE  /\ ~Outstanding(j) /\ mem[j].id # NoId
                        /\ Row(mem[j].id, j, mem[j].cas) \in txn'.rows
      BY <1>1, <1>2, <2>3, <2>4 DEF CleanIsLast, Row
    <3>1. ~Outstanding(j) /\ cur.item.cas = mem[j].cas
      BY <1>2, <1>6, <2>1 DEF ItemPart, CleanIsLast
    <3> QED  BY <1>2, <2>1, <2>5, <3>1
  <2>11. GoneIsQueued(j)'
    <3> SUFFICES ASSUME Exists(j), mem[j].deleted
                 PROVE  /\ Outstanding(j)
                        /\ \/ IsExpiring(j)
                           \/ ~Unqueued(j) /\ queue[j].op = "del"
                           \/ ~Unqueued(j) /\ queue[j] = NoItem /\ writing[j].op = "del"
      BY <1>2, <2>3, <2>4 DEF GoneIsQueued
    <3> QED  BY <1>2, <1>6 DEF ItemPart, GoneIsQueued
  <2>12. ValueFits(j)'
    BY <1>2, <2>3 DEF ItemPart, ValueFits
  <2> QED  BY <2>6, <2>7, <2>8, <2>9, <2>10, <2>11, <2>12 DEF KeyFits
<1> QED  BY <1>5, <1>6

LEMMA DeleteRowKeys ==
    ASSUME EntriesFit, [Next]_vars, NEW j \in Keys \ harmed', DeleteRow
    PROVE  KeyFits(j)'
<1> DEFINE k == cur.key
<1> USE SpareKey
<1>1. /\ k \in Keys /\ cur' = NoCur /\ txn'.rows = KeptRows /\ j \notin Victims
      /\ \/ /\ Others(k) /\ UNCHANGED <<queue, mutations, queued>>
            /\ \/ mem[k].deleted /\ mem'[k] = NoEntry
               \/ /\ ~mem[k].deleted /\ Alike(mem'[k], mem[k])
                  /\ mem'[k].dirty = mem[k].dirty /\ mem'[k].id = NoId
         \/ Purges(k) /\ k \in harmed'
  BY HandedKey, DeleteRowEffect DEF Applies, DeleteRow
<1>2. /\ UNCHANGED <<pending, writing, warmup, time, fetch>> /\ cur.item.op = "del"
  BY DEF DeleteRow
<1>3. SamePending(j) /\ SameFetch(j)
  BY <1>2 DEF SamePending, SameFetch
<1>4. CASE j # k
  <2>1. \A r \in txn.rows : r.key = j => r.row # cur.id
    BY <1>1, <1>4 DEF Victims
  <2>2. SameCur(j) /\ SameRows(j)
    BY <1>1, <1>2, <1>4, <2>1 DEF SameCur, SameRows, KeptRows
  <2>3. mem'[j] = mem[j] /\ SameItems(j)
    BY <1>1, <1>2, <1>3, <1>4
       DEF SameItems, Purges, Deletes, Others, QueuesDeletion, OthersQueued
  <2> QED  BY <1>2, <1>3, <2>2, <2>3, UntouchedKept DEF Untouched
<1>5. CASE j = k
  <2>1. /\ Exists(j) /\ mem[j].cas >= 1 /\ warmup = {}
        /\ mem[j].id \in {NoId, PendingId, cur.id}
        /\ UNCHANGED queue
    BY <1>1, <1>2, <1>5, HandedSpare
  <2>2. \A r \in txn'.rows : r.key # j
    <3>1. \A r \in txn.rows : r.key = j => r.row = cur.id
      BY <1>2, <2>1, TxnRowIds DEF RowPart, RowIsKnown
    <3> QED  BY <1>1, <3>1 DEF KeptRows
  <2>3. RowIsKnown(j)'
    BY <2>2 DEF RowIsKnown
  <2>4. mem'[j].id = NoId
    BY <1>1, <1>5 DEF NoEntry, NoId
  <2>5. IdIsValid(j)' /\ IdFits(j)'
    BY <1>1, <2>4 DEF IdIsValid, IdFits, NoId, PendingId, RowIds
  <2>6. SameItems(j) /\ (Unqueued(j)' <=> Unqueued(j)) /\ (Outstanding(j)' <=> Outstanding(j))
    <3>1. SameItems(j)
      BY <1>2, <1>3, <2>1 DEF SameItems
    <3> QED  BY <3>1, OutstandingFrame
  <2>7. CASE mem'[j] = NoEntry
    <3>1. ~Exists(j)' /\ ~Live(j)'
      BY <2>7 DEF Exists, Live
    <3> QED  BY <1>2, <2>3, <2>5, <3>1
             DEF KeyFits, DirtyIsQueued, CleanIsLast, GoneIsQueued, ValueFits, ItemPart
  <2>8. CASE ~mem[k].deleted /\ Alike(mem'[k], mem[k]) /\ mem'[k].dirty = mem[k].dirty
    <3>1. /\ mem'[j].cas = mem[j].cas /\ ~mem'[j].deleted /\ mem'[j].resident = mem[j].resident
          /\ mem'[j].exp = mem[j].exp /\ mem'[j].dirty = mem[j].dirty
          /\ Live(j) /\ (IsExpiring(j)' <=> IsExpiring(j))
      BY <1>2, <1>5, <2>1, <2>8 DEF Alike, Live, IsExpiring
    <3>2. DirtyIsQueued(j)'
      <4>1. cur'.key # j
        BY <1>1
      <4>2. UNCHANGED <<pending, queue[j], writing[j]>>
        BY <1>2, <2>1
      <4>3. mem'[j].cas = mem[j].cas /\ (mem'[j].dirty => mem[j].dirty) /\ Live(j)
            /\ (Unqueued(j)' <=> Unqueued(j))
        BY <2>6, <3>1
      <4> QED  BY <4>1, <4>2, <4>3 DEF ItemPart, DirtyIsQueued
    <3>3. CleanIsLast(j)'
      <4>1. ~mem[j].dirty => IsExpiring(j)
        BY <1>2, <1>5, <3>1 DEF ItemPart, CleanIsLast
      <4> QED  BY <2>4, <3>1, <4>1 DEF CleanIsLast
    <3>4. GoneIsQueued(j)'
      BY <3>1 DEF GoneIsQueued
    <3>5. ValueFits(j)'
      BY <1>2, <3>1 DEF ItemPart, ValueFits
    <3> QED  BY <2>3, <2>5, <3>2, <3>3, <3>4, <3>5 DEF KeyFits
  <2> QED  BY <1>1, <1>5, <2>7, <2>8
<1> QED  BY <1>4, <1>5

LEMMA RedirtyKeys ==
    ASSUME EntriesFit, [Next]_vars, NEW j \in Keys \ harmed', Redirty
    PROVE  KeyFits(j)'
<1> DEFINE k == cur.key
<1> USE SpareKey
<1>1. /\ cur' = NoCur /\ k \in Keys /\ Others(k) /\ writing'[k] = cur.item /\ OthersTaken(k)
      /\ Alike(mem'[k], mem[k]) /\ mem'[k].dirty
      /\ mem'[k].id = (IF mem[k].id = PendingId THEN NoId ELSE mem[k].id)
      /\ j = k /\ cur.item.op = "del" => mem[k].id = cur.id
      /\ j = k /\ cur.item.op = "set" => mem[k].resident
  BY RedirtyEffect
<1>2. /\ UNCHANGED <<pending, queue, txn, warmup, time, fetch>>
      /\ cur.item.op = "del" => cur.id \in RowIds
  BY DEF Redirty
<1>3. SamePending(j) /\ SameFetch(j) /\ SameRows(j)
  BY <1>2 DEF SamePending, SameFetch, SameRows
<1>4. CASE j # k
  <2>1. mem'[j] = mem[j] /\ SameItems(j) /\ SameCur(j)
    BY <1>1, <1>2, <1>3, <1>4 DEF SameItems, SameCur, Others, OthersTaken
  <2> QED  BY <1>3, <2>1, UntouchedKept DEF Untouched
<1>5. CASE j = k
  <2>1. /\ Exists(j) /\ mem[j].cas >= 1 /\ warmup = {} /\ writing[j] = NoItem
        /\ cur.item.op \in {"set", "del"} /\ cur.item.cas >= 1
        /\ cur.item.op = "set" => mem[j].id = (IF cur.id = NoId THEN PendingId ELSE cur.id)
    BY <1>5, HandedSpare
  <2>2. /\ mem'[j].cas = mem[j].cas /\ mem'[j].deleted = mem[j].deleted
        /\ mem'[j].resident = mem[j].resident /\ mem'[j].exp = mem[j].exp
        /\ mem'[j].dirty /\ writing'[j] = cur.item
        /\ mem'[j].id = (IF mem[j].id = PendingId THEN NoId ELSE mem[j].id)
    BY <1>1, <1>5 DEF Alike
  <2>3. /\ mem'[j] # NoEntry /\ (Live(j)' <=> Live(j)) /\ Exists(j)'
        /\ IsExpiring(j)' <=> IsExpiring(j)
    <3>1. mem'[j] # NoEntry
      BY <2>1, <2>2 DEF NoEntry
    <3> QED  BY <1>2, <2>1, <2>2, <3>1 DEF Live, Exists, IsExpiring
  <2>4. (Unqueued(j)' <=> Unqueued(j)) /\ Outstanding(j)' /\ writing'[j] # NoItem
    <3>1. writing'[j] # NoItem
      BY <2>1, <2>2
    <3> QED  BY <1>3, <3>1, UnqueuedFrame DEF Outstanding
  <2>5. RowIsKnown(j)'
    BY <1>1, <1>2, <1>5, <2>1, <2>2, <2>3, TxnRowIds DEF RowPart, RowIsKnown
  <2>6. IdIsValid(j)'
    <3>1. NoId \notin RowIds
      BY DEF NoId, RowIds
    <3> QED  BY <1>1, <1>2, <2>2, <3>1 DEF RowPart, IdIsValid
  <2>7. IdFits(j)'
    BY <1>1, <2>2 DEF IdFits, NoId, PendingId
  <2>8. Live(j) /\ ~mem[j].dirty =>
          ~Outstanding(j) /\ cur.item.op = "set" /\ cur.item.cas = mem[j].cas
    <3>1. mem[j].id # NoId
      BY <1>1, <1>2, <1>5, <2>1 DEF NoId, PendingId, RowIds
    <3> QED  BY <1>5, <3>1 DEF ItemPart, CleanIsLast
  <2>9. DirtyIsQueued(j)'
    <3>0. cur'.key # j
      BY <1>1
    <3>1. CASE Live(j) /\ ~mem[j].dirty
      BY <1>2, <2>2, <2>4, <2>8, <3>0, <3>1 DEF DirtyIsQueued, Outstanding
    <3>2. CASE Live(j) /\ mem[j].dirty
      <4>1. /\ cur.item.cas # mem[j].cas
            /\ \/ /\ \E c \in Clients : /\ pending[c].key = j
                                        /\ pending[c].item.op = "set"
                                        /\ pending[c].item.cas = mem[j].cas
                  /\ queue[j].cas # mem[j].cas
               \/ ~Unqueued(j) /\ queue[j].op = "set" /\ queue[j].cas = mem[j].cas
        BY <1>5, <2>1, <3>2 DEF ItemPart, DirtyIsQueued
      <4> QED  BY <1>2, <2>2, <2>4, <3>0, <4>1 DEF DirtyIsQueued
    <3> QED  BY <2>3, <3>1, <3>2 DEF DirtyIsQueued
  <2>10. CleanIsLast(j)'
    BY <2>2 DEF CleanIsLast
  <2>11. GoneIsQueued(j)'
    <3> SUFFICES ASSUME mem[j].deleted
                 PROVE  \/ IsExpiring(j)
                        \/ ~Unqueued(j) /\ queue[j].op = "del"
                        \/ ~Unqueued(j) /\ queue[j] = NoItem /\ cur.item.op = "del"
      BY <1>2, <2>2, <2>3, <2>4 DEF GoneIsQueued
    <3> QED  BY <1>5, <2>1 DEF ItemPart, GoneIsQueued, Outstanding
  <2>12. ValueFits(j)'
    <3>1. Live(j) => mem[j].resident
      BY <1>1, <1>5, <2>1, <2>8 DEF ItemPart, ValueFits
    <3> QED  BY <1>2, <2>2, <2>3, <3>1 DEF ItemPart, ValueFits
  <2> QED  BY <2>5, <2>6, <2>7, <2>9, <2>10, <2>11, <2>12 DEF KeyFits
<1> QED  BY <1>4, <1>5

LEMMA CrashKeys ==
    ASSUME EntriesFit, [Next]_vars, NEW j \in Keys \ harmed', Crash
    PROVE  KeyFits(j)'
<1> USE SpareKey
<1>1. /\ cur' = NoCur /\ mem'[j] = NoEntry /\ \A c \in Clients : pending'[c] = NoOp
      /\ txn' = disk /\ warmup' = disk.rows
  BY CrashEffect DEF Crash
<1>2. ~Exists(j)' /\ ~Live(j)'
  BY <1>1 DEF Exists, Live
<1>3. RowIsKnown(j)'
  BY <1>1 DEF RowIsKnown
<1>4. IdIsValid(j)' /\ IdFits(j)'
  BY <1>1 DEF IdIsValid, IdFits, NoEntry, PendingId, RowIds
<1>5. NoOp.key # j
  BY PersistenceAssumption DEF NoOp
<1>6. DirtyIsQueued(j)' /\ CleanIsLast(j)' /\ GoneIsQueued(j)' /\ ValueFits(j)'
  BY <1>1, <1>2, <1>5 DEF DirtyIsQueued, CleanIsLast, GoneIsQueued, ValueFits
<1> QED  BY <1>3, <1>4, <1>6 DEF KeyFits

\* A row is loaded for a key that has no entry and no items.
LEMMA LoadKeys ==
    ASSUME EntriesFit, [Next]_vars, NEW j \in Keys \ harmed', Load
    PROVE  KeyFits(j)'
<1> USE SpareKey
<1>1. PICK s \in warmup :
        /\ s.key \in Keys /\ s \in Rows /\ warmup' = warmup \ {s} /\ Others(s.key)
        /\ \/ /\ mem'[s.key] = LoadedEntry(s) /\ UNCHANGED <<queue, mutations, queued>>
           \/ /\ mem'[s.key].cas = mutations + 1 /\ mem'[s.key].dirty
              /\ mem'[s.key].deleted /\ mem'[s.key].id = LoadedEntry(s).id
              /\ mem'[s.key].exp = LoadedEntry(s).exp
              /\ mutations' = mutations + 1
              /\ \/ UNCHANGED <<queue, queued>> /\ LoadedEntry(s).id = NoId
                 \/ QueuesDeletion(s.key)
  BY LoadEffect
<1> DEFINE k == s.key
<1>2. UNCHANGED <<pending, writing, cur, txn, time, fetch, harmed>>
  BY DEF Load, flushVars
<1>3. SameCur(j) /\ SameFetch(j) /\ SamePending(j)
  BY <1>2 DEF SameCur, SameFetch, SamePending
<1>4. CASE j # k
  <2>1. SameRows(j)
    BY <1>1, <1>2, <1>4 DEF SameRows
  <2>2. mem'[j] = mem[j] /\ SameItems(j)
    BY <1>1, <1>2, <1>3, <1>4 DEF SameItems, Others, QueuesDeletion, OthersQueued
  <2> QED  BY <1>3, <2>1, <2>2, UntouchedKept DEF Untouched
<1>5. CASE j = k
  <2>1. /\ ~flush.on /\ fetch = NoFetch /\ \A c \in Clients : pending[c] = NoOp
        /\ warmup \subseteq txn.rows /\ warmup \subseteq disk.rows
        /\ ~Exists(j) /\ queue[j] = NoItem
    BY <1>1, <1>5 DEF EntriesFit, WarmupFits
  <2>2. cur = NoCur /\ writing[j] = NoItem
    BY <2>1 DEF BatchFits, TasksFit
  <2>3. ~Unqueued(j)
    BY <2>1, PersistenceAssumption DEF Unqueued, NoOp
  <2>4. /\ LoadedEntry(s).id = s.row /\ LoadedEntry(s).cas = s.data
        /\ ~LoadedEntry(s).dirty /\ ~LoadedEntry(s).deleted /\ LoadedEntry(s).resident
    BY <1>5, <2>1 DEF LoadedEntry, Live
  <2>5. s.row \notin {NoId, PendingId} /\ s.row \in RowIds /\ s \in txn.rows
    BY <1>1, <2>1, TxnRowIds
  <2>6. mem'[j].id = s.row /\ mem'[j].cas >= 1 /\ mem'[j] # NoEntry
    <3>1. s.data >= 1 /\ mutations \in Nat
      BY <1>1 DEF Rows, Numbers, TypeOK
    <3>2. mem'[j].cas >= 1 /\ mem'[j].id = s.row
      BY <1>1, <1>5, <2>4, <3>1
    <3> QED  BY <3>2 DEF NoEntry
  <2>7. RowIsKnown(j)'
    <3>1. \A r \in txn.rows : r.key = j => r = s
      <4>1. \A r \in txn.rows : r.key = j => r \in warmup
        BY <2>1, <2>2 DEF RowPart, RowIsKnown
      <4>2. \A r \in warmup : r.key = j => r = s
        BY <1>5, <2>1 DEF EntriesFit, RowsFit
      <4> QED  BY <4>1, <4>2
    <3> QED  BY <1>2, <2>6, <3>1 DEF RowIsKnown, Exists
  <2>8. IdIsValid(j)' /\ IdFits(j)'
    BY <1>2, <1>5, <2>2, <2>5, <2>6 DEF IdIsValid, IdFits
  <2>9. CASE mem'[k] = LoadedEntry(s) /\ UNCHANGED queue
    <3>1. ~mem'[j].dirty /\ ~mem'[j].deleted /\ mem'[j].resident /\ mem'[j].cas = s.data
      BY <1>5, <2>4, <2>9
    <3>2. ~Outstanding(j)'
      BY <1>2, <1>3, <2>1, <2>2, <2>3, <2>9, UnqueuedFrame DEF Outstanding
    <3>3. Row(s.row, j, s.data) \in txn.rows
      BY <1>1, <1>5, <2>5, RowTyped
    <3>4. DirtyIsQueued(j)' /\ GoneIsQueued(j)'
      BY <3>1 DEF DirtyIsQueued, GoneIsQueued
    <3>5. CleanIsLast(j)'
      BY <1>2, <2>2, <2>5, <2>6, <3>1, <3>2, <3>3 DEF CleanIsLast, Row
    <3>6. ValueFits(j)'
      BY <1>2, <2>1, <3>1 DEF ItemPart, ValueFits, NoFetch
    <3> QED  BY <2>7, <2>8, <3>4, <3>5, <3>6 DEF KeyFits
  <2>10. CASE mem'[k].dirty /\ mem'[k].deleted /\ QueuesDeletion(k)
    <3>1. ~Live(j)'
      BY <1>5, <2>10 DEF Live
    <3>2. queue'[j].op = "del" /\ Outstanding(j)' /\ ~Unqueued(j)'
      <4>1. queue'[j].op = "del" /\ queue'[j] # NoItem
        BY <1>5, <2>10 DEF QueuesDeletion
      <4> QED  BY <1>3, <2>3, <4>1, UnqueuedFrame DEF Outstanding
    <3>3. DirtyIsQueued(j)' /\ CleanIsLast(j)' /\ GoneIsQueued(j)'
      BY <3>1, <3>2 DEF DirtyIsQueued, CleanIsLast, GoneIsQueued
    <3>4. ValueFits(j)'
      BY <1>2, <3>1 DEF ItemPart, ValueFits
    <3> QED  BY <2>7, <2>8, <3>3, <3>4 DEF KeyFits
  <2> QED  BY <1>1, <2>4, <2>5, <2>9, <2>10
<1> QED  BY <1>4, <1>5

\* Whatever the step, a key that nothing has hit keeps what holds of it.
LEMMA KeysKept ==
    ASSUME EntriesFit, [Next]_vars, NEW j \in Keys \ harmed'
    PROVE  KeyFits(j)'
<1>1. CASE \/ Expire \/ CloseCheckpoint \/ Commit \/ CompleteFlush \/ Snapshot
           \/ UNCHANGED vars \/ \E k \in Keys : BgFetch(k)
  BY <1>1, PassiveKeys
<1>2. CASE FetchRead \/ FetchDone \/ BeginFlush
  BY <1>2, FetchReadKeys, FetchDoneKeys, BeginFlushKeys
<1>3. CASE Insert \/ Update \/ DeleteRow \/ Redirty
  BY <1>3, InsertKeys, UpdateKeys, DeleteRowKeys, RedirtyKeys
<1>4. CASE Crash \/ Load
  BY <1>4, CrashKeys, LoadKeys
<1>5. ASSUME NEW k \in Keys,
             Evict(k) \/ FlushMissing(k) \/ FlushExpired(k) \/ FlushSet(k) \/ FlushDel(k)
      PROVE  KeyFits(j)'
  BY <1>5, EvictKeys, FlushMissingKeys, FlushExpiredKeys, FlushSetKeys, FlushDelKeys
<1>6. ASSUME NEW c \in Clients, QueueDirty(c) PROVE KeyFits(j)'
  BY <1>6, QueueDirtyKeys
<1>7. ASSUME NEW c \in Clients, NEW k \in Keys, Set(c, k) PROVE KeyFits(j)'
  BY <1>7, SetKeys
<1>8. ASSUME NEW c \in Clients, NEW k \in Keys, NEW access \in BOOLEAN, Delete(c, k, access)
      PROVE  KeyFits(j)'
  BY <1>8, DeleteKeys
<1> QED  BY <1>1, <1>2, <1>3, <1>4, <1>5, <1>6, <1>7, <1>8 DEF Next

\* A value in memory stays the one last written, if the fetches wait for the flusher.
LEMMA ValuesKept ==
    ASSUME EntriesFit, ~SeparateReader, [Next]_vars
    PROVE  ResidentIsLatest'
<1> SUFFICES ASSUME NEW j \in Keys \ harmed', Live(j)', mem'[j].resident
             PROVE  mem'[j].data = mem'[j].cas
  BY DEF ResidentIsLatest
<1> USE SpareKey
<1>1. Live(j) /\ mem[j].resident => mem[j].data = mem[j].cas
  BY DEF EntriesFit, ResidentIsLatest
<1> DEFINE Good == mem'[j].data = mem'[j].cas
<1>2. ASSUME mem'[j] = mem[j] PROVE Good
  BY <1>1, <1>2 DEF Live, Exists
<1>3. ASSUME NEW k \in Keys, Deletes(k) PROVE Good
  BY <1>2, <1>3 DEF Deletes, Others, Live
<1>4. ASSUME NEW k \in Keys, Others(k), Exists(k), Alike(mem'[k], mem[k]), mem'[k].data = mem[k].data
      PROVE  Good
  <2>1. CASE j # k
    BY <1>2, <1>4, <2>1 DEF Others
  <2>2. CASE j = k
    BY <1>1, <1>4, <2>2 DEF Alike, Live
  <2> QED  BY <2>1, <2>2
<1>5. ASSUME NEW k \in Keys, FlushExpired(k) \/ FlushSet(k) \/ FlushDel(k) PROVE Good
  <2>1. Others(k) /\ Alike(mem'[k], mem[k]) /\ mem'[k].data = mem[k].data
    BY <1>5, FlushExpiredEffect, FlushSetEffect, FlushDelEffect
  <2>2. Exists(k)
    BY <1>5 DEF FlushExpired, FlushSet, FlushDel
  <2> QED  BY <1>4, <2>1, <2>2
<1>6. ASSUME NEW k \in Keys, Evict(k) PROVE Good
  BY <1>2, <1>6, EvictEffect DEF Others
<1>7. ASSUME NEW k \in Keys, FlushMissing(k) PROVE Good
  BY <1>2, <1>3, <1>7, FlushMissingEffect DEF Purges
<1>8. ASSUME NEW c \in Clients, NEW k \in Keys, Set(c, k) PROVE Good
  <2>1. mem'[k].data = mem'[k].cas /\ Others(k)
    BY <1>8, SetEffect
  <2> QED  BY <1>2, <2>1 DEF Others
<1>9. ASSUME NEW c \in Clients, NEW k \in Keys, NEW access \in BOOLEAN, Delete(c, k, access)
      PROVE  Good
  BY <1>3, <1>9, DeleteEffect
<1>10. ASSUME Insert \/ Redirty PROVE Good
  <2>1. cur.key \in Keys /\ Exists(cur.key)
    BY <1>10, HandedKey DEF Insert, Redirty
  <2>2. Others(cur.key) /\ Alike(mem'[cur.key], mem[cur.key])
        /\ mem'[cur.key].data = mem[cur.key].data
    BY <1>10, InsertEffect, RedirtyEffect
  <2> QED  BY <1>4, <2>1, <2>2
<1>11. ASSUME DeleteRow PROVE Good
  <2>1. cur.key \in Keys /\ Exists(cur.key)
    BY <1>11, HandedKey DEF DeleteRow
  <2>2. \/ Deletes(cur.key)
        \/ Others(cur.key) /\ mem'[cur.key] = NoEntry
        \/ /\ Others(cur.key) /\ Alike(mem'[cur.key], mem[cur.key])
           /\ mem'[cur.key].data = mem[cur.key].data
    BY <1>11, DeleteRowEffect DEF Purges
  <2>3. ASSUME Others(cur.key), mem'[cur.key] = NoEntry PROVE Good
    <3>1. j # cur.key
      BY <2>3 DEF Live, Exists
    <3> QED  BY <1>2, <2>3, <3>1 DEF Others
  <2> QED  BY <1>3, <1>4, <2>1, <2>2, <2>3
<1>12. ASSUME Crash PROVE Good
  BY <1>12, CrashEffect DEF Live, Exists
<1>13. ASSUME FetchDone PROVE Good
  <2> DEFINE k == fetch.key
  <2>1. /\ k \in Keys
        /\ \/ UNCHANGED mem
           \/ /\ Live(k) /\ ~mem[k].resident /\ mem'[k].data = fetch.data
              /\ mem'[k].cas = mem[k].cas /\ Others(k)
           \/ Deletes(k)
    BY <1>13, FetchDoneEffect
  <2>2. ASSUME j = k, Live(k), ~mem[k].resident PROVE fetch.data = mem[k].cas
    BY <1>13, <2>2 DEF ItemPart, ValueFits, FetchDone
  <2>3. ASSUME Others(k), j # k PROVE Good
    BY <1>2, <2>3 DEF Others
  <2> QED  BY <1>2, <1>3, <2>1, <2>2, <2>3
<1>14. ASSUME Load PROVE Good
  <2>1. PICK r \in warmup :
          /\ r.key \in Keys /\ Others(r.key)
          /\ mem'[r.key] = LoadedEntry(r) \/ mem'[r.key].deleted
    BY <1>14, LoadEffect
  <2>2. CASE j # r.key
    BY <1>2, <2>1, <2>2 DEF Others
  <2>3. CASE j = r.key
    <3>1. mem'[j] = LoadedEntry(r)
      BY <2>1, <2>3 DEF Live
    <3>2. mem'[j] = mem[j] \/ mem'[j].data = mem'[j].cas
      BY <2>3, <3>1 DEF LoadedEntry
    <3> QED  BY <1>2, <3>2
  <2> QED  BY <2>2, <2>3
<1>15. ASSUME UNCHANGED mem PROVE Good
  BY <1>2, <1>15
<1> HIDE DEF Good
<1>16. Good
  BY <1>5, <1>6, <1>7, <1>8, <1>9, <1>10, <1>11, <1>12, <1>13, <1>14, <1>15, MemChanges
<1> QED  BY <1>16 DEF Good

-----------------------------------------------------------------------------
(* The theorems *)

\* The server starts with an empty hash table and an empty storage.
LEMMA InitFits ==
    ASSUME Init
    PROVE  EntriesFit
<1> USE PersistenceAssumption DEF Init
<1>1. /\ \A k \in Keys : mem[k] = NoEntry /\ queue[k] = NoItem /\ writing[k] = NoItem
      /\ \A c \in Clients : pending[c] = NoOp
      /\ cur.key \notin Keys /\ fetch.stage = "none" /\ txn.rows = {} /\ disk.rows = {}
      /\ \A k \in Keys : txn.applied[k] = 0 /\ disk.applied[k] = 0
      /\ txn.id = 0 /\ disk.id = 0 /\ flush.id = 0 /\ ~flush.on
  BY DEF NoCur, NoFetch, NoFlush, Empty
<1>2. TypeOK
  <2>1. /\ mem \in [Keys -> Entries] /\ pending \in [Clients -> Ops] /\ queue \in [Keys -> Items]
        /\ writing \in [Keys -> Items]
    BY NothingTypes
  <2>2. /\ openId \in 1 .. (MaxCheckpoints + 1) /\ persistedId \in 0 .. MaxCheckpoints
        /\ mutations \in 0 .. MaxMutations /\ failures \in 0 .. MaxFailures
        /\ crashes \in 0 .. MaxCrashes /\ queued \in Nat /\ time \in 0 .. 2
    OBVIOUS
  <2>3. due \in [1 .. MaxCheckpoints -> [Keys -> Nat]]
    OBVIOUS
  <2>4. IsFiniteSet(txn.rows) /\ IsFiniteSet(disk.rows)
    BY <1>1, NothingTypes
  <2> QED  BY <2>1, <2>2, <2>3, <2>4, NothingTypes DEF TypeOK
<1>3. OneRowPerKey /\ RowsFit /\ WarmupFits
  BY <1>1 DEF OneRowPerKey, RowsFit, WarmupFits
<1>4. \A k \in Keys : ~Exists(k) /\ ~Live(k)
  BY <1>1 DEF Exists, Live
<1>5. ResidentIsLatest
  BY <1>4 DEF ResidentIsLatest
<1>6. BatchFits
  BY <1>1, <1>4 DEF BatchFits, OpsFit, ItemsFit, HandedFits, TasksFit, IsQueued
<1>7. \A k \in Keys : LastTaken(k) = 0 /\ LastQueued(k) = 0 /\ cur.key # k
  BY <1>1 DEF LastTaken, LastQueued
<1>8. OrderFits
  BY <1>1, <1>7 DEF OrderFits
<1>9. CheckpointsFit
  BY <1>1, <1>7 DEF CheckpointsFit
<1>10. ASSUME NEW k \in Keys PROVE KeyFits(k)
  <2>1. mem[k].id = NoId /\ cur.key # k /\ \A c \in Clients : pending[c].key # k
    BY <1>1 DEF NoEntry, NoId, NoOp
  <2>2. RowIsKnown(k) /\ IdIsValid(k) /\ IdFits(k)
    BY <1>1, <2>1 DEF RowIsKnown, IdIsValid, IdFits, NoId, PendingId, RowIds
  <2>3. DirtyIsQueued(k) /\ CleanIsLast(k) /\ GoneIsQueued(k) /\ ValueFits(k)
    BY <1>4, <2>1 DEF DirtyIsQueued, CleanIsLast, GoneIsQueued, ValueFits
  <2> QED  BY <2>2, <2>3 DEF KeyFits
<1> QED  BY <1>2, <1>3, <1>5, <1>6, <1>8, <1>9, <1>10 DEF EntriesFit

LEMMA OneRowHolds ==
    TypeOK /\ BatchFits /\ RowsFit /\ WarmupFits /\ (\A k \in Keys \ harmed : KeyFits(k))
      => OneRowPerKey
BY OneRowFollows

LEMMA StepFits ==
    ASSUME EntriesFit, [Next]_vars
    PROVE  EntriesFit'
<1>1. /\ TypeOK /\ BatchFits /\ RowsFit /\ WarmupFits /\ OneRowPerKey /\ OrderFits /\ CheckpointsFit
  BY DEF EntriesFit
<1>2. TypeOK' /\ BatchFits' /\ RowsFit' /\ WarmupFits' /\ OrderFits' /\ CheckpointsFit'
  BY <1>1, TypesKept, BatchKept, RowsKept, WarmupKept, OrderKept, CheckpointsKept
<1>3. ~SeparateReader => ResidentIsLatest'
  BY ValuesKept
<1>4. (\A k \in Keys \ harmed : KeyFits(k))'
  BY KeysKept
<1>5. OneRowPerKey'
  BY <1>2, <1>4, OneRowHolds, PTL
<1> QED  BY <1>2, <1>3, <1>4, <1>5 DEF EntriesFit

\* At every moment of a flush, a background fetch, an expiry, a failed statement, a crash or a
\* warmup the entries of ep.cc's hash table, the items of its flusher, the rows of the storage
\* and the checkpoints fit together, for any number of keys, clients, mutations and crashes.
THEOREM EntriesInvariant == Spec => []EntriesFit
<1>1. Init => EntriesFit
  BY InitFits
<1>2. EntriesFit /\ [Next]_vars => EntriesFit'
  BY StepFits
<1> QED  BY <1>1, <1>2, PTL DEF Spec

\* Every item of a checkpoint that the committed vbucket state names is committed: beginFlush,
\* completeFlush and snapshotVBuckets never let the id run ahead of the items, even when
\* statements fail, the flusher is preempted or the process dies.
THEOREM CheckpointStoredAlways == Spec => []CheckpointIsStored
<1>1. EntriesFit => CheckpointIsStored
  <2> SUFFICES ASSUME EntriesFit, NEW c \in 1 .. disk.id, NEW k \in Keys
               PROVE  disk.applied[k] >= due[c][k]
    BY DEF CheckpointIsStored
  <2>1. disk.id \in 0 .. MaxCheckpoints
    BY DEF EntriesFit, TypeOK, Storage
  <2>2. c \in 1 .. MaxCheckpoints /\ c <= disk.id
    BY <2>1, PersistenceAssumption
  <2> QED  BY <2>2 DEF EntriesFit, CheckpointsFit
<1> QED  BY <1>1, EntriesInvariant, PTL

\* A value that the item pager may drop is in the row that its entry names, or with the
\* storage, although flushOneDelOrSet marks it clean before it is written.
THEOREM CleanStoredAlways == Spec => []CleanIsStored
<1>1. EntriesFit => CleanIsStored
  <2> SUFFICES ASSUME EntriesFit, NEW k \in Keys \ harmed,
                      Live(k), ~mem[k].dirty, ~IsExpiring(k)
               PROVE  Row(mem[k].id, k, mem[k].cas) \in txn.rows \/ (cur # NoCur /\ cur.key = k)
    BY DEF CleanIsStored
  <2>1. NoCur.key # k
    BY PersistenceAssumption DEF NoCur
  <2>2. CleanIsLast(k)
    BY DEF EntriesFit, KeyFits
  <2> QED  BY <2>1, <2>2 DEF CleanIsLast
<1> QED  BY <1>1, EntriesInvariant, PTL

\* When the flusher has nothing left to do, each key that no fault has hit has in the storage
\* the one row that holds its value, or none if it has no value.
THEOREM StoredAlways == Spec => []StoredWhenQuiet
<1>1. EntriesFit => StoredWhenQuiet
  <2> SUFFICES ASSUME EntriesFit, Quiet, NEW k \in Keys \ harmed
               PROVE  SameContents(k)
    BY DEF StoredWhenQuiet
  <2>1. KeyFits(k) /\ TypeOK /\ OneRowPerKey
    BY DEF EntriesFit
  <2>2. /\ cur.key # k /\ warmup = {} /\ queue[k] = NoItem /\ writing[k] = NoItem
        /\ \A c \in Clients : pending[c].key # k
    BY PersistenceAssumption DEF Quiet, NoCur, NoOp
  <2>3. ~Outstanding(k)
    BY <2>2 DEF Outstanding, Unqueued
  <2>4. \A r \in txn.rows : r.key = k => Exists(k) /\ mem[k].id = r.row /\ r.row # NoId
    BY <2>1, <2>2, TxnRowIds DEF KeyFits, RowIsKnown
  <2>5. CASE ~Live(k)
    <3>1. Exists(k) => RowsOf(k) = {}
      BY <2>1, <2>2, <2>3, <2>5 DEF KeyFits, GoneIsQueued, Live
    <3>2. ~Exists(k) => RowsOf(k) = {}
      BY <2>4 DEF RowsOf
    <3> QED  BY <2>5, <3>1, <3>2 DEF SameContents
  <2>6. CASE Live(k)
    <3>1. ~mem[k].dirty
      <4>1. NoItem.op # "set"
        BY DEF NoItem
      <4> QED  BY <2>1, <2>2, <2>6, <4>1 DEF KeyFits, DirtyIsQueued
    <3>2. CASE mem[k].id = NoId /\ IsExpiring(k)
      BY <2>4, <3>2 DEF RowsOf, SameContents
    <3>3. CASE Row(mem[k].id, k, mem[k].cas) \in txn.rows
      <4> DEFINE own == Row(mem[k].id, k, mem[k].cas)
      <4>1. own \in txn.rows /\ own.key = k
        BY <3>3 DEF Row
      <4> HIDE DEF own
      <4>2. \A r \in txn.rows : r.key = k => r = own
        BY <2>1, <4>1 DEF OneRowPerKey
      <4>3. RowsOf(k) = {own}
        BY <4>1, <4>2 DEF RowsOf
      <4> QED  BY <2>6, <4>3 DEF SameContents, own
    <3> QED  BY <2>1, <2>2, <2>6, <3>1, <3>2, <3>3 DEF KeyFits, CleanIsLast
  <2> QED  BY <2>5, <2>6
<1> QED  BY <1>1, EntriesInvariant, PTL

\* On one dispatcher a background fetch never brings back an older value: completeBGFetch can
\* put a stale value into the hash table only when hasSeparateRODispatcher holds.
THEOREM LatestOnOneDispatcher ==
    ASSUME ~SeparateReader
    PROVE  Spec => []ResidentIsLatest
<1>1. EntriesFit => ResidentIsLatest
  BY DEF EntriesFit
<1> QED  BY <1>1, EntriesInvariant, PTL
=============================================================================
