--------------------------- MODULE TapStreamProofs ---------------------------
(***************************************************************************)
(* The books of a TAP stream for every stream of items, every window and   *)
(* every place where the sequence numbers wrap: TapInv is inductive, no    *)
(* mutation is dropped, and the vbucket has one owner.  Until the numbers  *)
(* wrap, no checkpoint's end arrives before its items (EndInv).            *)
(***************************************************************************)
EXTENDS TapStream, FiniteSetTheorems, SequenceTheorems, TLAPS

-----------------------------------------------------------------------------
(* Natural numbers and enumerations *)

LEMMA NatLeast ==
    ASSUME NEW T \in SUBSET Nat, T # {}
    PROVE  \E m \in T : \A n \in T : m <= n
<1> DEFINE R == OpToRel(<, Nat)
<1>1. \E x \in T : \A y \in T : ~ (<<y, x>> \in R)
  <2>1. IsWellFoundedOn(R, Nat)
    BY NatLessThanWellFounded
  <2> HIDE DEF R
  <2> QED  BY <2>1, WFMin
<1>2. \A x, y \in Nat : y < x => <<y, x>> \in R
  BY DEF OpToRel
<1>3. PICK x \in T : \A y \in T : ~ (<<y, x>> \in R)
  BY <1>1
<1>4. \A y \in T : ~ (y < x)
  <2> HIDE DEF R
  <2> QED  BY <1>2, <1>3
<1>5. \A y \in T : x <= y
  BY <1>4
<1> QED  BY <1>5

\* Induction, for a property that is given by a set.
LEMMA SetInduction ==
    ASSUME NEW X, 0 \in X, \A n \in Nat : n \in X => n + 1 \in X
    PROVE  \A n \in Nat : n \in X
<1> SUFFICES ASSUME \E n \in Nat : n \notin X PROVE FALSE
  OBVIOUS
<1> DEFINE T == {n \in Nat : n \notin X}
<1>1. PICK m \in T : \A n \in T : m <= n
  BY NatLeast
<1>2. m # 0 /\ m - 1 \in Nat /\ m - 1 \in X
  BY <1>1
<1> QED  BY <1>1, <1>2

Increasing(f, n) == \A a, b \in 1 .. n : a < b => f[a] < f[b]

Enumerable(S) == \E f \in [1 .. Cardinality(S) -> S] : Increasing(f, Cardinality(S))

\* A finite set of numbers has an enumeration in increasing order.
LEMMA EnumerationExists ==
    ASSUME NEW m \in Nat, NEW at \in SUBSET (1 .. m)
    PROVE  /\ Cardinality(at) \in Nat /\ IsFiniteSet(at)
           /\ Enumerable(at)
<1> DEFINE X == {n \in Nat : \A S \in SUBSET (1 .. n) : Enumerable(S)}
<1>1. \A n \in Nat : \A S \in SUBSET (1 .. n) : IsFiniteSet(S) /\ Cardinality(S) \in Nat
  <2> SUFFICES ASSUME NEW n \in Nat, NEW S \in SUBSET (1 .. n)
               PROVE  IsFiniteSet(S) /\ Cardinality(S) \in Nat
    OBVIOUS
  <2>1. IsFiniteSet(1 .. n)
    BY FS_Interval
  <2>2. IsFiniteSet(S)
    BY <2>1, FS_Subset
  <2> QED  BY <2>2, FS_CardinalityType
<1>2. 0 \in X
  <2>1. Cardinality({}) = 0 /\ \A S \in SUBSET (1 .. 0) : S = {}
    BY FS_EmptySet
  <2>2. \E f \in [1 .. 0 -> {}] : Increasing(f, 0)
    <3> DEFINE g == [a \in 1 .. 0 |-> a]
    <3>1. g \in [1 .. 0 -> {}] /\ Increasing(g, 0)
      BY DEF Increasing
    <3> QED  BY <3>1
  <2> QED  BY <2>1, <2>2 DEF Enumerable
<1>3. \A n \in Nat : n \in X => n + 1 \in X
  <2> SUFFICES ASSUME NEW n \in Nat, n \in X, NEW S \in SUBSET (1 .. n + 1)
               PROVE  Enumerable(S)
    OBVIOUS
  <2> DEFINE T == S \ {n + 1}
  <2>1. T \in SUBSET (1 .. n)
    OBVIOUS
  <2>2. CASE n + 1 \notin S
    BY <2>1, <2>2, T = S
  <2>3. CASE n + 1 \in S
    <3>1. IsFiniteSet(T) /\ Cardinality(T) \in Nat
      BY <1>1, <2>1
    <3>2. S = T \cup {n + 1} /\ n + 1 \notin T
      BY <2>3
    <3>3. Cardinality(S) = Cardinality(T) + 1
      BY <3>1, <3>2, FS_AddElement
    <3>4. PICK f \in [1 .. Cardinality(T) -> T] : Increasing(f, Cardinality(T))
      BY <2>1 DEF Enumerable
    <3> DEFINE c == Cardinality(T)
               g == [a \in 1 .. c + 1 |-> IF a = c + 1 THEN n + 1 ELSE f[a]]
    <3>0. c \in Nat
      BY <3>1
    <3> HIDE DEF c, T
    <3>5. \A a \in 1 .. c : f[a] \in T /\ f[a] \in 1 .. n /\ g[a] = f[a]
      <4>1. f \in [1 .. c -> T]
        BY <3>4 DEF c
      <4>2. \A a \in 1 .. c : f[a] \in T
        BY <4>1
      <4>3. \A a \in 1 .. c : a \in 1 .. c + 1 /\ a # c + 1
        BY <3>0
      <4> QED  BY <2>1, <4>2, <4>3
    <3>6. g[c + 1] = n + 1 /\ g \in [1 .. c + 1 -> S]
      <4>1. \A a \in 1 .. c + 1 : a = c + 1 \/ a \in 1 .. c
        BY <3>0
      <4>2. \A a \in 1 .. c + 1 : (IF a = c + 1 THEN n + 1 ELSE f[a]) \in S
        BY <3>2, <3>5, <4>1
      <4> QED  BY <3>0, <4>2
    <3>7. Increasing(g, c + 1)
      <4> SUFFICES ASSUME NEW a \in 1 .. c + 1, NEW b \in 1 .. c + 1, a < b
                   PROVE  g[a] < g[b]
        BY DEF Increasing
      <4> HIDE DEF g
      <4>1. c \in Nat
        BY <3>0
      <4>2. a \in 1 .. c
        BY <4>1
      <4>3. CASE b = c + 1
        BY <3>5, <3>6, <4>2, <4>3
      <4>4. CASE b # c + 1
        <5>1. b \in 1 .. c
          BY <4>1, <4>4
        <5>2. f[a] < f[b]
          BY <3>4, <4>2, <5>1 DEF Increasing, c
        <5> QED  BY <3>5, <4>2, <5>1, <5>2
      <4> QED  BY <4>3, <4>4
    <3> HIDE DEF g
    <3> QED  BY <3>3, <3>6, <3>7 DEF c, Enumerable
  <2> QED  BY <2>2, <2>3
<1> HIDE DEF X
<1>4. \A n \in Nat : n \in X
  BY <1>2, <1>3, SetInduction
<1> QED  BY <1>1, <1>4 DEF X

\* What InOrder gives: every element once, in increasing order.
LEMMA InOrderFacts ==
    ASSUME NEW m \in Nat, NEW at \in SUBSET (1 .. m)
    PROVE  /\ Cardinality(at) \in Nat /\ IsFiniteSet(at)
           /\ InOrder(at) \in [1 .. Cardinality(at) -> at]
           /\ \A i \in at : \E n \in 1 .. Cardinality(at) : InOrder(at)[n] = i
<1> DEFINE c == Cardinality(at)
           f == InOrder(at)
<1>1. c \in Nat /\ IsFiniteSet(at) /\ \E g \in [1 .. c -> at] : Increasing(g, c)
  BY EnumerationExists DEF Enumerable
<1>2. f \in [1 .. c -> at] /\ Increasing(f, c)
  <2>1. f = CHOOSE g \in [1 .. c -> at] : Increasing(g, c)
    BY DEF InOrder, Increasing
  <2> QED  BY <1>1, <2>1
<1>3. f \in Injection(1 .. c, at)
  <2>1. \A a, b \in 1 .. c : f[a] \in Nat /\ (f[a] = f[b] => a = b)
    <3> SUFFICES ASSUME NEW a \in 1 .. c, NEW b \in 1 .. c PROVE f[a] \in Nat /\ (f[a] = f[b] => a = b)
      OBVIOUS
    <3> HIDE DEF f, c
    <3>1. f[a] \in 1 .. m /\ f[b] \in 1 .. m
      BY <1>2
    <3>2. a < b => f[a] < f[b]
      BY <1>2 DEF Increasing
    <3>3. b < a => f[b] < f[a]
      BY <1>2 DEF Increasing
    <3> QED  BY <1>1, <3>1, <3>2, <3>3
  <2> HIDE DEF f, c
  <2> QED  BY <1>2, <2>1 DEF Injection, IsInjective
<1>4. Cardinality(1 .. c) = c
  BY <1>1, FS_Interval
<1>5. f \in Surjection(1 .. c, at)
  <2> HIDE DEF f
  <2> QED  BY <1>1, <1>3, <1>4, FS_Injection
<1> QED  BY <1>1, <1>2, <1>5 DEF Surjection

-----------------------------------------------------------------------------
(* The roll-back of a log *)

LEMMA PlacesFacts ==
    ASSUME NEW S, NEW log \in Seq(S), NEW evs
    PROVE  /\ Len(log) \in Nat /\ DOMAIN log = 1 .. Len(log)
           /\ Places(log, evs) \in SUBSET (1 .. Len(log))
           /\ IsFiniteSet(Places(log, evs)) /\ Cardinality(Places(log, evs)) \in Nat
<1>1. Len(log) \in Nat /\ DOMAIN log = 1 .. Len(log)
  OBVIOUS
<1>2. Places(log, evs) \in SUBSET (1 .. Len(log))
  BY <1>1 DEF Places
<1> QED  BY <1>1, <1>2, InOrderFacts

\* The positions of the messages of a kind, all of them and no other.
LEMMA LogPositionsFacts ==
    ASSUME NEW S, NEW log \in Seq(S), NEW evs, NEW T,
           \A i \in DOMAIN log : log[i].ev \in evs => log[i].pos \in T
    PROVE  /\ LogPositions(log, evs) \in Seq(T)
           /\ Len(LogPositions(log, evs)) = Cardinality(Places(log, evs))
           /\ \A n \in DOMAIN LogPositions(log, evs) :
                \E i \in DOMAIN log : /\ log[i].ev \in evs
                                     /\ LogPositions(log, evs)[n] = log[i].pos
           /\ \A i \in DOMAIN log : log[i].ev \in evs =>
                \E n \in DOMAIN LogPositions(log, evs) : LogPositions(log, evs)[n] = log[i].pos
<1> DEFINE at == Places(log, evs)
           c  == Cardinality(at)
           f  == InOrder(at)
           P  == [n \in 1 .. c |-> log[f[n]].pos]
<1>1. c \in Nat /\ at \in SUBSET (1 .. Len(log)) /\ Len(log) \in Nat
  BY PlacesFacts
<1>2. f \in [1 .. c -> at] /\ \A i \in at : \E n \in 1 .. c : f[n] = i
  BY <1>1, InOrderFacts
<1>3. LogPositions(log, evs) = P
  BY DEF LogPositions
<1>4. \A i : i \in at <=> i \in DOMAIN log /\ log[i].ev \in evs
  BY DEF Places
<1> HIDE DEF at, c, f
<1>5. \A n \in 1 .. c : f[n] \in at /\ P[n] = log[f[n]].pos
  BY <1>2
<1>6. P \in Seq(T) /\ Len(P) = c /\ DOMAIN P = 1 .. c
  <2>1. \A n \in 1 .. c : log[f[n]].pos \in T
    BY <1>4, <1>5
  <2> QED  BY <1>1, <2>1, IsASeq
<1> HIDE DEF P
<1>7. \A n \in 1 .. c : \E i \in DOMAIN log : log[i].ev \in evs /\ P[n] = log[i].pos
  BY <1>4, <1>5
<1>8. \A i \in DOMAIN log : log[i].ev \in evs => \E n \in 1 .. c : P[n] = log[i].pos
  BY <1>2, <1>4, <1>5
<1> QED  BY <1>3, <1>6, <1>7, <1>8 DEF c, at

\* The same of the events.
LEMMA LogEventsFacts ==
    ASSUME NEW S, NEW log \in Seq(S), NEW evs
    PROVE  /\ LogEvents(log, evs) \in Seq({Event(n) : n \in evs})
           /\ Len(LogEvents(log, evs)) = Cardinality(Places(log, evs))
           /\ \A i \in DOMAIN log : log[i].ev \in evs =>
                \E n \in DOMAIN LogEvents(log, evs) : LogEvents(log, evs)[n] = Event(log[i].ev)
<1> DEFINE at == Places(log, evs)
           c  == Cardinality(at)
           f  == InOrder(at)
           P  == [n \in 1 .. c |-> Event(log[f[n]].ev)]
           T  == {Event(n) : n \in evs}
<1>1. c \in Nat /\ at \in SUBSET (1 .. Len(log)) /\ Len(log) \in Nat
  BY PlacesFacts
<1>2. f \in [1 .. c -> at] /\ \A i \in at : \E n \in 1 .. c : f[n] = i
  BY <1>1, InOrderFacts
<1>3. LogEvents(log, evs) = P
  BY DEF LogEvents
<1>4. \A i : i \in at <=> i \in DOMAIN log /\ log[i].ev \in evs
  BY DEF Places
<1> HIDE DEF at, c, f
<1>5. \A n \in 1 .. c : f[n] \in at /\ P[n] = Event(log[f[n]].ev)
  BY <1>2
<1>6. P \in Seq(T) /\ Len(P) = c /\ DOMAIN P = 1 .. c
  <2>1. \A n \in 1 .. c : Event(log[f[n]].ev) \in T
    BY <1>4, <1>5
  <2> HIDE DEF T
  <2> QED  BY <1>1, <2>1, IsASeq
<1> HIDE DEF P
<1>8. \A i \in DOMAIN log : log[i].ev \in evs => \E n \in 1 .. c : P[n] = Event(log[i].ev)
  BY <1>2, <1>4, <1>5
<1> QED  BY <1>3, <1>6, <1>8 DEF c, at

CkptEvents == {"start", "end"}

CkptCount(log) == Cardinality(Places(log, CkptEvents))

LEMMA CountAppend ==
    ASSUME NEW S, NEW log \in Seq(S), NEW e \in S
    PROVE  CkptCount(Append(log, e)) = CkptCount(log) + (IF e.ev \in CkptEvents THEN 1 ELSE 0)
<1> DEFINE n == Len(log) + 1
           A == Places(log, CkptEvents)
           B == Places(Append(log, e), CkptEvents)
<1>1. n \in Nat /\ IsFiniteSet(A) /\ A \in SUBSET (1 .. n - 1)
  BY PlacesFacts
<1>2. /\ DOMAIN Append(log, e) = 1 .. n /\ Append(log, e)[n] = e
      /\ \A i \in 1 .. n - 1 : Append(log, e)[i] = log[i]
  OBVIOUS
<1>3. CASE e.ev \in CkptEvents
  <2>1. B = A \cup {n} /\ n \notin A
    BY <1>1, <1>2, <1>3 DEF Places
  <2> QED  BY <1>1, <1>3, <2>1, FS_AddElement DEF CkptCount
<1>4. CASE e.ev \notin CkptEvents
  <2>1. B = A
    BY <1>1, <1>2, <1>4 DEF Places
  <2> QED  BY <1>1, <1>4, <2>1, FS_CardinalityType DEF CkptCount
<1> QED  BY <1>3, <1>4

\* The rest of a log after a message before which there is no checkpoint's.
LEMMA CountAfter ==
    ASSUME NEW S, NEW log \in Seq(S), NEW i \in 0 .. Len(log),
           \A j \in 1 .. i - 1 : log[j].ev \notin CkptEvents
    PROVE  CkptCount(SubSeq(log, i + 1, Len(log)))
              = CkptCount(log) - (IF i # 0 /\ log[i].ev \in CkptEvents THEN 1 ELSE 0)
<1> DEFINE n == Len(log)
           rest == SubSeq(log, i + 1, n)
           A == Places(log, CkptEvents)
           B == Places(rest, CkptEvents)
           g == [j \in B |-> j + i]
<1>1. n \in Nat /\ IsFiniteSet(A) /\ A \in SUBSET (1 .. n)
  BY PlacesFacts
<1>2. rest \in Seq(S) /\ Len(rest) = n - i /\ \A j \in 1 .. n - i : rest[j] = log[i + j]
  BY <1>1
<1>3. IsFiniteSet(B) /\ B \in SUBSET (1 .. n - i) /\ DOMAIN rest = 1 .. n - i
  BY <1>2, PlacesFacts
<1>4. IsFiniteSet(A \ {i}) /\ Cardinality(A \ {i}) = Cardinality(A) - (IF i \in A THEN 1 ELSE 0)
  BY <1>1, FS_RemoveElement, FS_CardinalityType
<1> HIDE DEF rest
<1>5. \A j \in 1 .. n - i : j \in B <=> i + j \in A
  BY <1>1, <1>2, <1>3 DEF Places
<1>6. \A k \in A \ {i} : k > i
  BY <1>1 DEF Places
<1> HIDE DEF n, A, B
<1>7. g \in Bijection(B, A \ {i})
  <2>1. \A j \in B : j \in 1 .. n - i /\ g[j] = j + i /\ j + i \in A \ {i}
    BY <1>1, <1>3, <1>5
  <2>2. \A k \in A \ {i} : k - i \in B /\ g[k - i] = k
    BY <1>1, <1>3, <1>5, <1>6
  <2>3. g \in [B -> A \ {i}]
    BY <2>1
  <2>4. \A j, k \in B : g[j] = g[k] => j = k
    BY <1>1, <2>1
  <2> HIDE DEF g
  <2> QED  BY <2>2, <2>3, <2>4 DEF Bijection, Injection, Surjection, IsInjective
<1>8. Cardinality(A \ {i}) = Cardinality(B)
  BY <1>3, <1>7, FS_Bijection DEF ExistsBijection
<1>9. i \in A <=> i # 0 /\ log[i].ev \in CkptEvents
  BY <1>1 DEF A, n, Places
<1> QED  BY <1>4, <1>8, <1>9 DEF CkptCount, A, B, n, rest

-----------------------------------------------------------------------------
(* Sequence numbers *)

Bd(n, s) == IF n >= s THEN n - s ELSE MaxSeqno - s + n

\* A message with the next number, or with the one after it, moves all others away by the
\* same distance, wherever the numbers wrap.
LEMMA SendDistance ==
    ASSUME NEW n \in 0 .. MaxSeqno, NEW s, s = n \/ s = Increment(n)
    PROVE  /\ s \in 0 .. MaxSeqno /\ Bump(s) \in 1 .. MaxSeqno /\ Bd(Bump(s), s) = 1
           /\ \E d \in {1, 2} : \A x \in 0 .. MaxSeqno :
                1 <= Bd(n, x) /\ Bd(n, x) <= AckWindow => Bd(Bump(s), x) = Bd(n, x) + d
<1>1. SeqMod \in Nat /\ AckWindow \in Nat /\ SeqMod > AckWindow + 3 /\ MaxSeqno = SeqMod - 1
  BY WindowAssumption DEF MaxSeqno
<1>2. Increment(n) = IF n = MaxSeqno THEN 0 ELSE n + 1
  <2>1. CASE n = MaxSeqno
    BY <1>1, <2>1 DEF Increment
  <2>2. CASE n # MaxSeqno
    BY <1>1, <2>2 DEF Increment
  <2> QED  BY <2>1, <2>2
<1>3. s \in 0 .. MaxSeqno /\ Bump(s) = IF s = MaxSeqno THEN 1 ELSE s + 1
  BY <1>1, <1>2 DEF Bump
<1>4. Bd(Bump(s), s) = 1
  BY <1>1, <1>3 DEF Bd
<1>5. CASE s = n \/ n = MaxSeqno
  <2>1. \A x \in 0 .. MaxSeqno :
          1 <= Bd(n, x) /\ Bd(n, x) <= AckWindow => Bd(Bump(s), x) = Bd(n, x) + 1
    BY <1>1, <1>2, <1>3, <1>5 DEF Bd
  <2> QED  BY <1>1, <1>3, <1>4, <2>1
<1>6. CASE s # n /\ n # MaxSeqno
  <2>1. \A x \in 0 .. MaxSeqno :
          1 <= Bd(n, x) /\ Bd(n, x) <= AckWindow => Bd(Bump(s), x) = Bd(n, x) + 2
    BY <1>1, <1>2, <1>3, <1>6 DEF Bd
  <2> QED  BY <1>1, <1>3, <1>4, <2>1
<1> QED  BY <1>5, <1>6

\* A number that is skipped.
LEMMA SkipDistance ==
    ASSUME NEW n \in 0 .. MaxSeqno
    PROVE  /\ Increment(n) \in 0 .. MaxSeqno
           /\ \E d \in {0, 1} : \A x \in 0 .. MaxSeqno :
                1 <= Bd(n, x) /\ Bd(n, x) <= AckWindow => Bd(Increment(n), x) = Bd(n, x) + d
<1>1. SeqMod \in Nat /\ AckWindow \in Nat /\ SeqMod > AckWindow + 3 /\ MaxSeqno = SeqMod - 1
  BY WindowAssumption DEF MaxSeqno
<1>2. CASE n = MaxSeqno
  <2>1. Increment(n) = 0
    BY <1>1, <1>2 DEF Increment
  <2>2. \A x \in 0 .. MaxSeqno :
          1 <= Bd(n, x) /\ Bd(n, x) <= AckWindow => Bd(Increment(n), x) = Bd(n, x) + 0
    BY <1>1, <1>2, <2>1 DEF Bd
  <2> QED  BY <1>1, <2>1, <2>2
<1>3. CASE n # MaxSeqno
  <2>1. Increment(n) = n + 1
    BY <1>1, <1>3 DEF Increment
  <2>2. \A x \in 0 .. MaxSeqno :
          1 <= Bd(n, x) /\ Bd(n, x) <= AckWindow => Bd(Increment(n), x) = Bd(n, x) + 1
    BY <1>1, <1>3, <2>1 DEF Bd
  <2> QED  BY <1>1, <1>3, <2>1, <2>2
<1> QED  BY <1>2, <1>3

\* NumbersFit of a log, the next number and the last ack's.
Ordered(log, n, r) ==
    /\ Bd(n, r) <= AckWindow + 2 /\ Len(log) < Bd(n, r)
    /\ \A i \in 1 .. Len(log) : /\ Len(log) - i < Bd(n, log[i].seqno)
                                /\ Bd(n, log[i].seqno) + i <= Bd(n, r)
    /\ \A i, j \in 1 .. Len(log) :
          i < j => Bd(n, log[j].seqno) + (j - i) <= Bd(n, log[i].seqno)

Skipped(log, n, r, h) == log = <<>> /\ h # <<>> /\ n = 0 /\ r = MaxSeqno

LEMMA Constants ==
    /\ SeqMod \in Nat /\ AckWindow \in Nat /\ AckWindow >= 1 /\ SeqMod > AckWindow + 3
    /\ MaxSeqno = SeqMod - 1 /\ MaxSeqno \in Nat /\ MaxSeqno >= 4
    /\ MaxTakeoverLog \in Nat /\ MaxTakeoverLog > 1
BY WindowAssumption DEF MaxSeqno

LEMMA BdInt ==
    ASSUME NEW n \in 0 .. MaxSeqno, NEW x \in 0 .. MaxSeqno
    PROVE  Bd(n, x) \in Nat
BY Constants DEF Bd

LEMMA LogNumbers ==
    ASSUME NEW log \in Seq(Entries), NEW n \in 0 .. MaxSeqno
    PROVE  /\ Len(log) \in Nat
           /\ \A i \in 1 .. Len(log) : log[i].seqno \in 0 .. MaxSeqno /\ Bd(n, log[i].seqno) \in Nat
<1>1. Len(log) \in Nat /\ \A i \in 1 .. Len(log) : log[i] \in Entries
  BY ElementOfSeq
<1>2. \A e \in Entries : e.seqno \in 0 .. MaxSeqno
  BY DEF Entries
<1> QED  BY <1>1, <1>2, BdInt

LEMMA NumbersAre ==
    ASSUME tapLog \in Seq(Entries), seqno \in 0 .. MaxSeqno, seqnoReceived \in 0 .. MaxSeqno
    PROVE  NumbersFit <=> (Streams => \/ Ordered(tapLog, seqno, seqnoReceived)
                                      \/ Skipped(tapLog, seqno, seqnoReceived, high))
<1>1. Distance = Bd(seqno, seqnoReceived) /\ \A x : Behind(x) = Bd(seqno, x)
  BY DEF Distance, Behind, Bd
<1>2. DOMAIN tapLog = 1 .. Len(tapLog)
  OBVIOUS
<1>3. ASSUME Skipped(tapLog, seqno, seqnoReceived, high)
      PROVE  Bd(seqno, seqnoReceived) = 0 /\ 1 .. Len(tapLog) = {} /\ tapLog = <<>>
  BY <1>3, Constants DEF Skipped, Bd
<1>4. NumbersFit <=>
        (Streams =>
           /\ Bd(seqno, seqnoReceived) <= AckWindow + 2
           /\ \/ Len(tapLog) < Bd(seqno, seqnoReceived)
              \/ Skipped(tapLog, seqno, seqnoReceived, high)
           /\ \A i \in 1 .. Len(tapLog) :
                 /\ Len(tapLog) - i < Bd(seqno, tapLog[i].seqno)
                 /\ Bd(seqno, tapLog[i].seqno) + i <= Bd(seqno, seqnoReceived)
           /\ \A i, j \in 1 .. Len(tapLog) :
                 i < j => Bd(seqno, tapLog[j].seqno) + (j - i) <= Bd(seqno, tapLog[i].seqno))
  BY <1>1, <1>2 DEF NumbersFit, Skipped
<1>5. CASE Skipped(tapLog, seqno, seqnoReceived, high)
  BY <1>3, <1>4, <1>5, Constants
<1>6. CASE ~Skipped(tapLog, seqno, seqnoReceived, high)
  BY <1>4, <1>6 DEF Ordered
<1> QED  BY <1>5, <1>6

LEMMA OrderedSend ==
    ASSUME NEW log \in Seq(Entries), NEW n \in 0 .. MaxSeqno, NEW r \in 0 .. MaxSeqno,
           Ordered(log, n, r), Bd(n, r) <= AckWindow,
           NEW e \in Entries, e.seqno = n \/ e.seqno = Increment(n)
    PROVE  Ordered(Append(log, e), Bump(e.seqno), r)
<1> DEFINE s == e.seqno
           m == Bump(s)
           k == Len(log)
           new == Append(log, e)
<1>1. s \in 0 .. MaxSeqno /\ m \in 1 .. MaxSeqno /\ Bd(m, s) = 1
  BY SendDistance
<1>2. PICK d \in {1, 2} : \A x \in 0 .. MaxSeqno :
         1 <= Bd(n, x) /\ Bd(n, x) <= AckWindow => Bd(m, x) = Bd(n, x) + d
  BY SendDistance
<1>3. k \in Nat /\ \A i \in 1 .. k : log[i].seqno \in 0 .. MaxSeqno /\ Bd(n, log[i].seqno) \in Nat
  BY LogNumbers
<1>4. Bd(n, r) \in Nat
  BY BdInt
<1>5. Bd(m, r) = Bd(n, r) + d
  BY <1>2, <1>3, <1>4 DEF Ordered
<1>6. \A i \in 1 .. k : Bd(m, log[i].seqno) = Bd(n, log[i].seqno) + d
  <2> SUFFICES ASSUME NEW i \in 1 .. k PROVE Bd(m, log[i].seqno) = Bd(n, log[i].seqno) + d
    OBVIOUS
  <2>1. k - i < Bd(n, log[i].seqno) /\ Bd(n, log[i].seqno) + i <= Bd(n, r)
    BY DEF Ordered
  <2>2. 1 <= Bd(n, log[i].seqno) /\ Bd(n, log[i].seqno) <= AckWindow
    BY <1>3, <1>4, <2>1, Constants
  <2> QED  BY <1>2, <1>3, <2>2
<1>7. /\ Len(new) = k + 1 /\ new[k + 1] = e
      /\ \A i \in 1 .. k : new[i] = log[i]
  OBVIOUS
<1> HIDE DEF m, k, new
<1>8. \A i \in 1 .. k + 1 : /\ k + 1 - i < Bd(m, new[i].seqno)
                            /\ Bd(m, new[i].seqno) + i <= Bd(m, r)
  <2> SUFFICES ASSUME NEW i \in 1 .. k + 1
               PROVE  k + 1 - i < Bd(m, new[i].seqno) /\ Bd(m, new[i].seqno) + i <= Bd(m, r)
    OBVIOUS
  <2>1. CASE i = k + 1
    <3>1. Bd(m, new[i].seqno) = 1
      BY <1>1, <1>7, <2>1
    <3>2. k < Bd(n, r)
      BY DEF Ordered, k
    <3> QED  BY <1>3, <1>4, <1>5, <2>1, <3>1, <3>2
  <2>2. CASE i # k + 1
    <3>1. i \in 1 .. k
      BY <1>3, <2>2
    <3>2. k - i < Bd(n, log[i].seqno) /\ Bd(n, log[i].seqno) + i <= Bd(n, r)
      BY <3>1 DEF Ordered, k
    <3>3. Bd(m, new[i].seqno) = Bd(n, log[i].seqno) + d
      BY <1>6, <1>7, <3>1
    <3> QED  BY <1>3, <1>4, <1>5, <3>1, <3>2, <3>3
  <2> QED  BY <2>1, <2>2
<1>9. \A i, j \in 1 .. k + 1 :
         i < j => Bd(m, new[j].seqno) + (j - i) <= Bd(m, new[i].seqno)
  <2> SUFFICES ASSUME NEW i \in 1 .. k + 1, NEW j \in 1 .. k + 1, i < j
               PROVE  Bd(m, new[j].seqno) + (j - i) <= Bd(m, new[i].seqno)
    OBVIOUS
  <2>1. i \in 1 .. k /\ Bd(m, new[i].seqno) = Bd(n, log[i].seqno) + d
    BY <1>3, <1>6, <1>7
  <2>2. CASE j = k + 1
    <3>1. Bd(m, new[j].seqno) = 1
      BY <1>1, <1>7, <2>2
    <3>2. k - i < Bd(n, log[i].seqno)
      BY <2>1 DEF Ordered, k
    <3> QED  BY <1>3, <2>1, <2>2, <3>1, <3>2
  <2>3. CASE j # k + 1
    <3>0. j \in 1 .. k
      BY <1>3, <2>3
    <3>1. Bd(m, new[j].seqno) = Bd(n, log[j].seqno) + d
      BY <1>6, <1>7, <3>0
    <3>2. Bd(n, log[j].seqno) + (j - i) <= Bd(n, log[i].seqno)
      BY <2>1, <3>0 DEF Ordered, k
    <3> QED  BY <1>3, <2>1, <3>0, <3>1, <3>2
  <2> QED  BY <2>2, <2>3
<1>10. Bd(m, r) <= AckWindow + 2 /\ k + 1 < Bd(m, r)
  <2>1. k < Bd(n, r)
    BY DEF Ordered, k
  <2> QED  BY <1>3, <1>4, <1>5, <2>1, Constants
<1>11. Ordered(new, m, r)
  <2>1. Len(new) = k + 1
    BY <1>7
  <2>2. /\ Bd(m, r) <= AckWindow + 2 /\ Len(new) < Bd(m, r)
        /\ \A i \in 1 .. Len(new) : /\ Len(new) - i < Bd(m, new[i].seqno)
                                     /\ Bd(m, new[i].seqno) + i <= Bd(m, r)
        /\ \A i, j \in 1 .. Len(new) :
              i < j => Bd(m, new[j].seqno) + (j - i) <= Bd(m, new[i].seqno)
    <3> DEFINE l == Len(new)
    <3>1. l = k + 1
      BY <2>1
    <3> HIDE DEF l
    <3>2. Bd(m, r) <= AckWindow + 2 /\ l < Bd(m, r)
      BY <1>3, <1>10, <3>1
    <3>3. \A i \in 1 .. l : l - i < Bd(m, new[i].seqno) /\ Bd(m, new[i].seqno) + i <= Bd(m, r)
      BY <1>3, <1>8, <3>1
    <3>4. \A i, j \in 1 .. l : i < j => Bd(m, new[j].seqno) + (j - i) <= Bd(m, new[i].seqno)
      BY <1>3, <1>9, <3>1
    <3> QED  BY <3>2, <3>3, <3>4 DEF l
  <2> QED  BY <2>2 DEF Ordered
<1> QED  BY <1>11 DEF m, new

LEMMA SkippedSend ==
    ASSUME NEW n, NEW r, NEW h, Skipped(<<>>, n, r, h),
           NEW e \in Entries, e.seqno = Increment(n)
    PROVE  Ordered(Append(<<>>, e), Bump(e.seqno), r)
<1>1. n = 0 /\ r = MaxSeqno
  BY DEF Skipped
<1>2. e.seqno = 1
  BY <1>1, Constants DEF Increment
<1>3. Bump(e.seqno) = 2
  BY <1>2, Constants DEF Bump
<1>4. Bd(2, r) = 2 /\ Bd(2, 1) = 1
  BY <1>1, Constants DEF Bd
<1>5. Len(Append(<<>>, e)) = 1 /\ Append(<<>>, e)[1] = e
  OBVIOUS
<1> QED  BY <1>2, <1>3, <1>4, <1>5, Constants DEF Ordered

LEMMA OrderedSkip ==
    ASSUME NEW log \in Seq(Entries), NEW n \in 0 .. MaxSeqno, NEW r \in 0 .. MaxSeqno,
           Ordered(log, n, r), Bd(n, r) <= AckWindow
    PROVE  Ordered(log, Increment(n), r)
<1> DEFINE m == Increment(n)
           k == Len(log)
<1>2. PICK d \in {0, 1} : \A x \in 0 .. MaxSeqno :
         1 <= Bd(n, x) /\ Bd(n, x) <= AckWindow => Bd(m, x) = Bd(n, x) + d
  BY SkipDistance
<1>3. k \in Nat /\ \A i \in 1 .. k : log[i].seqno \in 0 .. MaxSeqno /\ Bd(n, log[i].seqno) \in Nat
  BY LogNumbers
<1>4. Bd(n, r) \in Nat
  BY BdInt
<1>5. Bd(m, r) = Bd(n, r) + d
  BY <1>2, <1>3, <1>4 DEF Ordered
<1>6. \A i \in 1 .. k : Bd(m, log[i].seqno) = Bd(n, log[i].seqno) + d
  <2> SUFFICES ASSUME NEW i \in 1 .. k PROVE Bd(m, log[i].seqno) = Bd(n, log[i].seqno) + d
    OBVIOUS
  <2>1. k - i < Bd(n, log[i].seqno) /\ Bd(n, log[i].seqno) + i <= Bd(n, r)
    BY DEF Ordered
  <2>2. 1 <= Bd(n, log[i].seqno) /\ Bd(n, log[i].seqno) <= AckWindow
    BY <1>3, <1>4, <2>1, Constants
  <2> QED  BY <1>2, <1>3, <2>2
<1> HIDE DEF m, k
<1>7. Bd(m, r) <= AckWindow + 2 /\ k < Bd(m, r)
  <2>1. k < Bd(n, r)
    BY DEF Ordered, k
  <2> QED  BY <1>3, <1>4, <1>5, <2>1, Constants
<1>8. \A i \in 1 .. k : k - i < Bd(m, log[i].seqno) /\ Bd(m, log[i].seqno) + i <= Bd(m, r)
  <2> SUFFICES ASSUME NEW i \in 1 .. k
               PROVE  k - i < Bd(m, log[i].seqno) /\ Bd(m, log[i].seqno) + i <= Bd(m, r)
    OBVIOUS
  <2>1. k - i < Bd(n, log[i].seqno) /\ Bd(n, log[i].seqno) + i <= Bd(n, r)
    BY DEF Ordered, k
  <2> QED  BY <1>3, <1>4, <1>5, <1>6, <2>1
<1>9. \A i, j \in 1 .. k : i < j => Bd(m, log[j].seqno) + (j - i) <= Bd(m, log[i].seqno)
  <2> SUFFICES ASSUME NEW i \in 1 .. k, NEW j \in 1 .. k, i < j
               PROVE  Bd(m, log[j].seqno) + (j - i) <= Bd(m, log[i].seqno)
    OBVIOUS
  <2>1. Bd(n, log[j].seqno) + (j - i) <= Bd(n, log[i].seqno)
    BY DEF Ordered, k
  <2>2. /\ Bd(m, log[i].seqno) = Bd(n, log[i].seqno) + d /\ Bd(n, log[i].seqno) \in Nat
        /\ Bd(m, log[j].seqno) = Bd(n, log[j].seqno) + d /\ Bd(n, log[j].seqno) \in Nat
    BY <1>3, <1>6
  <2>3. i \in Nat /\ j \in Nat /\ d \in Nat
    BY <1>3
  <2> QED  BY <2>1, <2>2, <2>3
<1>10. Ordered(log, m, r)
  BY <1>7, <1>8, <1>9 DEF Ordered, k
<1> QED  BY <1>10 DEF m

\* An ack of a message in the log.
LEMMA OrderedCut ==
    ASSUME NEW log \in Seq(Entries), NEW n \in 0 .. MaxSeqno, NEW r \in 0 .. MaxSeqno,
           Ordered(log, n, r), NEW i \in 1 .. Len(log)
    PROVE  Ordered(SubSeq(log, i + 1, Len(log)), n, log[i].seqno)
<1> DEFINE k == Len(log)
           new == SubSeq(log, i + 1, k)
<1>1. k \in Nat /\ \A j \in 1 .. k : log[j].seqno \in 0 .. MaxSeqno /\ Bd(n, log[j].seqno) \in Nat
  BY LogNumbers
<1>2. Len(new) = k - i /\ \A j \in 1 .. k - i : new[j] = log[i + j] /\ i + j \in 1 .. k
  BY <1>1, SMTT(30)
<1>3. Bd(n, r) \in Nat
  BY BdInt
<1> HIDE DEF new
<1>4. /\ Bd(n, log[i].seqno) <= AckWindow + 2
      /\ k - i < Bd(n, log[i].seqno)
  BY <1>1, <1>3, Constants DEF Ordered
<1>5. \A j \in 1 .. k - i : /\ k - i - j < Bd(n, new[j].seqno)
                            /\ Bd(n, new[j].seqno) + j <= Bd(n, log[i].seqno)
  <2> SUFFICES ASSUME NEW j \in 1 .. k - i
               PROVE  /\ k - i - j < Bd(n, new[j].seqno)
                      /\ Bd(n, new[j].seqno) + j <= Bd(n, log[i].seqno)
    OBVIOUS
  <2>1. i + j \in 1 .. k /\ i < i + j /\ new[j] = log[i + j]
    BY <1>1, <1>2
  <2>2. k - (i + j) < Bd(n, log[i + j].seqno)
    BY <2>1 DEF Ordered
  <2>3. Bd(n, log[i + j].seqno) + ((i + j) - i) <= Bd(n, log[i].seqno)
    BY <2>1 DEF Ordered
  <2> QED  BY <1>1, <2>1, <2>2, <2>3
<1>6. \A j, l \in 1 .. k - i :
         j < l => Bd(n, new[l].seqno) + (l - j) <= Bd(n, new[j].seqno)
  <2> SUFFICES ASSUME NEW j \in 1 .. k - i, NEW l \in 1 .. k - i, j < l
               PROVE  Bd(n, new[l].seqno) + (l - j) <= Bd(n, new[j].seqno)
    OBVIOUS
  <2>1. /\ i + j \in 1 .. k /\ i + l \in 1 .. k /\ i + j < i + l
        /\ new[j] = log[i + j] /\ new[l] = log[i + l]
    BY <1>1, <1>2
  <2>2. Bd(n, log[i + l].seqno) + ((i + l) - (i + j)) <= Bd(n, log[i + j].seqno)
    BY <2>1 DEF Ordered
  <2> QED  BY <1>1, <2>1, <2>2
<1> QED  BY <1>2, <1>4, <1>5, <1>6 DEF Ordered, new

\* No number is in the log twice.
LEMMA OrderedDistinct ==
    ASSUME NEW log \in Seq(Entries), NEW n \in 0 .. MaxSeqno, NEW r, Ordered(log, n, r)
    PROVE  \A i, j \in 1 .. Len(log) : log[i].seqno = log[j].seqno => i = j
<1>1. Len(log) \in Nat /\ \A j \in 1 .. Len(log) : Bd(n, log[j].seqno) \in Nat
  BY LogNumbers
<1> SUFFICES ASSUME NEW i \in 1 .. Len(log), NEW j \in 1 .. Len(log),
                    log[i].seqno = log[j].seqno, i # j
             PROVE  FALSE
  OBVIOUS
<1>2. i < j => Bd(n, log[j].seqno) + (j - i) <= Bd(n, log[i].seqno)
  BY DEF Ordered
<1>3. j < i => Bd(n, log[i].seqno) + (i - j) <= Bd(n, log[j].seqno)
  BY DEF Ordered
<1> QED  BY <1>1, <1>2, <1>3

-----------------------------------------------------------------------------
(* Types *)

LEMMA SequenceTypes ==
    ASSUME TypeOK
    PROVE  /\ tapLog \in Seq(Entries) /\ Len(tapLog) \in Nat /\ DOMAIN tapLog = 1 .. Len(tapLog)
           /\ toConsumer \in Seq(Messages) /\ Len(toConsumer) \in Nat
           /\ DOMAIN toConsumer = 1 .. Len(toConsumer)
           /\ toProducer \in Seq(Answers) /\ Len(toProducer) \in Nat
           /\ DOMAIN toProducer = 1 .. Len(toProducer)
<1>1. tapLog \in Seq(Entries) /\ toConsumer \in Seq(Messages) /\ toProducer \in Seq(Answers)
  BY DEF TypeOK
<1> QED  BY <1>1

LEMMA BookTypes ==
    ASSUME TapInv
    PROVE  /\ tapLog \in Seq(Entries) /\ Len(tapLog) \in Nat /\ DOMAIN tapLog = 1 .. Len(tapLog)
           /\ toConsumer \in Seq(Messages) /\ Len(toConsumer) \in Nat
           /\ DOMAIN toConsumer = 1 .. Len(toConsumer)
           /\ toProducer \in Seq(Answers) /\ Len(toProducer) \in Nat
           /\ DOMAIN toProducer = 1 .. Len(toProducer)
<1>1. TypeOK
  BY DEF TapInv
<1> QED  BY <1>1, SequenceTypes

-----------------------------------------------------------------------------
(* Steps that send a message *)

Books == NumbersFit /\ WireFits /\ AnswersFit /\ AnswersDue

Sent(e, s) == [seqno |-> s, ev |-> e.ev, pos |-> e.pos]

Wired(e, s, ack) == [seqno |-> s, ev |-> e.ev, pos |-> e.pos, ack |-> ack]

LEMMA FlagsKept ==
    ASSUME NEW f \in Flags, NEW b \in BOOLEAN
    PROVE  /\ [f EXCEPT !.rotated = b] \in Flags
           /\ [f EXCEPT !.rotated = b].disconnect = f.disconnect
BY DEF Flags

LEMMA SentFacts ==
    ASSUME TypeOK, NEW e \in Events, NEW s, s = seqno \/ s = Increment(seqno),
           NEW ack \in BOOLEAN, Send(e, s, ack)
    PROVE  /\ s \in 0 .. MaxSeqno /\ seqno' = Bump(s) /\ seqno' \in 0 .. MaxSeqno
           /\ Sent(e, s) \in Entries /\ tapLog' = Append(tapLog, Sent(e, s))
           /\ tapLog' \in Seq(Entries) /\ Len(tapLog') = Len(tapLog) + 1
           /\ tapLog'[Len(tapLog) + 1] = Sent(e, s)
           /\ \A i \in 1 .. Len(tapLog) : tapLog'[i] = tapLog[i]
           /\ Wired(e, s, ack) \in Messages /\ toConsumer' = Append(toConsumer, Wired(e, s, ack))
           /\ toConsumer' \in Seq(Messages) /\ Len(toConsumer') = Len(toConsumer) + 1
           /\ toConsumer'[Len(toConsumer) + 1] = Wired(e, s, ack)
           /\ \A j \in 1 .. Len(toConsumer) : toConsumer'[j] = toConsumer[j]
           /\ flags' \in Flags /\ flags'.disconnect = flags.disconnect
<1>1. s \in 0 .. MaxSeqno /\ Bump(s) \in 1 .. MaxSeqno
  BY SendDistance DEF TypeOK
<1>2. Sent(e, s) \in Entries /\ Wired(e, s, ack) \in Messages
  BY <1>1 DEF Sent, Wired, Entries, Messages, Events
<1>3. /\ tapLog' = Append(tapLog, Sent(e, s)) /\ toConsumer' = Append(toConsumer, Wired(e, s, ack))
      /\ seqno' = Bump(s)
  BY DEF Send, Sent, Wired
<1>4. tapLog \in Seq(Entries) /\ toConsumer \in Seq(Messages) /\ flags \in Flags
  BY DEF TypeOK
<1>5. /\ tapLog' \in Seq(Entries) /\ Len(tapLog') = Len(tapLog) + 1
      /\ tapLog'[Len(tapLog) + 1] = Sent(e, s)
      /\ \A i \in 1 .. Len(tapLog) : tapLog'[i] = tapLog[i]
  BY <1>2, <1>3, <1>4, AppendProperties
<1>6. /\ toConsumer' \in Seq(Messages) /\ Len(toConsumer') = Len(toConsumer) + 1
      /\ toConsumer'[Len(toConsumer) + 1] = Wired(e, s, ack)
      /\ \A j \in 1 .. Len(toConsumer) : toConsumer'[j] = toConsumer[j]
  BY <1>2, <1>3, <1>4, AppendProperties
<1>7. flags' \in Flags /\ flags'.disconnect = flags.disconnect
  <2> DEFINE b == flags.rotated \/ s = MaxSeqno
  <2>1. flags' = [flags EXCEPT !.rotated = b]
    BY DEF Send
  <2>2. b \in BOOLEAN
    OBVIOUS
  <2> HIDE DEF b
  <2> QED  BY <1>4, <2>1, <2>2, FlagsKept
<1> QED  BY <1>1, <1>2, <1>3, <1>5, <1>6, <1>7

NumbersTyped ==
    tapLog \in Seq(Entries) /\ seqno \in 0 .. MaxSeqno /\ seqnoReceived \in 0 .. MaxSeqno

NumbersOrdered == \/ Ordered(tapLog, seqno, seqnoReceived)
                  \/ Skipped(tapLog, seqno, seqnoReceived, high)

LEMMA NumbersTypedAre == NumbersTyped => (NumbersFit <=> (Streams => NumbersOrdered))
BY NumbersAre DEF NumbersTyped, NumbersOrdered

LEMMA NumbersTypedNext == (NumbersTyped => (NumbersFit <=> (Streams => NumbersOrdered)))'
BY NumbersTypedAre, PTL

\* The same for the next state.
LEMMA NumbersAreNext ==
    ASSUME tapLog' \in Seq(Entries), seqno' \in 0 .. MaxSeqno, seqnoReceived' \in 0 .. MaxSeqno
    PROVE  NumbersFit' <=> (Streams' => \/ Ordered(tapLog', seqno', seqnoReceived')
                                        \/ Skipped(tapLog', seqno', seqnoReceived', high'))
<1>1. NumbersTyped' => (NumbersFit' <=> (Streams' => NumbersOrdered'))
  BY NumbersTypedNext
<1> QED  BY <1>1 DEF NumbersTyped, NumbersOrdered

LEMMA SentBooks ==
    ASSUME TypeOK, Books, NEW e \in Events, NEW s, s = seqno \/ s = Increment(seqno),
           NEW ack \in BOOLEAN, Send(e, s, ack),
           Distance <= AckWindow, high # <<>> => s = Increment(seqno),
           tapLog = <<>> => high = <<>> \/ Streams,
           e.ev \in CkptEvents => ack,
           UNCHANGED <<seqnoReceived, toProducer, replica, link>>
    PROVE  Books'
<1> DEFINE n == Len(tapLog)
           m == Len(toConsumer)
<1>1. /\ s \in 0 .. MaxSeqno /\ seqno' = Bump(s) /\ seqno' \in 0 .. MaxSeqno
      /\ Sent(e, s) \in Entries /\ tapLog' = Append(tapLog, Sent(e, s))
      /\ tapLog' \in Seq(Entries) /\ Len(tapLog') = n + 1
      /\ tapLog'[n + 1] = Sent(e, s)
      /\ \A i \in 1 .. n : tapLog'[i] = tapLog[i]
      /\ toConsumer' \in Seq(Messages) /\ Len(toConsumer') = m + 1
      /\ toConsumer'[m + 1] = Wired(e, s, ack)
      /\ \A j \in 1 .. m : toConsumer'[j] = toConsumer[j]
      /\ flags'.disconnect = flags.disconnect
  BY SentFacts
<1>2. tapLog \in Seq(Entries) /\ toConsumer \in Seq(Messages) /\ n \in Nat /\ m \in Nat
  BY SequenceTypes
<1>3. /\ DOMAIN tapLog = 1 .. n /\ DOMAIN tapLog' = 1 .. n + 1
      /\ DOMAIN toConsumer = 1 .. m /\ DOMAIN toConsumer' = 1 .. m + 1
  BY <1>1, <1>2
<1>4. Streams' = Streams
  BY <1>1 DEF Streams
<1>5. Handled' = Handled /\ Handled \in Int /\ Handled = n - m
  BY <1>1, <1>2 DEF Handled
<1>6. NumbersFit'
  <2>1. /\ seqno \in 0 .. MaxSeqno /\ seqnoReceived \in 0 .. MaxSeqno
        /\ seqnoReceived' = seqnoReceived
    BY DEF TypeOK
  <2>2. Distance = Bd(seqno, seqnoReceived)
    BY DEF Distance, Bd
  <2>3. Sent(e, s).seqno = s
    BY DEF Sent
  <2>4. CASE ~Streams
    BY <1>4, <2>4 DEF NumbersFit
  <2>5. CASE Ordered(tapLog, seqno, seqnoReceived)
    <3>1. Ordered(tapLog', seqno', seqnoReceived')
      BY <1>1, <1>2, <2>1, <2>2, <2>3, <2>5, OrderedSend
    <3> QED  BY <1>1, <2>1, <3>1, NumbersAreNext
  <2>6. CASE Skipped(tapLog, seqno, seqnoReceived, high)
    <3>1. tapLog = <<>> /\ s = Increment(seqno) /\ Skipped(<<>>, seqno, seqnoReceived, high)
      BY <2>6 DEF Skipped
    <3>2. Ordered(tapLog', seqno', seqnoReceived')
      BY <1>1, <2>1, <2>3, <3>1, SkippedSend
    <3> QED  BY <1>1, <2>1, <3>2, NumbersAreNext
  <2> QED  BY <1>2, <2>1, <2>4, <2>5, <2>6, NumbersAre DEF Books
<1>7. WireFits'
  <2> SUFFICES ASSUME Streams
               PROVE  /\ Handled >= 0
                      /\ \A j \in 1 .. m + 1 :
                            LET w == toConsumer'[j]
                                x == tapLog'[Handled + j]
                            IN  /\ w.seqno = x.seqno /\ w.ev = x.ev /\ w.pos = x.pos
                                /\ w.ev \in CkptEvents => w.ack
    BY <1>3, <1>4, <1>5 DEF WireFits, CkptEvents
  <2>1. Handled >= 0
    BY DEF Books, WireFits
  <2>2. ASSUME NEW j \in 1 .. m + 1
        PROVE  LET w == toConsumer'[j]
                   x == tapLog'[Handled + j]
               IN  /\ w.seqno = x.seqno /\ w.ev = x.ev /\ w.pos = x.pos
                   /\ w.ev \in CkptEvents => w.ack
    <3>1. CASE j = m + 1
      <4>1. Handled + j = n + 1
        BY <1>2, <1>5, <3>1
      <4> QED  BY <1>1, <3>1, <4>1 DEF Sent, Wired
    <3>2. CASE j # m + 1
      <4>1. j \in 1 .. m /\ Handled + j \in 1 .. n
        BY <1>2, <1>5, <2>1, <3>2
      <4>2. toConsumer'[j] = toConsumer[j] /\ tapLog'[Handled + j] = tapLog[Handled + j]
        BY <1>1, <4>1
      <4> QED  BY <1>3, <4>1, <4>2 DEF Books, WireFits, CkptEvents
    <3> QED  BY <3>1, <3>2
  <2> QED  BY <2>1, <2>2
<1>8. \A i \in 1 .. Handled : tapLog'[i] = tapLog[i]
  BY <1>1, <1>2, <1>5
<1>9. AnswersFit'
  <2>1. AnswersFit
    BY DEF Books
  <2>2. Streams => \A k \in DOMAIN toProducer :
           \E i \in 1 .. Handled :
              /\ tapLog'[i].seqno = toProducer[k].seqno
              /\ toProducer[k].status # "success" => tapLog'[i].ev = "set"
    BY <1>8, <2>1 DEF AnswersFit
  <2>3. Streams => \A k, l \in DOMAIN toProducer : \A i, j \in 1 .. Handled :
           k < l /\ tapLog'[i].seqno = toProducer[k].seqno /\ tapLog'[j].seqno = toProducer[l].seqno
             => i < j
    BY <1>8, <2>1 DEF AnswersFit
  <2> QED  BY <1>4, <1>5, <2>2, <2>3 DEF AnswersFit
<1>10. AnswersDue'
  BY <1>4, <1>5, <1>8 DEF Books, AnswersDue
<1> QED  BY <1>6, <1>7, <1>9, <1>10 DEF Books

LEMMA SentBounded ==
    ASSUME TypeOK, NumbersFit, Distance <= AckWindow, Streams \/ tapLog = <<>>,
           Len(tapLog') = Len(tapLog) + 1
    PROVE  LogIsBounded'
<1>1. Len(tapLog) \in Nat
  BY DEF TypeOK
<1>2. CASE tapLog = <<>>
  BY <1>2, Constants DEF LogIsBounded
<1>3. CASE tapLog # <<>>
  <2>1. Distance \in Nat
    BY Constants DEF TypeOK, Distance
  <2>2. Len(tapLog) < Distance
    BY <1>3 DEF NumbersFit
  <2> QED  BY <1>1, <2>1, <2>2, Constants DEF LogIsBounded
<1> QED  BY <1>2, <1>3

LEMMA SentCounter ==
    ASSUME TypeOK, CounterExact, NEW e \in Entries, tapLog' = Append(tapLog, e),
           ckptCounter' = ckptCounter + (IF e.ev \in CkptEvents THEN 1 ELSE 0)
    PROVE  CounterExact'
<1>1. CkptCount(tapLog') = CkptCount(tapLog) + (IF e.ev \in CkptEvents THEN 1 ELSE 0)
  BY CountAppend DEF TypeOK
<1> QED  BY <1>1 DEF CounterExact, CkptCount, CkptEvents

\* What the log and the connection hold.
LogFits ==
    /\ \A i \in DOMAIN tapLog : EventFits(tapLog[i])
    /\ \A i \in DOMAIN toConsumer : EventFits(toConsumer[i])

LEMMA SentEvents ==
    ASSUME TypeOK, LogFits, DeadBeforeActive, NEW e \in Events, NEW s, s = seqno \/ s = Increment(seqno),
           NEW ack \in BOOLEAN, Send(e, s, ack), EventFits(e),
           replica' = replica, source' \in {source, "dead"}, e.ev = "active" => source' = "dead"
    PROVE  LogFits' /\ DeadBeforeActive'
<1> DEFINE n == Len(tapLog)
           m == Len(toConsumer)
<1>1. /\ tapLog' \in Seq(Entries) /\ Len(tapLog') = n + 1
      /\ tapLog'[n + 1] = Sent(e, s)
      /\ \A i \in 1 .. n : tapLog'[i] = tapLog[i]
      /\ toConsumer' \in Seq(Messages) /\ Len(toConsumer') = m + 1
      /\ toConsumer'[m + 1] = Wired(e, s, ack)
      /\ \A j \in 1 .. m : toConsumer'[j] = toConsumer[j]
  BY SentFacts
<1>2. tapLog \in Seq(Entries) /\ toConsumer \in Seq(Messages) /\ n \in Nat /\ m \in Nat
  BY SequenceTypes
<1>3. /\ DOMAIN tapLog = 1 .. n /\ DOMAIN tapLog' = 1 .. n + 1
      /\ DOMAIN toConsumer = 1 .. m /\ DOMAIN toConsumer' = 1 .. m + 1
  BY <1>1, <1>2
<1>4. /\ Sent(e, s).ev = e.ev /\ Sent(e, s).pos = e.pos
      /\ Wired(e, s, ack).ev = e.ev /\ Wired(e, s, ack).pos = e.pos
  BY DEF Sent, Wired
<1>5. \A i \in 1 .. n + 1 : i = n + 1 \/ i \in 1 .. n
  BY <1>2
<1>6. \A j \in 1 .. m + 1 : j = m + 1 \/ j \in 1 .. m
  BY <1>2
<1>7. LogFits'
  <2>1. EventFits(Sent(e, s)) /\ EventFits(Wired(e, s, ack))
    BY <1>4 DEF EventFits
  <2>2. \A i \in 1 .. n + 1 : EventFits(tapLog'[i])
    BY <1>1, <1>3, <1>5, <2>1 DEF LogFits
  <2>3. \A j \in 1 .. m + 1 : EventFits(toConsumer'[j])
    BY <1>1, <1>3, <1>6, <2>1 DEF LogFits
  <2> QED  BY <1>3, <2>2, <2>3 DEF LogFits
<1>8. DeadBeforeActive'
  BY <1>1, <1>3, <1>4, <1>5, <1>6 DEF DeadBeforeActive
<1> QED  BY <1>7, <1>8

LEMMA SentNack ==
    ASSUME TypeOK, NackFirst, NEW e \in Events, NEW s, s = seqno \/ s = Increment(seqno),
           NEW ack \in BOOLEAN, Send(e, s, ack), UNCHANGED <<replica, link>>,
           high = <<>> \/ (e = Head(high) /\ high' = Tail(high) /\ e.ev # "set")
    PROVE  NackFirst'
<1> DEFINE m == Len(toConsumer)
<1>1. /\ toConsumer' \in Seq(Messages) /\ Len(toConsumer') = m + 1
      /\ toConsumer'[m + 1] = Wired(e, s, ack)
      /\ \A j \in 1 .. m : toConsumer'[j] = toConsumer[j]
  BY SentFacts
<1>2. toConsumer \in Seq(Messages) /\ m \in Nat /\ high \in Seq(Events)
  BY DEF TypeOK
<1>3. DOMAIN toConsumer = 1 .. m /\ DOMAIN toConsumer' = 1 .. m + 1
  BY <1>1, <1>2
<1>4. Wired(e, s, ack).ev = e.ev
  BY DEF Wired
<1>5. \A j \in 1 .. m + 1 : j = m + 1 \/ j \in 1 .. m
  BY <1>2
<1>6. m + 1 \in 1 .. m + 1 /\ \A j \in 1 .. m : j \in 1 .. m + 1 /\ j < m + 1
  BY <1>2
<1> SUFFICES ASSUME link = "up", ~replica.nack
             PROVE  NackFirst'
  BY DEF NackFirst
<1>7. CASE \E j \in DOMAIN toConsumer :
              /\ toConsumer[j].ev = "auto_nack"
              /\ \A i \in DOMAIN toConsumer : i < j => toConsumer[i].ev # "set"
  <2>1. PICK j \in 1 .. m : /\ toConsumer[j].ev = "auto_nack"
                            /\ \A i \in 1 .. m : i < j => toConsumer[i].ev # "set"
    BY <1>3, <1>7
  <2>2. j \in 1 .. m + 1 /\ toConsumer'[j].ev = "auto_nack"
    BY <1>1, <1>6, <2>1
  <2>3. \A i \in 1 .. m + 1 : i < j => i \in 1 .. m
    BY <1>2
  <2>4. \A i \in 1 .. m + 1 : i < j => toConsumer'[i].ev # "set"
    BY <1>1, <2>1, <2>3
  <2> QED  BY <1>3, <2>2, <2>4 DEF NackFirst
<1>8. CASE /\ \E i \in DOMAIN high : high[i].ev = "auto_nack"
           /\ \A i \in DOMAIN toConsumer : toConsumer[i].ev # "set"
  <2>1. high # <<>> /\ e = Head(high) /\ high' = Tail(high) /\ e.ev # "set"
    BY <1>8
  <2>2. PICK i \in 1 .. Len(high) : high[i].ev = "auto_nack"
    BY <1>2, <1>8
  <2>3. CASE i = 1
    <3>1. e.ev = "auto_nack"
      BY <1>2, <2>1, <2>2, <2>3
    <3>2. toConsumer'[m + 1].ev = "auto_nack"
      BY <1>1, <1>4, <3>1
    <3>3. \A k \in 1 .. m + 1 : k < m + 1 => toConsumer'[k].ev # "set"
      BY <1>1, <1>2, <1>3, <1>5, <1>8
    <3> QED  BY <1>3, <1>6, <3>2, <3>3 DEF NackFirst
  <2>4. CASE i # 1
    <3>1. i - 1 \in DOMAIN high' /\ high'[i - 1].ev = "auto_nack"
      BY <1>2, <2>1, <2>2, <2>4
    <3>2. \A k \in DOMAIN toConsumer' : toConsumer'[k].ev # "set"
      BY <1>1, <1>3, <1>4, <1>5, <1>8, <2>1
    <3> QED  BY <3>1, <3>2 DEF NackFirst
  <2> QED  BY <2>3, <2>4
<1> QED  BY <1>7, <1>8 DEF NackFirst

-----------------------------------------------------------------------------
(* What is held and covered *)

HeldStays == \A p \in Mutations : Held(p) => Held(p)'

LEMMA CoveredStays ==
    ASSUME HeldStays, NEW q, Covered(q)
    PROVE  Covered(q)'
BY DEF HeldStays, Covered

\* The place in the stream where the replica is.
ReplicaCovered ==
    \/ replica.id = 0 /\ replica.open
    \/ \E p \in Positions : /\ Stream[p].id = replica.id /\ Covered(p)
                            /\ Stream[p].op = IF replica.open THEN "start" ELSE "end"

LEMMA ReplicaCoveredStays ==
    ASSUME HeldStays, ReplicaCovered, replica'.id = replica.id, replica'.open = replica.open
    PROVE  ReplicaCovered'
<1>1. CASE replica.id = 0 /\ replica.open
  BY <1>1 DEF ReplicaCovered
<1>2. CASE ~(replica.id = 0 /\ replica.open)
  <2>1. PICK p \in Positions : /\ Stream[p].id = replica.id /\ Covered(p)
                               /\ Stream[p].op = IF replica.open THEN "start" ELSE "end"
    BY <1>2 DEF ReplicaCovered
  <2>2. Covered(p)'
    BY <2>1, CoveredStays
  <2> QED  BY <2>1, <2>2 DEF ReplicaCovered
<1> QED  BY <1>1, <1>2

LEMMA SentMarks ==
    ASSUME TypeOK, MarksCovered, NEW e \in Events, NEW s, s = seqno \/ s = Increment(seqno),
           NEW ack \in BOOLEAN, Send(e, s, ack), UNCHANGED replica,
           HeldStays, e.ev \in CkptEvents => Covered(e.pos),
           Covered(cursor.pos + 1)', \A i \in DOMAIN ckptMsgs' : Covered(ckptMsgs'[i])
    PROVE  MarksCovered'
<1> DEFINE n == Len(tapLog)
           m == Len(toConsumer)
<1>1. /\ tapLog' \in Seq(Entries) /\ Len(tapLog') = n + 1
      /\ tapLog'[n + 1] = Sent(e, s)
      /\ \A i \in 1 .. n : tapLog'[i] = tapLog[i]
      /\ toConsumer' \in Seq(Messages) /\ Len(toConsumer') = m + 1
      /\ toConsumer'[m + 1] = Wired(e, s, ack)
      /\ \A j \in 1 .. m : toConsumer'[j] = toConsumer[j]
  BY SentFacts
<1>2. tapLog \in Seq(Entries) /\ toConsumer \in Seq(Messages) /\ n \in Nat /\ m \in Nat
  BY SequenceTypes
<1>3. /\ DOMAIN tapLog = 1 .. n /\ DOMAIN tapLog' = 1 .. n + 1
      /\ DOMAIN toConsumer = 1 .. m /\ DOMAIN toConsumer' = 1 .. m + 1
  BY <1>1, <1>2
<1>4. /\ Sent(e, s).ev = e.ev /\ Sent(e, s).pos = e.pos
      /\ Wired(e, s, ack).ev = e.ev /\ Wired(e, s, ack).pos = e.pos
  BY DEF Sent, Wired
<1>5. \A i \in 1 .. n + 1 : i = n + 1 \/ i \in 1 .. n
  BY <1>2
<1>6. \A j \in 1 .. m + 1 : j = m + 1 \/ j \in 1 .. m
  BY <1>2
<1>7. ReplicaCovered'
  BY ReplicaCoveredStays DEF MarksCovered, ReplicaCovered
<1>8. \A i \in DOMAIN ckptMsgs' : \A p \in Mutations : p < ckptMsgs'[i] => Held(p)'
  BY DEF HeldStays, Covered
<1>9. \A i \in DOMAIN tapLog' : tapLog'[i].ev \in CkptEvents => Covered(tapLog'[i].pos)
  BY <1>1, <1>3, <1>4, <1>5 DEF MarksCovered, CkptEvents
<1>10. \A i \in DOMAIN toConsumer' :
         toConsumer'[i].ev \in CkptEvents => Covered(toConsumer'[i].pos)
  BY <1>1, <1>3, <1>4, <1>6 DEF MarksCovered, CkptEvents
<1>11. \A i \in DOMAIN tapLog' : tapLog'[i].ev \in CkptEvents =>
         \A p \in Mutations : p < tapLog'[i].pos => Held(p)'
  BY <1>9 DEF HeldStays, Covered
<1>12. \A i \in DOMAIN toConsumer' : toConsumer'[i].ev \in CkptEvents =>
         \A p \in Mutations : p < toConsumer'[i].pos => Held(p)'
  BY <1>10 DEF HeldStays, Covered
<1>13. \A p \in Mutations : p < cursor'.pos + 1 => Held(p)'
  BY DEF Covered
<1>14. \A i \in DOMAIN ckptMsgs' : Covered(ckptMsgs[i])'
  BY <1>8 DEF Covered
<1>15. \A i \in DOMAIN tapLog' : tapLog'[i].ev \in CkptEvents => Covered(tapLog[i].pos)'
  BY <1>11 DEF Covered
<1>16. \A i \in DOMAIN toConsumer' :
         toConsumer'[i].ev \in CkptEvents => Covered(toConsumer[i].pos)'
  BY <1>12 DEF Covered
<1> QED  BY <1>7, <1>14, <1>15, <1>16 DEF MarksCovered, ReplicaCovered, CkptEvents

-----------------------------------------------------------------------------
(* Sequences *)

LEMMA TailFacts ==
    ASSUME NEW S, NEW q \in Seq(S), q # <<>>
    PROVE  /\ Len(q) \in Nat /\ Len(q) >= 1 /\ DOMAIN q = 1 .. Len(q)
           /\ 1 \in DOMAIN q /\ Head(q) = q[1] /\ Head(q) \in S
           /\ Tail(q) \in Seq(S) /\ Len(Tail(q)) = Len(q) - 1 /\ DOMAIN Tail(q) = 1 .. Len(q) - 1
           /\ \A i \in 1 .. Len(q) - 1 : i + 1 \in 1 .. Len(q) /\ Tail(q)[i] = q[i + 1]
           /\ \A i \in 1 .. Len(q) : i # 1 => i - 1 \in 1 .. Len(q) - 1 /\ Tail(q)[i - 1] = q[i]
<1>1. Len(q) \in Nat /\ Len(q) >= 1 /\ DOMAIN q = 1 .. Len(q)
  OBVIOUS
<1>2. Head(q) = q[1] /\ q[1] \in S /\ Tail(q) \in Seq(S) /\ Len(Tail(q)) = Len(q) - 1
  BY <1>1
<1>3. \A i \in 1 .. Len(q) - 1 : i + 1 \in 1 .. Len(q) /\ Tail(q)[i] = q[i + 1]
  BY <1>1
<1>4. \A i \in 1 .. Len(q) : i # 1 => i - 1 \in 1 .. Len(q) - 1 /\ Tail(q)[i - 1] = q[i]
  <2> DEFINE n == Len(q)
             t == Tail(q)
  <2>1. n \in Nat /\ \A i \in 1 .. n - 1 : t[i] = q[i + 1]
    BY <1>1, <1>3
  <2> HIDE DEF n, t
  <2>2. \A i \in 1 .. n : i # 1 => i - 1 \in 1 .. n - 1 /\ (i - 1) + 1 = i
    BY <2>1
  <2>3. \A i \in 1 .. n : i # 1 => i - 1 \in 1 .. n - 1 /\ t[i - 1] = q[i]
    BY <2>1, <2>2
  <2> QED  BY <2>3 DEF n, t
<1>5. DOMAIN Tail(q) = 1 .. Len(q) - 1
  BY <1>1, <1>2
<1>6. 1 \in DOMAIN q
  BY <1>1
<1> QED  BY <1>1, <1>2, <1>3, <1>4, <1>5, <1>6, Zenon

LEMMA AppendFacts ==
    ASSUME NEW S, NEW q \in Seq(S), NEW x \in S
    PROVE  /\ Len(q) \in Nat /\ DOMAIN q = 1 .. Len(q)
           /\ Append(q, x) \in Seq(S) /\ DOMAIN Append(q, x) = 1 .. Len(q) + 1
           /\ Append(q, x)[Len(q) + 1] = x /\ Len(q) + 1 \in 1 .. Len(q) + 1
           /\ \A i \in 1 .. Len(q) : i \in 1 .. Len(q) + 1 /\ Append(q, x)[i] = q[i]
           /\ \A i \in 1 .. Len(q) + 1 : i = Len(q) + 1 \/ i \in 1 .. Len(q)
OBVIOUS

-----------------------------------------------------------------------------
(* Steps that leave the log and the connection alone *)

LEMMA SameBooks ==
    ASSUME Books, UNCHANGED <<seqno, seqnoReceived, tapLog, toConsumer, toProducer, replica>>,
           Streams' => Streams, high # <<>> => high' # <<>>
    PROVE  Books'
<1>1. NumbersFit'
  BY DEF Books, NumbersFit, Distance, Behind
<1>2. WireFits'
  BY DEF Books, WireFits, Handled
<1>3. AnswersFit' /\ AnswersDue'
  BY DEF Books, AnswersFit, AnswersDue, Handled
<1> QED  BY <1>1, <1>2, <1>3 DEF Books

LEMMA NotStreaming ==
    ASSUME ~Streams' PROVE Books'
BY DEF Books, NumbersFit, WireFits, AnswersFit, AnswersDue

LEMMA SameMarks ==
    ASSUME MarksCovered, HeldStays, UNCHANGED <<tapLog, toConsumer, replica>>,
           Covered(cursor.pos + 1)', \A i \in DOMAIN ckptMsgs' : Covered(ckptMsgs'[i])
    PROVE  MarksCovered'
<1>1. ReplicaCovered'
  BY ReplicaCoveredStays DEF MarksCovered, ReplicaCovered
<1>2. \A i \in DOMAIN ckptMsgs' : \A p \in Mutations : p < ckptMsgs'[i] => Held(p)'
  BY DEF HeldStays, Covered
<1>3. \A i \in DOMAIN tapLog' : tapLog'[i].ev \in CkptEvents =>
         \A p \in Mutations : p < tapLog'[i].pos => Held(p)'
  BY DEF MarksCovered, CkptEvents, HeldStays, Covered
<1>4. \A i \in DOMAIN toConsumer' : toConsumer'[i].ev \in CkptEvents =>
         \A p \in Mutations : p < toConsumer'[i].pos => Held(p)'
  BY DEF MarksCovered, CkptEvents, HeldStays, Covered
<1>5. \A i \in DOMAIN ckptMsgs' : Covered(ckptMsgs[i])'
  BY <1>2 DEF Covered
<1>6. \A i \in DOMAIN tapLog' : tapLog'[i].ev \in CkptEvents => Covered(tapLog[i].pos)'
  BY <1>3 DEF Covered
<1>7. \A i \in DOMAIN toConsumer' :
         toConsumer'[i].ev \in CkptEvents => Covered(toConsumer[i].pos)'
  BY <1>4 DEF Covered
<1> QED  BY <1>1, <1>5, <1>6, <1>7 DEF MarksCovered, ReplicaCovered, CkptEvents

LEMMA SameHeld ==
    ASSUME UNCHANGED <<replica, queue, tapLog>>
    PROVE  HeldStays
BY DEF HeldStays, Held

\* The cursor where it was.
LEMMA SameCursor ==
    ASSUME MarksCovered, HeldStays, UNCHANGED cursor
    PROVE  Covered(cursor.pos + 1)'
<1>1. \A p \in Mutations : p < cursor.pos + 1 => Held(p)'
  BY DEF MarksCovered, HeldStays, Covered
<1> QED  BY <1>1 DEF Covered

\* A step of the producer that changes neither the log nor the connection, and none of the
\* queues but the one of checkpoint messages.
LEMMA QuietStep ==
    ASSUME TapInv, UNCHANGED <<seqno, seqnoReceived, tapLog, toConsumer, toProducer, replica,
                               high, low, queue, ckptCounter, link, source>>,
           Streams' => Streams
    PROVE  /\ LogIsBounded' /\ CounterExact' /\ DeadBeforeActive' /\ Books' /\ NackFirst'
           /\ HeldStays
<1>1. LogIsBounded' /\ CounterExact' /\ DeadBeforeActive' /\ NackFirst'
  BY DEF TapInv, LogIsBounded, CounterExact, DeadBeforeActive, NackFirst
<1>2. Books
  BY DEF TapInv, Books
<1> QED  BY <1>1, <1>2, SameBooks, SameHeld

LEMMA Resumes == ASSUME TapInv, Resume PROVE TapInv'
<1>1. LogIsBounded' /\ CounterExact' /\ DeadBeforeActive' /\ Books' /\ NackFirst' /\ HeldStays
  <2>1. Streams' => Streams
    BY DEF Resume, Streams, TapInv, TypeOK, Flags
  <2> QED  BY <2>1, QuietStep DEF Resume
<1>2. TypeOK'
  <2>1. flags' \in Flags
    BY DEF Resume, TapInv, TypeOK, Flags
  <2> QED  BY <2>1 DEF Resume, TapInv, TypeOK
<1>3. QueuesFit'
  BY DEF Resume, TapInv, QueuesFit, EventFits, Distance
<1>4. MarksCovered'
  BY <1>1, SameMarks, SameCursor DEF Resume, TapInv, MarksCovered
<1> QED  BY <1>1, <1>2, <1>3, <1>4 DEF TapInv, Books

LEMMA QueuesDirty == ASSUME TapInv, QueueDirty PROVE TapInv'
<1> USE DEF QueueDirty, producerVars
<1>1. LogIsBounded' /\ CounterExact' /\ DeadBeforeActive' /\ Books' /\ NackFirst' /\ HeldStays
  <2>1. Streams' => Streams
    BY DEF Streams
  <2> QED  BY <2>1, QuietStep
<1>2. TypeOK'
  <2>1. avail' \in 0 .. Len(Stream)
    <3>1. Len(Stream) \in Nat /\ avail \in 0 .. Len(Stream)
      BY StreamAssumption DEF TapInv, TypeOK
    <3>2. avail + 1 \in Positions
      BY <3>1 DEF Positions
    <3>3. Stream[avail + 1].op = "end" => avail + 1 + 1 \in Positions
      BY <3>2, StreamAssumption
    <3>4. avail + 1 + 1 = avail + 2
      BY <3>1
    <3> QED  BY <3>1, <3>2, <3>3, <3>4 DEF Positions
  <2> QED  BY <2>1 DEF TapInv, TypeOK
<1>3. QueuesFit'
  BY DEF TapInv, QueuesFit, EventFits, Distance
<1>4. MarksCovered'
  BY <1>1, SameMarks, SameCursor DEF TapInv, MarksCovered
<1> QED  BY <1>1, <1>2, <1>3, <1>4 DEF TapInv, Books

LEMMA WalksComplete == ASSUME TapInv, WalkComplete PROVE TapInv'
<1> USE DEF WalkComplete, MaySend, Walking
<1>1. LogIsBounded' /\ CounterExact' /\ DeadBeforeActive' /\ Books' /\ NackFirst' /\ HeldStays
  <2>1. Streams' => Streams
    BY DEF Streams
  <2> QED  BY <2>1, QuietStep
<1>2. TypeOK'
  BY DEF TapInv, TypeOK
<1>3. QueuesFit'
  <2>1. Distance \in Nat /\ ~WindowIsFull
    BY Constants DEF TapInv, TypeOK, Distance
  <2>2. Distance <= AckWindow
    BY <2>1, Constants DEF WindowIsFull
  <2> QED  BY <2>2 DEF TapInv, QueuesFit, EventFits, Distance
<1>4. MarksCovered'
  BY <1>1, SameMarks, SameCursor DEF TapInv, MarksCovered
<1> QED  BY <1>1, <1>2, <1>3, <1>4 DEF TapInv, Books

LEMMA TimesOut == ASSUME TapInv, AckTimeout PROVE TapInv'
<1> USE DEF AckTimeout
<1>1. LogIsBounded' /\ CounterExact' /\ DeadBeforeActive' /\ Books' /\ NackFirst' /\ HeldStays
  <2>1. Streams' => Streams
    BY DEF Streams, TapInv, TypeOK, Flags
  <2> QED  BY <2>1, QuietStep
<1>2. TypeOK'
  <2>1. flags' \in Flags
    BY DEF TapInv, TypeOK, Flags
  <2> QED  BY <2>1 DEF TapInv, TypeOK
<1>3. QueuesFit'
  BY DEF TapInv, QueuesFit, EventFits, Distance
<1>4. MarksCovered'
  BY <1>1, SameMarks, SameCursor DEF TapInv, MarksCovered
<1> QED  BY <1>1, <1>2, <1>3, <1>4 DEF TapInv, Books

\* The cursor passes a checkpoint's message.
LEMMA CursorPasses ==
    ASSUME TypeOK, MarksCovered, HeldStays, avail' = avail,
           cursor.pos < avail, Stream[cursor.pos + 1].op \in CkptEvents,
           ckptMsgs' = Append(ckptMsgs, cursor.pos + 1), cursor' = Advance
    PROVE  /\ cursor.pos + 1 \in Positions /\ cursor' \in [pos : 0 .. Len(Stream), id : Nat]
           /\ ckptMsgs' \in Seq(Positions)
           /\ \A i \in DOMAIN ckptMsgs' : Covered(ckptMsgs'[i])
           /\ \A i \in DOMAIN ckptMsgs' : \/ i \in DOMAIN ckptMsgs /\ ckptMsgs'[i] = ckptMsgs[i]
                                          \/ ckptMsgs'[i] = cursor.pos + 1
           /\ Covered(cursor.pos + 1)'
<1> DEFINE c == cursor.pos + 1
<1>1. cursor.pos \in 0 .. Len(Stream) /\ avail \in 0 .. Len(Stream) /\ Len(Stream) \in Nat
  BY StreamAssumption DEF TypeOK
<1>2. c \in Positions /\ c \in 0 .. Len(Stream) /\ Stream[c].id \in Nat
  <2>1. c \in Positions /\ c \in 0 .. Len(Stream)
    BY <1>1 DEF Positions
  <2>2. Stream[c] \in [op : {"start", "end", "set"}, id : Nat]
    BY <2>1, StreamAssumption, ElementOfSeq DEF Positions
  <2> QED  BY <2>1, <2>2
<1>3. cursor'.pos = c /\ cursor' \in [pos : 0 .. Len(Stream), id : Nat]
  BY <1>2 DEF Advance
<1>4. Covered(c)
  BY DEF MarksCovered
<1>5. ckptMsgs \in Seq(Positions)
  BY DEF TypeOK
<1> HIDE DEF c
<1>6. ckptMsgs' = Append(ckptMsgs, c)
  BY DEF c
<1>7. /\ ckptMsgs' \in Seq(Positions)
      /\ \A i \in DOMAIN ckptMsgs' : \/ i \in DOMAIN ckptMsgs /\ ckptMsgs'[i] = ckptMsgs[i]
                                     \/ ckptMsgs'[i] = c
  BY <1>2, <1>5, <1>6, AppendFacts
<1>8. \A i \in DOMAIN ckptMsgs' : Covered(ckptMsgs'[i])
  BY <1>4, <1>7 DEF MarksCovered
<1>9. Covered(cursor.pos + 1)'
  <2>1. \A p \in Mutations : p < c + 1 => p < c
    BY <1>1, <1>2 DEF Mutations, Positions, c, CkptEvents
  <2>2. \A p \in Mutations : p < c + 1 => Held(p)'
    BY <1>4, <2>1 DEF HeldStays, Covered
  <2> QED  BY <1>3, <2>2 DEF Covered
<1> QED  BY <1>2, <1>3, <1>7, <1>8, <1>9 DEF c

LEMMA WalksCheckpointStart == ASSUME TapInv, WalkCheckpointStart PROVE TapInv'
<1> USE DEF WalkCheckpointStart, Reads, MayTakeItem, MaySend, Walking
<1>1. LogIsBounded' /\ CounterExact' /\ DeadBeforeActive' /\ Books' /\ NackFirst' /\ HeldStays
  <2>1. Streams' => Streams
    BY DEF Streams
  <2> QED  BY <2>1, QuietStep
<1>2. /\ cursor.pos + 1 \in Positions /\ cursor' \in [pos : 0 .. Len(Stream), id : Nat]
      /\ ckptMsgs' \in Seq(Positions)
      /\ \A i \in DOMAIN ckptMsgs' : Covered(ckptMsgs'[i])
      /\ \A i \in DOMAIN ckptMsgs' : \/ i \in DOMAIN ckptMsgs /\ ckptMsgs'[i] = ckptMsgs[i]
                                     \/ ckptMsgs'[i] = cursor.pos + 1
      /\ Covered(cursor.pos + 1)'
  BY <1>1, CursorPasses DEF TapInv, MarksCovered, CkptEvents
<1>3. TypeOK'
  <2>1. ckpt' \in CheckpointStates
    BY DEF TapInv, TypeOK, CheckpointStates
  <2> QED  BY <1>2, <2>1 DEF TapInv, TypeOK
<1>4. QueuesFit'
  BY <1>2 DEF TapInv, QueuesFit, EventFits, Distance
<1>5. MarksCovered'
  BY <1>1, <1>2, SameMarks DEF TapInv
<1> QED  BY <1>1, <1>3, <1>4, <1>5 DEF TapInv, Books

LEMMA WalksCheckpointEnd == ASSUME TapInv, WalkCheckpointEnd PROVE TapInv'
<1> USE DEF WalkCheckpointEnd, Reads, MayTakeItem, MaySend, Walking
<1>1. LogIsBounded' /\ CounterExact' /\ DeadBeforeActive' /\ Books' /\ NackFirst' /\ HeldStays
  <2>1. Streams' => Streams
    BY DEF Streams
  <2> QED  BY <2>1, QuietStep
<1>2. ckpt' \in CheckpointStates
  BY DEF TapInv, TypeOK, CheckpointStates
<1>3. CASE AllAcked
  <2>2. /\ cursor.pos + 1 \in Positions /\ cursor' \in [pos : 0 .. Len(Stream), id : Nat]
        /\ ckptMsgs' \in Seq(Positions)
        /\ \A i \in DOMAIN ckptMsgs' : Covered(ckptMsgs'[i])
        /\ \A i \in DOMAIN ckptMsgs' : \/ i \in DOMAIN ckptMsgs /\ ckptMsgs'[i] = ckptMsgs[i]
                                       \/ ckptMsgs'[i] = cursor.pos + 1
        /\ Covered(cursor.pos + 1)'
    BY <1>1, <1>3, CursorPasses DEF TapInv, MarksCovered, CkptEvents
  <2>3. TypeOK'
    BY <1>2, <2>2 DEF TapInv, TypeOK
  <2>4. QueuesFit'
    BY <2>2 DEF TapInv, QueuesFit, EventFits, Distance
  <2>5. MarksCovered'
    BY <1>1, <2>2, SameMarks DEF TapInv
  <2> QED  BY <1>1, <2>3, <2>4, <2>5 DEF TapInv, Books
<1>4. CASE ~AllAcked
  <2>1. cursor' = cursor /\ ckptMsgs' = ckptMsgs
    BY <1>4
  <2>2. TypeOK'
    BY <1>2, <2>1 DEF TapInv, TypeOK
  <2>3. QueuesFit'
    BY <2>1 DEF TapInv, QueuesFit, EventFits, Distance
  <2>4. MarksCovered'
    BY <1>1, <2>1, SameMarks, SameCursor DEF TapInv, MarksCovered
  <2> QED  BY <1>1, <2>2, <2>3, <2>4 DEF TapInv, Books
<1> QED  BY <1>3, <1>4

\* The connection is lost with what is under way.
LEMMA LinkLost ==
    ASSUME TapInv, walk = "ready",
           LinkDown \/ (link = "down" /\ link' = "reaped" /\ UNCHANGED <<toConsumer, toProducer>>),
           UNCHANGED <<avail, source, producerVars, replica, refusals, reconnects>>
    PROVE  TapInv'
<1> USE DEF producerVars
<1>1. /\ link' \in {"down", "reaped"}
      /\ toConsumer' = <<>> /\ toProducer' = <<>> /\ DOMAIN toConsumer' = {}
  <2>1. CASE LinkDown
    BY <2>1 DEF LinkDown
  <2>2. CASE ~LinkDown
    BY <2>2 DEF TapInv, QueuesFit
  <2> QED  BY <2>1, <2>2
<1>2. HeldStays
  BY SameHeld
<1>3. Books'
  BY <1>1, NotStreaming DEF Streams
<1>4. TypeOK'
  BY <1>1 DEF TapInv, TypeOK
<1>5. LogIsBounded' /\ CounterExact' /\ DeadBeforeActive' /\ NackFirst'
  BY <1>1 DEF TapInv, LogIsBounded, CounterExact, DeadBeforeActive, NackFirst
<1>6. QueuesFit'
  BY <1>1 DEF TapInv, QueuesFit, EventFits, Distance
<1>7. ReplicaCovered'
  BY <1>2, ReplicaCoveredStays DEF TapInv, MarksCovered, ReplicaCovered
<1>8. MarksCovered'
  BY <1>1, <1>7 DEF TapInv, MarksCovered, ReplicaCovered, Covered, Held
<1> QED  BY <1>3, <1>4, <1>5, <1>6, <1>8 DEF TapInv, Books

LEMMA Breaks == ASSUME TapInv, Break \/ Disconnect \/ Reap PROVE TapInv'
<1>1. link # "up" => walk = "ready"
  BY DEF TapInv, QueuesFit
<1> QED  BY <1>1, LinkLost DEF Break, Disconnect, Reap

-----------------------------------------------------------------------------
(* The walks that send *)

LEMMA SendStep ==
    ASSUME TapInv, NEW e \in Events, NEW s, s = seqno \/ s = Increment(seqno),
           NEW ack \in BOOLEAN, Send(e, s, ack), EventFits(e),
           Distance <= AckWindow, high # <<>> => s = Increment(seqno),
           Streams \/ (tapLog = <<>> /\ high = <<>>), e.ev \in CkptEvents => ack,
           UNCHANGED <<seqnoReceived, toProducer, replica, link>>,
           source' \in {source, "dead"}, e.ev = "active" => source' = "dead"
    PROVE  Books' /\ LogIsBounded' /\ LogFits' /\ DeadBeforeActive'
<1>1. TypeOK /\ Books /\ LogFits /\ DeadBeforeActive /\ NumbersFit
  BY DEF TapInv, Books, LogFits, QueuesFit
<1>2. Books'
  BY <1>1, SentBooks
<1>3. Len(tapLog') = Len(tapLog) + 1
  BY <1>1, SentFacts
<1>4. LogIsBounded'
  BY <1>1, <1>3, SentBounded
<1>5. LogFits' /\ DeadBeforeActive'
  BY <1>1, SentEvents
<1> QED  BY <1>2, <1>4, <1>5

LEMMA SendTypes ==
    ASSUME TapInv, NEW e \in Events, NEW s, s = seqno \/ s = Increment(seqno),
           NEW ack \in BOOLEAN, Send(e, s, ack)
    PROVE  /\ seqno' \in 0 .. MaxSeqno /\ tapLog' \in Seq(Entries)
           /\ toConsumer' \in Seq(Messages) /\ flags' \in Flags
BY SentFacts DEF TapInv

\* What is in the log stays there, and what is sent comes in.
LEMMA SendHolds ==
    ASSUME TapInv, NEW e \in Events, NEW s, s = seqno \/ s = Increment(seqno),
           NEW ack \in BOOLEAN, Send(e, s, ack)
    PROVE  /\ \A i \in DOMAIN tapLog : i \in DOMAIN tapLog' /\ tapLog'[i].pos = tapLog[i].pos
           /\ \E i \in DOMAIN tapLog' : tapLog'[i].pos = e.pos
           /\ tapLog' = Append(tapLog, Sent(e, s)) /\ Sent(e, s) \in Entries
<1>1. /\ Sent(e, s) \in Entries /\ tapLog' = Append(tapLog, Sent(e, s))
      /\ tapLog \in Seq(Entries)
  BY SentFacts DEF TapInv, TypeOK
<1>2. /\ DOMAIN tapLog = 1 .. Len(tapLog) /\ DOMAIN tapLog' = 1 .. Len(tapLog) + 1
      /\ Len(tapLog) + 1 \in DOMAIN tapLog' /\ tapLog'[Len(tapLog) + 1] = Sent(e, s)
      /\ \A i \in 1 .. Len(tapLog) : i \in DOMAIN tapLog' /\ tapLog'[i] = tapLog[i]
  BY <1>1, AppendFacts
<1>3. Sent(e, s).pos = e.pos
  BY DEF Sent
<1> QED  BY <1>1, <1>2, <1>3

\* When the walk may send, the stream is connected and its window open.
LEMMA MaySendFacts ==
    ASSUME TapInv, MaySend
    PROVE  Streams /\ Distance <= AckWindow /\ walk = "ready"
<1>1. Distance \in Nat
  BY Constants DEF TapInv, TypeOK, Distance
<1> QED  BY <1>1, Constants DEF MaySend, Walking, Streams, WindowIsFull

LEMMA ItemFacts ==
    ASSUME NEW p \in Positions
    PROVE  /\ ItemEvent(p) \in Events /\ EventFits(ItemEvent(p))
           /\ ItemEvent(p).ev = Stream[p].op /\ ItemEvent(p).pos = p
           /\ Stream[p].op \in {"start", "end", "set"} /\ Stream[p].id \in Nat
<1>1. Stream[p] \in [op : {"start", "end", "set"}, id : Nat]
  BY StreamAssumption, ElementOfSeq DEF Positions
<1>2. p \in 0 .. Len(Stream)
  BY StreamAssumption DEF Positions
<1> QED  BY <1>1, <1>2 DEF ItemEvent, Events, EventNames, EventFits

LEMMA WalksHighPriority == ASSUME TapInv, WalkHighPriority PROVE TapInv'
<1> DEFINE e == Head(high)
           s == Increment(seqno)
<1>1. /\ MaySend /\ high # <<>> /\ Send(e, s, TRUE) /\ high' = Tail(high)
      /\ UNCHANGED <<avail, source, seqnoReceived, low, queue, ckptMsgs, ckptCounter, cursor,
                     ckpt, walk, link, toProducer, replica, refusals, reconnects>>
  BY DEF WalkHighPriority
<1>2. Streams /\ Distance <= AckWindow /\ walk = "ready" /\ link = "up"
  BY <1>1, MaySendFacts DEF Streams
<1>3. /\ high \in Seq(Events) /\ e = high[1] /\ 1 \in DOMAIN high /\ e \in Events
      /\ Tail(high) \in Seq(Events) /\ DOMAIN Tail(high) = 1 .. Len(high) - 1
      /\ DOMAIN high = 1 .. Len(high)
      /\ \A i \in 1 .. Len(high) - 1 : i + 1 \in 1 .. Len(high) /\ Tail(high)[i] = high[i + 1]
  BY <1>1, TailFacts DEF TapInv, TypeOK
<1>4. e \in {Event(n) : n \in OpaqueEvents \cup {"pending"}}
  BY <1>3 DEF TapInv, QueuesFit
<1>5. /\ EventFits(e) /\ e.ev \notin CkptEvents /\ e.ev # "active" /\ e.ev # "set"
  BY <1>4 DEF EventFits, Event, CkptEvents, OpaqueEvents, VBucketEvents
<1> HIDE DEF e, s
<1>6. s = Increment(seqno)
  BY DEF s
<1>7. Books' /\ LogIsBounded' /\ LogFits' /\ DeadBeforeActive'
  BY <1>1, <1>2, <1>3, <1>5, <1>6, SendStep
<1>8. TypeOK'
  <2>1. /\ seqno' \in 0 .. MaxSeqno /\ tapLog' \in Seq(Entries)
        /\ toConsumer' \in Seq(Messages) /\ flags' \in Flags
    BY <1>1, <1>3, <1>6, SendTypes
  <2> QED  BY <1>1, <1>3, <2>1 DEF TapInv, TypeOK
<1>9. HeldStays
  <2>1. \A i \in DOMAIN tapLog : i \in DOMAIN tapLog' /\ tapLog'[i].pos = tapLog[i].pos
    BY <1>1, <1>3, <1>6, SendHolds
  <2> QED  BY <1>1, <2>1 DEF HeldStays, Held
<1>10. CounterExact'
  <2>1. tapLog' = Append(tapLog, Sent(e, s)) /\ Sent(e, s) \in Entries
    BY <1>1, <1>3, <1>6, SendHolds
  <2>2. Sent(e, s).ev \notin CkptEvents
    BY <1>5 DEF Sent
  <2>3. ckptCounter' = ckptCounter + (IF Sent(e, s).ev \in CkptEvents THEN 1 ELSE 0)
    BY <1>1, <2>2 DEF TapInv, TypeOK
  <2> QED  BY <2>1, <2>3, SentCounter DEF TapInv
<1>11. NackFirst'
  <2>1. e = Head(high)
    BY DEF e
  <2> QED  BY <1>1, <1>3, <1>5, <1>6, <2>1, SentNack DEF TapInv
<1>12. QueuesFit'
  <2>1. \A i \in DOMAIN high' : high'[i] \in {Event(n) : n \in OpaqueEvents \cup {"pending"}}
    BY <1>1, <1>3 DEF TapInv, QueuesFit
  <2> QED  BY <1>1, <1>2, <1>7, <2>1 DEF TapInv, QueuesFit, LogFits
<1>13. MarksCovered'
  <2>1. MarksCovered /\ TypeOK
    BY DEF TapInv
  <2>2. Covered(cursor.pos + 1)'
    BY <1>1, <1>9, <2>1, SameCursor
  <2>3. \A i \in DOMAIN ckptMsgs' : Covered(ckptMsgs'[i])
    BY <1>1, <2>1 DEF MarksCovered
  <2> QED  BY <1>1, <1>3, <1>5, <1>6, <1>9, <2>1, <2>2, <2>3, SentMarks
<1> QED  BY <1>7, <1>8, <1>10, <1>11, <1>12, <1>13 DEF TapInv, Books

LEMMA WalksCheckpointMsg == ASSUME TapInv, WalkCheckpointMsg PROVE TapInv'
<1> DEFINE p == Head(ckptMsgs)
           e == ItemEvent(p)
<1>1. /\ MaySend /\ high = <<>> /\ ckptMsgs # <<>> /\ Send(e, seqno, TRUE)
      /\ ckptMsgs' = Tail(ckptMsgs) /\ ckptCounter' = ckptCounter + 1
      /\ UNCHANGED <<avail, source, seqnoReceived, high, low, queue, cursor, ckpt, walk, link,
                     toProducer, replica, refusals, reconnects>>
  BY DEF WalkCheckpointMsg
<1>2. Streams /\ Distance <= AckWindow /\ walk = "ready" /\ link = "up"
  BY <1>1, MaySendFacts DEF Streams
<1>3. /\ ckptMsgs \in Seq(Positions) /\ p = ckptMsgs[1] /\ 1 \in DOMAIN ckptMsgs /\ p \in Positions
      /\ Tail(ckptMsgs) \in Seq(Positions) /\ DOMAIN Tail(ckptMsgs) = 1 .. Len(ckptMsgs) - 1
      /\ DOMAIN ckptMsgs = 1 .. Len(ckptMsgs)
      /\ \A i \in 1 .. Len(ckptMsgs) - 1 :
            i + 1 \in 1 .. Len(ckptMsgs) /\ Tail(ckptMsgs)[i] = ckptMsgs[i + 1]
  BY <1>1, TailFacts DEF TapInv, TypeOK
<1>4. Stream[p].op \in CkptEvents /\ Covered(p)
  BY <1>3 DEF TapInv, QueuesFit, MarksCovered, CkptEvents
<1>5. e \in Events /\ EventFits(e) /\ e.ev \in CkptEvents /\ e.pos = p
  BY <1>3, <1>4, ItemFacts
<1>6. e.ev # "active" /\ e.ev # "set"
  BY <1>5 DEF CkptEvents
<1> HIDE DEF e, p
<1>7. Books' /\ LogIsBounded' /\ LogFits' /\ DeadBeforeActive'
  BY <1>1, <1>2, <1>5, <1>6, SendStep
<1>8. TypeOK'
  <2>1. /\ seqno' \in 0 .. MaxSeqno /\ tapLog' \in Seq(Entries)
        /\ toConsumer' \in Seq(Messages) /\ flags' \in Flags
    BY <1>1, <1>5, SendTypes
  <2> QED  BY <1>1, <1>3, <2>1 DEF TapInv, TypeOK
<1>9. HeldStays
  <2>1. \A i \in DOMAIN tapLog : i \in DOMAIN tapLog' /\ tapLog'[i].pos = tapLog[i].pos
    BY <1>1, <1>5, SendHolds
  <2> QED  BY <1>1, <2>1 DEF HeldStays, Held
<1>10. CounterExact'
  <2>1. tapLog' = Append(tapLog, Sent(e, seqno)) /\ Sent(e, seqno) \in Entries
    BY <1>1, <1>5, SendHolds
  <2>2. Sent(e, seqno).ev \in CkptEvents
    BY <1>5 DEF Sent
  <2>3. ckptCounter' = ckptCounter + (IF Sent(e, seqno).ev \in CkptEvents THEN 1 ELSE 0)
    BY <1>1, <2>2
  <2> QED  BY <2>1, <2>3, SentCounter DEF TapInv
<1>11. NackFirst'
  BY <1>1, <1>5, SentNack DEF TapInv
<1>12. QueuesFit'
  <2>1. \A i \in DOMAIN ckptMsgs' : Stream[ckptMsgs'[i]].op \in {"start", "end"}
    BY <1>1, <1>3 DEF TapInv, QueuesFit
  <2> QED  BY <1>1, <1>2, <1>7, <2>1 DEF TapInv, QueuesFit, LogFits
<1>13. MarksCovered'
  <2>1. MarksCovered /\ TypeOK
    BY DEF TapInv
  <2>2. Covered(cursor.pos + 1)'
    BY <1>1, <1>9, <2>1, SameCursor
  <2>3. \A i \in DOMAIN ckptMsgs' : Covered(ckptMsgs'[i])
    BY <1>1, <1>3, <2>1 DEF MarksCovered
  <2> QED  BY <1>1, <1>4, <1>5, <1>9, <2>1, <2>2, <2>3, SentMarks
<1> QED  BY <1>7, <1>8, <1>10, <1>11, <1>12, <1>13 DEF TapInv, Books

LEMMA WalksQueue == ASSUME TapInv, WalkQueue PROVE TapInv'
<1> DEFINE p == Head(queue)
           e == ItemEvent(p)
           ack == AsksForAck(seqno, ckpt.lastItem, Tail(queue) = <<>> /\ cursor.pos = avail)
<1>1. /\ MaySend /\ high = <<>> /\ queue # <<>> /\ Send(e, seqno, ack)
      /\ queue' = Tail(queue) /\ ckpt' = [ckpt EXCEPT !.lastSeqNum = seqno]
      /\ UNCHANGED <<avail, source, seqnoReceived, high, low, ckptMsgs, ckptCounter, cursor,
                     walk, link, toProducer, replica, refusals, reconnects>>
  BY DEF WalkQueue, MayTakeItem
<1>2. Streams /\ Distance <= AckWindow /\ walk = "ready" /\ link = "up"
  BY <1>1, MaySendFacts DEF Streams
<1>3. /\ queue \in Seq(Positions) /\ p = queue[1] /\ 1 \in DOMAIN queue /\ p \in Positions
      /\ Tail(queue) \in Seq(Positions) /\ DOMAIN Tail(queue) = 1 .. Len(queue) - 1
      /\ DOMAIN queue = 1 .. Len(queue)
      /\ \A i \in 1 .. Len(queue) - 1 : i + 1 \in 1 .. Len(queue) /\ Tail(queue)[i] = queue[i + 1]
      /\ \A i \in 1 .. Len(queue) : i # 1 => i - 1 \in 1 .. Len(queue) - 1 /\ Tail(queue)[i - 1] = queue[i]
  BY <1>1, TailFacts DEF TapInv, TypeOK
<1>4. Stream[p].op = "set"
  BY <1>3 DEF TapInv, QueuesFit
<1>5. e \in Events /\ EventFits(e) /\ e.ev = "set" /\ e.pos = p
  BY <1>3, <1>4, ItemFacts
<1>6. ack \in BOOLEAN /\ ckpt' \in CheckpointStates
  <2>1. ack \in BOOLEAN
    BY DEF AsksForAck, TapInv, TypeOK, CheckpointStates
  <2>2. ckpt' \in CheckpointStates
    BY <1>1 DEF TapInv, TypeOK, CheckpointStates
  <2> QED  BY <2>1, <2>2
<1> HIDE DEF e, p, ack
<1>7. Books' /\ LogIsBounded' /\ LogFits' /\ DeadBeforeActive'
  BY <1>1, <1>2, <1>5, <1>6, SendStep DEF CkptEvents
<1>8. TypeOK'
  <2>1. /\ seqno' \in 0 .. MaxSeqno /\ tapLog' \in Seq(Entries)
        /\ toConsumer' \in Seq(Messages) /\ flags' \in Flags
    BY <1>1, <1>5, <1>6, SendTypes
  <2> QED  BY <1>1, <1>3, <1>6, <2>1 DEF TapInv, TypeOK
<1>9. HeldStays
  <2>1. /\ \A i \in DOMAIN tapLog : i \in DOMAIN tapLog' /\ tapLog'[i].pos = tapLog[i].pos
        /\ \E i \in DOMAIN tapLog' : tapLog'[i].pos = p
    BY <1>1, <1>5, <1>6, SendHolds
  <2>2. \A i \in DOMAIN queue : \/ queue[i] = p
                                \/ i - 1 \in DOMAIN queue' /\ queue'[i - 1] = queue[i]
    BY <1>1, <1>3
  <2> QED  BY <1>1, <2>1, <2>2 DEF HeldStays, Held
<1>10. CounterExact'
  <2>1. tapLog' = Append(tapLog, Sent(e, seqno)) /\ Sent(e, seqno) \in Entries
    BY <1>1, <1>5, <1>6, SendHolds
  <2>2. Sent(e, seqno).ev \notin CkptEvents
    BY <1>5 DEF Sent, CkptEvents
  <2>3. ckptCounter' = ckptCounter + (IF Sent(e, seqno).ev \in CkptEvents THEN 1 ELSE 0)
    BY <1>1, <2>2 DEF TapInv, TypeOK
  <2> QED  BY <2>1, <2>3, SentCounter DEF TapInv
<1>11. NackFirst'
  BY <1>1, <1>5, <1>6, SentNack DEF TapInv
<1>12. QueuesFit'
  <2>1. \A i \in DOMAIN queue' : Stream[queue'[i]].op = "set"
    BY <1>1, <1>3 DEF TapInv, QueuesFit
  <2> QED  BY <1>1, <1>2, <1>7, <2>1 DEF TapInv, QueuesFit, LogFits
<1>13. MarksCovered'
  <2>1. MarksCovered /\ TypeOK
    BY DEF TapInv
  <2>2. Covered(cursor.pos + 1)'
    BY <1>1, <1>9, <2>1, SameCursor
  <2>3. \A i \in DOMAIN ckptMsgs' : Covered(ckptMsgs'[i])
    BY <1>1, <2>1 DEF MarksCovered
  <2>4. e.ev \notin CkptEvents
    BY <1>5 DEF CkptEvents
  <2> QED  BY <1>1, <1>5, <1>6, <1>9, <2>1, <2>2, <2>3, <2>4, SentMarks
<1> QED  BY <1>7, <1>8, <1>10, <1>11, <1>12, <1>13 DEF TapInv, Books

LEMMA WalksMutation == ASSUME TapInv, WalkMutation PROVE TapInv'
<1> DEFINE p == cursor.pos + 1
           e == ItemEvent(p)
           ack == AsksForAck(seqno, IsLast(p), p = avail)
<1>1. /\ MaySend /\ high = <<>> /\ queue = <<>> /\ Send(e, seqno, ack)
      /\ cursor.pos < avail /\ Stream[p].op = "set"
      /\ cursor' = Advance
      /\ ckpt' = [ckpt EXCEPT !.lastItem = IsLast(p), !.lastSeqNum = seqno]
      /\ UNCHANGED <<avail, source, seqnoReceived, high, low, queue, ckptMsgs, ckptCounter,
                     walk, link, toProducer, replica, refusals, reconnects>>
  BY DEF WalkMutation, Reads, MayTakeItem
<1>2. Streams /\ Distance <= AckWindow /\ walk = "ready" /\ link = "up"
  BY <1>1, MaySendFacts DEF Streams
<1>3. p \in Positions /\ p \in 0 .. Len(Stream) /\ p - 1 = cursor.pos
  <2>1. cursor.pos \in 0 .. Len(Stream) /\ avail \in 0 .. Len(Stream) /\ Len(Stream) \in Nat
    BY StreamAssumption DEF TapInv, TypeOK
  <2> QED  BY <1>1, <2>1 DEF Positions
<1>4. e \in Events /\ EventFits(e) /\ e.ev = "set" /\ e.pos = p /\ Stream[p].id \in Nat
  BY <1>1, <1>3, ItemFacts
<1>5. cursor' \in [pos : 0 .. Len(Stream), id : Nat] /\ cursor'.pos = p
  BY <1>1, <1>3, <1>4 DEF Advance
<1>6. ack \in BOOLEAN /\ ckpt' \in CheckpointStates
  <2>1. ack \in BOOLEAN
    BY DEF AsksForAck, IsLast
  <2>2. IsLast(p) \in BOOLEAN
    BY DEF IsLast
  <2>3. ckpt' \in CheckpointStates
    <3> DEFINE b == IsLast(p)
    <3>1. ckpt' = [ckpt EXCEPT !.lastItem = b, !.lastSeqNum = seqno] /\ b \in BOOLEAN
      BY <1>1, <2>2
    <3> HIDE DEF b
    <3> QED  BY <3>1 DEF TapInv, TypeOK, CheckpointStates
  <2> QED  BY <2>1, <2>3
<1> HIDE DEF e, p, ack
<1>7. Books' /\ LogIsBounded' /\ LogFits' /\ DeadBeforeActive'
  BY <1>1, <1>2, <1>4, <1>6, SendStep DEF CkptEvents
<1>8. TypeOK'
  <2>1. /\ seqno' \in 0 .. MaxSeqno /\ tapLog' \in Seq(Entries)
        /\ toConsumer' \in Seq(Messages) /\ flags' \in Flags
    BY <1>1, <1>4, <1>6, SendTypes
  <2> QED  BY <1>1, <1>5, <1>6, <2>1 DEF TapInv, TypeOK
<1>9. HeldStays /\ \E i \in DOMAIN tapLog' : tapLog'[i].pos = p
  <2>1. /\ \A i \in DOMAIN tapLog : i \in DOMAIN tapLog' /\ tapLog'[i].pos = tapLog[i].pos
        /\ \E i \in DOMAIN tapLog' : tapLog'[i].pos = p
    BY <1>1, <1>4, <1>6, SendHolds
  <2>2. HeldStays
    BY <1>1, <2>1 DEF HeldStays, Held
  <2> QED  BY <2>1, <2>2
<1>10. CounterExact'
  <2>1. tapLog' = Append(tapLog, Sent(e, seqno)) /\ Sent(e, seqno) \in Entries
    BY <1>1, <1>4, <1>6, SendHolds
  <2>2. Sent(e, seqno).ev \notin CkptEvents
    BY <1>4 DEF Sent, CkptEvents
  <2>3. ckptCounter' = ckptCounter + (IF Sent(e, seqno).ev \in CkptEvents THEN 1 ELSE 0)
    BY <1>1, <2>2 DEF TapInv, TypeOK
  <2> QED  BY <2>1, <2>3, SentCounter DEF TapInv
<1>11. NackFirst'
  BY <1>1, <1>4, <1>6, SentNack DEF TapInv
<1>12. QueuesFit'
  BY <1>1, <1>2, <1>7 DEF TapInv, QueuesFit, LogFits
<1>13. MarksCovered'
  <2>1. MarksCovered /\ TypeOK
    BY DEF TapInv
  <2>2. Covered(cursor.pos + 1)'
    <3>1. \A q \in Mutations : q < cursor'.pos + 1 => q < p \/ q = p
      BY <1>3, <1>5 DEF Mutations, Positions
    <3>2. \A q \in Mutations : q < p => Held(q)'
      BY <1>9, <2>1 DEF HeldStays, MarksCovered, Covered, p
    <3>3. \A q \in Mutations : q = p => Held(q)'
      BY <1>9 DEF Held
    <3>4. \A q \in Mutations : q < cursor'.pos + 1 => Held(q)'
      BY <3>1, <3>2, <3>3
    <3> QED  BY <3>4 DEF Covered
  <2>3. \A i \in DOMAIN ckptMsgs' : Covered(ckptMsgs'[i])
    BY <1>1, <2>1 DEF MarksCovered
  <2>4. e.ev \notin CkptEvents
    BY <1>4 DEF CkptEvents
  <2> QED  BY <1>1, <1>4, <1>6, <1>9, <2>1, <2>2, <2>3, <2>4, SentMarks
<1> QED  BY <1>7, <1>8, <1>10, <1>11, <1>12, <1>13 DEF TapInv, Books

LEMMA TakesOver == ASSUME TapInv, TakeoverActive PROVE TapInv'
<1>1. /\ walk = "takeover" /\ low # <<>> /\ walk' = "ready"
      /\ source' \in {source, "dead"}
      /\ UNCHANGED <<avail, seqnoReceived, high, queue, ckptMsgs, ckptCounter, cursor, ckpt,
                     link, toProducer, replica, refusals, reconnects>>
  BY DEF TakeoverActive
<1>2. link = "up" /\ high = <<>> /\ Distance <= AckWindow /\ source' \in {"active", "dead"}
  BY <1>1 DEF TapInv, QueuesFit, TypeOK
<1>3. /\ low \in Seq(Events) /\ Head(low) = low[1] /\ Head(low) \in Events
      /\ Tail(low) \in Seq(Events) /\ DOMAIN Tail(low) = 1 .. Len(low) - 1
      /\ DOMAIN low = 1 .. Len(low) /\ Len(low) \in Nat /\ 1 \in DOMAIN low
      /\ Len(Tail(low)) = Len(low) - 1
      /\ \A i \in 1 .. Len(low) - 1 : i + 1 \in 1 .. Len(low) /\ Tail(low)[i] = low[i + 1]
  BY <1>1, TailFacts DEF TapInv, TypeOK
<1>4. Head(low) = Event("active") /\ \A i \in DOMAIN Tail(low) : Tail(low)[i] = Event("active")
  BY <1>3 DEF TapInv, QueuesFit
<1>5. tapLog \in Seq(Entries) /\ Len(tapLog) \in Nat /\ seqno \in 0 .. MaxSeqno /\ seqnoReceived \in 0 .. MaxSeqno
  BY DEF TapInv, TypeOK
<1>6. CASE LogSize > 1
  <2>1. /\ seqno' = Increment(seqno) /\ low' = Append(Tail(low), Event("active"))
        /\ UNCHANGED <<tapLog, toConsumer, flags>>
    <3>1. ~(LogSize <= 1)
      BY <1>5, <1>6 DEF LogSize
    <3> QED  BY <3>1 DEF TakeoverActive
  <2>2. tapLog # <<>> /\ Len(tapLog) >= 1
    BY <1>5, <1>6 DEF LogSize
  <2>3. seqno' \in 0 .. MaxSeqno
    BY <1>5, <2>1, SkipDistance
  <2>4. Event("active") \in Events
    BY StreamAssumption DEF Event, Events, EventNames, VBucketEvents
  <2>5. /\ low' \in Seq(Events)
        /\ \A i \in DOMAIN low' : low'[i] = Event("active")
    BY <1>3, <1>4, <2>1, <2>4, AppendFacts
  <2>6. TypeOK'
    BY <1>1, <1>2, <2>1, <2>3, <2>5 DEF TapInv, TypeOK
  <2>7. NumbersFit'
    <3>1. Distance = Bd(seqno, seqnoReceived) /\ Streams' = Streams
      BY <1>1, <2>1 DEF Distance, Bd, Streams
    <3>2. ~Skipped(tapLog, seqno, seqnoReceived, high)
      BY <2>2 DEF Skipped
    <3>3. Streams => Ordered(tapLog, seqno, seqnoReceived)
      BY <1>5, <3>2, NumbersAre DEF TapInv
    <3>4. Streams => Ordered(tapLog, seqno', seqnoReceived)
      BY <1>2, <1>5, <2>1, <3>1, <3>3, OrderedSkip
    <3> QED  BY <1>1, <1>5, <2>1, <2>3, <3>1, <3>4, NumbersAreNext
  <2>8. WireFits' /\ AnswersFit' /\ AnswersDue'
    BY <1>1, <2>1 DEF TapInv, WireFits, AnswersFit, AnswersDue, Streams, Handled
  <2>9. LogIsBounded' /\ CounterExact' /\ DeadBeforeActive' /\ NackFirst'
    BY <1>1, <2>1 DEF TapInv, LogIsBounded, CounterExact, DeadBeforeActive, NackFirst
  <2>10. QueuesFit'
    BY <1>1, <1>2, <2>1, <2>5 DEF TapInv, QueuesFit, EventFits
  <2>11. MarksCovered'
    BY <1>1, <2>1, SameMarks, SameCursor, SameHeld DEF TapInv, MarksCovered
  <2> QED  BY <2>6, <2>7, <2>8, <2>9, <2>10, <2>11 DEF TapInv
<1>7. CASE LogSize <= 1
  <2> DEFINE e == Head(low)
             s == Increment(seqno)
  <2>1. Send(e, s, TRUE) /\ low' = Tail(low)
    <3>1. ~(LogSize > 1)
      BY <1>5, <1>7 DEF LogSize
    <3> QED  BY <3>1 DEF TakeoverActive
  <2>2. tapLog = <<>>
    BY <1>5, <1>7 DEF LogSize
  <2>3. source' = "dead"
    BY <1>5, <1>7, Constants DEF TakeoverActive, GoesDead, LogSize
  <2>4. e \in Events /\ EventFits(e) /\ e.ev = "active"
    BY <1>3, <1>4 DEF Event, EventFits, VBucketEvents
  <2> HIDE DEF e, s
  <2>5. s = Increment(seqno)
    BY DEF s
  <2>6. e.ev \notin CkptEvents /\ e.ev # "set"
    BY <2>4 DEF CkptEvents
  <2>7. Books' /\ LogIsBounded' /\ LogFits' /\ DeadBeforeActive'
    BY <1>1, <1>2, <2>1, <2>2, <2>3, <2>4, <2>5, <2>6, SendStep
  <2>8. TypeOK'
    <3>1. /\ seqno' \in 0 .. MaxSeqno /\ tapLog' \in Seq(Entries)
          /\ toConsumer' \in Seq(Messages) /\ flags' \in Flags
      BY <2>1, <2>4, <2>5, SendTypes
    <3> QED  BY <1>1, <1>2, <1>3, <2>1, <3>1 DEF TapInv, TypeOK
  <2>9. HeldStays
    <3>1. \A i \in DOMAIN tapLog : i \in DOMAIN tapLog' /\ tapLog'[i].pos = tapLog[i].pos
      BY <2>1, <2>4, <2>5, SendHolds
    <3> QED  BY <1>1, <3>1 DEF HeldStays, Held
  <2>10. CounterExact'
    <3>1. tapLog' = Append(tapLog, Sent(e, s)) /\ Sent(e, s) \in Entries
      BY <2>1, <2>4, <2>5, SendHolds
    <3>2. Sent(e, s).ev \notin CkptEvents
      BY <2>6 DEF Sent
    <3>3. ckptCounter' = ckptCounter + (IF Sent(e, s).ev \in CkptEvents THEN 1 ELSE 0)
      BY <1>1, <3>2 DEF TapInv, TypeOK
    <3> QED  BY <3>1, <3>3, SentCounter DEF TapInv
  <2>11. NackFirst'
    BY <1>1, <1>2, <2>1, <2>4, <2>5, SentNack DEF TapInv
  <2>12. QueuesFit'
    <3>1. \A i \in DOMAIN low' : low'[i] = Event("active")
      BY <1>4, <2>1
    <3> QED  BY <1>1, <1>2, <2>7, <3>1 DEF TapInv, QueuesFit, LogFits
  <2>13. MarksCovered'
    <3>1. MarksCovered /\ TypeOK
      BY DEF TapInv
    <3>2. Covered(cursor.pos + 1)'
      BY <1>1, <2>9, <3>1, SameCursor
    <3>3. \A i \in DOMAIN ckptMsgs' : Covered(ckptMsgs'[i])
      BY <1>1, <3>1 DEF MarksCovered
    <3> QED  BY <1>1, <2>1, <2>4, <2>5, <2>6, <2>9, <3>1, <3>2, <3>3, SentMarks
  <2> QED  BY <2>7, <2>8, <2>10, <2>11, <2>12, <2>13 DEF TapInv, Books
<1>8. LogSize > 1 \/ LogSize <= 1
  BY <1>5 DEF LogSize
<1> QED  BY <1>6, <1>7, <1>8

-----------------------------------------------------------------------------
(* Acks *)

LEMMA CutFacts ==
    ASSUME NEW S, NEW log \in Seq(S), NEW i \in 0 .. Len(log)
    PROVE  LET new == SubSeq(log, i + 1, Len(log))
               n == Len(log) - i
           IN  /\ new \in Seq(S) /\ Len(new) = n /\ DOMAIN new = 1 .. n /\ n \in Nat
               /\ \A x \in 1 .. n : x + i \in 1 .. Len(log) /\ new[x] = log[x + i]
               /\ \A y \in 1 .. Len(log) : y > i => y - i \in 1 .. n /\ new[y - i] = log[y]
<1> DEFINE k == Len(log)
           new == SubSeq(log, i + 1, k)
           n == k - i
<1>1. k \in Nat /\ i \in 0 .. k /\ n \in Nat
  OBVIOUS
<1>2. new \in Seq(S) /\ Len(new) = n /\ DOMAIN new = 1 .. n
  BY <1>1
<1>3. \A x \in 1 .. n : x + i \in 1 .. k /\ new[x] = log[x + i]
  BY <1>1
<1>4. \A y \in 1 .. k : y > i => y - i \in 1 .. n /\ new[y - i] = log[y]
  <2> HIDE DEF new, k
  <2>1. \A y \in 1 .. k : y > i => y - i \in 1 .. n /\ (y - i) + i = y
    BY <1>1
  <2> QED  BY <1>3, <2>1
<1> QED  BY <1>1, <1>2, <1>3, <1>4

\* The message that an answer is about: it has been handled, what comes before it is done
\* with, and the other answers are about what comes after it.
AckedAt(i) ==
    /\ i \in 1 .. Handled /\ i \in 1 .. Len(tapLog)
    /\ tapLog[i].seqno = Head(toProducer).seqno
    /\ Head(toProducer).status # "success" => tapLog[i].ev = "set"
    /\ Head(toProducer).status = "success" /\ tapLog[i].ev = "set" =>
          tapLog[i].pos \in replica.applied
    /\ \A j \in 1 .. i - 1 : /\ tapLog[j].ev \notin CkptEvents
                             /\ tapLog[j].ev = "set" => tapLog[j].pos \in replica.applied

LEMMA LogDistinct ==
    ASSUME TapInv, Streams
    PROVE  \A i, j \in 1 .. Len(tapLog) : tapLog[i].seqno = tapLog[j].seqno => i = j
<1>1. /\ tapLog \in Seq(Entries) /\ seqno \in 0 .. MaxSeqno /\ seqnoReceived \in 0 .. MaxSeqno
  BY DEF TapInv, TypeOK
<1>2. \/ Ordered(tapLog, seqno, seqnoReceived)
      \/ Skipped(tapLog, seqno, seqnoReceived, high)
  BY <1>1, NumbersAre DEF TapInv
<1>3. CASE Ordered(tapLog, seqno, seqnoReceived)
  BY <1>1, <1>3, OrderedDistinct
<1>4. CASE Skipped(tapLog, seqno, seqnoReceived, high)
  <2>1. 1 .. Len(tapLog) = {}
    BY <1>4 DEF Skipped
  <2> QED  BY <2>1
<1> QED  BY <1>2, <1>3, <1>4

LEMMA AckIndex ==
    ASSUME TapInv, Streams, toProducer # <<>>
    PROVE  /\ AckedAt(LogIndex(Head(toProducer).seqno))
           /\ LogIndex(Head(toProducer).seqno) \in 1 .. Len(tapLog)
           /\ Len(tapLog) \in Nat
<1> DEFINE s == Head(toProducer).seqno
<1>1. /\ toProducer \in Seq(Answers) /\ 1 \in DOMAIN toProducer /\ Head(toProducer) = toProducer[1]
      /\ DOMAIN toProducer = 1 .. Len(toProducer)
      /\ \A k \in DOMAIN toProducer : k \in Nat /\ k >= 1
  BY BookTypes, TailFacts
<1>2. Len(tapLog) \in Nat /\ DOMAIN tapLog = 1 .. Len(tapLog) /\ Len(toConsumer) \in Nat
  BY BookTypes
<1>3. 1 .. Handled \subseteq 1 .. Len(tapLog) /\ Handled \in Int
  BY <1>2 DEF Handled
<1>4. PICK i \in 1 .. Handled :
         /\ tapLog[i].seqno = toProducer[1].seqno
         /\ toProducer[1].status # "success" => tapLog[i].ev = "set"
  BY <1>1 DEF TapInv, AnswersFit
<1>5. i \in 1 .. Len(tapLog) /\ tapLog[i].seqno = s
  BY <1>1, <1>3, <1>4
<1>6. LogIndex(s) = i
  <2>1. {j \in DOMAIN tapLog : tapLog[j].seqno = s} = {i}
    BY <1>2, <1>5, LogDistinct
  <2>2. (CHOOSE j \in {i} : \A l \in {i} : j <= l) = i
    BY <1>5
  <2> HIDE DEF s
  <2> QED  BY <2>1, <2>2 DEF LogIndex
\* Any other answer is about a later message.
<1>7. \A k \in DOMAIN toProducer : \A j \in 1 .. Handled :
         k # 1 /\ tapLog[j].seqno = toProducer[k].seqno => i < j
  <2>1. \A k \in DOMAIN toProducer : k # 1 => 1 < k
    BY <1>1
  <2> QED  BY <1>1, <1>4, <2>1 DEF TapInv, AnswersFit
\* A message that needs an answer and comes before has none.
<1>8. \A j \in 1 .. i - 1 : \A k \in DOMAIN toProducer : tapLog[j].seqno # toProducer[k].seqno
  <2> SUFFICES ASSUME NEW j \in 1 .. i - 1, NEW k \in DOMAIN toProducer,
                      tapLog[j].seqno = toProducer[k].seqno
               PROVE  FALSE
    OBVIOUS
  <2>1. j \in 1 .. Handled /\ j \in 1 .. Len(tapLog) /\ j < i
    BY <1>3, <1>4, <1>5
  <2>2. CASE k = 1
    BY <1>5, <1>4, <2>1, <2>2, LogDistinct
  <2>3. CASE k # 1
    BY <1>4, <1>7, <2>1, <2>3
  <2> QED  BY <2>2, <2>3
<1>9. \A j \in 1 .. i - 1 : j \in 1 .. Handled
  BY <1>3, <1>4
<1>10. \A j \in 1 .. i - 1 : /\ tapLog[j].ev \notin CkptEvents
                             /\ tapLog[j].ev = "set" => tapLog[j].pos \in replica.applied
  BY <1>8, <1>9 DEF TapInv, AnswersDue, CkptEvents
<1>11. Head(toProducer).status = "success" /\ tapLog[i].ev = "set" =>
          tapLog[i].pos \in replica.applied
  <2> SUFFICES ASSUME toProducer[1].status = "success", tapLog[i].ev = "set",
                      tapLog[i].pos \notin replica.applied
               PROVE  FALSE
    BY <1>1
  <2>1. PICK k \in DOMAIN toProducer : /\ toProducer[k].seqno = tapLog[i].seqno
                                       /\ toProducer[k].status # "success"
    BY <1>4 DEF TapInv, AnswersDue
  <2>2. k # 1
    BY <2>1
  <2> QED  BY <1>4, <1>7, <2>1, <2>2
<1> QED  BY <1>1, <1>2, <1>4, <1>5, <1>6, <1>10, <1>11 DEF AckedAt

\* What an ack does to the books: the message and what comes before it leave the log.
LEMMA CutBooks ==
    ASSUME TapInv, Streams, toProducer # <<>>, NEW i, AckedAt(i),
           tapLog' = LogAfter(i), toProducer' = Tail(toProducer),
           seqnoReceived' = Head(toProducer).seqno,
           UNCHANGED <<seqno, toConsumer, replica>>
    PROVE  Books'
<1> DEFINE n == Len(tapLog) - i
           m == Len(toConsumer)
<1>1. /\ toProducer \in Seq(Answers) /\ 1 \in DOMAIN toProducer /\ Head(toProducer) = toProducer[1]
      /\ Head(toProducer) \in Answers
      /\ DOMAIN toProducer = 1 .. Len(toProducer) /\ Len(toProducer) \in Nat
      /\ DOMAIN toProducer' = 1 .. Len(toProducer) - 1
      /\ \A k \in 1 .. Len(toProducer) - 1 :
            k + 1 \in 1 .. Len(toProducer) /\ toProducer'[k] = toProducer[k + 1]
      /\ \A k \in 1 .. Len(toProducer) : k # 1 =>
            k - 1 \in 1 .. Len(toProducer) - 1 /\ toProducer'[k - 1] = toProducer[k]
  BY BookTypes, TailFacts
<1>2. /\ Len(tapLog) \in Nat /\ DOMAIN tapLog = 1 .. Len(tapLog) /\ m \in Nat
      /\ i \in 1 .. Len(tapLog) /\ i \in 0 .. Len(tapLog) /\ i \in 1 .. Handled /\ tapLog \in Seq(Entries)
      /\ tapLog[i].seqno = toProducer[1].seqno
  <2>1. i \in 1 .. Len(tapLog) /\ i \in 1 .. Handled /\ tapLog[i].seqno = toProducer[1].seqno
    BY <1>1, SMTT(30) DEF AckedAt
  <2> QED  BY <2>1, BookTypes
<1>3. /\ tapLog' \in Seq(Entries) /\ Len(tapLog') = n /\ DOMAIN tapLog' = 1 .. n /\ n \in Nat
      /\ \A x \in 1 .. n : x + i \in 1 .. Len(tapLog) /\ tapLog'[x] = tapLog[x + i]
      /\ \A y \in 1 .. Len(tapLog) : y > i => y - i \in 1 .. n /\ tapLog'[y - i] = tapLog[y]
  BY <1>2, CutFacts DEF LogAfter
<1>4. /\ Handled \in Nat /\ Handled <= Len(tapLog) /\ Handled' = Handled - i /\ Handled' \in Nat
      /\ Handled = Len(tapLog) - m
  BY <1>2, <1>3 DEF Handled, TapInv, WireFits
<1>5. /\ \A x \in 1 .. Handled' : x + i \in 1 .. Handled /\ tapLog'[x] = tapLog[x + i]
      /\ \A y \in 1 .. Handled : y > i => y - i \in 1 .. Handled' /\ tapLog'[y - i] = tapLog[y]
  <2> DEFINE h == Handled
             g == Handled'
             l == Len(tapLog)
  <2>1. /\ h \in Nat /\ g \in Nat /\ l \in Nat /\ i \in Nat /\ i <= h
        /\ g = h - i /\ h <= l /\ n = l - i
    BY <1>2, <1>4
  <2>2. /\ \A x \in 1 .. n : tapLog'[x] = tapLog[x + i]
        /\ \A y \in 1 .. l : y > i => tapLog'[y - i] = tapLog[y]
    BY <1>3
  <2> HIDE DEF h, g, l, n
  <2>3. \A x \in 1 .. g : x + i \in 1 .. h /\ x \in 1 .. n
    BY <2>1
  <2>4. \A y \in 1 .. h : y > i => y - i \in 1 .. g /\ y \in 1 .. l
    BY <2>1
  <2> QED  BY <2>2, <2>3, <2>4 DEF h, g
<1>6. NumbersFit'
  <2>1. seqno \in 0 .. MaxSeqno /\ seqnoReceived \in 0 .. MaxSeqno /\ seqnoReceived' \in 0 .. MaxSeqno
    BY <1>1 DEF TapInv, TypeOK, Answers
  <2>2. ~Skipped(tapLog, seqno, seqnoReceived, high)
    BY <1>2 DEF Skipped
  <2>3. Ordered(tapLog, seqno, seqnoReceived)
    BY <1>2, <2>1, <2>2, NumbersAre DEF TapInv
  <2>4. Ordered(LogAfter(i), seqno, tapLog[i].seqno)
    <3>1. i \in 1 .. Len(tapLog) /\ tapLog \in Seq(Entries)
      BY <1>2
    <3> QED  BY <2>1, <2>3, <3>1, OrderedCut DEF LogAfter
  <2>5. Ordered(tapLog', seqno, seqnoReceived')
    BY <1>1, <1>2, <2>4
  <2> QED  BY <1>3, <2>1, <2>5, NumbersAreNext
<1> HIDE DEF n, m
<1>7. WireFits'
  <2>1. ASSUME NEW j \in DOMAIN toConsumer
        PROVE  LET w == toConsumer[j]
                   e == tapLog'[Handled' + j]
               IN  /\ w.seqno = e.seqno /\ w.ev = e.ev /\ w.pos = e.pos
                   /\ w.ev \in {"start", "end"} => w.ack
    <3>1. DOMAIN toConsumer = 1 .. m
      BY DEF TapInv, TypeOK, m
    <3>2. Handled + j \in 1 .. Len(tapLog) /\ Handled + j > i /\ (Handled + j) - i = Handled' + j
      BY <1>2, <1>4, <3>1
    <3>3. tapLog'[Handled' + j] = tapLog[Handled + j]
      BY <1>3, <3>2
    <3> QED  BY <3>3 DEF TapInv, WireFits
  <2> QED  BY <1>4, <2>1 DEF WireFits
\* The other answers are about later messages.
<1>8. \A k \in 1 .. Len(toProducer) : \A j \in 1 .. Handled :
         k # 1 /\ tapLog[j].seqno = toProducer[k].seqno => i < j
  <2>1. \A k \in 1 .. Len(toProducer) : k # 1 => 1 < k
    BY <1>1
  <2> QED  BY <1>1, <1>2, <2>1 DEF TapInv, AnswersFit
<1>9. AnswersFit'
  <2>1. ASSUME NEW k \in 1 .. Len(toProducer) - 1
        PROVE  \E x \in 1 .. Handled' :
                  /\ tapLog'[x].seqno = toProducer'[k].seqno
                  /\ toProducer'[k].status # "success" => tapLog'[x].ev = "set"
    <3>1. k + 1 \in 1 .. Len(toProducer) /\ k + 1 # 1 /\ toProducer'[k] = toProducer[k + 1]
      BY <1>1
    <3>2. PICK j \in 1 .. Handled :
             /\ tapLog[j].seqno = toProducer[k + 1].seqno
             /\ toProducer[k + 1].status # "success" => tapLog[j].ev = "set"
      BY <1>1, <3>1 DEF TapInv, AnswersFit
    <3>3. j > i
      BY <1>2, <1>4, <1>8, <3>1, <3>2
    <3>4. j - i \in 1 .. Handled' /\ tapLog'[j - i] = tapLog[j]
      BY <1>5, <3>3
    <3> QED  BY <3>1, <3>2, <3>4
  <2>2. ASSUME NEW k \in 1 .. Len(toProducer) - 1, NEW l \in 1 .. Len(toProducer) - 1,
               NEW x \in 1 .. Handled', NEW y \in 1 .. Handled', k < l,
               tapLog'[x].seqno = toProducer'[k].seqno, tapLog'[y].seqno = toProducer'[l].seqno
        PROVE  x < y
    <3>1. /\ k + 1 \in 1 .. Len(toProducer) /\ toProducer'[k] = toProducer[k + 1]
          /\ l + 1 \in 1 .. Len(toProducer) /\ toProducer'[l] = toProducer[l + 1]
          /\ k + 1 < l + 1
      BY <1>1, <2>2
    <3>2. /\ x + i \in 1 .. Handled /\ tapLog'[x] = tapLog[x + i]
          /\ y + i \in 1 .. Handled /\ tapLog'[y] = tapLog[y + i]
      BY <1>5
    <3>3. tapLog[x + i].seqno = toProducer[k + 1].seqno /\ tapLog[y + i].seqno = toProducer[l + 1].seqno
      BY <2>2, <3>1, <3>2
    <3>4. \A b, c \in 1 .. Len(toProducer) : \A u, v \in 1 .. Handled :
             b < c /\ tapLog[u].seqno = toProducer[b].seqno /\ tapLog[v].seqno = toProducer[c].seqno
               => u < v
      BY <1>1 DEF TapInv, AnswersFit
    <3>5. x + i < y + i
      <4> DEFINE u == x + i
                 v == y + i
                 b == k + 1
                 c == l + 1
      <4>1. /\ b \in 1 .. Len(toProducer) /\ c \in 1 .. Len(toProducer) /\ b < c
            /\ u \in 1 .. Handled /\ v \in 1 .. Handled
            /\ tapLog[u].seqno = toProducer[b].seqno /\ tapLog[v].seqno = toProducer[c].seqno
        BY <3>1, <3>2, <3>3
      <4> HIDE DEF u, v, b, c
      <4>2. u < v
        BY <3>4, <4>1
      <4> QED  BY <4>2 DEF u, v
    <3> QED  BY <1>2, <1>4, <3>5
  <2> QED  BY <1>1, <2>1, <2>2 DEF AnswersFit
<1>10. AnswersDue'
  \* The answer to a later message is among the other answers.
  <2>1. ASSUME NEW x \in 1 .. Handled', NEW k \in DOMAIN toProducer,
               toProducer[k].seqno = tapLog[x + i].seqno
        PROVE  k - 1 \in DOMAIN toProducer' /\ toProducer'[k - 1] = toProducer[k]
    <3>1. x + i \in 1 .. Len(tapLog) /\ x + i # i
      BY <1>2, <1>3, <1>4
    <3>2. k # 1
      BY <1>2, <2>1, <3>1, LogDistinct
    <3> QED  BY <1>1, <3>2
  <2>2. ASSUME NEW x \in 1 .. Handled'
        PROVE  LET e == tapLog'[x]
               IN  /\ e.ev \in {"start", "end"} =>
                         \E k \in DOMAIN toProducer' : toProducer'[k].seqno = e.seqno
                   /\ e.ev = "set" /\ e.pos \notin replica.applied =>
                         \E k \in DOMAIN toProducer' : /\ toProducer'[k].seqno = e.seqno
                                                       /\ toProducer'[k].status # "success"
    <3>1. x + i \in 1 .. Handled /\ tapLog'[x] = tapLog[x + i]
      BY <1>5
    <3>2. ASSUME tapLog[x + i].ev \in {"start", "end"}
          PROVE  \E k \in DOMAIN toProducer' : toProducer'[k].seqno = tapLog[x + i].seqno
      <4>1. PICK k \in DOMAIN toProducer : toProducer[k].seqno = tapLog[x + i].seqno
        BY <3>1, <3>2 DEF TapInv, AnswersDue
      <4> QED  BY <2>1, <4>1
    <3>3. ASSUME tapLog[x + i].ev = "set", tapLog[x + i].pos \notin replica.applied
          PROVE  \E k \in DOMAIN toProducer' : /\ toProducer'[k].seqno = tapLog[x + i].seqno
                                               /\ toProducer'[k].status # "success"
      <4>1. PICK k \in DOMAIN toProducer : /\ toProducer[k].seqno = tapLog[x + i].seqno
                                           /\ toProducer[k].status # "success"
        BY <3>1, <3>3 DEF TapInv, AnswersDue
      <4> QED  BY <2>1, <4>1
    <3> QED  BY <3>1, <3>2, <3>3
  <2> QED  BY <2>2 DEF AnswersDue
<1> QED  BY <1>6, <1>7, <1>9, <1>10 DEF Books

LEMMA AckTypes ==
    ASSUME TypeOK, NEW s, NEW a \in BOOLEAN, NEW b \in BOOLEAN
    PROVE  /\ AckedCheckpoint(s) \in CheckpointStates
           /\ [AckedCheckpoint(s) EXCEPT !.state = "checkpoint_end_synced"] \in CheckpointStates
           /\ [ckpt EXCEPT !.lastSeqNum = MaxSeqno] \in CheckpointStates
           /\ AckedFlags(s) \in Flags
           /\ [AckedFlags(s) EXCEPT !.lastAckOk = a, !.disconnect = b] \in Flags
           /\ [AckedFlags(s) EXCEPT !.suspended = TRUE] \in Flags
           /\ [AckedFlags(s) EXCEPT !.disconnect = TRUE] \in Flags
           /\ [AckedFlags(s) EXCEPT !.disconnect = TRUE].disconnect
<1>1. ckpt \in CheckpointStates /\ flags \in Flags
  BY DEF TypeOK
<1>2. AckedCheckpoint(s) \in CheckpointStates
  BY <1>1, Constants DEF AckedCheckpoint, CheckpointStates
<1>3. /\ [AckedCheckpoint(s) EXCEPT !.state = "checkpoint_end_synced"] \in CheckpointStates
      /\ [ckpt EXCEPT !.lastSeqNum = MaxSeqno] \in CheckpointStates
  BY <1>1, <1>2, Constants DEF CheckpointStates
<1>4. AckedFlags(s) \in Flags
  <2> DEFINE r == flags.rotated /\ ~Wrapped(s)
  <2>1. AckedFlags(s) = [flags EXCEPT !.rotated = r, !.lastAckOk = FALSE] /\ r \in BOOLEAN
    BY DEF AckedFlags
  <2> HIDE DEF r
  <2> QED  BY <1>1, <2>1 DEF Flags
<1>5. /\ [AckedFlags(s) EXCEPT !.lastAckOk = a, !.disconnect = b] \in Flags
      /\ [AckedFlags(s) EXCEPT !.suspended = TRUE] \in Flags
      /\ [AckedFlags(s) EXCEPT !.disconnect = TRUE] \in Flags
      /\ [AckedFlags(s) EXCEPT !.disconnect = TRUE].disconnect
  BY <1>4 DEF Flags
<1> QED  BY <1>2, <1>3, <1>4, <1>5

\* What stays in the log does so as it is.
LEMMA CutKeeps ==
    ASSUME TapInv, NEW i \in 0 .. Len(tapLog), tapLog' = LogAfter(i),
           UNCHANGED <<source, toConsumer, replica, high, link>>
    PROVE  /\ tapLog' \in Seq(Entries) /\ Len(tapLog') <= Len(tapLog)
           /\ LogFits' /\ LogIsBounded' /\ DeadBeforeActive' /\ NackFirst'
           /\ \A y \in DOMAIN tapLog : y > i => \E x \in DOMAIN tapLog' : tapLog'[x] = tapLog[y]
           /\ \A x \in DOMAIN tapLog' : \E y \in DOMAIN tapLog : tapLog'[x] = tapLog[y]
<1> DEFINE k == Len(tapLog)
           n == k - i
<1>1. tapLog \in Seq(Entries) /\ k \in Nat /\ i \in 0 .. k /\ DOMAIN tapLog = 1 .. k
  BY BookTypes, SMTT(30)
<1>2. /\ tapLog' \in Seq(Entries) /\ Len(tapLog') = n /\ DOMAIN tapLog' = 1 .. n /\ n \in Nat
      /\ \A x \in 1 .. n : x + i \in 1 .. k /\ tapLog'[x] = tapLog[x + i]
      /\ \A y \in 1 .. k : y > i => y - i \in 1 .. n /\ tapLog'[y - i] = tapLog[y]
  BY <1>1, CutFacts DEF LogAfter
<1> HIDE DEF n, k
<1>3. \A x \in DOMAIN tapLog' : \E y \in DOMAIN tapLog : tapLog'[x] = tapLog[y]
  BY <1>1, <1>2
<1>4. \A y \in DOMAIN tapLog : y > i => \E x \in DOMAIN tapLog' : tapLog'[x] = tapLog[y]
  BY <1>1, <1>2
<1>5. Len(tapLog') <= Len(tapLog)
  BY <1>1, <1>2 DEF n, k
<1>6. LogFits'
  BY <1>3 DEF TapInv, QueuesFit, LogFits, EventFits
<1>7. LogIsBounded'
  BY <1>1, <1>2, <1>5, Constants DEF TapInv, LogIsBounded, k
<1>8. DeadBeforeActive' /\ NackFirst'
  BY <1>3 DEF TapInv, DeadBeforeActive, NackFirst
<1> QED  BY <1>2, <1>3, <1>4, <1>5, <1>6, <1>7, <1>8

\* A mutation that is held by the log comes with its event.
LEMMA LogHolds ==
    ASSUME TapInv, NEW p \in Mutations, NEW y \in DOMAIN tapLog, tapLog[y].pos = p
    PROVE  tapLog[y].ev = "set"
<1>1. EventFits(tapLog[y])
  BY DEF TapInv, QueuesFit
<1>2. p # 0 /\ Stream[p].op = "set"
  BY StreamAssumption DEF Mutations, Positions
<1> QED  BY <1>1, <1>2 DEF EventFits

\* No mutation is lost with what is cut off the log.
LEMMA CutHolds ==
    ASSUME TapInv, NEW i \in 0 .. Len(tapLog), tapLog' = LogAfter(i),
           UNCHANGED <<source, toConsumer, replica, high, link>>,
           \A y \in 1 .. i : tapLog[y].ev = "set" =>
              \/ tapLog[y].pos \in replica.applied
              \/ \E x \in DOMAIN queue' : queue'[x] = tapLog[y].pos,
           \A x \in DOMAIN queue : \E z \in DOMAIN queue' : queue'[z] = queue[x]
    PROVE  HeldStays
<1>1. \A y \in DOMAIN tapLog : y > i => \E x \in DOMAIN tapLog' : tapLog'[x] = tapLog[y]
  BY CutKeeps
<1>2. \A y \in DOMAIN tapLog : y \in 1 .. i \/ y > i
  BY BookTypes
<1> SUFFICES ASSUME NEW p \in Mutations, Held(p)
             PROVE  \/ p \in replica'.applied
                    \/ \E x \in DOMAIN queue' : queue'[x] = p
                    \/ \E x \in DOMAIN tapLog' : tapLog'[x].pos = p
  BY DEF HeldStays, Held
<1>3. CASE p \in replica.applied
  BY <1>3
<1>4. CASE \E x \in DOMAIN queue : queue[x] = p
  BY <1>4
<1>5. CASE \E y \in DOMAIN tapLog : tapLog[y].pos = p
  <2>1. PICK y \in DOMAIN tapLog : tapLog[y].pos = p
    BY <1>5
  <2>2. tapLog[y].ev = "set"
    BY <2>1, LogHolds
  <2> QED  BY <1>1, <1>2, <2>1, <2>2
<1> QED  BY <1>3, <1>4, <1>5 DEF Held

LEMMA CutMarks ==
    ASSUME TapInv, HeldStays, UNCHANGED <<toConsumer, replica, cursor, ckptMsgs>>,
           \A x \in DOMAIN tapLog' : \E y \in DOMAIN tapLog : tapLog'[x] = tapLog[y]
    PROVE  MarksCovered'
<1>1. ReplicaCovered'
  BY ReplicaCoveredStays DEF TapInv, MarksCovered, ReplicaCovered
<1>2. \A i \in DOMAIN ckptMsgs' : \A p \in Mutations : p < ckptMsgs'[i] => Held(p)'
  BY DEF TapInv, MarksCovered, HeldStays, Covered
<1>3. \A i \in DOMAIN tapLog' : tapLog'[i].ev \in CkptEvents =>
         \A p \in Mutations : p < tapLog'[i].pos => Held(p)'
  <2>1. \A i \in DOMAIN tapLog : tapLog[i].ev \in CkptEvents =>
           \A p \in Mutations : p < tapLog[i].pos => Held(p)'
    BY DEF TapInv, MarksCovered, CkptEvents, HeldStays, Covered
  <2> QED  BY <2>1
<1>4. \A i \in DOMAIN toConsumer' : toConsumer'[i].ev \in CkptEvents =>
         \A p \in Mutations : p < toConsumer'[i].pos => Held(p)'
  BY DEF TapInv, MarksCovered, CkptEvents, HeldStays, Covered
<1>5. \A i \in DOMAIN ckptMsgs' : Covered(ckptMsgs[i])'
  BY <1>2 DEF Covered
<1>6. \A i \in DOMAIN tapLog' : tapLog'[i].ev \in CkptEvents => Covered(tapLog[i].pos)'
  BY <1>3 DEF Covered
<1>7. \A i \in DOMAIN toConsumer' :
         toConsumer'[i].ev \in CkptEvents => Covered(toConsumer[i].pos)'
  BY <1>4 DEF Covered
<1>8. Covered(cursor.pos + 1)'
  BY SameCursor DEF TapInv
<1> QED  BY <1>1, <1>5, <1>6, <1>7, <1>8 DEF MarksCovered, ReplicaCovered, CkptEvents

\* What an ack finds.
LEMMA TakesAckFacts ==
    ASSUME TapInv, NEW status, TakesAck(status)
    PROVE  LET i == LogIndex(Head(toProducer).seqno)
           IN  /\ Streams /\ toProducer # <<>> /\ walk = "ready"
               /\ AckedAt(i) /\ i \in 1 .. Len(tapLog) /\ Len(tapLog) \in Nat
               /\ Head(toProducer).status = status
               /\ toProducer' = Tail(toProducer) /\ toProducer' \in Seq(Answers)
               /\ seqnoReceived' = Head(toProducer).seqno /\ seqnoReceived' \in 0 .. MaxSeqno
<1>1. /\ Streams /\ toProducer # <<>> /\ walk = "ready" /\ Head(toProducer).status = status
      /\ toProducer' = Tail(toProducer) /\ seqnoReceived' = Head(toProducer).seqno
  BY DEF TakesAck, Walking, Streams
<1>2. Tail(toProducer) \in Seq(Answers) /\ Head(toProducer) \in Answers
  BY <1>1, TailFacts DEF TapInv, TypeOK
<1>3. Head(toProducer).seqno \in 0 .. MaxSeqno
  BY <1>2 DEF Answers
<1> QED  BY <1>1, <1>2, <1>3, AckIndex

LEMMA AcksSuccess == ASSUME TapInv, AckSuccess PROVE TapInv'
<1> DEFINE s == Head(toProducer).seqno
           i == LogIndex(s)
           done == Complete /\ low = <<>> /\ high = <<>> /\ ckptMsgs = <<>>
           gone == done /\ tapLog' = <<>>
<1>1. /\ Streams /\ toProducer # <<>> /\ walk = "ready"
      /\ AckedAt(i) /\ i \in 1 .. Len(tapLog) /\ Len(tapLog) \in Nat
      /\ Head(toProducer).status = "success"
      /\ toProducer' = Tail(toProducer) /\ toProducer' \in Seq(Answers)
      /\ seqnoReceived' = s /\ seqnoReceived' \in 0 .. MaxSeqno
  <2>1. TakesAck("success")
    BY DEF AckSuccess
  <2> QED  BY <2>1, TakesAckFacts
<1>2. i <= Len(tapLog) /\ i \in 0 .. Len(tapLog)
  BY <1>1
<1>3. UNCHANGED <<avail, source, seqno, high, low, queue, ckptMsgs, cursor, walk, link,
                  toConsumer, replica, refusals, reconnects>>
  BY DEF AckSuccess
<1>4. /\ tapLog' = LogAfter(i)
      /\ ckptCounter' = IF IsCheckpointEvent(tapLog[i]) THEN ckptCounter - 1 ELSE ckptCounter
      /\ ckpt' \in {AckedCheckpoint(s), [AckedCheckpoint(s) EXCEPT !.state = "checkpoint_end_synced"]}
  BY <1>2 DEF AckSuccess
<1>5. flags' \in Flags
  <2> DEFINE found == i <= Len(tapLog)
  <2>1. flags' = [AckedFlags(s) EXCEPT !.lastAckOk = found, !.disconnect = gone]
    BY DEF AckSuccess
  <2>2. found \in BOOLEAN /\ gone \in BOOLEAN
    OBVIOUS
  <2> HIDE DEF s, i, gone, found
  <2> QED  BY <2>1, <2>2, AckTypes DEF TapInv
<1> HIDE DEF s, i
<1>6. Books'
  BY <1>1, <1>3, <1>4, CutBooks DEF s
<1>7. /\ tapLog' \in Seq(Entries)
      /\ LogFits' /\ LogIsBounded' /\ DeadBeforeActive' /\ NackFirst'
      /\ \A x \in DOMAIN tapLog' : \E y \in DOMAIN tapLog : tapLog'[x] = tapLog[y]
  BY <1>2, <1>3, <1>4, CutKeeps
<1>8. TypeOK'
  <2>1. ckpt' \in CheckpointStates
    <3>1. TypeOK
      BY DEF TapInv
    <3>2. /\ AckedCheckpoint(s) \in CheckpointStates
          /\ [AckedCheckpoint(s) EXCEPT !.state = "checkpoint_end_synced"] \in CheckpointStates
      BY <3>1, AckTypes
    <3> QED  BY <1>4, <3>2
  <2>2. ckptCounter' \in Int
    <3>1. ckptCounter \in Int
      BY DEF TapInv, TypeOK
    <3> QED  BY <1>4, <3>1
  <2> QED  BY <1>1, <1>3, <1>5, <1>7, <2>1, <2>2 DEF TapInv, TypeOK
<1>9. CounterExact'
  <2>1. CkptCount(LogAfter(i)) = CkptCount(tapLog) - (IF i # 0 /\ tapLog[i].ev \in CkptEvents THEN 1 ELSE 0)
    BY <1>1, <1>2, CountAfter DEF TapInv, TypeOK, AckedAt, LogAfter
  <2>2. ckptCounter = CkptCount(tapLog) /\ ckptCounter \in Int
    BY DEF TapInv, CounterExact, CkptCount, CkptEvents, TypeOK
  <2>3. ckptCounter' = CkptCount(tapLog')
    BY <1>1, <1>4, <2>1, <2>2 DEF IsCheckpointEvent, CkptEvents
  <2> QED  BY <2>3 DEF CounterExact, CkptCount, CkptEvents
<1>10. QueuesFit'
  BY <1>1, <1>3, <1>7 DEF TapInv, QueuesFit, LogFits, Streams
<1>11. MarksCovered'
  <2>1. \A y \in 1 .. i : tapLog[y].ev = "set" => tapLog[y].pos \in replica.applied
    <3>1. \A y \in 1 .. i : y = i \/ y \in 1 .. i - 1
      BY <1>1
    <3> QED  BY <1>1, <3>1 DEF AckedAt
  <2>2. \A x \in DOMAIN queue : \E z \in DOMAIN queue' : queue'[z] = queue[x]
    BY <1>3
  <2>3. HeldStays
    BY <1>2, <1>3, <1>4, <2>1, <2>2, CutHolds
  <2> QED  BY <1>3, <1>7, <2>3, CutMarks
<1> QED  BY <1>6, <1>7, <1>8, <1>9, <1>10, <1>11 DEF TapInv, Books

LEMMA AcksTmpfail == ASSUME TapInv, AckTmpfail PROVE TapInv'
<1> DEFINE s == Head(toProducer).seqno
           i == LogIndex(s)
<1>1. /\ Streams /\ toProducer # <<>> /\ walk = "ready"
      /\ AckedAt(i) /\ i \in 1 .. Len(tapLog) /\ Len(tapLog) \in Nat
      /\ Head(toProducer).status = "tmpfail"
      /\ toProducer' = Tail(toProducer) /\ toProducer' \in Seq(Answers)
      /\ seqnoReceived' = s /\ seqnoReceived' \in 0 .. MaxSeqno
  <2>1. TakesAck("tmpfail")
    BY DEF AckTmpfail
  <2> QED  BY <2>1, TakesAckFacts
<1>2. i <= Len(tapLog) /\ i \in 0 .. Len(tapLog) /\ tapLog[i].ev = "set"
  BY <1>1 DEF AckedAt
<1>3. UNCHANGED <<avail, source, seqno, high, low, ckptMsgs, ckptCounter, cursor, walk, link,
                  toConsumer, replica, refusals, reconnects>>
  BY DEF AckTmpfail
<1>4. /\ tapLog' = LogAfter(i)
      /\ queue' = Append(queue, tapLog[i].pos)
      /\ ckpt' = [ckpt EXCEPT !.lastSeqNum = MaxSeqno]
      /\ flags' = [AckedFlags(s) EXCEPT !.suspended = TRUE]
  BY <1>2 DEF AckTmpfail
<1> HIDE DEF s, i
<1>5. Books'
  BY <1>1, <1>3, <1>4, CutBooks DEF s
<1>6. /\ tapLog' \in Seq(Entries)
      /\ LogFits' /\ LogIsBounded' /\ DeadBeforeActive' /\ NackFirst'
      /\ \A x \in DOMAIN tapLog' : \E y \in DOMAIN tapLog : tapLog'[x] = tapLog[y]
  BY <1>2, <1>3, <1>4, CutKeeps
<1>7. /\ tapLog[i].pos \in Positions /\ Stream[tapLog[i].pos].op = "set"
      /\ queue \in Seq(Positions)
  <2>1. DOMAIN tapLog = 1 .. Len(tapLog)
    BY DEF TapInv, TypeOK
  <2>2. \A x \in DOMAIN tapLog : EventFits(tapLog[x])
    BY DEF TapInv, QueuesFit
  <2>3. EventFits(tapLog[i])
    BY <1>1, <2>1, <2>2
  <2>4. queue \in Seq(Positions)
    BY DEF TapInv, TypeOK
  <2> QED  BY <1>2, <2>3, <2>4 DEF EventFits, VBucketEvents, OpaqueEvents
<1>8. /\ queue' \in Seq(Positions) /\ DOMAIN queue = 1 .. Len(queue)
      /\ DOMAIN queue' = 1 .. Len(queue) + 1 /\ Len(queue) + 1 \in 1 .. Len(queue) + 1
      /\ queue'[Len(queue) + 1] = tapLog[i].pos
      /\ \A x \in 1 .. Len(queue) : x \in 1 .. Len(queue) + 1 /\ queue'[x] = queue[x]
      /\ \A x \in 1 .. Len(queue) + 1 : x = Len(queue) + 1 \/ x \in 1 .. Len(queue)
  BY <1>4, <1>7, AppendFacts
<1>9. TypeOK'
  <2>1. ckpt' \in CheckpointStates /\ flags' \in Flags
    BY <1>4, AckTypes DEF TapInv
  <2> QED  BY <1>1, <1>3, <1>6, <1>8, <2>1 DEF TapInv, TypeOK
<1>10. CounterExact'
  <2>1. CkptCount(LogAfter(i)) = CkptCount(tapLog) - (IF i # 0 /\ tapLog[i].ev \in CkptEvents THEN 1 ELSE 0)
    BY <1>1, <1>2, CountAfter DEF TapInv, TypeOK, AckedAt, LogAfter
  <2>2. ckptCounter = CkptCount(tapLog) /\ ckptCounter \in Int
    BY DEF TapInv, CounterExact, CkptCount, CkptEvents, TypeOK
  <2>3. ckptCounter' = CkptCount(tapLog')
    BY <1>2, <1>3, <1>4, <2>1, <2>2 DEF CkptEvents
  <2> QED  BY <2>3 DEF CounterExact, CkptCount, CkptEvents
<1>11. QueuesFit'
  <2>1. \A x \in DOMAIN queue' : Stream[queue'[x]].op = "set"
    BY <1>7, <1>8 DEF TapInv, QueuesFit
  <2> QED  BY <1>1, <1>3, <1>6, <2>1 DEF TapInv, QueuesFit, LogFits, Streams
<1>12. MarksCovered'
  <2>1. \A y \in 1 .. i : tapLog[y].ev = "set" =>
            \/ tapLog[y].pos \in replica.applied
            \/ \E x \in DOMAIN queue' : queue'[x] = tapLog[y].pos
    <3>1. \A y \in 1 .. i : y = i \/ y \in 1 .. i - 1
      BY <1>1
    <3> QED  BY <1>1, <1>8, <3>1 DEF AckedAt
  <2>2. \A x \in DOMAIN queue : \E z \in DOMAIN queue' : queue'[z] = queue[x]
    BY <1>8
  <2>3. HeldStays
    BY <1>2, <1>3, <1>4, <2>1, <2>2, CutHolds
  <2> QED  BY <1>3, <1>6, <2>3, CutMarks
<1> QED  BY <1>5, <1>6, <1>9, <1>10, <1>11, <1>12 DEF TapInv, Books

LEMMA AcksFail == ASSUME TapInv, AckFail PROVE TapInv'
<1> DEFINE s == Head(toProducer).seqno
           j == LogIndex(s)
           i == j - 1
<1>1. /\ Streams /\ toProducer # <<>> /\ walk = "ready"
      /\ AckedAt(j) /\ j \in 1 .. Len(tapLog) /\ Len(tapLog) \in Nat
      /\ Head(toProducer).status = "fail"
      /\ toProducer' = Tail(toProducer) /\ toProducer' \in Seq(Answers)
      /\ seqnoReceived' = s /\ seqnoReceived' \in 0 .. MaxSeqno
  <2>1. TakesAck("fail")
    BY DEF AckFail
  <2> QED  BY <2>1, TakesAckFacts
<1>2. UNCHANGED <<avail, source, seqno, high, low, queue, ckptMsgs, ckptCounter, cursor, walk,
                  link, toConsumer, replica, refusals, reconnects>>
  BY DEF AckFail
<1>3. /\ tapLog' = LogAfter(i)
      /\ ckpt' = AckedCheckpoint(s)
      /\ flags' = [AckedFlags(s) EXCEPT !.disconnect = TRUE]
  BY DEF AckFail
<1>4. /\ i \in 0 .. Len(tapLog)
      /\ \A y \in 1 .. i : /\ tapLog[y].ev \notin CkptEvents
                           /\ tapLog[y].ev = "set" => tapLog[y].pos \in replica.applied
  BY <1>1 DEF AckedAt
<1> HIDE DEF s, i, j
<1>5. ckpt' \in CheckpointStates /\ flags' \in Flags /\ flags'.disconnect
  BY <1>3, AckTypes DEF TapInv
<1>6. Books'
  BY <1>5, NotStreaming DEF Streams
<1>7. /\ tapLog' \in Seq(Entries)
      /\ LogFits' /\ LogIsBounded' /\ DeadBeforeActive' /\ NackFirst'
      /\ \A x \in DOMAIN tapLog' : \E y \in DOMAIN tapLog : tapLog'[x] = tapLog[y]
  BY <1>2, <1>3, <1>4, CutKeeps
<1>8. TypeOK'
  BY <1>1, <1>2, <1>5, <1>7 DEF TapInv, TypeOK
<1>9. CounterExact'
  <2>1. /\ \A y \in 1 .. i - 1 : tapLog[y].ev \notin CkptEvents
        /\ i # 0 => tapLog[i].ev \notin CkptEvents
    BY <1>4
  <2>2. CkptCount(LogAfter(i)) = CkptCount(tapLog) - (IF i # 0 /\ tapLog[i].ev \in CkptEvents THEN 1 ELSE 0)
    BY <1>4, <2>1, CountAfter DEF TapInv, TypeOK, LogAfter
  <2>3. ckptCounter = CkptCount(tapLog) /\ ckptCounter \in Int
    BY DEF TapInv, CounterExact, CkptCount, CkptEvents, TypeOK
  <2>4. ckptCounter' = CkptCount(tapLog')
    BY <1>2, <1>3, <2>1, <2>2, <2>3
  <2> QED  BY <2>4 DEF CounterExact, CkptCount, CkptEvents
<1>10. QueuesFit'
  BY <1>1, <1>2, <1>7 DEF TapInv, QueuesFit, LogFits, Streams
<1>11. MarksCovered'
  <2>1. \A x \in DOMAIN queue : \E z \in DOMAIN queue' : queue'[z] = queue[x]
    BY <1>2
  <2>2. HeldStays
    BY <1>2, <1>3, <1>4, <2>1, CutHolds
  <2> QED  BY <1>2, <1>7, <2>2, CutMarks
<1> QED  BY <1>6, <1>7, <1>8, <1>9, <1>10, <1>11 DEF TapInv, Books

-----------------------------------------------------------------------------
(* The consumer *)

\* The consumer has answered, or the sender did not ask and the message was accepted.
LEMMA AnswerFacts ==
    ASSUME TapInv, toConsumer # <<>>, NEW status \in {"success", "tmpfail", "fail"}, Answer(status),
           status # "success" => Head(toConsumer).ev = "set"
    PROVE  LET m == Head(toConsumer)
               a == [seqno |-> m.seqno, status |-> status]
           IN  /\ m \in Messages /\ a \in Answers
               /\ toConsumer' = Tail(toConsumer)
               /\ \/ toProducer' = Append(toProducer, a)
                  \/ toProducer' = toProducer /\ ~m.ack /\ status = "success"
<1> DEFINE m == Head(toConsumer)
           a == [seqno |-> m.seqno, status |-> status]
<1>1. /\ toConsumer \in Seq(Messages) /\ m = toConsumer[1] /\ m \in Messages
      /\ DOMAIN toConsumer = 1 .. Len(toConsumer) /\ 1 \in DOMAIN toConsumer
      /\ \A i \in DOMAIN toConsumer : i \in Nat /\ i >= 1
  BY BookTypes, TailFacts
<1>2. a \in Answers
  BY <1>1 DEF Messages, Answers
<1>3. link = "up"
  BY DEF TapInv, QueuesFit
<1>4. status # "success" => replica.nack
  <2> SUFFICES ASSUME toConsumer[1].ev = "set", ~replica.nack PROVE FALSE
    BY <1>1
  <2>1. PICK j \in DOMAIN toConsumer :
            /\ toConsumer[j].ev = "auto_nack"
            /\ \A i \in DOMAIN toConsumer : i < j => toConsumer[i].ev # "set"
    BY <1>1, <1>3 DEF TapInv, NackFirst
  <2>2. ~(1 < j)
    BY <1>1, <2>1
  <2>3. j = 1
    BY <1>1, <2>2
  <2> QED  BY <2>1, <2>3
<1>5. CASE m.ack \/ (status # "success" /\ replica.nack)
  <2>1. toProducer' = Append(toProducer, a) /\ toConsumer' = Tail(toConsumer)
    BY <1>5 DEF Answer
  <2> QED  BY <1>1, <1>2, <2>1
<1>6. CASE ~(m.ack \/ (status # "success" /\ replica.nack))
  <2>1. toProducer' = toProducer /\ toConsumer' = Tail(toConsumer)
    BY <1>6 DEF Answer
  <2>2. ~m.ack /\ status = "success"
    BY <1>4, <1>6
  <2> QED  BY <1>1, <1>2, <2>1, <2>2
<1> QED  BY <1>5, <1>6

LEMMA AnswerBooks ==
    ASSUME TapInv, Streams, toConsumer # <<>>,
           NEW status \in {"success", "tmpfail", "fail"}, Answer(status), ProducerUnchanged,
           status # "success" => Head(toConsumer).ev = "set",
           Head(toConsumer).ev = "set" /\ status = "success" =>
              Head(toConsumer).pos \in replica'.applied,
           replica.applied \subseteq replica'.applied
    PROVE  Books'
<1> DEFINE m == Head(toConsumer)
           a == [seqno |-> m.seqno, status |-> status]
           h == Handled
           n == Len(tapLog)
           w == Len(toConsumer)
           r == Len(toProducer)
           answered == toProducer' = Append(toProducer, a)
<1>1. UNCHANGED <<seqno, seqnoReceived, tapLog, high, flags, link>>
  BY DEF ProducerUnchanged, producerVars
<1>2. /\ a \in Answers /\ toConsumer' = Tail(toConsumer)
      /\ answered \/ (toProducer' = toProducer /\ ~m.ack /\ status = "success")
  BY AnswerFacts
<1>3. /\ toConsumer \in Seq(Messages) /\ m = toConsumer[1] /\ 1 \in DOMAIN toConsumer
      /\ DOMAIN toConsumer = 1 .. w /\ w \in Nat /\ w >= 1
      /\ Len(toConsumer') = w - 1 /\ DOMAIN toConsumer' = 1 .. w - 1
      /\ \A j \in 1 .. w - 1 : j + 1 \in 1 .. w /\ toConsumer'[j] = toConsumer[j + 1]
  BY <1>2, BookTypes, TailFacts
<1>4. n \in Nat /\ DOMAIN tapLog = 1 .. n /\ r \in Nat /\ DOMAIN toProducer = 1 .. r
  BY BookTypes
<1>5. h \in Nat /\ Handled' = h + 1 /\ h = n - w /\ h + 1 \in 1 .. n
  <2>1. h >= 0
    BY DEF TapInv, WireFits
  <2> QED  BY <1>1, <1>3, <1>4, <2>1 DEF Handled
<1>6. /\ m.seqno = tapLog[h + 1].seqno /\ m.ev = tapLog[h + 1].ev /\ m.pos = tapLog[h + 1].pos
      /\ m.ev \in {"start", "end"} => m.ack
  BY <1>3 DEF TapInv, WireFits
<1>7. /\ \A k \in 1 .. r : k \in DOMAIN toProducer' /\ toProducer'[k] = toProducer[k]
      /\ \A k \in DOMAIN toProducer' :
            \/ k \in 1 .. r
            \/ k = r + 1 /\ answered /\ toProducer'[k] = a
      /\ answered => r + 1 \in DOMAIN toProducer' /\ toProducer'[r + 1] = a
  <2>1. toProducer \in Seq(Answers)
    BY DEF TapInv, TypeOK
  <2>2. CASE answered
    BY <1>2, <2>1, <2>2, AppendFacts
  <2>3. CASE ~answered
    BY <1>2, <1>4, <2>3
  <2> QED  BY <2>2, <2>3
<1>8. a.seqno = tapLog[h + 1].seqno /\ a.status = status
  BY <1>6
<1> HIDE DEF h, n, w, r, m, a, answered
<1>9. \A i \in 1 .. h + 1 : i \in 1 .. h \/ i = h + 1
  BY <1>5
<1>10. \A i \in 1 .. h : i \in 1 .. h + 1 /\ i \in 1 .. n /\ i < h + 1
  BY <1>4, <1>5
<1>11. NumbersFit'
  BY <1>1 DEF TapInv, NumbersFit, Streams, Distance, Behind
<1>12. WireFits'
  <2>1. ASSUME NEW j \in 1 .. w - 1
        PROVE  LET x == toConsumer'[j]
                   e == tapLog'[Handled' + j]
               IN  /\ x.seqno = e.seqno /\ x.ev = e.ev /\ x.pos = e.pos
                   /\ x.ev \in {"start", "end"} => x.ack
    <3>1. j + 1 \in DOMAIN toConsumer /\ toConsumer'[j] = toConsumer[j + 1]
      BY <1>3
    <3>2. h + (j + 1) = Handled' + j
      BY <1>5
    <3>3. /\ toConsumer[j + 1].seqno = tapLog[h + (j + 1)].seqno
          /\ toConsumer[j + 1].ev = tapLog[h + (j + 1)].ev
          /\ toConsumer[j + 1].pos = tapLog[h + (j + 1)].pos
          /\ toConsumer[j + 1].ev \in {"start", "end"} => toConsumer[j + 1].ack
      BY <3>1 DEF TapInv, WireFits, h
    <3> QED  BY <1>1, <3>1, <3>2, <3>3
  <2>2. Handled' >= 0
    BY <1>5
  <2> QED  BY <1>3, <2>1, <2>2 DEF WireFits
\* The old answers are about the messages handled before.
<1>13. \A k \in 1 .. r : \A i \in 1 .. h + 1 :
          tapLog[i].seqno = toProducer[k].seqno => i \in 1 .. h
  <2> SUFFICES ASSUME NEW k \in 1 .. r, NEW i \in 1 .. h + 1, tapLog[i].seqno = toProducer[k].seqno
               PROVE  i \in 1 .. h
    OBVIOUS
  <2>1. PICK j \in 1 .. h : tapLog[j].seqno = toProducer[k].seqno
    BY <1>4 DEF TapInv, AnswersFit, h
  <2>2. i = j
    BY <1>5, <1>9, <1>10, <2>1, LogDistinct DEF n
  <2> QED  BY <2>1, <2>2
<1>14. AnswersFit'
  <2>1. ASSUME NEW k \in DOMAIN toProducer'
        PROVE  \E i \in 1 .. h + 1 :
                  /\ tapLog[i].seqno = toProducer'[k].seqno
                  /\ toProducer'[k].status # "success" => tapLog[i].ev = "set"
    <3>1. CASE k \in 1 .. r
      <4>1. PICK i \in 1 .. h : /\ tapLog[i].seqno = toProducer[k].seqno
                                /\ toProducer[k].status # "success" => tapLog[i].ev = "set"
        BY <1>4, <3>1 DEF TapInv, AnswersFit, h
      <4> QED  BY <1>7, <1>10, <3>1, <4>1
    <3>2. CASE k = r + 1 /\ answered /\ toProducer'[k] = a
      <4>1. h + 1 \in 1 .. h + 1
        BY <1>5
      <4>2. status # "success" => tapLog[h + 1].ev = "set"
        BY <1>6 DEF m
      <4> QED  BY <1>8, <3>2, <4>1, <4>2
    <3> QED  BY <1>7, <3>1, <3>2
  <2>2. ASSUME NEW k \in DOMAIN toProducer', NEW l \in DOMAIN toProducer',
               NEW i \in 1 .. h + 1, NEW j \in 1 .. h + 1, k < l,
               tapLog[i].seqno = toProducer'[k].seqno, tapLog[j].seqno = toProducer'[l].seqno
        PROVE  i < j
    <3>1. k \in 1 .. r
      BY <1>4, <1>7, <2>2
    <3>2. toProducer'[k] = toProducer[k] /\ i \in 1 .. h
      BY <1>7, <1>13, <2>2, <3>1
    <3>3. CASE l \in 1 .. r
      <4>1. toProducer'[l] = toProducer[l] /\ j \in 1 .. h
        BY <1>7, <1>13, <2>2, <3>3
      <4>2. \A b, c \in 1 .. r : \A u, v \in 1 .. h :
               b < c /\ tapLog[u].seqno = toProducer[b].seqno /\ tapLog[v].seqno = toProducer[c].seqno
                 => u < v
        BY <1>4 DEF TapInv, AnswersFit, h
      <4> QED  BY <2>2, <3>1, <3>2, <3>3, <4>1, <4>2
    <3>4. CASE l = r + 1 /\ answered /\ toProducer'[l] = a
      <4>1. j = h + 1
        BY <1>5, <1>8, <1>9, <1>10, <2>2, <3>4, LogDistinct DEF n
      <4> QED  BY <1>10, <3>2, <4>1
    <3> QED  BY <1>7, <3>3, <3>4
  <2> QED  BY <1>1, <1>5, <2>1, <2>2 DEF AnswersFit
<1>15. AnswersDue'
  <2>1. ASSUME NEW i \in 1 .. h + 1
        PROVE  LET e == tapLog[i]
               IN  /\ e.ev \in {"start", "end"} =>
                         \E k \in DOMAIN toProducer' : toProducer'[k].seqno = e.seqno
                   /\ e.ev = "set" /\ e.pos \notin replica'.applied =>
                         \E k \in DOMAIN toProducer' : /\ toProducer'[k].seqno = e.seqno
                                                       /\ toProducer'[k].status # "success"
    <3>1. CASE i \in 1 .. h
      BY <1>4, <1>7, <3>1 DEF TapInv, AnswersDue, h
    <3>2. CASE i = h + 1
      <4>1. tapLog[i].ev \in {"start", "end"} => answered
        BY <1>2, <1>6, <3>2
      <4>2. tapLog[i].ev = "set" /\ tapLog[i].pos \notin replica'.applied => status # "success" /\ answered
        BY <1>2, <1>6, <3>2 DEF m
      <4> QED  BY <1>7, <1>8, <3>2, <4>1, <4>2
    <3> QED  BY <1>9, <3>1, <3>2
  <2> QED  BY <1>1, <1>5, <2>1 DEF AnswersDue
<1> QED  BY <1>11, <1>12, <1>14, <1>15 DEF Books

\* What every step of the consumer does, and what it may do to the replica.
LEMMA ConsumeStep ==
    ASSUME TapInv, toConsumer # <<>>,
           NEW status \in {"success", "tmpfail", "fail"}, Answer(status), ProducerUnchanged,
           replica' \in Replicas, refusals' \in 0 .. MaxRefusals,
           status # "success" => Head(toConsumer).ev = "set",
           Head(toConsumer).ev = "set" /\ status = "success" =>
              Head(toConsumer).pos \in replica'.applied,
           replica.applied \subseteq replica'.applied,
           replica.nack => replica'.nack, Head(toConsumer).ev = "auto_nack" => replica'.nack,
           replica'.vb = "active" => replica.vb = "active" \/ Head(toConsumer).ev = "active",
           \/ replica'.id = replica.id /\ replica'.open = replica.open
           \/ \E p \in Positions : /\ Stream[p].id = replica'.id /\ Covered(p)
                                  /\ Stream[p].op = IF replica'.open THEN "start" ELSE "end"
    PROVE  TapInv'
<1> DEFINE m == Head(toConsumer)
           w == Len(toConsumer)
<1>1. UNCHANGED <<avail, source, seqno, seqnoReceived, tapLog, high, low, queue, ckptMsgs,
                  ckptCounter, cursor, ckpt, flags, walk, link, reconnects>>
  BY DEF ProducerUnchanged, producerVars
<1>2. /\ toConsumer \in Seq(Messages) /\ m = toConsumer[1] /\ 1 \in DOMAIN toConsumer
      /\ DOMAIN toConsumer = 1 .. w /\ w \in Nat
      /\ toConsumer' = Tail(toConsumer) /\ toConsumer' \in Seq(Messages)
      /\ DOMAIN toConsumer' = 1 .. w - 1
      /\ \A j \in 1 .. w - 1 : j + 1 \in 1 .. w /\ toConsumer'[j] = toConsumer[j + 1]
      /\ \A j \in 1 .. w : j # 1 => j - 1 \in 1 .. w - 1 /\ toConsumer'[j - 1] = toConsumer[j]
  <2>1. toConsumer' = Tail(toConsumer)
    BY AnswerFacts
  <2> QED  BY <2>1, BookTypes, TailFacts
<1>3. toProducer' \in Seq(Answers)
  <2> DEFINE a == [seqno |-> m.seqno, status |-> status]
  <2>1. a \in Answers /\ (toProducer' = Append(toProducer, a) \/ toProducer' = toProducer)
    BY AnswerFacts
  <2>2. toProducer \in Seq(Answers)
    BY DEF TapInv, TypeOK
  <2> HIDE DEF a
  <2> QED  BY <2>1, <2>2, AppendFacts
<1>4. link = "up"
  BY DEF TapInv, QueuesFit
<1> HIDE DEF m, w
<1>5. \A j \in DOMAIN toConsumer' : \E i \in DOMAIN toConsumer : toConsumer'[j] = toConsumer[i]
  BY <1>2
<1>6. TypeOK'
  BY <1>1, <1>2, <1>3 DEF TapInv, TypeOK
<1>7. Books'
  <2>1. CASE Streams
    BY <2>1, AnswerBooks
  <2>2. CASE ~Streams
    BY <1>1, <2>2, NotStreaming DEF Streams
  <2> QED  BY <2>1, <2>2
<1>8. LogIsBounded' /\ CounterExact'
  BY <1>1 DEF TapInv, LogIsBounded, CounterExact
<1>9. QueuesFit'
  <2>1. \A j \in DOMAIN toConsumer' : EventFits(toConsumer'[j])
    BY <1>5 DEF TapInv, QueuesFit
  <2> QED  BY <1>1, <1>4, <2>1 DEF TapInv, QueuesFit, EventFits, Distance
<1>10. DeadBeforeActive'
  BY <1>1, <1>2, <1>5 DEF TapInv, DeadBeforeActive, m
<1>11. NackFirst'
  <2>1. CASE replica.nack
    BY <2>1 DEF NackFirst
  <2>2. CASE \E j \in DOMAIN toConsumer :
                /\ toConsumer[j].ev = "auto_nack"
                /\ \A i \in DOMAIN toConsumer : i < j => toConsumer[i].ev # "set"
    <3>1. PICK j \in 1 .. w : /\ toConsumer[j].ev = "auto_nack"
                              /\ \A i \in 1 .. w : i < j => toConsumer[i].ev # "set"
      BY <1>2, <2>2
    <3>2. CASE j = 1
      BY <1>2, <3>1, <3>2 DEF NackFirst, m
    <3>3. CASE j # 1
      <4>1. j - 1 \in DOMAIN toConsumer' /\ toConsumer'[j - 1].ev = "auto_nack"
        BY <1>2, <3>1, <3>3
      <4>2. \A i \in 1 .. w - 1 : i < j - 1 => i + 1 \in 1 .. w /\ i + 1 < j
        BY <1>2
      <4>3. \A i \in DOMAIN toConsumer' : i < j - 1 => toConsumer'[i].ev # "set"
        BY <1>2, <3>1, <4>2
      <4> QED  BY <4>1, <4>3 DEF NackFirst
    <3> QED  BY <3>2, <3>3
  <2>3. CASE /\ \E i \in DOMAIN high : high[i].ev = "auto_nack"
             /\ \A i \in DOMAIN toConsumer : toConsumer[i].ev # "set"
    BY <1>1, <1>5, <2>3 DEF NackFirst
  <2> QED  BY <1>4, <2>1, <2>2, <2>3 DEF TapInv, NackFirst
<1>12. HeldStays
  BY <1>1 DEF HeldStays, Held
<1>13. MarksCovered'
  <2>1. \A i \in DOMAIN ckptMsgs' : \A p \in Mutations : p < ckptMsgs'[i] => Held(p)'
    BY <1>1, <1>12 DEF TapInv, MarksCovered, HeldStays, Covered
  <2>2. \A i \in DOMAIN tapLog' : tapLog'[i].ev \in CkptEvents =>
           \A p \in Mutations : p < tapLog'[i].pos => Held(p)'
    BY <1>1, <1>12 DEF TapInv, MarksCovered, CkptEvents, HeldStays, Covered
  <2>3. \A i \in DOMAIN toConsumer' : toConsumer'[i].ev \in CkptEvents =>
           \A p \in Mutations : p < toConsumer'[i].pos => Held(p)'
    <3>1. \A i \in DOMAIN toConsumer : toConsumer[i].ev \in CkptEvents =>
             \A p \in Mutations : p < toConsumer[i].pos => Held(p)'
      BY <1>12 DEF TapInv, MarksCovered, CkptEvents, HeldStays, Covered
    <3> QED  BY <1>5, <3>1
  <2>4. \A i \in DOMAIN ckptMsgs' : Covered(ckptMsgs[i])'
    BY <2>1 DEF Covered
  <2>5. \A i \in DOMAIN tapLog' : tapLog'[i].ev \in CkptEvents => Covered(tapLog[i].pos)'
    BY <2>2 DEF Covered
  <2>6. \A i \in DOMAIN toConsumer' :
           toConsumer'[i].ev \in CkptEvents => Covered(toConsumer[i].pos)'
    BY <2>3 DEF Covered
  <2>7. Covered(cursor.pos + 1)'
    BY <1>1, <1>12, SameCursor DEF TapInv
  <2>8. ReplicaCovered'
    <3>1. CASE replica'.id = replica.id /\ replica'.open = replica.open
      BY <1>12, <3>1, ReplicaCoveredStays DEF TapInv, MarksCovered, ReplicaCovered
    <3>2. CASE \E p \in Positions : /\ Stream[p].id = replica'.id /\ Covered(p)
                                   /\ Stream[p].op = IF replica'.open THEN "start" ELSE "end"
      <4>1. PICK p \in Positions : /\ Stream[p].id = replica'.id /\ Covered(p)
                                   /\ Stream[p].op = IF replica'.open THEN "start" ELSE "end"
        BY <3>2
      <4>2. Covered(p)'
        BY <1>12, <4>1, CoveredStays
      <4> QED  BY <4>1, <4>2 DEF ReplicaCovered
    <3> QED  BY <3>1, <3>2
  <2> QED  BY <2>4, <2>5, <2>6, <2>7, <2>8 DEF MarksCovered, ReplicaCovered, CkptEvents
<1> QED  BY <1>6, <1>7, <1>8, <1>9, <1>10, <1>11, <1>13 DEF TapInv, Books

LEMMA ReceivesFacts ==
    ASSUME TapInv, NEW evs, Receives(evs)
    PROVE  /\ toConsumer # <<>> /\ Head(toConsumer).ev \in evs
           /\ Head(toConsumer) \in Messages /\ EventFits(Head(toConsumer))
           /\ Head(toConsumer).ev \in CkptEvents => Covered(Head(toConsumer).pos)
<1>1. toConsumer # <<>> /\ Head(toConsumer).ev \in evs
  BY DEF Receives
<1>2. Head(toConsumer) = toConsumer[1] /\ Head(toConsumer) \in Messages /\ 1 \in DOMAIN toConsumer
  BY <1>1, TailFacts DEF TapInv, TypeOK
<1> QED  BY <1>1, <1>2 DEF TapInv, QueuesFit, MarksCovered, CkptEvents

LEMMA ReplicaType == TapInv => replica \in Replicas /\ refusals \in 0 .. MaxRefusals
BY DEF TapInv, TypeOK

LEMMA ConsumesOpaque == ASSUME TapInv, ConsumeOpaque PROVE TapInv'
<1> DEFINE m == Head(toConsumer)
           b == replica.nack \/ m.ev = "auto_nack"
<1>1. /\ toConsumer # <<>> /\ m.ev \in OpaqueEvents /\ Answer("success")
      /\ ProducerUnchanged /\ refusals' = refusals
      /\ replica' = [replica EXCEPT !.nack = b]
  BY ReceivesFacts DEF ConsumeOpaque
<1>2. m.ev # "set" /\ m.ev # "active"
  BY <1>1 DEF OpaqueEvents
<1>3. b \in BOOLEAN /\ (replica.nack => b) /\ (m.ev = "auto_nack" => b)
  BY ReplicaType DEF Replicas
<1> HIDE DEF b
<1>4. /\ replica' \in Replicas /\ replica'.nack = b /\ replica'.applied = replica.applied
      /\ replica'.vb = replica.vb /\ replica'.id = replica.id /\ replica'.open = replica.open
  BY <1>1, <1>3, ReplicaType DEF Replicas
<1> QED  BY <1>1, <1>2, <1>3, <1>4, ReplicaType, ConsumeStep

LEMMA ConsumesVBucketSet == ASSUME TapInv, ConsumeVBucketSet PROVE TapInv'
<1> DEFINE m == Head(toConsumer)
<1>1. /\ toConsumer # <<>> /\ m.ev \in VBucketEvents /\ Answer("success")
      /\ ProducerUnchanged /\ refusals' = refusals
      /\ replica' = [replica EXCEPT !.vb = m.ev]
  BY ReceivesFacts DEF ConsumeVBucketSet
<1>2. m.ev # "set" /\ m.ev # "auto_nack" /\ m.ev \in {"pending", "active"}
  BY <1>1 DEF VBucketEvents
<1>3. /\ replica' \in Replicas /\ replica'.nack = replica.nack /\ replica'.applied = replica.applied
      /\ replica'.vb = m.ev /\ replica'.id = replica.id /\ replica'.open = replica.open
  BY <1>1, <1>2, ReplicaType DEF Replicas
<1> QED  BY <1>1, <1>2, <1>3, ReplicaType, ConsumeStep

LEMMA ConsumesCheckpoint == ASSUME TapInv, ConsumeCheckpoint PROVE TapInv'
<1> DEFINE m == Head(toConsumer)
           id == Stream[m.pos].id
<1>1. /\ toConsumer # <<>> /\ m.ev \in {"start", "end"} /\ Answer("success")
      /\ ProducerUnchanged /\ refusals' = refusals
      /\ EventFits(m) /\ Covered(m.pos)
  BY ReceivesFacts DEF ConsumeCheckpoint, CkptEvents
<1>2. m.pos \in Positions /\ Stream[m.pos].op = m.ev /\ id \in Nat
  BY <1>1, ItemFacts DEF EventFits, VBucketEvents, OpaqueEvents
<1>3. m.ev # "set" /\ m.ev # "auto_nack" /\ m.ev # "active"
  BY <1>1
<1>4. CASE replica' = replica
  BY <1>1, <1>3, <1>4, ReplicaType, ConsumeStep
<1>5. CASE m.ev = "start" /\ replica' = [replica EXCEPT !.id = id, !.open = TRUE]
  <2>1. /\ replica' \in Replicas /\ replica'.nack = replica.nack
        /\ replica'.applied = replica.applied /\ replica'.vb = replica.vb
        /\ replica'.id = id /\ replica'.open = TRUE
    BY <1>2, <1>5, ReplicaType DEF Replicas
  <2>2. \E p \in Positions : /\ Stream[p].id = replica'.id /\ Covered(p)
                             /\ Stream[p].op = IF replica'.open THEN "start" ELSE "end"
    BY <1>1, <1>2, <1>5, <2>1
  <2> QED  BY <1>1, <1>3, <2>1, <2>2, ReplicaType, ConsumeStep
<1>6. CASE /\ m.ev = "end" /\ replica.id = id
           /\ replica' = [replica EXCEPT !.open = FALSE, !.closed = replica.closed \cup {m.pos}]
  <2>1. /\ replica' \in Replicas /\ replica'.nack = replica.nack
        /\ replica'.applied = replica.applied /\ replica'.vb = replica.vb
        /\ replica'.id = id /\ replica'.open = FALSE
    BY <1>2, <1>6, ReplicaType DEF Replicas
  <2>2. \E p \in Positions : /\ Stream[p].id = replica'.id /\ Covered(p)
                             /\ Stream[p].op = IF replica'.open THEN "start" ELSE "end"
    BY <1>1, <1>2, <1>6, <2>1
  <2> QED  BY <1>1, <1>3, <2>1, <2>2, ReplicaType, ConsumeStep
<1>7. \/ replica' = replica
      \/ m.ev = "start" /\ replica' = [replica EXCEPT !.id = id, !.open = TRUE]
      \/ /\ m.ev = "end" /\ replica.id = id
         /\ replica' = [replica EXCEPT !.open = FALSE, !.closed = replica.closed \cup {m.pos}]
  BY <1>1 DEF ConsumeCheckpoint
<1> QED  BY <1>4, <1>5, <1>6, <1>7

LEMMA ConsumesMutation == ASSUME TapInv, ConsumeMutation PROVE TapInv'
<1> DEFINE m == Head(toConsumer)
           more == IF Queues THEN replica.queued \cup {m.pos} ELSE replica.queued
<1>1. /\ toConsumer # <<>> /\ m.ev = "set" /\ Answer("success")
      /\ ProducerUnchanged /\ refusals' = refusals /\ EventFits(m)
      /\ replica' = [replica EXCEPT !.applied = replica.applied \cup {m.pos}, !.queued = more]
  BY ReceivesFacts DEF ConsumeMutation
<1>2. m.pos \in Positions
  BY <1>1 DEF EventFits, VBucketEvents, OpaqueEvents
<1>3. more \in SUBSET Positions
  BY <1>2, ReplicaType DEF Replicas
<1> HIDE DEF more
<1>4. /\ replica' \in Replicas /\ replica'.nack = replica.nack
      /\ replica'.applied = replica.applied \cup {m.pos}
      /\ replica'.vb = replica.vb /\ replica'.id = replica.id /\ replica'.open = replica.open
  BY <1>1, <1>2, <1>3, ReplicaType DEF Replicas
<1> QED  BY <1>1, <1>4, ReplicaType, ConsumeStep

LEMMA RefusesMutation ==
    ASSUME TapInv, NEW status \in {"tmpfail", "fail"}, RefuseMutation(status)
    PROVE  TapInv'
<1> DEFINE m == Head(toConsumer)
<1>1. /\ toConsumer # <<>> /\ m.ev = "set" /\ Answer(status)
      /\ ProducerUnchanged /\ replica' = replica
  BY ReceivesFacts DEF RefuseMutation
<1>2. refusals' \in 0 .. MaxRefusals
  BY WindowAssumption, ReplicaType DEF RefuseMutation
<1> QED  BY <1>1, <1>2, ReplicaType, ConsumeStep

-----------------------------------------------------------------------------
(* The reconnect *)

\* The elements of a sequence are those of two others.
IsConcat(c, a, b) ==
    /\ \A i \in DOMAIN c : (\E x \in DOMAIN a : c[i] = a[x]) \/ (\E x \in DOMAIN b : c[i] = b[x])
    /\ \A x \in DOMAIN a : \E i \in DOMAIN c : c[i] = a[x]
    /\ \A x \in DOMAIN b : \E i \in DOMAIN c : c[i] = b[x]

LEMMA ConcatFacts ==
    ASSUME NEW S, NEW a \in Seq(S), NEW b \in Seq(S)
    PROVE  a \o b \in Seq(S) /\ IsConcat(a \o b, a, b)
<1> DEFINE m == Len(a)
           n == Len(b)
           c == a \o b
<1>1. m \in Nat /\ n \in Nat /\ DOMAIN a = 1 .. m /\ DOMAIN b = 1 .. n
  OBVIOUS
<1>2. /\ c \in Seq(S) /\ Len(c) = m + n /\ DOMAIN c = 1 .. m + n
      /\ \A i \in 1 .. m + n : c[i] = IF i <= m THEN a[i] ELSE b[i - m]
  BY ConcatProperties, <1>1
<1> HIDE DEF m, n, c
<1>3. \A i \in 1 .. m + n : (i <= m /\ i \in 1 .. m) \/ (~(i <= m) /\ i - m \in 1 .. n)
  BY <1>1
<1>4. \A x \in 1 .. m : x \in 1 .. m + n /\ x <= m
  BY <1>1
<1>5. \A x \in 1 .. n : x + m \in 1 .. m + n /\ ~(x + m <= m) /\ (x + m) - m = x
  BY <1>1
<1>6. \A i \in DOMAIN c : (\E x \in DOMAIN a : c[i] = a[x]) \/ (\E x \in DOMAIN b : c[i] = b[x])
  BY <1>1, <1>2, <1>3
<1>7. \A x \in DOMAIN a : \E i \in DOMAIN c : c[i] = a[x]
  BY <1>1, <1>2, <1>4
<1>8. \A x \in DOMAIN b : \E i \in DOMAIN c : c[i] = b[x]
  <2> SUFFICES ASSUME NEW x \in 1 .. n PROVE \E i \in DOMAIN c : c[i] = b[x]
    BY <1>1
  <2>1. x + m \in DOMAIN c /\ c[x + m] = b[x]
    BY <1>2, <1>5
  <2> QED  BY <2>1
<1> QED  BY <1>2, <1>6, <1>7, <1>8 DEF c, IsConcat

SetEvents == {"set"}

HighEvents == {Event(n) : n \in OpaqueEvents \cup {"pending"}}

LEMMA EventSets ==
    /\ HighEvents \subseteq Events /\ {Event(n) : n \in {"active"}} \subseteq Events
    /\ {Event(n) : n \in {"pending"}} \subseteq HighEvents
    /\ {Event(n) : n \in OpaqueEvents} \subseteq HighEvents
    /\ Event("auto_nack") \in HighEvents /\ Event("checkpoint_sync") \in HighEvents
    /\ Event("pending") \in HighEvents /\ Event("auto_nack").ev = "auto_nack"
    /\ Event("active") \in Events
BY StreamAssumption DEF HighEvents, Event, Events, EventNames, OpaqueEvents, VBucketEvents

\* A sequence whose elements all are of a smaller set.
LEMMA SeqOf ==
    ASSUME NEW S, NEW T, NEW q \in Seq(S), \A i \in DOMAIN q : q[i] \in T
    PROVE  q \in Seq(T)
BY IsASeq

LEMMA SeqElements ==
    ASSUME NEW S, NEW q \in Seq(S)
    PROVE  \A i \in DOMAIN q : q[i] \in S
BY ElementOfSeq

\* The cursor of a reconnect: everything before it is held.
LEMMA RegisteredFacts ==
    ASSUME TypeOK, MarksCovered
    PROVE  /\ Registered(LastClosed + 1) \in [pos : 0 .. Len(Stream), id : Nat]
           /\ Covered(Registered(LastClosed + 1).pos + 1)
<1> DEFINE id == LastClosed + 1
<1>1. replica.id \in Nat /\ replica.open \in BOOLEAN
  BY DEF TypeOK, Replicas
<1>2. id \in Nat
  BY <1>1 DEF LastClosed
<1>3. \A p \in Positions : p \in Nat /\ p >= 1 /\ p \in 1 .. Len(Stream)
  BY StreamAssumption DEF Positions
<1>4. 1 \in Positions /\ Len(Stream) \in Nat
  BY StreamAssumption DEF Positions
<1>5. \E p \in Positions : Stream[p].op = "start" /\ Stream[p].id = id /\ Covered(p)
  <2>1. CASE replica.id = 0 /\ replica.open
    <3>1. id = 1
      BY <2>1 DEF LastClosed
    <3>2. Covered(1)
      BY <1>3 DEF Covered, Mutations
    <3> QED  BY <1>4, <3>1, <3>2, StreamAssumption
  <2>2. CASE ~(replica.id = 0 /\ replica.open)
    <3>1. PICK p \in Positions : /\ Stream[p].id = replica.id /\ Covered(p)
                                 /\ Stream[p].op = IF replica.open THEN "start" ELSE "end"
      BY <2>2 DEF MarksCovered
    <3>2. CASE replica.open
      <4>1. id = replica.id
        BY <1>1, <2>2, <3>2 DEF LastClosed
      <4> QED  BY <3>1, <3>2, <4>1
    <3>3. CASE ~replica.open
      <4>1. id = replica.id + 1
        BY <3>3 DEF LastClosed
      <4>2. Stream[p].op = "end"
        BY <3>1, <3>3
      <4>3. p + 1 \in Positions /\ Stream[p + 1] = [op |-> "start", id |-> Stream[p].id + 1]
        BY <4>2, StreamAssumption
      <4>4. Covered(p + 1)
        <5>1. \A q \in Mutations : q < p + 1 => q < p
          BY <1>3, <4>2 DEF Mutations
        <5> QED  BY <3>1, <5>1 DEF Covered
      <4>5. Stream[p + 1].op = "start" /\ Stream[p + 1].id = id
        BY <3>1, <4>1, <4>3
      <4> QED  BY <4>3, <4>4, <4>5
    <3> QED  BY <3>2, <3>3
  <2> QED  BY <2>1, <2>2
<1> HIDE DEF id
<1>6. PICK p \in Positions : Stream[p].op = "start" /\ Stream[p].id = id /\ Covered(p)
  BY <1>5
<1>7. \A q \in Positions : Stream[q].op = "start" /\ Stream[q].id = id => q = p
  <2> SUFFICES ASSUME NEW q \in Positions, Stream[q].op = "start", Stream[q].id = id, q # p
               PROVE  FALSE
    OBVIOUS
  <2>1. q < p => Stream[q].id < Stream[p].id
    BY <1>6, StreamAssumption
  <2>2. p < q => Stream[p].id < Stream[q].id
    BY <1>6, StreamAssumption
  <2> QED  BY <1>2, <1>3, <1>6, <2>1, <2>2
<1>8. (CHOOSE q \in Positions : Stream[q].op = "start" /\ Stream[q].id = id) = p
  BY <1>6, <1>7
<1>9. CASE cursor.id = id
  <2>1. Registered(id) = cursor
    BY <1>9 DEF Registered
  <2> QED  BY <2>1 DEF TypeOK, MarksCovered, id
<1>10. CASE cursor.id # id
  <2>1. Registered(id) = [pos |-> p - 1, id |-> id]
    BY <1>8, <1>10 DEF Registered
  <2>2. p - 1 \in 0 .. Len(Stream) /\ (p - 1) + 1 = p
    BY <1>3, <1>4
  <2>3. Registered(id).pos + 1 = p /\ Registered(id) \in [pos : 0 .. Len(Stream), id : Nat]
    BY <1>2, <2>1, <2>2
  <2> QED  BY <1>6, <2>3 DEF id
<1> QED  BY <1>9, <1>10

\* The sequences that a reconnect makes of the log.
LEMMA RolledBack ==
    ASSUME TapInv, Reconnect
    PROVE  /\ queue' \in Seq(Positions) /\ \A i \in DOMAIN queue' : Stream[queue'[i]].op = "set"
           /\ \A i \in DOMAIN queue : \E z \in DOMAIN queue' : queue'[z] = queue[i]
           /\ \A i \in DOMAIN tapLog : tapLog[i].ev = "set" =>
                 \E z \in DOMAIN queue' : queue'[z] = tapLog[i].pos
           /\ ckptMsgs' \in Seq(Positions)
           /\ \A i \in DOMAIN ckptMsgs' :
                 /\ Stream[ckptMsgs'[i]].op \in {"start", "end"}
                 /\ Covered(ckptMsgs'[i])
           /\ low' \in Seq(Events) /\ \A i \in DOMAIN low' : low'[i] = Event("active")
           /\ high' \in Seq(HighEvents)
           /\ \E i \in DOMAIN high' : high'[i].ev = "auto_nack"
           /\ CounterExact' /\ ckptCounter' \in Int
<1> DEFINE pend == LogEvents(tapLog, {"pending"})
           again == pend \o EvaluateFlags
           opaque == LogEvents(high \o again, OpaqueEvents)
           act == LogEvents(tapLog, {"active"})
           sets == LogPositions(tapLog, SetEvents)
           marks == LogPositions(tapLog, CkptEvents)
<1>0. /\ tapLog' = <<>> /\ queue' = queue \o sets /\ ckptMsgs' = ckptMsgs \o marks
      /\ ckptCounter' = ckptCounter - Len(marks)
      /\ high' = IF Takeover THEN Append(opaque, Event("pending")) ELSE high \o again
      /\ low' = IF Takeover THEN <<Event("active")>> ELSE low \o act
  BY DEF Reconnect, CkptEvents, SetEvents
<1>1. /\ tapLog \in Seq(Entries) /\ queue \in Seq(Positions) /\ ckptMsgs \in Seq(Positions)
      /\ high \in Seq(Events) /\ low \in Seq(Events) /\ ckptCounter \in Int
  BY DEF TapInv, TypeOK
<1>2. \A i \in DOMAIN tapLog : tapLog[i].ev \in {"start", "end", "set"} =>
         tapLog[i].pos \in Positions /\ Stream[tapLog[i].pos].op = tapLog[i].ev
  BY DEF TapInv, QueuesFit, EventFits, VBucketEvents, OpaqueEvents
<1>3. /\ sets \in Seq(Positions)
      /\ \A n \in DOMAIN sets :
            \E i \in DOMAIN tapLog : tapLog[i].ev \in SetEvents /\ sets[n] = tapLog[i].pos
      /\ \A i \in DOMAIN tapLog : tapLog[i].ev \in SetEvents =>
            \E n \in DOMAIN sets : sets[n] = tapLog[i].pos
  <2>1. \A i \in DOMAIN tapLog : tapLog[i].ev \in SetEvents => tapLog[i].pos \in Positions
    BY <1>2 DEF SetEvents
  <2>2. tapLog \in Seq(Entries)
    BY <1>1
  <2> QED  BY <2>1, <2>2, LogPositionsFacts, SMTT(30)
<1>4. /\ marks \in Seq(Positions) /\ Len(marks) = CkptCount(tapLog)
      /\ \A n \in DOMAIN marks : \E i \in DOMAIN tapLog : tapLog[i].ev \in CkptEvents /\ marks[n] = tapLog[i].pos
  <2>1. \A i \in DOMAIN tapLog : tapLog[i].ev \in CkptEvents => tapLog[i].pos \in Positions
    BY <1>2 DEF CkptEvents
  <2> QED  BY <1>1, <2>1, LogPositionsFacts DEF CkptCount
<1>5. pend \in Seq({Event(n) : n \in {"pending"}}) /\ act \in Seq({Event(n) : n \in {"active"}})
  BY <1>1, LogEventsFacts
<1>6. EvaluateFlags \in Seq(HighEvents) /\ 1 \in DOMAIN EvaluateFlags
      /\ EvaluateFlags[1] = Event("auto_nack")
  <2> DEFINE x == Event("auto_nack")
             y == Event("checkpoint_sync")
  <2>1. x \in HighEvents /\ y \in HighEvents /\ EvaluateFlags = <<x, y>>
    BY EventSets DEF EvaluateFlags
  <2> HIDE DEF x, y
  <2>2. /\ EvaluateFlags \in Seq(HighEvents) /\ 1 \in DOMAIN EvaluateFlags
        /\ EvaluateFlags[1] = x
    BY <2>1
  <2> QED  BY <2>2 DEF x
<1>7. pend \in Seq(HighEvents)
  BY <1>5, EventSets, SeqElements, SeqOf
<1>8. high \in Seq(HighEvents)
  BY <1>1, SeqOf DEF TapInv, QueuesFit, HighEvents
<1> HIDE DEF pend, act, sets, marks
<1>9. again \in Seq(HighEvents) /\ \E i \in DOMAIN again : again[i] = Event("auto_nack")
  BY <1>6, <1>7, ConcatFacts DEF IsConcat
<1> HIDE DEF again
<1>10. high \o again \in Seq(HighEvents) /\ \E i \in DOMAIN (high \o again) : (high \o again)[i] = Event("auto_nack")
  BY <1>8, <1>9, ConcatFacts DEF IsConcat
<1>11. opaque \in Seq(HighEvents) /\ \E i \in DOMAIN opaque : opaque[i] = Event("auto_nack")
  <2>1. opaque \in Seq({Event(n) : n \in OpaqueEvents})
    BY <1>10, LogEventsFacts
  <2>2. opaque \in Seq(HighEvents)
    BY <2>1, EventSets, SeqElements, SeqOf
  <2>3. PICK i \in DOMAIN (high \o again) : (high \o again)[i] = Event("auto_nack")
    BY <1>10
  <2>4. (high \o again)[i].ev = "auto_nack" /\ "auto_nack" \in OpaqueEvents
    BY <2>3, EventSets DEF OpaqueEvents
  <2>5. \E n \in DOMAIN opaque : opaque[n] = Event((high \o again)[i].ev)
    BY <1>10, <2>4, LogEventsFacts
  <2> QED  BY <2>2, <2>4, <2>5
<1> HIDE DEF opaque
<1>12. high' \in Seq(HighEvents) /\ \E i \in DOMAIN high' : high'[i].ev = "auto_nack"
  <2>1. CASE Takeover
    <3>1. high' = Append(opaque, Event("pending")) /\ Event("pending") \in HighEvents
      BY <1>0, <2>1, EventSets
    <3>2. high' \in Seq(HighEvents) /\ \A i \in DOMAIN opaque : i \in DOMAIN high' /\ high'[i] = opaque[i]
      BY <1>11, <3>1, AppendFacts
    <3> QED  BY <1>11, <3>2, EventSets
  <2>2. CASE ~Takeover
    BY <1>0, <1>10, <2>2, EventSets
  <2> QED  BY <2>1, <2>2
<1>13. low' \in Seq(Events) /\ \A i \in DOMAIN low' : low'[i] = Event("active")
  <2>1. CASE Takeover
    <3> DEFINE x == Event("active")
    <3>1. low' = <<x>> /\ x \in Events
      BY <1>0, <2>1, EventSets
    <3> HIDE DEF x
    <3>2. low' \in Seq(Events) /\ \A i \in DOMAIN low' : low'[i] = x
      BY <3>1
    <3> QED  BY <3>2 DEF x
  <2>2. CASE ~Takeover
    <3>1. act \in Seq(Events) /\ \A i \in DOMAIN act : act[i] = Event("active")
      BY <1>5, EventSets, SeqElements, SeqOf
    <3>2. low' = low \o act
      BY <1>0, <2>2
    <3> QED  BY <1>1, <3>1, <3>2, ConcatFacts DEF IsConcat, TapInv, QueuesFit
  <2> QED  BY <2>1, <2>2
<1>14. /\ queue' \in Seq(Positions)
       /\ \A i \in DOMAIN queue' : Stream[queue'[i]].op = "set"
       /\ \A i \in DOMAIN queue : \E z \in DOMAIN queue' : queue'[z] = queue[i]
       /\ \A i \in DOMAIN tapLog : tapLog[i].ev = "set" =>
             \E z \in DOMAIN queue' : queue'[z] = tapLog[i].pos
  <2>1. /\ queue' \in Seq(Positions)
        /\ \A i \in DOMAIN queue' : \/ \E x \in DOMAIN queue : queue'[i] = queue[x]
                                    \/ \E x \in DOMAIN sets : queue'[i] = sets[x]
        /\ \A x \in DOMAIN queue : \E i \in DOMAIN queue' : queue'[i] = queue[x]
        /\ \A x \in DOMAIN sets : \E i \in DOMAIN queue' : queue'[i] = sets[x]
    <3>1. queue' \in Seq(Positions) /\ IsConcat(queue', queue, sets)
      BY <1>0, <1>1, <1>3, ConcatFacts
    <3> QED  BY <3>1 DEF IsConcat
  <2>2. \A x \in DOMAIN sets : Stream[sets[x]].op = "set"
    BY <1>2, <1>3 DEF SetEvents
  <2>3. \A i \in DOMAIN queue' : Stream[queue'[i]].op = "set"
    BY <2>1, <2>2 DEF TapInv, QueuesFit
  <2>4. \A i \in DOMAIN tapLog : tapLog[i].ev = "set" =>
             \E z \in DOMAIN queue' : queue'[z] = tapLog[i].pos
    <3> SUFFICES ASSUME NEW i \in DOMAIN tapLog, tapLog[i].ev = "set"
                 PROVE  \E z \in DOMAIN queue' : queue'[z] = tapLog[i].pos
      OBVIOUS
    <3>1. PICK n \in DOMAIN sets : sets[n] = tapLog[i].pos
      BY <1>3 DEF SetEvents
    <3> QED  BY <2>1, <3>1
  <2> QED  BY <2>1, <2>3, <2>4
<1>15. /\ ckptMsgs' \in Seq(Positions)
       /\ \A i \in DOMAIN ckptMsgs' : /\ Stream[ckptMsgs'[i]].op \in {"start", "end"}
                                      /\ Covered(ckptMsgs'[i])
  <2>1. /\ ckptMsgs' \in Seq(Positions)
        /\ \A i \in DOMAIN ckptMsgs' : \/ \E x \in DOMAIN ckptMsgs : ckptMsgs'[i] = ckptMsgs[x]
                                       \/ \E x \in DOMAIN marks : ckptMsgs'[i] = marks[x]
    <3>1. ckptMsgs' \in Seq(Positions) /\ IsConcat(ckptMsgs', ckptMsgs, marks)
      BY <1>0, <1>1, <1>4, ConcatFacts
    <3> QED  BY <3>1 DEF IsConcat
  <2>2. \A x \in DOMAIN marks : Stream[marks[x]].op \in {"start", "end"} /\ Covered(marks[x])
    BY <1>2, <1>4 DEF TapInv, MarksCovered, CkptEvents
  <2>3. \A x \in DOMAIN ckptMsgs : Stream[ckptMsgs[x]].op \in {"start", "end"} /\ Covered(ckptMsgs[x])
    BY DEF TapInv, QueuesFit, MarksCovered
  <2> QED  BY <2>1, <2>2, <2>3
<1>16. CounterExact' /\ ckptCounter' \in Int
  <2>1. ckptCounter = CkptCount(tapLog)
    BY DEF TapInv, CounterExact, CkptCount, CkptEvents
  <2>2. ckptCounter' = 0
    BY <1>0, <1>1, <1>4, <2>1
  <2>3. Places(tapLog', {"start", "end"}) = {}
    BY <1>0 DEF Places
  <2> QED  BY <2>2, <2>3, FS_EmptySet DEF CounterExact
<1> QED  BY <1>12, <1>13, <1>14, <1>15, <1>16

LEMMA Reconnects == ASSUME TapInv, Reconnect PROVE TapInv'
<1>1. /\ link = "down" /\ link' = "up" /\ tapLog' = <<>>
      /\ seqnoReceived' = (seqno - 1) % SeqMod
      /\ flags' = [flags EXCEPT !.disconnect = FALSE] /\ ckpt' = NewCheckpointState
      /\ cursor' = Registered(LastClosed + 1)
      /\ replica' = [replica EXCEPT !.vb = "replica", !.nack = FALSE]
      /\ reconnects' = reconnects + 1 /\ reconnects < MaxReconnects
      /\ UNCHANGED <<avail, source, seqno, walk, toConsumer, toProducer, refusals>>
  BY DEF Reconnect
<1>2. toConsumer' = <<>> /\ toProducer' = <<>> /\ walk' = "ready"
  BY <1>1 DEF TapInv, QueuesFit
<1>3. /\ queue' \in Seq(Positions) /\ \A i \in DOMAIN queue' : Stream[queue'[i]].op = "set"
      /\ \A i \in DOMAIN queue : \E z \in DOMAIN queue' : queue'[z] = queue[i]
      /\ \A i \in DOMAIN tapLog : tapLog[i].ev = "set" =>
            \E z \in DOMAIN queue' : queue'[z] = tapLog[i].pos
      /\ ckptMsgs' \in Seq(Positions)
      /\ \A i \in DOMAIN ckptMsgs' : /\ Stream[ckptMsgs'[i]].op \in {"start", "end"}
                                     /\ Covered(ckptMsgs'[i])
      /\ low' \in Seq(Events) /\ \A i \in DOMAIN low' : low'[i] = Event("active")
      /\ high' \in Seq(HighEvents)
      /\ \E i \in DOMAIN high' : high'[i].ev = "auto_nack"
      /\ CounterExact' /\ ckptCounter' \in Int
  BY RolledBack
<1>4. /\ seqno \in 0 .. MaxSeqno /\ seqnoReceived' \in 0 .. MaxSeqno
      /\ seqno = 0 => seqnoReceived' = MaxSeqno
      /\ seqno # 0 => seqnoReceived' = seqno - 1
  <2>1. seqno \in 0 .. MaxSeqno /\ SeqMod \in Nat /\ SeqMod > 3 /\ MaxSeqno = SeqMod - 1
    BY Constants DEF TapInv, TypeOK
  <2>2. CASE seqno = 0
    <3>1. (0 - 1) % SeqMod = SeqMod - 1
      BY <2>1
    <3> QED  BY <1>1, <2>1, <2>2, <3>1
  <2>3. CASE seqno # 0
    <3>1. seqno - 1 \in Nat /\ seqno - 1 < SeqMod
      BY <2>1, <2>3
    <3>2. (seqno - 1) % SeqMod = seqno - 1
      BY <2>1, <3>1
    <3> QED  BY <1>1, <2>1, <2>3, <3>1, <3>2
  <2> QED  BY <2>1, <2>2, <2>3
<1>5. cursor' \in [pos : 0 .. Len(Stream), id : Nat] /\ Covered(cursor'.pos + 1)
  BY <1>1, RegisteredFacts DEF TapInv
<1>6. /\ replica' \in Replicas /\ replica'.applied = replica.applied /\ replica'.vb = "replica"
      /\ replica'.id = replica.id /\ replica'.open = replica.open
  BY <1>1, ReplicaType DEF Replicas
<1>7. TypeOK'
  <2>1. flags' \in Flags /\ ckpt' \in CheckpointStates
    <3>1. flags \in Flags
      BY DEF TapInv, TypeOK
    <3>2. flags' \in Flags
      BY <1>1, <3>1 DEF Flags
    <3>3. ckpt' \in CheckpointStates
      BY <1>1, Constants DEF CheckpointStates, NewCheckpointState
    <3> QED  BY <3>2, <3>3
  <2>2. reconnects' \in 0 .. MaxReconnects
    <3>1. reconnects \in 0 .. MaxReconnects /\ MaxReconnects \in Nat
      BY WindowAssumption DEF TapInv, TypeOK
    <3>2. reconnects' = reconnects + 1 /\ reconnects < MaxReconnects
      BY <1>1
    <3> QED  BY <3>1, <3>2
  <2>3. high' \in Seq(Events)
    BY <1>3, EventSets, SeqElements, SeqOf
  <2>4. tapLog' \in Seq(Entries)
    BY <1>1
  <2> QED  BY <1>1, <1>2, <1>3, <1>4, <1>5, <1>6, <2>1, <2>2, <2>3, <2>4 DEF TapInv, TypeOK
<1>8. NumbersFit'
  <2>1. 1 .. Len(tapLog') = {} /\ Len(tapLog') = 0 /\ tapLog' \in Seq(Entries)
    BY <1>1
  <2>2. CASE seqno = 0
    <3>1. high' # <<>>
      BY <1>3
    <3>2. Skipped(tapLog', seqno', seqnoReceived', high')
      BY <1>1, <1>4, <2>2, <3>1 DEF Skipped
    <3> QED  BY <1>1, <1>4, <2>1, <3>2, NumbersAreNext
  <2>3. CASE seqno # 0
    <3>1. Bd(seqno, seqnoReceived') = 1
      BY <1>4, <2>3, Constants DEF Bd
    <3>2. Ordered(tapLog', seqno', seqnoReceived')
      BY <1>1, <2>1, <3>1, Constants DEF Ordered
    <3> QED  BY <1>1, <1>4, <2>1, <3>2, NumbersAreNext
  <2> QED  BY <2>2, <2>3
<1>9. WireFits' /\ AnswersFit' /\ AnswersDue'
  <2>1. Handled' = 0 /\ 1 .. Handled' = {} /\ DOMAIN toConsumer' = {} /\ DOMAIN toProducer' = {}
    BY <1>1, <1>2 DEF Handled
  <2> QED  BY <2>1 DEF WireFits, AnswersFit, AnswersDue
<1>10. LogIsBounded' /\ DeadBeforeActive' /\ NackFirst'
  <2>1. Len(tapLog') = 0 /\ DOMAIN tapLog' = {} /\ DOMAIN toConsumer' = {}
    BY <1>1, <1>2
  <2> QED  BY <1>3, <1>6, <2>1, Constants DEF LogIsBounded, DeadBeforeActive, NackFirst
<1>11. QueuesFit'
  <2>1. \A i \in DOMAIN high' : high'[i] \in {Event(n) : n \in OpaqueEvents \cup {"pending"}}
    BY <1>3, SeqElements DEF HighEvents
  <2> QED  BY <1>1, <1>2, <1>3, <2>1 DEF QueuesFit
<1>12. HeldStays
  <2> SUFFICES ASSUME NEW p \in Mutations, Held(p)
               PROVE  p \in replica'.applied \/ \E z \in DOMAIN queue' : queue'[z] = p
    BY DEF HeldStays, Held
  <2>1. \A y \in DOMAIN tapLog : tapLog[y].pos = p => tapLog[y].ev = "set"
    BY LogHolds
  <2> QED  BY <1>3, <1>6, <2>1 DEF Held
<1>13. MarksCovered'
  <2>1. \A i \in DOMAIN ckptMsgs' : \A p \in Mutations : p < ckptMsgs'[i] => Held(p)'
    BY <1>3, <1>12 DEF HeldStays, Covered
  <2>2. \A i \in DOMAIN ckptMsgs' : Covered(ckptMsgs[i])'
    BY <2>1 DEF Covered
  <2>3. \A p \in Mutations : p < cursor'.pos + 1 => Held(p)'
    BY <1>5, <1>12 DEF HeldStays, Covered
  <2>4. Covered(cursor.pos + 1)'
    BY <2>3 DEF Covered
  <2>5. ReplicaCovered'
    BY <1>6, <1>12, ReplicaCoveredStays DEF TapInv, MarksCovered, ReplicaCovered
  <2>6. DOMAIN tapLog' = {} /\ DOMAIN toConsumer' = {}
    BY <1>1, <1>2
  <2> QED  BY <2>2, <2>4, <2>5, <2>6 DEF MarksCovered, ReplicaCovered
<1> QED  BY <1>3, <1>7, <1>8, <1>9, <1>10, <1>11, <1>13 DEF TapInv

-----------------------------------------------------------------------------
(* The theorems *)

LEMMA InitBooks == Init => TapInv
<1> SUFFICES ASSUME Init PROVE TapInv
  OBVIOUS
<1>1. /\ tapLog = <<>> /\ toConsumer = <<>> /\ toProducer = <<>> /\ queue = <<>> /\ ckptMsgs = <<>>
      /\ DOMAIN tapLog = {} /\ DOMAIN toConsumer = {} /\ DOMAIN toProducer = {}
      /\ DOMAIN queue = {} /\ DOMAIN ckptMsgs = {} /\ Len(tapLog) = 0 /\ Len(toConsumer) = 0
      /\ seqno = InitialSeqno /\ seqnoReceived = InitialSeqno - 1 /\ link = "up" /\ walk = "ready"
      /\ cursor = [pos |-> 0, id |-> Stream[1].id] /\ ckptCounter = 0 /\ refusals = 0 /\ reconnects = 0
      /\ avail = 1 /\ source = "active" /\ ckpt = NewCheckpointState /\ flags = NoFlags
      /\ replica = [vb |-> "replica", nack |-> FALSE, id |-> 0, open |-> TRUE,
                    applied |-> {}, queued |-> {}, closed |-> {}]
  BY DEF Init
<1>2. /\ seqno \in 0 .. MaxSeqno /\ seqnoReceived \in 0 .. MaxSeqno
      /\ Bd(seqno, seqnoReceived) = 1
  <2>1. InitialSeqno \in 1 .. MaxSeqno
    BY WindowAssumption DEF MaxSeqno
  <2> QED  BY <1>1, <2>1, Constants DEF Bd
<1>3. /\ high \in Seq(HighEvents) /\ \E i \in DOMAIN high : high[i].ev = "auto_nack"
  <2> DEFINE x == Event("auto_nack")
             y == Event("checkpoint_sync")
             z == Event("pending")
  <2>1. /\ x \in HighEvents /\ y \in HighEvents /\ z \in HighEvents
        /\ x.ev = "auto_nack" /\ EvaluateFlags = <<x, y>>
    BY EventSets DEF EvaluateFlags
  <2>2. high = EvaluateFlags \o (IF Takeover THEN <<z>> ELSE <<>>)
    BY DEF Init
  <2> HIDE DEF x, y, z
  <2>3. EvaluateFlags \in Seq(HighEvents) /\ 1 \in DOMAIN EvaluateFlags /\ EvaluateFlags[1] = x
    BY <2>1
  <2>4. (IF Takeover THEN <<z>> ELSE <<>>) \in Seq(HighEvents)
    BY <2>1
  <2>5. high \in Seq(HighEvents) /\ IsConcat(high, EvaluateFlags, IF Takeover THEN <<z>> ELSE <<>>)
    BY <2>2, <2>3, <2>4, ConcatFacts
  <2> QED  BY <2>1, <2>3, <2>5 DEF IsConcat
<1>4. low \in Seq(Events) /\ \A i \in DOMAIN low : low[i] = Event("active")
  <2> DEFINE x == Event("active")
  <2>1. low = (IF Takeover THEN <<x>> ELSE <<>>) /\ x \in Events
    BY EventSets DEF Init
  <2> HIDE DEF x
  <2>2. low \in Seq(Events) /\ \A i \in DOMAIN low : low[i] = x
    BY <2>1
  <2> QED  BY <2>2 DEF x
<1>5. TypeOK
  <2>1. Len(Stream) \in Nat /\ Len(Stream) >= 1 /\ 1 \in Positions
    BY StreamAssumption DEF Positions
  <2>2. cursor \in [pos : 0 .. Len(Stream), id : Nat]
    BY <1>1, <2>1, ItemFacts
  <2>3. high \in Seq(Events)
    BY <1>3, EventSets, SeqElements, SeqOf
  <2>4. ckpt \in CheckpointStates /\ flags \in Flags
    BY <1>1, Constants DEF NewCheckpointState, NoFlags, CheckpointStates, Flags
  <2>5. replica \in Replicas
    BY <1>1 DEF Replicas
  <2>6. /\ tapLog \in Seq(Entries) /\ toConsumer \in Seq(Messages) /\ toProducer \in Seq(Answers)
        /\ queue \in Seq(Positions) /\ ckptMsgs \in Seq(Positions)
    BY <1>1
  <2>7. avail \in 0 .. Len(Stream) /\ refusals \in 0 .. MaxRefusals /\ reconnects \in 0 .. MaxReconnects
    BY <1>1, <2>1, WindowAssumption
  <2> QED  BY <1>1, <1>2, <1>4, <2>2, <2>3, <2>4, <2>5, <2>6, <2>7 DEF TypeOK
<1>6. NumbersFit
  <2>1. Ordered(tapLog, seqno, seqnoReceived)
    BY <1>1, <1>2, Constants DEF Ordered
  <2> QED  BY <1>2, <1>5, <2>1, NumbersAre DEF TypeOK
<1>7. WireFits /\ AnswersFit /\ AnswersDue /\ NackFirst
  <2>1. Handled = 0 /\ 1 .. Handled = {}
    BY <1>1 DEF Handled
  <2> QED  BY <1>1, <1>3, <2>1 DEF WireFits, AnswersFit, AnswersDue, NackFirst
<1>8. LogIsBounded /\ DeadBeforeActive
  BY <1>1, Constants DEF LogIsBounded, DeadBeforeActive
<1>9. CounterExact
  <2>1. Places(tapLog, {"start", "end"}) = {}
    BY <1>1 DEF Places
  <2> QED  BY <1>1, <2>1, FS_EmptySet DEF CounterExact
<1>10. QueuesFit
  <2>1. \A i \in DOMAIN high : high[i] \in {Event(n) : n \in OpaqueEvents \cup {"pending"}}
    BY <1>3, SeqElements DEF HighEvents
  <2> QED  BY <1>1, <1>4, <2>1 DEF QueuesFit
<1>11. MarksCovered
  <2>1. Covered(cursor.pos + 1)
    <3>1. \A p \in Mutations : ~(p < cursor.pos + 1)
      BY <1>1, StreamAssumption DEF Mutations, Positions
    <3> QED  BY <3>1 DEF Covered
  <2> QED  BY <1>1, <2>1 DEF MarksCovered
<1> QED  BY <1>5, <1>6, <1>7, <1>8, <1>9, <1>10, <1>11 DEF TapInv

LEMMA NextBooks == TapInv /\ [Next]_vars => TapInv'
<1> SUFFICES ASSUME TapInv, [Next]_vars PROVE TapInv'
  OBVIOUS
<1>1. CASE QueueDirty
  BY <1>1, QueuesDirty
<1>2. CASE Walk
  BY <1>2, WalksHighPriority, WalksCheckpointMsg, WalksQueue, WalksMutation,
     WalksCheckpointStart, WalksCheckpointEnd, WalksComplete, TakesOver DEF Walk
<1>3. CASE ProcessAck
  BY <1>3, AcksSuccess, AcksTmpfail, AcksFail DEF ProcessAck
<1>4. CASE Resume
  BY <1>4, Resumes
<1>5. CASE Accept
  BY <1>5, ConsumesOpaque, ConsumesVBucketSet, ConsumesCheckpoint, ConsumesMutation DEF Accept
<1>6. CASE \E status \in {"tmpfail", "fail"} : RefuseMutation(status)
  BY <1>6, RefusesMutation
<1>7. CASE Break \/ Disconnect \/ Reap
  BY <1>7, Breaks
<1>8. CASE AckTimeout
  BY <1>8, TimesOut
<1>9. CASE Reconnect
  BY <1>9, Reconnects
<1>10. CASE UNCHANGED vars
  <2> USE <1>10 DEF vars, producerVars
  <2>1. TypeOK' /\ LogIsBounded' /\ CounterExact' /\ QueuesFit' /\ DeadBeforeActive'
    BY DEF TapInv, TypeOK, LogIsBounded, CounterExact, QueuesFit, EventFits, Distance, DeadBeforeActive
  <2>2. Streams' => Streams
    BY DEF Streams
  <2>3. Books' /\ NackFirst' /\ HeldStays
    BY <2>2, QuietStep
  <2>4. MarksCovered'
    BY <2>3, SameMarks, SameCursor DEF TapInv, MarksCovered
  <2> QED  BY <2>1, <2>3, <2>4 DEF TapInv, Books
<1> QED  BY <1>1, <1>2, <1>3, <1>4, <1>5, <1>6, <1>7, <1>8, <1>9, <1>10 DEF Next

\* The books of TapProducer hold for every stream, window and place of the wrap: the log of
\* unacknowledged messages never outgrows the window (windowIsFull), its numbers stay in
\* order and distinct, each answer finds its message (processAck), and every position from
\* which the stream may go on has nothing missing before it (rollback, registerTAPCursor).
THEOREM TapInvariant == Spec => []TapInv
<1>1. Init => TapInv
  BY InitBooks
<1>2. TapInv /\ [Next]_vars => TapInv'
  BY NextBooks
<1> QED  BY <1>1, <1>2, PTL DEF Spec

\* No mutation that the cursor has passed is lost: not by an ack, which acknowledges all
\* that was sent before (processAck), a refusal (reschedule) or a roll-back.
THEOREM NothingDroppedAlways == Spec => []NothingDropped
<1>1. TapInv => NothingDropped
  BY DEF TapInv, MarksCovered, NothingDropped
<1> QED  BY <1>1, TapInvariant, PTL

\* The vbucket is never active at both ends of a takeover, whatever is sent again or lost:
\* doWalkTapQueue makes the source dead before it sends the message.
THEOREM OneOwnerAlways == Spec => []OneOwner
<1>1. TapInv => OneOwner
  BY DEF TapInv, DeadBeforeActive, OneOwner
<1> QED  BY <1>1, TapInvariant, PTL
-----------------------------------------------------------------------------
(***************************************************************************)
(* A checkpoint's end behind its items, for as long as the sequence        *)
(* numbers do not wrap.  What is in the log and on the wire is seen as a   *)
(* set of events here; their order matters once (ActiveFirst).             *)
(***************************************************************************)

Pair(x) == [ev |-> x.ev, pos |-> x.pos]

Logged == {Pair(tapLog[i]) : i \in DOMAIN tapLog}

OnWire == {Pair(toConsumer[j]) : j \in DOMAIN toConsumer}

Awaiting == {ItemEvent(ckptMsgs[i]) : i \in DOMAIN ckptMsgs}

Has(events, name) == \E x \in events : x.ev = name

\* The replica has every mutation before this position.
Applied(q) == \A p \in Mutations : p < q => p \in replica.applied

\* The numbers have not wrapped, and lastSeqNum is not behind any mutation in the log.
Numbered ==
    /\ seqnoReceived < seqno /\ ~flags.rotated
    /\ \A i \in DOMAIN tapLog : /\ tapLog[i].seqno < seqno
                                /\ tapLog[i].ev = "set" => tapLog[i].seqno <= ckpt.lastSeqNum

\* The checkpoint messages and the replica's checkpoint are of the queued part of the stream.
Reach ==
    /\ avail \in Positions /\ Stream[avail].op # "end" /\ cursor.pos <= avail
    /\ \A x \in Logged \cup Awaiting : x.ev \in CkptEvents => x.pos <= avail
    /\ \/ replica.id = 0 /\ replica.open
       \/ \E p \in Positions : /\ p <= avail /\ Stream[p].id = replica.id
                              /\ Stream[p].op = IF replica.open THEN "start" ELSE "end"

\* A checkpoint's end is not queued or sent before its items are applied.
EndsApplied ==
    /\ \A x \in Logged \cup Awaiting : x.ev = "end" => Applied(x.pos)
    /\ \A e \in replica.closed : Applied(e)

NoItems == queue = <<>> /\ ~Has(Logged, "set")

\* The next item to read is the start of a checkpoint.
AtStart == cursor.pos < avail /\ Stream[cursor.pos + 1].op = "start"

\* From a checkpoint's end to the next one's start there is no mutation; the vbucket becomes
\* active in between neither.
Between ==
    /\ Has(Logged \cup Awaiting, "end") => NoItems /\ AtStart
    /\ ~replica.open =>
         /\ NoItems
         /\ \/ AtStart
            \/ Has(Awaiting, "start")
            \/ Has(IF link = "up" THEN OnWire ELSE Logged, "start")
    /\ walk = "takeover" /\ Logged = {} => replica.open
    /\ replica.vb = "active" \/ Has(OnWire, "active") => replica.open

\* No message that makes the vbucket active follows a checkpoint's end.
ActiveFirst ==
    \A j, k \in DOMAIN toConsumer : j < k /\ toConsumer[j].ev = "end" => toConsumer[k].ev # "active"

EndInv ==
    /\ Numbered /\ Reach /\ EndsApplied /\ OnWire \subseteq Logged /\ Between /\ ActiveFirst
    /\ replica.applied \subseteq replica.queued

\* Only the empty sequence has no places.
LEMMA EmptyDomain ==
    ASSUME NEW S, NEW q \in Seq(S)
    PROVE  q = <<>> <=> DOMAIN q = {}
<1>1. DOMAIN q = 1 .. Len(q) /\ Len(q) \in Nat
  OBVIOUS
<1>2. q = <<>> <=> Len(q) = 0
  OBVIOUS
<1>3. 1 .. Len(q) = {} <=> Len(q) = 0
  <2>1. Len(q) # 0 => 1 \in 1 .. Len(q)
    BY <1>1
  <2>2. Len(q) = 0 => \A i \in 1 .. Len(q) : FALSE
    BY <1>1
  <2> QED  BY <2>1, <2>2
<1> QED  BY <1>1, <1>2, <1>3

\* The messages of the log and the wire are events.
LEMMA EventsAre ==
    ASSUME TypeOK
    PROVE  /\ Logged \subseteq Events /\ OnWire \subseteq Events
           /\ tapLog = <<>> <=> Logged = {}
           /\ toConsumer = <<>> <=> OnWire = {}
           /\ ckptMsgs = <<>> <=> Awaiting = {}
<1>1. /\ tapLog \in Seq(Entries) /\ toConsumer \in Seq(Messages) /\ ckptMsgs \in Seq(Positions)
  BY DEF TypeOK
<1>2. \A x \in Entries : Pair(x) \in Events
  BY DEF Entries, Events, Pair
<1>3. \A x \in Messages : Pair(x) \in Events
  BY DEF Messages, Events, Pair
<1>4. Logged \subseteq Events
  BY <1>1, <1>2 DEF Logged
<1>5. OnWire \subseteq Events
  BY <1>1, <1>3 DEF OnWire
<1>6. tapLog = <<>> <=> Logged = {}
  <2>1. Logged = {} <=> DOMAIN tapLog = {}
    BY DEF Logged
  <2> QED  BY <1>1, <2>1, EmptyDomain
<1>7. toConsumer = <<>> <=> OnWire = {}
  <2>1. OnWire = {} <=> DOMAIN toConsumer = {}
    BY DEF OnWire
  <2> QED  BY <1>1, <2>1, EmptyDomain
<1>8. ckptMsgs = <<>> <=> Awaiting = {}
  <2>1. Awaiting = {} <=> DOMAIN ckptMsgs = {}
    BY DEF Awaiting
  <2> QED  BY <1>1, <2>1, EmptyDomain
<1> QED  BY <1>4, <1>5, <1>6, <1>7, <1>8

\* A message that is sent is logged and on the wire.
LEMMA SendSets ==
    ASSUME TypeOK, NEW e \in Events, NEW s, s = seqno \/ s = Increment(seqno),
           NEW ack \in BOOLEAN, Send(e, s, ack)
    PROVE  Logged' = Logged \cup {e} /\ OnWire' = OnWire \cup {e}
<1>1. /\ DOMAIN tapLog = 1 .. Len(tapLog) /\ Len(tapLog) \in Nat
      /\ DOMAIN toConsumer = 1 .. Len(toConsumer) /\ Len(toConsumer) \in Nat
  BY SequenceTypes
<1>2. /\ tapLog' \in Seq(Entries) /\ Len(tapLog') = Len(tapLog) + 1
      /\ tapLog'[Len(tapLog) + 1] = Sent(e, s)
      /\ \A i \in 1 .. Len(tapLog) : tapLog'[i] = tapLog[i]
      /\ toConsumer' \in Seq(Messages) /\ Len(toConsumer') = Len(toConsumer) + 1
      /\ toConsumer'[Len(toConsumer) + 1] = Wired(e, s, ack)
      /\ \A j \in 1 .. Len(toConsumer) : toConsumer'[j] = toConsumer[j]
  BY SentFacts
<1>3. Pair(Sent(e, s)) = e /\ Pair(Wired(e, s, ack)) = e
  BY DEF Pair, Sent, Wired, Events
<1>4. /\ DOMAIN tapLog' = 1 .. Len(tapLog) + 1
      /\ DOMAIN toConsumer' = 1 .. Len(toConsumer) + 1
  BY <1>2
<1>5. /\ \A i \in 1 .. Len(tapLog) + 1 : i = Len(tapLog) + 1 \/ i \in 1 .. Len(tapLog)
      /\ \A i \in 1 .. Len(tapLog) : i \in 1 .. Len(tapLog) + 1
      /\ Len(tapLog) + 1 \in 1 .. Len(tapLog) + 1
      /\ \A i \in 1 .. Len(toConsumer) + 1 : i = Len(toConsumer) + 1 \/ i \in 1 .. Len(toConsumer)
      /\ \A i \in 1 .. Len(toConsumer) : i \in 1 .. Len(toConsumer) + 1
      /\ Len(toConsumer) + 1 \in 1 .. Len(toConsumer) + 1
  BY <1>1
<1> HIDE DEF Pair, Sent, Wired
<1>6. Logged' = Logged \cup {e}
  <2> DEFINE n == Len(tapLog)
  <2>1. \A x : x \in Logged' <=> \E i \in 1 .. n + 1 : x = Pair(tapLog'[i])
    BY <1>4 DEF Logged
  <2>2. \A x : x \in Logged <=> \E i \in 1 .. n : x = Pair(tapLog[i])
    BY <1>1 DEF Logged
  <2> HIDE DEF n, Logged
  <2> QED  BY <1>2, <1>3, <1>5, <2>1, <2>2 DEF n
<1>7. OnWire' = OnWire \cup {e}
  <2> DEFINE n == Len(toConsumer)
  <2>1. \A x : x \in OnWire' <=> \E i \in 1 .. n + 1 : x = Pair(toConsumer'[i])
    BY <1>4 DEF OnWire
  <2>2. \A x : x \in OnWire <=> \E i \in 1 .. n : x = Pair(toConsumer[i])
    BY <1>1 DEF OnWire
  <2> HIDE DEF n, OnWire
  <2> QED  BY <1>2, <1>3, <1>5, <2>1, <2>2 DEF n
<1> QED  BY <1>6, <1>7

\* The numbers of a message that is sent, while they do not wrap.
LEMMA SendNumbers ==
    ASSUME TypeOK, Numbered, NEW e \in Events, NEW s, s = seqno \/ s = Increment(seqno),
           NEW ack \in BOOLEAN, Send(e, s, ack), seqno <= seqno',
           seqnoReceived' = seqnoReceived, ckpt'.lastSeqNum \in {ckpt.lastSeqNum, seqno},
           e.ev = "set" => s = seqno /\ ckpt'.lastSeqNum = seqno
    PROVE  Numbered'
<1>1. /\ MaxSeqno = SeqMod - 1 /\ MaxSeqno \in Nat /\ MaxSeqno >= 4 /\ SeqMod \in Nat
      /\ seqno \in 1 .. MaxSeqno /\ seqnoReceived \in 0 .. MaxSeqno /\ seqno' = Bump(s) /\ s \in 0 .. MaxSeqno
  BY Constants, SentFacts DEF TypeOK, Numbered
<1>2. s # MaxSeqno /\ s >= seqno /\ seqno' = s + 1
  <2>1. CASE s = seqno
    BY <1>1, <2>1 DEF Bump
  <2>2. CASE s = Increment(seqno) /\ seqno = MaxSeqno
    <3>1. (seqno + 1) % SeqMod = 0
      BY <1>1, <2>2
    <3> QED  BY <1>1, <2>2, <3>1 DEF Bump, Increment
  <2>3. CASE s = Increment(seqno) /\ seqno # MaxSeqno
    <3>1. (seqno + 1) % SeqMod = seqno + 1
      BY <1>1, <2>3
    <3> QED  BY <1>1, <2>3, <3>1 DEF Bump, Increment
  <2> QED  BY <2>1, <2>2, <2>3
<1>3. ~flags'.rotated
  <2>1. flags' = [flags EXCEPT !.rotated = @ \/ s = MaxSeqno]
    BY DEF Send
  <2> QED  BY <1>2, <2>1 DEF Numbered, TypeOK, Flags
<1>4. /\ tapLog \in Seq(Entries) /\ DOMAIN tapLog = 1 .. Len(tapLog) /\ Len(tapLog) \in Nat
      /\ tapLog' \in Seq(Entries) /\ Len(tapLog') = Len(tapLog) + 1
      /\ tapLog'[Len(tapLog) + 1] = Sent(e, s)
      /\ \A i \in 1 .. Len(tapLog) : tapLog'[i] = tapLog[i]
  BY SentFacts, SequenceTypes
<1>5. \A i \in DOMAIN tapLog' : i = Len(tapLog) + 1 \/ i \in 1 .. Len(tapLog)
  BY <1>4
<1>6. \A i \in 1 .. Len(tapLog) : tapLog[i].seqno \in Nat
  <2>1. \A i \in 1 .. Len(tapLog) : tapLog[i] \in Entries
    BY <1>4
  <2> QED  BY <1>1, <2>1 DEF Entries
<1>7. ckpt.lastSeqNum \in Nat
  BY DEF TypeOK, CheckpointStates
<1> QED  BY <1>1, <1>2, <1>3, <1>4, <1>5, <1>6, <1>7 DEF Numbered, Sent

\* The wire takes a message at its end, the one that makes the vbucket active when it is empty.
LEMMA SendOrder ==
    ASSUME TypeOK, ActiveFirst, NEW e \in Events, NEW s, s = seqno \/ s = Increment(seqno),
           NEW ack \in BOOLEAN, Send(e, s, ack), e.ev = "active" => OnWire = {}
    PROVE  ActiveFirst'
<1>1. /\ DOMAIN toConsumer = 1 .. Len(toConsumer) /\ Len(toConsumer) \in Nat
      /\ toConsumer' \in Seq(Messages) /\ Len(toConsumer') = Len(toConsumer) + 1
      /\ toConsumer'[Len(toConsumer) + 1] = Wired(e, s, ack)
      /\ \A j \in 1 .. Len(toConsumer) : toConsumer'[j] = toConsumer[j]
  BY SequenceTypes, SentFacts
<1>2. e.ev = "active" => Len(toConsumer) = 0
  BY EventsAre
<1> SUFFICES ASSUME NEW j \in 1 .. Len(toConsumer) + 1, NEW k \in 1 .. Len(toConsumer) + 1,
                    j < k, toConsumer'[j].ev = "end"
             PROVE  toConsumer'[k].ev # "active"
  BY <1>1 DEF ActiveFirst
<1>3. j \in 1 .. Len(toConsumer)
  BY <1>1
<1>4. CASE k \in 1 .. Len(toConsumer)
  BY <1>1, <1>3, <1>4 DEF ActiveFirst
<1>5. CASE k = Len(toConsumer) + 1
  BY <1>1, <1>2, <1>3, <1>5 DEF Wired
<1> QED  BY <1>1, <1>4, <1>5

-----------------------------------------------------------------------------
(* A checkpoint's end behind its items: the steps *)

\* A checkpoint's end is followed by the next one's start.
LEMMA AfterEnd ==
    ASSUME NEW p \in Positions, Stream[p].op = "end"
    PROVE  /\ p + 1 \in Positions
           /\ Stream[p + 1].op = "start" /\ Stream[p + 1].id = Stream[p].id + 1
<1>1. p + 1 \in Positions /\ Stream[p + 1] = [op |-> "start", id |-> Stream[p].id + 1]
  BY StreamAssumption
<1> QED  BY <1>1

\* Steps that leave the items, the checkpoint messages and the wire alone.
LEMMA QuietEnds ==
    ASSUME EndInv, UNCHANGED <<avail, seqno, seqnoReceived, tapLog, queue, ckptMsgs, cursor,
                               walk, link, toConsumer, replica>>,
           flags'.rotated = flags.rotated, ckpt'.lastSeqNum = ckpt.lastSeqNum
    PROVE  EndInv'
<1>1. Logged' = Logged /\ OnWire' = OnWire /\ Awaiting' = Awaiting
  BY DEF Logged, OnWire, Awaiting
<1>2. Numbered' /\ Reach' /\ EndsApplied'
  BY <1>1 DEF EndInv, Numbered, Reach, EndsApplied, Applied
<1>3. Between' /\ ActiveFirst'
  BY <1>1 DEF EndInv, Between, ActiveFirst, NoItems, AtStart, Has
<1> QED  BY <1>1, <1>2, <1>3 DEF EndInv

LEMMA ResumeEnds ==
    ASSUME TapInv, EndInv, Resume \/ AckTimeout
    PROVE  EndInv'
<1>1. flags'.rotated = flags.rotated
  BY DEF TapInv, TypeOK, Flags, Resume, AckTimeout
<1> QED  BY <1>1, QuietEnds DEF Resume, AckTimeout

LEMMA QueueDirtyEnds ==
    ASSUME TapInv, EndInv, QueueDirty
    PROVE  EndInv'
<1>1. /\ avail \in Positions /\ Len(Stream) \in Nat /\ Positions = 1 .. Len(Stream)
      /\ cursor.pos \in 0 .. Len(Stream)
  BY StreamAssumption DEF TapInv, TypeOK, EndInv, Reach, Positions
<1>2. avail + 1 \in Positions
  BY <1>1 DEF QueueDirty
<1>3. avail' \in Positions /\ Stream[avail'].op # "end" /\ avail < avail'
  <2>1. CASE Stream[avail + 1].op = "end"
    <3>1. (avail + 1) + 1 \in Positions /\ Stream[(avail + 1) + 1].op = "start"
      BY <1>2, <2>1, AfterEnd
    <3>2. avail' = (avail + 1) + 1
      BY <1>1, <2>1 DEF QueueDirty
    <3> QED  BY <1>1, <3>1, <3>2
  <2>2. CASE Stream[avail + 1].op # "end"
    BY <1>1, <1>2, <2>2 DEF QueueDirty
  <2> QED  BY <2>1, <2>2
<1>4. UNCHANGED <<producerVars, link, toConsumer, replica>>
  BY DEF QueueDirty
<1>5. Logged' = Logged /\ OnWire' = OnWire /\ Awaiting' = Awaiting
  BY <1>4 DEF Logged, OnWire, Awaiting, producerVars
<1>6. Numbered' /\ EndsApplied' /\ ActiveFirst'
  BY <1>4, <1>5 DEF EndInv, Numbered, EndsApplied, Applied, ActiveFirst, producerVars
<1>7. Reach'
  <2>1. \A p : p \in Positions /\ p <= avail => p <= avail'
    BY <1>1, <1>3
  <2>2. \A x \in Logged \cup Awaiting : x.ev \in CkptEvents => x.pos <= avail'
    <3>1. TypeOK
      BY DEF TapInv
    <3>2. \A x \in Logged : x.pos \in 0 .. Len(Stream)
      BY <3>1, EventsAre DEF Events
    <3>3. \A x \in Awaiting : x.pos \in 0 .. Len(Stream)
      <4>1. ckptMsgs \in Seq(Positions)
        BY <3>1 DEF TypeOK
      <4>2. \A i \in DOMAIN ckptMsgs : ckptMsgs[i] \in Positions
        BY <4>1
      <4> QED  BY <1>1, <4>2 DEF Awaiting, ItemEvent
    <3> QED  BY <1>1, <1>3, <3>2, <3>3 DEF EndInv, Reach
  <2>3. cursor'.pos <= avail'
    BY <1>1, <1>3, <1>4 DEF EndInv, Reach, producerVars
  <2>4. \/ replica'.id = 0 /\ replica'.open
        \/ \E p \in Positions : /\ p <= avail' /\ Stream[p].id = replica'.id
                               /\ Stream[p].op = IF replica'.open THEN "start" ELSE "end"
    BY <1>4, <2>1 DEF EndInv, Reach
  <2> QED  BY <1>3, <1>5, <2>2, <2>3, <2>4 DEF Reach
<1>8. AtStart => AtStart'
  BY <1>1, <1>3, <1>4 DEF AtStart, producerVars
<1>9. Between'
  BY <1>4, <1>5, <1>8 DEF EndInv, Between, NoItems, Has, producerVars
<1> QED  BY <1>4, <1>5, <1>6, <1>7, <1>9 DEF EndInv

LEMMA LinkDownEnds ==
    ASSUME TapInv, EndInv, Break \/ Disconnect \/ Reap
    PROVE  EndInv'
<1>1. /\ UNCHANGED <<avail, producerVars, replica>> /\ toConsumer' = <<>> /\ link' # "up"
      /\ walk = "ready"
  <2>1. link # "up" => toConsumer = <<>> /\ walk = "ready"
    BY DEF TapInv, QueuesFit
  <2> QED  BY <2>1 DEF Break, Disconnect, Reap, LinkDown
<1>2. Logged' = Logged /\ Awaiting' = Awaiting
  BY <1>1 DEF Logged, Awaiting, producerVars
<1>3. OnWire' = {}
  BY <1>1 DEF OnWire
<1>4. Numbered' /\ Reach' /\ EndsApplied'
  BY <1>1, <1>2 DEF EndInv, Numbered, Reach, EndsApplied, Applied, producerVars
<1>5. ActiveFirst'
  BY <1>1 DEF ActiveFirst
<1>6. Between'
  BY <1>1, <1>2, <1>3 DEF EndInv, Between, NoItems, AtStart, Has, producerVars
<1> QED  BY <1>1, <1>2, <1>3, <1>4, <1>5, <1>6 DEF EndInv

\* What a step that sends an event is known to keep.
LEMMA SendKeeps ==
    ASSUME TapInv, EndInv, NEW e \in Events, NEW s, s = seqno \/ s = Increment(seqno),
           NEW ack \in BOOLEAN, Send(e, s, ack), seqno <= seqno', seqnoReceived' = seqnoReceived,
           ckpt'.lastSeqNum \in {ckpt.lastSeqNum, seqno},
           e.ev = "set" => s = seqno /\ ckpt'.lastSeqNum = seqno,
           e.ev = "active" => OnWire = {}
    PROVE  /\ Numbered' /\ ActiveFirst' /\ OnWire' \subseteq Logged'
           /\ Logged' = Logged \cup {e} /\ OnWire' = OnWire \cup {e}
<1>1. TypeOK /\ Numbered /\ ActiveFirst /\ OnWire \subseteq Logged
  BY DEF TapInv, EndInv
<1>2. Logged' = Logged \cup {e} /\ OnWire' = OnWire \cup {e}
  BY <1>1, SendSets
<1>3. Numbered'
  BY <1>1, SendNumbers
<1>4. ActiveFirst'
  BY <1>1, SendOrder
<1> QED  BY <1>1, <1>2, <1>3, <1>4

LEMMA WalkHighPriorityEnds ==
    ASSUME TapInv, EndInv, WalkHighPriority, seqno <= seqno'
    PROVE  EndInv'
<1> DEFINE e == Head(high)
<1>1. /\ MaySend /\ Send(e, Increment(seqno), TRUE)
      /\ UNCHANGED <<avail, seqnoReceived, queue, ckptMsgs, cursor, ckpt, walk, link, replica>>
  BY DEF WalkHighPriority
<1>2. walk = "ready" /\ link = "up"
  BY <1>1 DEF MaySend, Walking
<1>3. e \in Events /\ e.ev \notin {"start", "end", "set", "active"}
  <2>1. high \in Seq(Events) /\ high # <<>>
    BY DEF TapInv, TypeOK, WalkHighPriority
  <2>2. e = high[1] /\ 1 \in DOMAIN high /\ e \in Events
    BY <2>1, TailFacts
  <2>3. e \in {Event(n) : n \in OpaqueEvents \cup {"pending"}}
    BY <2>2 DEF TapInv, QueuesFit
  <2> QED  BY <2>2, <2>3 DEF Event, OpaqueEvents
<1> HIDE DEF e
<1>4. /\ Numbered' /\ ActiveFirst' /\ OnWire' \subseteq Logged'
      /\ Logged' = Logged \cup {e} /\ OnWire' = OnWire \cup {e}
  BY <1>1, <1>3, SendKeeps
<1>5. Awaiting' = Awaiting
  BY <1>1 DEF Awaiting
<1>6. Reach' /\ EndsApplied'
  BY <1>1, <1>3, <1>4, <1>5 DEF EndInv, Reach, EndsApplied, Applied, CkptEvents
<1>7. NoItems => NoItems'
  BY <1>1, <1>3, <1>4 DEF NoItems, Has
<1>8. AtStart => AtStart'
  BY <1>1 DEF AtStart
<1>9. Between'
  BY <1>1, <1>2, <1>3, <1>4, <1>5, <1>7, <1>8 DEF EndInv, Between, Has
<1> QED  BY <1>1, <1>4, <1>6, <1>9 DEF EndInv

LEMMA WalkCheckpointMsgEnds ==
    ASSUME TapInv, EndInv, WalkCheckpointMsg, seqno <= seqno'
    PROVE  EndInv'
<1> DEFINE p == Head(ckptMsgs)
           e == ItemEvent(p)
<1>1. /\ MaySend /\ Send(e, seqno, TRUE) /\ ckptMsgs # <<>> /\ ckptMsgs' = Tail(ckptMsgs)
      /\ UNCHANGED <<avail, seqnoReceived, queue, cursor, ckpt, walk, link, replica>>
  BY DEF WalkCheckpointMsg
<1>2. walk = "ready" /\ link = "up"
  BY <1>1 DEF MaySend, Walking
<1>3. ckptMsgs \in Seq(Positions)
  BY DEF TapInv, TypeOK
<1>4. e \in Events /\ e.ev \in CkptEvents
  <2>1. p = ckptMsgs[1] /\ 1 \in DOMAIN ckptMsgs /\ p \in Positions
    BY <1>1, <1>3, TailFacts
  <2>2. Stream[p].op \in {"start", "end"}
    BY <2>1 DEF TapInv, QueuesFit
  <2> QED  BY <2>1, <2>2, ItemFacts DEF CkptEvents
<1>5. Awaiting = Awaiting' \cup {e}
  <2> DEFINE n == Len(ckptMsgs)
             t == Tail(ckptMsgs)
  <2>1. /\ n \in Nat /\ DOMAIN ckptMsgs = 1 .. n /\ DOMAIN t = 1 .. n - 1
        /\ 1 \in 1 .. n /\ p = ckptMsgs[1]
        /\ \A i \in 1 .. n - 1 : i + 1 \in 1 .. n /\ t[i] = ckptMsgs[i + 1]
        /\ \A i \in 1 .. n : i # 1 => i - 1 \in 1 .. n - 1 /\ t[i - 1] = ckptMsgs[i]
    BY <1>1, <1>3, TailFacts
  <2>2. Awaiting = {ItemEvent(ckptMsgs[i]) : i \in 1 .. n}
    BY <2>1 DEF Awaiting
  <2>3. Awaiting' = {ItemEvent(t[i]) : i \in 1 .. n - 1}
    BY <1>1, <2>1 DEF Awaiting
  <2> HIDE DEF n, t, p
  <2> QED  BY <2>1, <2>2, <2>3
<1> HIDE DEF e, p
<1>6. /\ Numbered' /\ ActiveFirst' /\ OnWire' \subseteq Logged'
      /\ Logged' = Logged \cup {e} /\ OnWire' = OnWire \cup {e}
  BY <1>1, <1>4, SendKeeps DEF CkptEvents
<1>7. Logged' \cup Awaiting' = Logged \cup Awaiting
  BY <1>5, <1>6
<1>8. Reach' /\ EndsApplied'
  BY <1>1, <1>7 DEF EndInv, Reach, EndsApplied, Applied
<1>9. NoItems => NoItems'
  BY <1>1, <1>4, <1>6 DEF NoItems, Has, CkptEvents
<1>10. AtStart => AtStart'
  BY <1>1 DEF AtStart
<1>11. Has(Awaiting, "start") => Has(Awaiting', "start") \/ Has(OnWire', "start")
  BY <1>5, <1>6 DEF Has
<1>12. Has(OnWire, "start") => Has(OnWire', "start")
  BY <1>6 DEF Has
<1>13. Has(Logged' \cup Awaiting', "end") => Has(Logged \cup Awaiting, "end")
  BY <1>7
<1>14. Has(OnWire', "active") => Has(OnWire, "active")
  BY <1>4, <1>6 DEF Has, CkptEvents
<1>15. Between'
  BY <1>1, <1>2, <1>9, <1>10, <1>11, <1>12, <1>13, <1>14 DEF EndInv, Between
<1> QED  BY <1>1, <1>6, <1>8, <1>15 DEF EndInv

\* A mutation is sent only while no checkpoint's end is on its way and the replica's is open.
LEMMA SendMutationEnds ==
    ASSUME TapInv, EndInv, NEW e \in Events, NEW ack \in BOOLEAN, Send(e, seqno, ack),
           seqno <= seqno', e.ev = "set", ckpt'.lastSeqNum = seqno, walk = "ready",
           ~Has(Logged \cup Awaiting, "end"), replica.open,
           avail' = avail, cursor'.pos <= avail,
           UNCHANGED <<seqnoReceived, ckptMsgs, walk, replica>>
    PROVE  EndInv'
<1>1. /\ Numbered' /\ ActiveFirst' /\ OnWire' \subseteq Logged'
      /\ Logged' = Logged \cup {e} /\ OnWire' = OnWire \cup {e}
  BY SendKeeps
<1>2. Awaiting' = Awaiting
  BY DEF Awaiting
<1>3. Reach' /\ EndsApplied'
  BY <1>1, <1>2 DEF EndInv, Reach, EndsApplied, Applied, CkptEvents
<1>4. Between'
  BY <1>1, <1>2 DEF Between, Has
<1> QED  BY <1>1, <1>3, <1>4 DEF EndInv

LEMMA WalkQueueEnds ==
    ASSUME TapInv, EndInv, WalkQueue, seqno <= seqno'
    PROVE  EndInv'
<1> DEFINE p == Head(queue)
           ack == AsksForAck(seqno, ckpt.lastItem, Tail(queue) = <<>> /\ cursor.pos = avail)
<1>1. /\ MaySend /\ queue # <<>> /\ Send(ItemEvent(p), seqno, ack)
      /\ ckpt' = [ckpt EXCEPT !.lastSeqNum = seqno]
      /\ UNCHANGED <<avail, seqnoReceived, ckptMsgs, cursor, walk, link, replica>>
  BY DEF WalkQueue, MayTakeItem
<1>2. ItemEvent(p) \in Events /\ ItemEvent(p).ev = "set"
  <2>1. queue \in Seq(Positions)
    BY DEF TapInv, TypeOK
  <2>2. p = queue[1] /\ 1 \in DOMAIN queue /\ p \in Positions
    BY <1>1, <2>1, TailFacts
  <2>3. Stream[p].op = "set"
    BY <2>2 DEF TapInv, QueuesFit
  <2> QED  BY <2>2, <2>3, ItemFacts
<1>3. ack \in BOOLEAN /\ ckpt'.lastSeqNum = seqno
  BY <1>1 DEF AsksForAck, TapInv, TypeOK, CheckpointStates
<1>4. ~Has(Logged \cup Awaiting, "end") /\ replica.open
  BY <1>1 DEF EndInv, Between, NoItems
<1>5. walk = "ready" /\ cursor'.pos <= avail
  BY <1>1 DEF MaySend, Walking, EndInv, Reach
<1> HIDE DEF p, ack
<1> QED  BY <1>1, <1>2, <1>3, <1>4, <1>5, SendMutationEnds

\* When the walk takes an item, no checkpoint message waits for its turn or its ack.
LEMMA NoneInLog ==
    ASSUME TapInv, ckptMsgs = <<>>, ckptCounter <= 0
    PROVE  \A x \in Logged \cup Awaiting : x.ev \notin CkptEvents
<1>1. tapLog \in Seq(Entries) /\ ckptCounter \in Int
  BY DEF TapInv, TypeOK
<1>2. IsFiniteSet(Places(tapLog, CkptEvents)) /\ Cardinality(Places(tapLog, CkptEvents)) \in Nat
  BY <1>1, PlacesFacts
<1>3. Cardinality(Places(tapLog, CkptEvents)) <= 0
  BY <1>1 DEF TapInv, CounterExact, CkptEvents
<1>4. Places(tapLog, CkptEvents) = {}
  BY <1>2, <1>3, FS_EmptySet
<1>5. \A i \in DOMAIN tapLog : tapLog[i].ev \notin CkptEvents
  BY <1>4 DEF Places
<1>6. \A x \in Logged : x.ev \notin CkptEvents
  BY <1>5 DEF Logged, Pair
<1>7. Awaiting = {}
  BY EventsAre DEF TapInv
<1> QED  BY <1>6, <1>7

\* What is so when next() reads an item after the cursor.
LEMMA ReadsFacts ==
    ASSUME TapInv, NEW op, Reads(op)
    PROVE  /\ MaySend /\ walk = "ready" /\ link = "up" /\ queue = <<>> /\ ckptMsgs = <<>>
           /\ \A x \in Logged \cup Awaiting : x.ev \notin CkptEvents
           /\ cursor.pos + 1 \in Positions /\ cursor.pos + 1 <= avail /\ Stream[cursor.pos + 1].op = op
           /\ cursor.pos \in Nat /\ avail \in Nat
<1>1. /\ MaySend /\ walk = "ready" /\ link = "up" /\ queue = <<>> /\ ckptMsgs = <<>>
      /\ ckptCounter <= 0 /\ cursor.pos < avail /\ Stream[cursor.pos + 1].op = op
  BY DEF Reads, MayTakeItem, MaySend, Walking
<1>2. /\ cursor.pos \in 0 .. Len(Stream) /\ avail \in 0 .. Len(Stream) /\ Len(Stream) \in Nat
  BY StreamAssumption DEF TapInv, TypeOK
<1>3. cursor.pos + 1 \in Positions /\ cursor.pos + 1 <= avail
  BY <1>1, <1>2 DEF Positions
<1> QED  BY <1>1, <1>2, <1>3, NoneInLog

LEMMA WalkMutationEnds ==
    ASSUME TapInv, EndInv, WalkMutation, seqno <= seqno'
    PROVE  EndInv'
<1> DEFINE p == cursor.pos + 1
           ack == AsksForAck(seqno, IsLast(p), p = avail)
<1>1. /\ Reads("set") /\ Send(ItemEvent(p), seqno, ack) /\ cursor' = Advance
      /\ ckpt' = [ckpt EXCEPT !.lastItem = IsLast(p), !.lastSeqNum = seqno]
      /\ UNCHANGED <<avail, seqnoReceived, ckptMsgs, walk, link, replica>>
  BY DEF WalkMutation
<1>2. /\ walk = "ready" /\ queue = <<>> /\ p \in Positions /\ p <= avail /\ Stream[p].op = "set"
      /\ \A x \in Logged \cup Awaiting : x.ev \notin CkptEvents
  BY <1>1, ReadsFacts
<1>3. ItemEvent(p) \in Events /\ ItemEvent(p).ev = "set"
  BY <1>2, ItemFacts
<1>4. ack \in BOOLEAN /\ ckpt'.lastSeqNum = seqno
  BY <1>1 DEF AsksForAck, IsLast, TapInv, TypeOK, CheckpointStates
<1>5. ~Has(Logged \cup Awaiting, "end") /\ replica.open
  <2>1. ~AtStart
    BY <1>2 DEF AtStart
  <2>2. ~Has(Logged \cup Awaiting, "end") /\ ~Has(Logged, "start") /\ ~Has(Awaiting, "start")
    BY <1>2 DEF Has, CkptEvents
  <2>3. ~Has(OnWire, "start")
    BY <2>2 DEF EndInv, Has
  <2> QED  BY <2>1, <2>2, <2>3 DEF EndInv, Between
<1>6. cursor'.pos <= avail
  BY <1>1, <1>2 DEF Advance
<1> HIDE DEF p, ack
<1> QED  BY <1>1, <1>2, <1>3, <1>4, <1>5, <1>6, SendMutationEnds

\* A checkpoint message that is queued behind none.
LEMMA QueuedMessage ==
    ASSUME TapInv, EndInv, ckptMsgs = <<>>, NEW p \in Positions, ckptMsgs' = Append(ckptMsgs, p),
           UNCHANGED <<tapLog, toConsumer>>
    PROVE  Logged' = Logged /\ OnWire' = OnWire /\ Awaiting' = {ItemEvent(p)}
<1>1. ckptMsgs' = <<p>>
  OBVIOUS
<1>2. DOMAIN ckptMsgs' = {1} /\ ckptMsgs'[1] = p
  BY <1>1
<1>3. Awaiting' = {ItemEvent(p)}
  BY <1>2 DEF Awaiting
<1> QED  BY <1>3 DEF Logged, OnWire

LEMMA WalkCheckpointStartEnds ==
    ASSUME TapInv, EndInv, WalkCheckpointStart
    PROVE  EndInv'
<1> DEFINE p == cursor.pos + 1
<1>1. /\ Reads("start") /\ cursor' = Advance /\ ckptMsgs' = Append(ckptMsgs, p)
      /\ ckpt' = [ckpt EXCEPT !.state = "checkpoint_start"]
      /\ UNCHANGED <<avail, seqno, seqnoReceived, tapLog, queue, flags, walk, link, toConsumer, replica>>
  BY DEF WalkCheckpointStart
<1>2. /\ walk = "ready" /\ queue = <<>> /\ p \in Positions /\ p <= avail /\ Stream[p].op = "start"
      /\ ckptMsgs = <<>> /\ \A x \in Logged \cup Awaiting : x.ev \notin CkptEvents
  BY <1>1, ReadsFacts
<1>3. ItemEvent(p).ev = "start" /\ ItemEvent(p).pos = p
  BY <1>2, ItemFacts
<1>4. cursor'.pos = p /\ ckpt'.lastSeqNum = ckpt.lastSeqNum
  BY <1>1 DEF Advance, TapInv, TypeOK, CheckpointStates
<1> HIDE DEF p
<1>5. Logged' = Logged /\ OnWire' = OnWire /\ Awaiting' = {ItemEvent(p)}
  BY <1>1, <1>2, QueuedMessage
<1>6. Numbered' /\ ActiveFirst'
  BY <1>1, <1>4 DEF EndInv, Numbered, ActiveFirst
<1>7. Reach' /\ EndsApplied'
  BY <1>1, <1>2, <1>3, <1>4, <1>5 DEF EndInv, Reach, EndsApplied, Applied, CkptEvents
<1>8. ~Has(Logged' \cup Awaiting', "end") /\ Has(Awaiting', "start")
  BY <1>2, <1>3, <1>5 DEF Has, CkptEvents
<1>9. NoItems => NoItems'
  BY <1>1, <1>5 DEF NoItems, Has
<1>10. Between'
  BY <1>1, <1>2, <1>5, <1>8, <1>9 DEF EndInv, Between
<1> QED  BY <1>1, <1>5, <1>6, <1>7, <1>10 DEF EndInv

\* What is not behind the last acknowledgement is no mutation of the log.
LEMMA AckedItems ==
    ASSUME TapInv, EndInv, Streams, AllAcked
    PROVE  ~Has(Logged, "set")
<1>1. /\ tapLog \in Seq(Entries) /\ seqno \in 0 .. MaxSeqno /\ seqnoReceived \in 0 .. MaxSeqno
      /\ MaxSeqno \in Nat /\ DOMAIN tapLog = 1 .. Len(tapLog) /\ ckpt.lastSeqNum \in Nat
  BY Constants, BookTypes DEF TapInv, TypeOK, CheckpointStates
<1> SUFFICES ASSUME NEW i \in 1 .. Len(tapLog), tapLog[i].ev = "set"
             PROVE  FALSE
  BY <1>1 DEF Has, Logged, Pair
<1>2. tapLog # <<>>
  BY <1>1
<1>3. Ordered(tapLog, seqno, seqnoReceived)
  BY <1>1, <1>2, NumbersAre DEF TapInv, Skipped
<1>4. Bd(seqno, tapLog[i].seqno) + i <= Bd(seqno, seqnoReceived)
  BY <1>3 DEF Ordered
<1>5. tapLog[i].seqno \in 0 .. MaxSeqno
  BY <1>1, LogNumbers
<1>6. tapLog[i].seqno < seqno /\ tapLog[i].seqno <= ckpt.lastSeqNum /\ seqnoReceived < seqno
  BY <1>1 DEF EndInv, Numbered
<1>7. ckpt.lastSeqNum <= seqnoReceived
  BY <1>1 DEF AllAcked, SeqnoAcked
<1>8. Bd(seqno, tapLog[i].seqno) = seqno - tapLog[i].seqno /\ Bd(seqno, seqnoReceived) = seqno - seqnoReceived
  BY <1>1, <1>5, <1>6 DEF Bd
<1> QED  BY <1>1, <1>4, <1>5, <1>6, <1>7, <1>8

\* What is covered is applied when nothing is left to send again.
LEMMA CoveredApplied ==
    ASSUME TapInv, NoItems, NEW q, Covered(q)
    PROVE  Applied(q)
<1> SUFFICES ASSUME NEW p \in Mutations, p < q
             PROVE  p \in replica.applied
  BY DEF Applied
<1>1. Held(p)
  BY DEF Covered
<1>2. ~\E i \in DOMAIN queue : queue[i] = p
  BY DEF NoItems
<1>3. ASSUME NEW i \in DOMAIN tapLog, tapLog[i].pos = p
      PROVE  FALSE
  <2>1. EventFits(tapLog[i])
    BY DEF TapInv, QueuesFit
  <2>2. p \in Positions /\ Stream[p].op = "set" /\ p # 0
    BY DEF Mutations, Positions
  <2>3. tapLog[i].ev = "set"
    BY <1>3, <2>1, <2>2 DEF EventFits
  <2>4. Pair(tapLog[i]) \in Logged
    BY <1>3 DEF Logged
  <2>5. Pair(tapLog[i]).ev = "set"
    BY <2>3 DEF Pair
  <2> QED  BY <2>4, <2>5 DEF NoItems, Has
<1> QED  BY <1>1, <1>2, <1>3 DEF Held

LEMMA WalkCheckpointEndEnds ==
    ASSUME TapInv, EndInv, WalkCheckpointEnd
    PROVE  EndInv'
<1> DEFINE p == cursor.pos + 1
<1>1. /\ Reads("end")
      /\ ckpt' = [ckpt EXCEPT !.state = "checkpoint_end"]
      /\ UNCHANGED <<avail, seqno, seqnoReceived, tapLog, queue, flags, walk, link, toConsumer, replica>>
  BY DEF WalkCheckpointEnd
<1>2. /\ MaySend /\ walk = "ready" /\ queue = <<>> /\ p \in Positions /\ p <= avail
      /\ Stream[p].op = "end" /\ cursor.pos \in Nat /\ avail \in Nat
      /\ ckptMsgs = <<>> /\ \A x \in Logged \cup Awaiting : x.ev \notin CkptEvents
  BY <1>1, ReadsFacts
<1>3. ckpt'.lastSeqNum = ckpt.lastSeqNum
  BY <1>1 DEF TapInv, TypeOK, CheckpointStates
<1>4. CASE ~AllAcked
  BY <1>1, <1>3, <1>4, QuietEnds DEF WalkCheckpointEnd
<1>5. CASE AllAcked
  <2>1. cursor' = Advance /\ ckptMsgs' = Append(ckptMsgs, p)
    BY <1>5 DEF WalkCheckpointEnd
  <2>2. cursor'.pos = p
    BY <2>1 DEF Advance
  <2>3. NoItems
    <3>1. Streams
      BY <1>2, MaySendFacts
    <3> QED  BY <1>2, <1>5, <3>1, AckedItems DEF NoItems
  <2>4. Applied(p)
    BY <2>3, CoveredApplied DEF TapInv, MarksCovered
  <2>5. ItemEvent(p).ev = "end" /\ ItemEvent(p).pos = p
    BY <1>2, ItemFacts
  <2>6. p # avail
    BY <1>2 DEF EndInv, Reach
  <2>14. p \in Nat
    BY <1>2
  <2> HIDE DEF p
  <2>7. AtStart'
    <3>1. Stream[p + 1].op = "start"
      BY <1>2, AfterEnd
    <3>2. p < avail
      BY <1>2, <2>6, <2>14
    <3> QED  BY <1>1, <2>2, <3>1, <3>2 DEF AtStart
  <2>8. Logged' = Logged /\ OnWire' = OnWire /\ Awaiting' = {ItemEvent(p)}
    BY <1>1, <1>2, <2>1, QueuedMessage
  <2>9. Numbered' /\ ActiveFirst'
    BY <1>1, <1>3 DEF EndInv, Numbered, ActiveFirst
  <2>10. Reach' /\ EndsApplied'
    BY <1>1, <1>2, <2>2, <2>4, <2>5, <2>8 DEF EndInv, Reach, EndsApplied, Applied, CkptEvents
  <2>11. NoItems'
    BY <1>1, <2>3, <2>8 DEF NoItems
  <2>12. Between'
    BY <1>1, <1>2, <2>7, <2>8, <2>11 DEF EndInv, Between
  <2> QED  BY <1>1, <2>8, <2>9, <2>10, <2>12 DEF EndInv
<1> QED  BY <1>4, <1>5

LEMMA WalkCompleteEnds ==
    ASSUME TapInv, EndInv, WalkComplete
    PROVE  EndInv'
<1>1. /\ ckptMsgs = <<>> /\ cursor.pos >= avail
      /\ UNCHANGED <<avail, seqno, seqnoReceived, tapLog, queue, ckptMsgs, cursor, ckpt, flags,
                     link, toConsumer, replica>>
  <2>1. cursor.pos \in Nat /\ avail \in Nat
    BY DEF TapInv, TypeOK
  <2> QED  BY <2>1 DEF WalkComplete, Complete, HasQueuedItem
<1>2. Logged' = Logged /\ OnWire' = OnWire /\ Awaiting' = Awaiting /\ Awaiting = {}
  BY <1>1, EventsAre DEF Logged, OnWire, Awaiting, TapInv
<1>3. ~AtStart /\ (AtStart' <=> AtStart) /\ (NoItems' <=> NoItems)
  <2>1. cursor.pos \in Nat /\ avail \in Nat
    BY DEF TapInv, TypeOK
  <2> QED  BY <1>1, <1>2, <2>1 DEF AtStart, NoItems
<1>4. Numbered' /\ Reach' /\ EndsApplied' /\ ActiveFirst'
  BY <1>1, <1>2 DEF EndInv, Numbered, Reach, EndsApplied, Applied, ActiveFirst
<1>5. Logged = {} => replica.open
  BY <1>2, <1>3 DEF EndInv, Between, Has
<1>6. Between'
  BY <1>1, <1>2, <1>3, <1>5 DEF EndInv, Between
<1> QED  BY <1>1, <1>2, <1>4, <1>6 DEF EndInv

LEMMA TakeoverActiveEnds ==
    ASSUME TapInv, EndInv, TakeoverActive, seqno <= seqno'
    PROVE  EndInv'
<1>1. /\ walk = "takeover" /\ walk' = "ready" /\ low # <<>>
      /\ UNCHANGED <<avail, seqnoReceived, queue, ckptMsgs, cursor, ckpt, link, replica>>
  BY DEF TakeoverActive
<1>2. Awaiting' = Awaiting
  BY <1>1 DEF Awaiting
<1>3. TypeOK /\ Len(tapLog) \in Nat
  BY BookTypes DEF TapInv
<1>4. AtStart' <=> AtStart
  BY <1>1 DEF AtStart
<1>5. CASE seqno' = Increment(seqno) /\ UNCHANGED <<tapLog, toConsumer, flags>>
  <2>1. Logged' = Logged /\ OnWire' = OnWire
    BY <1>5 DEF Logged, OnWire
  <2>2. seqno \in Int /\ seqno' \in Int /\ seqnoReceived \in Int
    <3>1. Increment(seqno) \in 0 .. MaxSeqno
      BY <1>3, Constants DEF TypeOK, Increment
    <3> QED  BY <1>3, <1>5, <3>1, Constants DEF TypeOK
  <2>3. Numbered'
    <3>1. \A i \in DOMAIN tapLog : tapLog[i].seqno \in Int
      <4>1. tapLog \in Seq(Entries) /\ DOMAIN tapLog = 1 .. Len(tapLog)
        BY <1>3, SequenceTypes
      <4>2. \A i \in 1 .. Len(tapLog) : tapLog[i].seqno \in 0 .. MaxSeqno
        BY <1>3, <4>1, LogNumbers DEF TypeOK
      <4> QED  BY <4>1, <4>2, Constants
    <3> QED  BY <1>1, <1>5, <2>2, <3>1 DEF EndInv, Numbered
  <2>4. Reach' /\ EndsApplied' /\ ActiveFirst'
    BY <1>1, <1>2, <1>5, <2>1 DEF EndInv, Reach, EndsApplied, Applied, ActiveFirst
  <2>5. Between'
    BY <1>1, <1>2, <1>4, <2>1 DEF EndInv, Between, NoItems
  <2> QED  BY <1>1, <2>1, <2>3, <2>4, <2>5 DEF EndInv
<1>6. CASE LogSize <= 1 /\ Send(Head(low), Increment(seqno), TRUE)
  <2> DEFINE e == Event("active")
  <2>1. Head(low) = e /\ e \in Events
    <3>1. low \in Seq(Events)
      BY <1>3 DEF TypeOK
    <3>2. Head(low) = low[1] /\ 1 \in DOMAIN low /\ Head(low) \in Events
      BY <1>1, <3>1, TailFacts
    <3> QED  BY <3>2 DEF TapInv, QueuesFit
  <2>2. e.ev = "active"
    BY DEF Event
  <2>3. Logged = {} /\ OnWire = {}
    <3>1. tapLog = <<>>
      BY <1>3, <1>6, SequenceTypes DEF LogSize
    <3> QED  BY <1>3, <3>1, EventsAre DEF EndInv
  <2> HIDE DEF e
  <2>4. replica.open
    BY <1>1, <2>3 DEF EndInv, Between
  <2>5. /\ Numbered' /\ ActiveFirst' /\ OnWire' \subseteq Logged'
        /\ Logged' = Logged \cup {e} /\ OnWire' = OnWire \cup {e}
    BY <1>1, <1>6, <2>1, <2>2, <2>3, SendKeeps
  <2>6. Reach' /\ EndsApplied'
    BY <1>1, <1>2, <2>2, <2>5 DEF EndInv, Reach, EndsApplied, Applied, CkptEvents
  <2>7. NoItems => NoItems'
    BY <1>1, <2>2, <2>5 DEF NoItems, Has
  <2>8. Has(Logged' \cup Awaiting', "end") => Has(Logged \cup Awaiting, "end")
    BY <1>2, <2>2, <2>5 DEF Has
  <2>9. Between'
    BY <1>1, <1>4, <2>4, <2>7, <2>8 DEF EndInv, Between
  <2> QED  BY <1>1, <2>5, <2>6, <2>9 DEF EndInv
<1> QED  BY <1>5, <1>6 DEF TakeoverActive

\* The log loses its beginning: what is on the wire stays.
LEMMA CutEvents ==
    ASSUME TapInv, EndInv, Streams, NEW i \in 0 .. Len(tapLog), i <= Handled,
           tapLog' = LogAfter(i), toConsumer' = toConsumer
    PROVE  /\ Logged' \subseteq Logged /\ OnWire' = OnWire /\ OnWire' \subseteq Logged'
           /\ \A x \in DOMAIN tapLog' : \E y \in DOMAIN tapLog : tapLog'[x] = tapLog[y]
<1>1. /\ tapLog \in Seq(Entries) /\ Len(tapLog) \in Nat /\ DOMAIN tapLog = 1 .. Len(tapLog)
      /\ Len(toConsumer) \in Nat /\ DOMAIN toConsumer = 1 .. Len(toConsumer)
  BY BookTypes
<1>2. /\ DOMAIN tapLog' = 1 .. Len(tapLog) - i
      /\ \A x \in 1 .. Len(tapLog) - i : x + i \in 1 .. Len(tapLog) /\ tapLog'[x] = tapLog[x + i]
      /\ \A y \in 1 .. Len(tapLog) : y > i =>
            y - i \in 1 .. Len(tapLog) - i /\ tapLog'[y - i] = tapLog[y]
  BY <1>1, CutFacts DEF LogAfter
<1>3. \A x \in DOMAIN tapLog' : \E y \in DOMAIN tapLog : tapLog'[x] = tapLog[y]
  BY <1>1, <1>2
<1>4. Logged' \subseteq Logged
  BY <1>3 DEF Logged
<1>5. OnWire' = OnWire
  BY DEF OnWire
<1>6. \A j \in DOMAIN toConsumer : Pair(toConsumer[j]) \in Logged'
  <2> TAKE j \in DOMAIN toConsumer
  <2> DEFINE y == Handled + j
  <2>1. Handled \in Int /\ Handled + Len(toConsumer) = Len(tapLog) /\ Handled >= 0
    BY <1>1 DEF TapInv, WireFits, Handled
  <2>2. y \in 1 .. Len(tapLog) /\ y > i
    BY <1>1, <2>1
  <2>3. toConsumer[j].ev = tapLog[y].ev /\ toConsumer[j].pos = tapLog[y].pos
    BY DEF TapInv, WireFits
  <2> HIDE DEF y
  <2>4. y - i \in DOMAIN tapLog' /\ tapLog'[y - i] = tapLog[y]
    BY <1>2, <2>2
  <2> QED  BY <2>3, <2>4 DEF Logged, Pair
<1> QED  BY <1>3, <1>4, <1>5, <1>6 DEF OnWire

\* An ack that releases the log up to a message that the consumer has handled.
LEMMA CutEnds ==
    ASSUME TapInv, EndInv, Streams, NEW i \in 0 .. Len(tapLog), i <= Handled,
           tapLog' = LogAfter(i), walk = "ready",
           seqnoReceived' < seqno, ~flags'.rotated,
           ckpt'.lastSeqNum \in {ckpt.lastSeqNum, MaxSeqno},
           UNCHANGED <<avail, seqno, ckptMsgs, cursor, walk, link, toConsumer, replica>>,
           queue' = queue \/ (replica.open /\ ~Has(Logged \cup Awaiting, "end"))
    PROVE  EndInv'
<1>1. /\ Logged' \subseteq Logged /\ OnWire' = OnWire /\ OnWire' \subseteq Logged'
      /\ \A x \in DOMAIN tapLog' : \E y \in DOMAIN tapLog : tapLog'[x] = tapLog[y]
  BY CutEvents
<1>2. Awaiting' = Awaiting
  BY DEF Awaiting
<1>3. Numbered'
  <2>1. \A y \in DOMAIN tapLog : tapLog[y].seqno <= MaxSeqno
    <3>1. tapLog \in Seq(Entries) /\ DOMAIN tapLog = 1 .. Len(tapLog) /\ seqno \in 0 .. MaxSeqno
      BY BookTypes DEF TapInv, TypeOK
    <3>2. \A y \in 1 .. Len(tapLog) : tapLog[y].seqno \in 0 .. MaxSeqno
      BY <3>1, LogNumbers
    <3> QED  BY <3>1, <3>2, Constants
  <2>2. \A y \in DOMAIN tapLog :
          /\ tapLog[y].seqno < seqno /\ tapLog[y].ev = "set" => tapLog[y].seqno <= ckpt'.lastSeqNum
    BY <2>1 DEF EndInv, Numbered
  <2> QED  BY <1>1, <2>2 DEF EndInv, Numbered
<1>4. Reach' /\ EndsApplied' /\ ActiveFirst'
  BY <1>1, <1>2 DEF EndInv, Reach, EndsApplied, Applied, ActiveFirst
<1>5. AtStart' <=> AtStart
  BY DEF AtStart
<1>6. Has(Logged' \cup Awaiting', "end") => Has(Logged \cup Awaiting, "end")
  BY <1>1, <1>2 DEF Has
<1>7. link = "up"
  BY DEF Streams
<1>8. CASE queue' = queue
  <2>1. NoItems => NoItems'
    BY <1>1, <1>8 DEF NoItems, Has
  <2> QED  BY <1>1, <1>2, <1>3, <1>4, <1>5, <1>6, <1>7, <2>1 DEF EndInv, Between
<1>9. CASE replica.open /\ ~Has(Logged \cup Awaiting, "end")
  BY <1>1, <1>2, <1>3, <1>4, <1>6, <1>9 DEF EndInv, Between
<1> QED  BY <1>8, <1>9

\* The numbers of an ack, while they do not wrap.
LEMMA AckNumbers ==
    ASSUME TapInv, EndInv, NEW status, TakesAck(status)
    PROVE  LET i == LogIndex(Head(toProducer).seqno)
           IN  /\ i \in 0 .. Len(tapLog) /\ i - 1 \in 0 .. Len(tapLog) /\ i <= Handled /\ i - 1 <= Handled
               /\ i \in DOMAIN tapLog /\ seqnoReceived' < seqno
               /\ AckedCheckpoint(Head(toProducer).seqno) = ckpt
               /\ ~AckedFlags(Head(toProducer).seqno).rotated
<1> DEFINE s == Head(toProducer).seqno
           i == LogIndex(s)
<1>1. /\ Streams /\ AckedAt(i) /\ i \in 1 .. Len(tapLog) /\ Len(tapLog) \in Nat /\ seqnoReceived' = s
  BY TakesAckFacts
<1>2. i \in 1 .. Handled /\ tapLog[i].seqno = s /\ Handled \in Int
  BY <1>1, BookTypes DEF AckedAt, Handled
<1>3. DOMAIN tapLog = 1 .. Len(tapLog) /\ flags \in Flags /\ ~flags.rotated
  BY BookTypes DEF TapInv, TypeOK, EndInv, Numbered
<1> HIDE DEF i, s
<1>4. seqnoReceived' < seqno
  BY <1>1, <1>2, <1>3 DEF EndInv, Numbered
<1>5. AckedCheckpoint(s) = ckpt /\ ~Wrapped(s)
  BY <1>3 DEF AckedCheckpoint, Wrapped
<1>6. ~AckedFlags(s).rotated
  BY <1>3 DEF AckedFlags, Flags
<1> QED  BY <1>1, <1>2, <1>3, <1>4, <1>5, <1>6 DEF i, s

LEMMA AckSuccessEnds ==
    ASSUME TapInv, EndInv, AckSuccess
    PROVE  EndInv'
<1> DEFINE s == Head(toProducer).seqno
           i == LogIndex(s)
           gone == (Complete /\ low = <<>> /\ high = <<>> /\ ckptMsgs = <<>>) /\ tapLog' = <<>>
<1>1. TakesAck("success")
  BY DEF AckSuccess
<1>2. /\ i \in 0 .. Len(tapLog) /\ i <= Handled /\ seqnoReceived' < seqno
      /\ AckedCheckpoint(s) = ckpt /\ ~AckedFlags(s).rotated
  BY <1>1, AckNumbers
<1>3. Streams /\ walk = "ready" /\ Len(tapLog) \in Nat /\ i <= Len(tapLog)
  BY <1>1, TakesAckFacts
<1>4. /\ tapLog' = LogAfter(i)
      /\ UNCHANGED <<avail, seqno, queue, ckptMsgs, cursor, walk, link, toConsumer, replica>>
      /\ ckpt' \in {AckedCheckpoint(s), [AckedCheckpoint(s) EXCEPT !.state = "checkpoint_end_synced"]}
  BY <1>3 DEF AckSuccess
<1>5. ckpt'.lastSeqNum = ckpt.lastSeqNum
  BY <1>2, <1>4 DEF TapInv, TypeOK, CheckpointStates
<1>6. ~flags'.rotated
  <2>1. AckedFlags(s) \in Flags
    BY AckTypes DEF TapInv
  <2>2. flags' = [AckedFlags(s) EXCEPT !.lastAckOk = i <= Len(tapLog), !.disconnect = gone]
    BY DEF AckSuccess
  <2> HIDE DEF gone
  <2> QED  BY <1>2, <2>1, <2>2 DEF Flags
<1> HIDE DEF i
<1> QED  BY <1>2, <1>3, <1>4, <1>5, <1>6, CutEnds

\* A mutation that is refused has been in the log.
LEMMA AckTmpfailEnds ==
    ASSUME TapInv, EndInv, AckTmpfail
    PROVE  EndInv'
<1> DEFINE s == Head(toProducer).seqno
           i == LogIndex(s)
<1>1. TakesAck("tmpfail")
  BY DEF AckTmpfail
<1>2. /\ i \in 0 .. Len(tapLog) /\ i <= Handled /\ i \in DOMAIN tapLog /\ seqnoReceived' < seqno
      /\ ~AckedFlags(s).rotated
  BY <1>1, AckNumbers
<1>3. Streams /\ walk = "ready" /\ Len(tapLog) \in Nat /\ i <= Len(tapLog) /\ tapLog[i].ev = "set"
  BY <1>1, TakesAckFacts DEF AckedAt
<1>4. /\ tapLog' = LogAfter(i) /\ ckpt' = [ckpt EXCEPT !.lastSeqNum = MaxSeqno]
      /\ UNCHANGED <<avail, seqno, ckptMsgs, cursor, walk, link, toConsumer, replica>>
  BY <1>3 DEF AckTmpfail
<1>5. ckpt'.lastSeqNum = MaxSeqno
  BY <1>4 DEF TapInv, TypeOK, CheckpointStates
<1>6. ~flags'.rotated
  <2>1. AckedFlags(s) \in Flags
    BY AckTypes DEF TapInv
  <2>2. flags' = [AckedFlags(s) EXCEPT !.suspended = TRUE]
    BY DEF AckTmpfail
  <2> QED  BY <1>2, <2>1, <2>2 DEF Flags
<1> HIDE DEF i
<1>7. replica.open /\ ~Has(Logged \cup Awaiting, "end")
  <2>1. Pair(tapLog[i]) \in Logged /\ Pair(tapLog[i]).ev = "set"
    BY <1>2, <1>3 DEF Logged, Pair
  <2>2. ~NoItems
    BY <2>1 DEF NoItems, Has
  <2> QED  BY <2>2 DEF EndInv, Between
<1> QED  BY <1>2, <1>3, <1>4, <1>5, <1>6, <1>7, CutEnds

LEMMA AckFailEnds ==
    ASSUME TapInv, EndInv, AckFail
    PROVE  EndInv'
<1> DEFINE s == Head(toProducer).seqno
           i == LogIndex(s) - 1
<1>1. TakesAck("fail")
  BY DEF AckFail
<1>2. /\ i \in 0 .. Len(tapLog) /\ i <= Handled /\ seqnoReceived' < seqno
      /\ AckedCheckpoint(s) = ckpt /\ ~AckedFlags(s).rotated
  BY <1>1, AckNumbers
<1>3. Streams /\ walk = "ready"
  BY <1>1, TakesAckFacts
<1>4. /\ tapLog' = LogAfter(i) /\ ckpt' = AckedCheckpoint(s)
      /\ flags' = [AckedFlags(s) EXCEPT !.disconnect = TRUE]
      /\ UNCHANGED <<avail, seqno, queue, ckptMsgs, cursor, walk, link, toConsumer, replica>>
  BY DEF AckFail
<1>5. ~flags'.rotated
  <2>1. AckedFlags(s) \in Flags
    BY AckTypes DEF TapInv
  <2> QED  BY <1>2, <1>4, <2>1 DEF Flags
<1> HIDE DEF i
<1> QED  BY <1>2, <1>3, <1>4, <1>5, CutEnds

\* The consumer takes a message off the wire.
LEMMA ReceivedFacts ==
    ASSUME TapInv, EndInv, NEW evs, Receives(evs), toConsumer' = Tail(toConsumer), ProducerUnchanged
    PROVE  LET m == Head(toConsumer)
           IN  /\ m.ev \in evs /\ Pair(m) \in OnWire /\ Pair(m) \in Logged
               /\ Pair(m).ev = m.ev /\ Pair(m).pos = m.pos
               /\ Logged' = Logged /\ Awaiting' = Awaiting
               /\ OnWire' \subseteq OnWire /\ OnWire \subseteq OnWire' \cup {Pair(m)}
               /\ ActiveFirst' /\ Numbered' /\ link = "up"
               /\ m.ev = "end" => ~Has(OnWire', "active")
<1> DEFINE m == Head(toConsumer)
           n == Len(toConsumer)
           t == Tail(toConsumer)
<1>1. m.ev \in evs /\ toConsumer # <<>> /\ toConsumer \in Seq(Messages)
  BY BookTypes DEF Receives
<1>2. /\ n \in Nat /\ DOMAIN toConsumer = 1 .. n /\ DOMAIN t = 1 .. n - 1
      /\ 1 \in 1 .. n /\ m = toConsumer[1]
      /\ \A i \in 1 .. n - 1 : i + 1 \in 1 .. n /\ t[i] = toConsumer[i + 1]
      /\ \A i \in 1 .. n : i # 1 => i - 1 \in 1 .. n - 1 /\ t[i - 1] = toConsumer[i]
  BY <1>1, TailFacts
<1>3. link = "up"
  BY <1>1 DEF TapInv, QueuesFit
<1>4. Logged' = Logged /\ Awaiting' = Awaiting
  BY DEF Logged, Awaiting, ProducerUnchanged, producerVars
<1>5. OnWire = {Pair(toConsumer[i]) : i \in 1 .. n}
  BY <1>2 DEF OnWire
<1>6. OnWire' = {Pair(t[i]) : i \in 1 .. n - 1}
  BY <1>2 DEF OnWire
<1>7. toConsumer' = t
  OBVIOUS
<1>8. Numbered'
  BY DEF EndInv, Numbered, ProducerUnchanged, producerVars
<1> HIDE DEF n, t, m
<1>9. OnWire' \subseteq OnWire /\ OnWire \subseteq OnWire' \cup {Pair(m)} /\ Pair(m) \in OnWire
  BY <1>2, <1>5, <1>6
<1>10. Pair(m) \in Logged
  BY <1>9 DEF EndInv
<1>11. Pair(m).ev = m.ev /\ Pair(m).pos = m.pos
  BY DEF Pair
<1>12. ActiveFirst'
  <2> SUFFICES ASSUME NEW j \in 1 .. n - 1, NEW k \in 1 .. n - 1, j < k, t[j].ev = "end"
               PROVE  t[k].ev # "active"
    BY <1>2, <1>7 DEF ActiveFirst
  <2>1. j + 1 \in 1 .. n /\ k + 1 \in 1 .. n /\ j + 1 < k + 1
    BY <1>2
  <2>2. toConsumer[j + 1].ev = "end" => toConsumer[k + 1].ev # "active"
    BY <1>2, <2>1 DEF EndInv, ActiveFirst
  <2> QED  BY <1>2, <2>2
<1>13. m.ev = "end" => ~Has(OnWire', "active")
  <2> SUFFICES ASSUME toConsumer[1].ev = "end", NEW k \in 1 .. n - 1
               PROVE  Pair(t[k]).ev # "active"
    BY <1>2, <1>6 DEF Has
  <2>1. k + 1 \in 1 .. n /\ 1 < k + 1
    BY <1>2
  <2>2. toConsumer[k + 1].ev # "active"
    BY <1>2, <2>1 DEF EndInv, ActiveFirst
  <2> QED  BY <1>2, <2>2 DEF Pair
<1> QED  BY <1>1, <1>3, <1>4, <1>8, <1>9, <1>10, <1>11, <1>12, <1>13 DEF m

\* A message that leaves the replica in its checkpoint.
LEMMA ConsumeEnds ==
    ASSUME TapInv, EndInv, NEW evs, Receives(evs), toConsumer' = Tail(toConsumer), ProducerUnchanged,
           UNCHANGED <<replica.id, replica.open, replica.closed>>,
           replica.applied \subseteq replica'.applied, replica'.applied \subseteq replica'.queued,
           replica'.vb = "active" => replica.vb = "active" \/ Head(toConsumer).ev = "active",
           Head(toConsumer).ev = "start" => replica.open
    PROVE  EndInv'
<1> DEFINE m == Head(toConsumer)
<1>1. /\ Pair(m) \in OnWire /\ Pair(m).ev = m.ev
      /\ Logged' = Logged /\ Awaiting' = Awaiting
      /\ OnWire' \subseteq OnWire /\ OnWire \subseteq OnWire' \cup {Pair(m)}
      /\ ActiveFirst' /\ Numbered' /\ link = "up"
  BY ReceivedFacts
<1> HIDE DEF m
<1>2. /\ UNCHANGED <<avail, cursor, queue, walk, link>>
  BY DEF ProducerUnchanged, producerVars
<1>3. Reach' /\ OnWire' \subseteq Logged'
  BY <1>1, <1>2 DEF EndInv, Reach
<1>4. EndsApplied'
  BY <1>1 DEF EndInv, EndsApplied, Applied
<1>5. (NoItems' <=> NoItems) /\ (AtStart' <=> AtStart)
  BY <1>1, <1>2 DEF NoItems, AtStart
<1>6. Has(OnWire', "active") => Has(OnWire, "active")
  BY <1>1 DEF Has
<1>7. m.ev = "active" => Has(OnWire, "active")
  BY <1>1 DEF Has
<1>8. ~replica.open /\ Has(OnWire, "start") => Has(OnWire', "start")
  <2> SUFFICES ASSUME ~replica.open, NEW x \in OnWire, x.ev = "start"
               PROVE  x \in OnWire'
    BY DEF Has
  <2>1. m.ev # "start"
    BY DEF m
  <2> QED  BY <1>1, <2>1
<1>9. Between'
  BY <1>1, <1>2, <1>5, <1>6, <1>7, <1>8 DEF EndInv, Between, m
<1> QED  BY <1>1, <1>3, <1>4, <1>9 DEF EndInv

LEMMA ConsumeOtherEnds ==
    ASSUME TapInv, EndInv, ConsumeOpaque \/ ConsumeVBucketSet
    PROVE  EndInv'
<1>1. toConsumer' = Tail(toConsumer) /\ ProducerUnchanged
  BY DEF ConsumeOpaque, ConsumeVBucketSet, Answer
<1>2. PICK evs \in {OpaqueEvents, VBucketEvents} : Receives(evs)
  BY DEF ConsumeOpaque, ConsumeVBucketSet
<1>3. Head(toConsumer).ev # "start"
  BY <1>2 DEF Receives, OpaqueEvents, VBucketEvents
<1>4. /\ UNCHANGED <<replica.id, replica.open, replica.closed, replica.applied, replica.queued>>
      /\ replica'.vb = "active" => replica.vb = "active" \/ Head(toConsumer).ev = "active"
  <2>1. replica \in Replicas
    BY ReplicaType
  <2>2. CASE ConsumeOpaque
    <3> DEFINE b == replica.nack \/ Head(toConsumer).ev = "auto_nack"
    <3>1. replica' = [replica EXCEPT !.nack = b]
      BY <2>2 DEF ConsumeOpaque
    <3> HIDE DEF b
    <3> QED  BY <2>1, <3>1 DEF Replicas
  <2>3. CASE ConsumeVBucketSet
    BY <2>1, <2>3 DEF ConsumeVBucketSet, Replicas
  <2> QED  BY <2>2, <2>3
<1>5. replica'.applied \subseteq replica'.queued /\ replica.applied \subseteq replica'.applied
  BY <1>4 DEF EndInv
<1> QED  BY <1>1, <1>2, <1>3, <1>4, <1>5, ConsumeEnds

LEMMA RefuseMutationEnds ==
    ASSUME TapInv, EndInv, NEW status, RefuseMutation(status)
    PROVE  EndInv'
<1>1. /\ toConsumer' = Tail(toConsumer) /\ ProducerUnchanged /\ replica' = replica
      /\ Receives({"set"}) /\ Head(toConsumer).ev = "set"
  BY DEF RefuseMutation, Answer, Receives
<1> QED  BY <1>1, ConsumeEnds DEF EndInv

\* A mutation arrives only while the replica's checkpoint is open: it is queued.
LEMMA ConsumeMutationEnds ==
    ASSUME TapInv, EndInv, ConsumeMutation
    PROVE  EndInv'
<1> DEFINE p == Head(toConsumer).pos
<1>1. /\ toConsumer' = Tail(toConsumer) /\ ProducerUnchanged
      /\ Receives({"set"}) /\ Head(toConsumer).ev = "set"
  BY DEF ConsumeMutation, Answer, Receives
<1>2. Queues
  <2>1. Has(Logged, "set")
    BY <1>1, ReceivedFacts DEF Has
  <2> QED  BY <2>1 DEF EndInv, Between, NoItems, Queues
<1>3. replica' = [replica EXCEPT !.applied = replica.applied \cup {p}, !.queued = replica.queued \cup {p}]
  BY <1>2 DEF ConsumeMutation
<1> HIDE DEF p
<1>4. /\ UNCHANGED <<replica.id, replica.open, replica.closed, replica.vb>>
      /\ replica'.applied = replica.applied \cup {p} /\ replica'.queued = replica.queued \cup {p}
  BY <1>3, ReplicaType DEF Replicas
<1>5. replica'.applied \subseteq replica'.queued /\ replica.applied \subseteq replica'.applied
  BY <1>4 DEF EndInv
<1> QED  BY <1>1, <1>4, <1>5, ConsumeEnds

LEMMA ConsumeCheckpointEnds ==
    ASSUME TapInv, EndInv, ConsumeCheckpoint
    PROVE  EndInv'
<1> DEFINE m == Head(toConsumer)
           p == m.pos
<1>1. /\ toConsumer' = Tail(toConsumer) /\ ProducerUnchanged
      /\ Receives({"start", "end"}) /\ m.ev \in {"start", "end"} /\ EventFits(m)
  BY ReceivesFacts DEF ConsumeCheckpoint, Answer
<1>2. p \in Positions /\ Stream[p].op = m.ev
  BY <1>1 DEF EventFits, VBucketEvents, OpaqueEvents
<1>3. /\ Pair(m) \in Logged /\ Pair(m).ev = m.ev /\ Pair(m).pos = p
      /\ Logged' = Logged /\ Awaiting' = Awaiting
      /\ OnWire' \subseteq OnWire
      /\ ActiveFirst' /\ Numbered' /\ link = "up"
      /\ m.ev = "end" => ~Has(OnWire', "active")
  BY <1>1, ReceivedFacts
<1>4. /\ UNCHANGED <<avail, cursor, queue, walk, link>>
  BY <1>1 DEF ProducerUnchanged, producerVars
<1>5. CASE replica' = replica /\ (m.ev = "start" => replica.vb = "active")
  <2>1. m.ev = "start" => replica.open
    BY <1>5 DEF EndInv, Between
  <2> QED  BY <1>1, <1>5, <2>1, ConsumeEnds DEF EndInv
<1> HIDE DEF m, p
<1>6. p <= avail
  BY <1>1, <1>3 DEF EndInv, Reach, CkptEvents
<1>7. (NoItems' <=> NoItems) /\ (AtStart' <=> AtStart)
  BY <1>3, <1>4 DEF NoItems, AtStart
<1>8. CASE m.ev = "start" /\ replica' = [replica EXCEPT !.id = Stream[p].id, !.open = TRUE]
  <2>1. /\ UNCHANGED <<replica.closed, replica.vb, replica.applied, replica.queued>>
        /\ replica'.id = Stream[p].id /\ replica'.open = TRUE
    BY <1>8, ReplicaType DEF Replicas
  <2>2. Reach' /\ EndsApplied'
    BY <1>2, <1>3, <1>4, <1>6, <1>8, <2>1 DEF EndInv, Reach, EndsApplied, Applied
  <2>3. Between'
    BY <1>3, <1>4, <1>7, <2>1 DEF EndInv, Between
  <2> QED  BY <1>3, <2>1, <2>2, <2>3 DEF EndInv
<1>9. CASE /\ m.ev = "end" /\ replica.id = Stream[p].id /\ replica.vb # "active"
           /\ replica' = [replica EXCEPT !.open = FALSE, !.closed = replica.closed \cup {p}]
  <2>1. /\ UNCHANGED <<replica.id, replica.vb, replica.applied, replica.queued>>
        /\ replica'.closed = replica.closed \cup {p} /\ replica'.open = FALSE
    BY <1>9, ReplicaType DEF Replicas
  <2>2. Reach'
    BY <1>2, <1>3, <1>4, <1>6, <1>9, <2>1 DEF EndInv, Reach
  <2>3. EndsApplied'
    <3>1. Applied(p)
      BY <1>3, <1>9 DEF EndInv, EndsApplied
    <3> QED  BY <1>3, <2>1, <3>1 DEF EndInv, EndsApplied, Applied
  <2>4. Has(Logged, "end") /\ Logged # {} /\ Has(Logged \cup Awaiting, "end")
    BY <1>3, <1>9 DEF Has
  <2>5. Between'
    BY <1>3, <1>4, <1>7, <1>9, <2>1, <2>4 DEF EndInv, Between
  <2> QED  BY <1>3, <2>1, <2>2, <2>3, <2>5 DEF EndInv
<1>10. \/ replica' = replica /\ (m.ev = "start" => replica.vb = "active")
       \/ m.ev = "start" /\ replica' = [replica EXCEPT !.id = Stream[p].id, !.open = TRUE]
       \/ /\ m.ev = "end" /\ replica.id = Stream[p].id /\ replica.vb # "active"
          /\ replica' = [replica EXCEPT !.open = FALSE, !.closed = replica.closed \cup {p}]
  BY <1>1 DEF ConsumeCheckpoint, m, p
<1> QED  BY <1>5, <1>8, <1>9, <1>10

\* What a reconnect makes of the log: its mutations and checkpoint messages are queued again.
LEMMA RolledBackSets ==
    ASSUME TapInv, Reconnect
    PROVE  /\ Logged' = {} /\ (NoItems => NoItems')
           /\ Awaiting' \subseteq Awaiting \cup Logged
           /\ \A x \in Awaiting : x \in Awaiting'
           /\ \A x \in Logged : x.ev \in CkptEvents => x \in Awaiting'
           /\ \A x \in Awaiting' : x.ev \in CkptEvents
<1> DEFINE sets == LogPositions(tapLog, SetEvents)
           marks == LogPositions(tapLog, CkptEvents)
<1>1. /\ tapLog' = <<>> /\ queue' = queue \o sets /\ ckptMsgs' = ckptMsgs \o marks
  BY DEF Reconnect, CkptEvents, SetEvents
<1>2. /\ tapLog \in Seq(Entries) /\ queue \in Seq(Positions) /\ ckptMsgs \in Seq(Positions)
  BY DEF TapInv, TypeOK
<1>3. \A i \in DOMAIN tapLog : tapLog[i].ev \in {"start", "end", "set"} =>
         tapLog[i].pos \in Positions /\ Stream[tapLog[i].pos].op = tapLog[i].ev
  BY DEF TapInv, QueuesFit, EventFits, VBucketEvents, OpaqueEvents
<1>4. /\ sets \in Seq(Positions)
      /\ \A n \in DOMAIN sets : \E i \in DOMAIN tapLog : tapLog[i].ev \in SetEvents
  <2>1. \A i \in DOMAIN tapLog : tapLog[i].ev \in SetEvents => tapLog[i].pos \in Positions
    BY <1>3 DEF SetEvents
  <2> QED  BY <1>2, <2>1, LogPositionsFacts, SMTT(30)
<1>5. /\ marks \in Seq(Positions)
      /\ \A n \in DOMAIN marks :
            \E i \in DOMAIN tapLog : tapLog[i].ev \in CkptEvents /\ marks[n] = tapLog[i].pos
      /\ \A i \in DOMAIN tapLog : tapLog[i].ev \in CkptEvents =>
            \E n \in DOMAIN marks : marks[n] = tapLog[i].pos
  <2>1. \A i \in DOMAIN tapLog : tapLog[i].ev \in CkptEvents => tapLog[i].pos \in Positions
    BY <1>3 DEF CkptEvents
  <2> QED  BY <1>2, <2>1, LogPositionsFacts, SMTT(30)
<1> HIDE DEF sets, marks
<1>6. Logged' = {}
  BY <1>1 DEF Logged
<1>7. NoItems => NoItems'
  <2> SUFFICES ASSUME NoItems PROVE queue' = <<>>
    BY <1>6 DEF NoItems, Has
  <2>1. \A i \in DOMAIN tapLog : tapLog[i].ev \notin SetEvents
    <3>1. \A i \in DOMAIN tapLog : Pair(tapLog[i]) \in Logged
      BY DEF Logged
    <3>2. \A i \in DOMAIN tapLog : Pair(tapLog[i]).ev # "set"
      BY <3>1 DEF NoItems, Has
    <3> QED  BY <3>2 DEF Pair, SetEvents
  <2>2. DOMAIN sets = {}
    BY <1>4, <2>1
  <2>3. sets = <<>> /\ queue = <<>>
    BY <1>4, <2>2, EmptyDomain DEF NoItems
  <2> QED  BY <1>1, <2>3
<1>8. IsConcat(ckptMsgs', ckptMsgs, marks)
  BY <1>1, <1>2, <1>5, ConcatFacts
<1>9. \A i \in DOMAIN tapLog : tapLog[i].ev \in CkptEvents => Pair(tapLog[i]) = ItemEvent(tapLog[i].pos)
  BY <1>3 DEF CkptEvents, Pair, ItemEvent
<1>10. \A x \in Awaiting : x \in Awaiting'
  BY <1>8 DEF Awaiting, IsConcat
<1>11. \A x \in Logged : x.ev \in CkptEvents => x \in Awaiting'
  <2> SUFFICES ASSUME NEW i \in DOMAIN tapLog, tapLog[i].ev \in CkptEvents
               PROVE  ItemEvent(tapLog[i].pos) \in Awaiting'
    BY <1>9 DEF Logged, Pair
  <2>1. PICK n \in DOMAIN marks : marks[n] = tapLog[i].pos
    BY <1>5
  <2>2. PICK z \in DOMAIN ckptMsgs' : ckptMsgs'[z] = tapLog[i].pos
    BY <1>8, <2>1 DEF IsConcat
  <2> QED  BY <2>2 DEF Awaiting
<1>12. ASSUME NEW z \in DOMAIN ckptMsgs'
       PROVE  ItemEvent(ckptMsgs'[z]) \in Awaiting \cup Logged
  <2>1. CASE \E x \in DOMAIN ckptMsgs : ckptMsgs'[z] = ckptMsgs[x]
    BY <2>1 DEF Awaiting
  <2>2. CASE \E n \in DOMAIN marks : ckptMsgs'[z] = marks[n]
    <3>1. PICK i \in DOMAIN tapLog : tapLog[i].ev \in CkptEvents /\ ckptMsgs'[z] = tapLog[i].pos
      BY <1>5, <2>2
    <3>2. Pair(tapLog[i]) \in Logged
      BY DEF Logged
    <3> QED  BY <1>9, <3>1, <3>2
  <2> QED  BY <1>8, <2>1, <2>2 DEF IsConcat
<1>13. Awaiting' \subseteq Awaiting \cup Logged
  BY <1>12 DEF Awaiting
<1>14. \A x \in Awaiting' : x.ev \in CkptEvents
  BY RolledBack DEF Awaiting, ItemEvent, CkptEvents
<1> QED  BY <1>6, <1>7, <1>10, <1>11, <1>13, <1>14

\* The cursor of a reconnect stays where it is, or is before a checkpoint's start.
LEMMA RegisteredStart ==
    ASSUME TapInv, EndInv
    PROVE  LET c == Registered(LastClosed + 1)
           IN  \/ c = cursor
               \/ c.pos < avail /\ Stream[c.pos + 1].op = "start"
<1> DEFINE id == LastClosed + 1
<1>1. replica.id \in Nat /\ replica.open \in BOOLEAN
  BY ReplicaType DEF Replicas
<1>2. id \in Nat
  BY <1>1 DEF LastClosed
<1>3. \A p \in Positions : p \in Nat /\ p >= 1
  BY StreamAssumption DEF Positions
<1>4. 1 \in Positions /\ avail \in Positions /\ avail \in Nat
  BY <1>3, StreamAssumption DEF Positions, EndInv, Reach
<1>5. \E p \in Positions : Stream[p].op = "start" /\ Stream[p].id = id /\ p <= avail
  <2>1. CASE replica.id = 0 /\ replica.open
    <3>1. id = 1
      BY <2>1 DEF LastClosed
    <3>2. 1 <= avail
      BY <1>3, <1>4
    <3> QED  BY <1>4, <3>1, <3>2, StreamAssumption
  <2>2. CASE ~(replica.id = 0 /\ replica.open)
    <3>1. PICK p \in Positions : /\ p <= avail /\ Stream[p].id = replica.id
                                 /\ Stream[p].op = IF replica.open THEN "start" ELSE "end"
      BY <2>2 DEF EndInv, Reach
    <3>2. CASE replica.open
      <4>1. id = replica.id
        BY <1>1, <2>2, <3>2 DEF LastClosed
      <4> QED  BY <3>1, <3>2, <4>1
    <3>3. CASE ~replica.open
      <4>1. id = replica.id + 1
        BY <3>3 DEF LastClosed
      <4>2. Stream[p].op = "end"
        BY <3>1, <3>3
      <4>3. p + 1 \in Positions /\ Stream[p + 1].op = "start" /\ Stream[p + 1].id = id
        BY <3>1, <4>1, <4>2, AfterEnd
      <4>4. p # avail
        BY <4>2 DEF EndInv, Reach
      <4>5. p + 1 <= avail
        BY <1>3, <1>4, <3>1, <4>4
      <4> QED  BY <4>3, <4>5
    <3> QED  BY <3>2, <3>3
  <2> QED  BY <2>1, <2>2
<1> HIDE DEF id
<1>6. PICK p \in Positions : Stream[p].op = "start" /\ Stream[p].id = id /\ p <= avail
  BY <1>5
<1>7. \A q \in Positions : Stream[q].op = "start" /\ Stream[q].id = id => q = p
  <2> SUFFICES ASSUME NEW q \in Positions, Stream[q].op = "start", Stream[q].id = id, q # p
               PROVE  FALSE
    OBVIOUS
  <2>1. q < p => Stream[q].id < Stream[p].id
    BY <1>6, StreamAssumption
  <2>2. p < q => Stream[p].id < Stream[q].id
    BY <1>6, StreamAssumption
  <2> QED  BY <1>2, <1>3, <1>6, <2>1, <2>2
<1>8. (CHOOSE q \in Positions : Stream[q].op = "start" /\ Stream[q].id = id) = p
  BY <1>6, <1>7
<1>9. CASE cursor.id = id
  BY <1>9 DEF Registered, id
<1>10. CASE cursor.id # id
  <2>1. Registered(id) = [pos |-> p - 1, id |-> id]
    BY <1>8, <1>10 DEF Registered
  <2>2. Registered(id).pos = p - 1
    BY <2>1
  <2>3. (p - 1) + 1 = p /\ p - 1 < avail
    <3>1. p \in Nat /\ avail \in Nat /\ p <= avail
      BY <1>3, <1>4, <1>6
    <3> QED  BY <3>1
  <2>4. Registered(id).pos + 1 = p /\ Registered(id).pos < avail
    BY <2>2, <2>3
  <2> QED  BY <1>6, <2>4 DEF id
<1> QED  BY <1>9, <1>10

LEMMA ReconnectEnds ==
    ASSUME TapInv, EndInv, Reconnect
    PROVE  EndInv'
<1>1. /\ link = "down" /\ link' = "up" /\ tapLog' = <<>> /\ seqnoReceived' = (seqno - 1) % SeqMod
      /\ flags' = [flags EXCEPT !.disconnect = FALSE]
      /\ cursor' = Registered(LastClosed + 1)
      /\ replica' = [replica EXCEPT !.vb = "replica", !.nack = FALSE]
      /\ UNCHANGED <<avail, seqno, walk, toConsumer>>
  BY DEF Reconnect
<1>2. toConsumer = <<>> /\ walk = "ready"
  BY <1>1 DEF TapInv, QueuesFit
<1>3. /\ Logged' = {} /\ (NoItems => NoItems')
      /\ Awaiting' \subseteq Awaiting \cup Logged
      /\ \A x \in Awaiting : x \in Awaiting'
      /\ \A x \in Logged : x.ev \in CkptEvents => x \in Awaiting'
      /\ \A x \in Awaiting' : x.ev \in CkptEvents
  BY RolledBackSets
<1>4. OnWire' = {} /\ ActiveFirst'
  BY <1>1, <1>2 DEF OnWire, ActiveFirst
<1>5. /\ UNCHANGED <<replica.id, replica.open, replica.closed, replica.applied, replica.queued>>
      /\ replica'.vb = "replica"
  BY <1>1, ReplicaType DEF Replicas
<1>6. Numbered'
  <2>1. seqno \in 1 .. MaxSeqno /\ SeqMod \in Nat /\ MaxSeqno = SeqMod - 1 /\ MaxSeqno \in Nat
    BY Constants DEF TapInv, TypeOK, EndInv, Numbered
  <2>2. (seqno - 1) % SeqMod = seqno - 1
    BY <2>1
  <2>3. seqnoReceived' < seqno'
    BY <1>1, <2>1, <2>2
  <2>4. ~flags'.rotated
    BY <1>1 DEF TapInv, TypeOK, Flags, EndInv, Numbered
  <2> QED  BY <1>1, <2>3, <2>4 DEF Numbered
<1>7. cursor' = cursor \/ AtStart'
  BY <1>1, RegisteredStart DEF AtStart
<1>8. AtStart => AtStart'
  BY <1>1, <1>7 DEF AtStart
<1>9. Reach'
  <2>1. cursor'.pos <= avail
    <3>1. AtStart' => cursor'.pos < avail
      BY <1>1 DEF AtStart
    <3>2. cursor.pos <= avail
      BY DEF EndInv, Reach
    <3>3. cursor' \in [pos : 0 .. Len(Stream), id : Nat] /\ avail \in 0 .. Len(Stream)
      BY Reconnects DEF TapInv, TypeOK
    <3> QED  BY <1>7, <3>1, <3>2, <3>3
  <2> QED  BY <1>1, <1>3, <1>5, <2>1 DEF EndInv, Reach
<1>10. EndsApplied'
  BY <1>3, <1>5 DEF EndInv, EndsApplied, Applied
<1>11. Has(Logged' \cup Awaiting', "end") => Has(Logged \cup Awaiting, "end")
  BY <1>3 DEF Has
<1>12. Has(Awaiting, "start") \/ Has(Logged, "start") => Has(Awaiting', "start")
  BY <1>3 DEF Has, CkptEvents
<1>13. Between'
  <2>1. ~Has(OnWire', "active")
    BY <1>4 DEF Has
  <2> QED  BY <1>1, <1>2, <1>3, <1>5, <1>8, <1>11, <1>12, <2>1 DEF EndInv, Between
<1> QED  BY <1>3, <1>4, <1>5, <1>6, <1>9, <1>10, <1>13 DEF EndInv

LEMMA InitEnds == Init => EndInv
<1> SUFFICES ASSUME Init PROVE EndInv
  OBVIOUS
<1>1. /\ tapLog = <<>> /\ toConsumer = <<>> /\ queue = <<>> /\ ckptMsgs = <<>>
      /\ avail = 1 /\ cursor.pos = 0 /\ walk = "ready" /\ ~flags.rotated
      /\ replica.id = 0 /\ replica.open /\ replica.applied = {} /\ replica.queued = {}
      /\ replica.closed = {} /\ replica.vb = "replica"
      /\ seqno = InitialSeqno /\ seqnoReceived = InitialSeqno - 1
  BY DEF Init, NoFlags
<1>2. Logged = {} /\ OnWire = {} /\ Awaiting = {}
  BY <1>1 DEF Logged, OnWire, Awaiting
<1>3. Numbered
  BY <1>1, WindowAssumption DEF Numbered
<1>4. Reach
  <2>1. 1 \in Positions /\ Stream[1].op = "start"
    BY StreamAssumption DEF Positions
  <2> QED  BY <1>1, <1>2, <2>1 DEF Reach
<1>5. EndsApplied /\ Between /\ ActiveFirst
  BY <1>1, <1>2 DEF EndsApplied, Between, ActiveFirst, Has
<1> QED  BY <1>1, <1>2, <1>3, <1>4, <1>5 DEF EndInv

LEMMA NextEnds == TapInv /\ EndInv /\ [Next]_vars /\ seqno <= seqno' => EndInv'
<1> SUFFICES ASSUME TapInv, EndInv, [Next]_vars, seqno <= seqno' PROVE EndInv'
  OBVIOUS
<1>1. CASE QueueDirty
  BY <1>1, QueueDirtyEnds
<1>2. CASE Walk
  BY <1>2, WalkHighPriorityEnds, WalkCheckpointMsgEnds, WalkQueueEnds, WalkMutationEnds,
     WalkCheckpointStartEnds, WalkCheckpointEndEnds, WalkCompleteEnds, TakeoverActiveEnds DEF Walk
<1>3. CASE ProcessAck
  BY <1>3, AckSuccessEnds, AckTmpfailEnds, AckFailEnds DEF ProcessAck
<1>4. CASE Resume \/ AckTimeout
  BY <1>4, ResumeEnds
<1>5. CASE Accept
  BY <1>5, ConsumeOtherEnds, ConsumeCheckpointEnds, ConsumeMutationEnds DEF Accept
<1>6. CASE \E status \in {"tmpfail", "fail"} : RefuseMutation(status)
  BY <1>6, RefuseMutationEnds
<1>7. CASE Break \/ Disconnect \/ Reap
  BY <1>7, LinkDownEnds
<1>8. CASE Reconnect
  BY <1>8, ReconnectEnds
<1>9. CASE UNCHANGED vars
  BY <1>9, QuietEnds DEF vars, producerVars
<1> QED  BY <1>1, <1>2, <1>3, <1>4, <1>5, <1>6, <1>7, <1>8, <1>9 DEF Next

\* The sequence numbers do not wrap.
NumbersGrow == [][seqno <= seqno']_seqno

\* A replica closes a checkpoint only when it has applied, and queued for its disk, all its
\* mutations, through losses, refusals, roll-backs and takeovers, for as long as the sequence
\* numbers do not wrap (TapProducer::next holds the CHECKPOINT_END back until
\* lastSeqNum is acknowledged; where it has wrapped that comparison says nothing).
THEOREM EndAfterItemsUntilWrap == Spec /\ NumbersGrow => []EndAfterItems
<1>1. Init => EndInv
  BY InitEnds
<1>2. ASSUME TapInv, EndInv, [Next]_vars, [seqno <= seqno']_seqno
      PROVE  EndInv'
  <2>1. seqno <= seqno'
    BY <1>2 DEF TapInv, TypeOK
  <2> QED  BY <1>2, <2>1, NextEnds
<1>3. EndInv => EndAfterItems
  BY DEF EndInv, EndsApplied, Applied, EndAfterItems
<1> QED  BY <1>1, <1>2, <1>3, TapInvariant, PTL DEF Spec, NumbersGrow
=============================================================================
