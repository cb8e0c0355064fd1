--------------------------- MODULE DumpQueue_proofs ---------------------------
(***************************************************************************)
(* Theorems about DumpQueue, for any outputs, any finite set of buffers    *)
(* and any bounds.                                                         *)
(*                                                                         *)
(* The invariant has two halves that meet in Accounted.  One is about      *)
(* memory: wlroots' reference to a buffer is one however many places name  *)
(* it, because a buffer belongs to one output (Private), and to none that  *)
(* is gone (Alive).  The other is about the queue: a dump is linked        *)
(* exactly when it is sent (Phases), so that what is not acknowledged is a *)
(* suffix of the links.                                                    *)
(***************************************************************************)
EXTENDS DumpQueue, FiniteSetTheorems, SequenceTheorems, TLAPS

\* The buffers that wlroots holds for an output.
Owned(o) == (chain[o] \cup {current[o]}) \ {NoBuffer}

Private == \A p, o \in Outputs : p # o => Owned(p) \cap Owned(o) = {}

\* Only a live output has buffers; only one that shows a buffer is recreated.
Alive ==
  /\ \A o \in Outputs : status[o] # "live" => chain[o] = {} /\ current[o] = NoBuffer
  /\ todo \subseteq Shown

\* What is sent is received as long as it is linked: nothing is under way
\* outside a session, and nobody draws before the first.
Phases ==
  /\ conn \in {"waiting", "handshaken"} =>
       toDaemon = <<>> /\ toAgent = <<>> /\ (enabled => session = 0)
  /\ conn = "up" => enabled
  /\ conn = "broken" => toDaemon = <<>>
  /\ ~acks => toAgent = <<>>
  /\ session = 0 => queue = <<>> /\ \A o \in Outputs : status[o] = "absent"

\* The windows of dumps have existed.
Dumped(q) == \A k \in DOMAIN q : status[q[k].win] # "absent"
Existed == Dumped(toAgent) /\ Dumped(toDaemon)

\* Without a lost connection or a closed window as many links as dumps under way.
NothingLate ==
  session = 1 /\ conn = "up" /\ acks /\ (\A o \in Outputs : status[o] # "gone") =>
    Len(queue) = Len(Unacknowledged)

Memory == Accounted /\ AllocatorOutlivesBuffers /\ Private /\ Alive
Messages == Phases /\ Existed /\ UnacknowledgedAreLast /\ NothingLate

IInv == TypeOK /\ Memory /\ Messages

USE BuffersAssumption, CapAssumption

-----------------------------------------------------------------------------
(* Places of a buffer in the queue.                                        *)

Places(q, b) == {k \in DOMAIN q : q[k] = b}

LEMMA PlacesFinite ==
  ASSUME NEW S, NEW q \in Seq(S), NEW b
  PROVE  IsFiniteSet(Places(q, b)) /\ Cardinality(Places(q, b)) \in Nat
<1>1. DOMAIN q = 1 .. Len(q) /\ Len(q) \in Nat
  BY LenProperties
<1>2. IsFiniteSet(1 .. Len(q))
  BY <1>1, FS_Interval
<1>3. Places(q, b) \subseteq 1 .. Len(q)
  BY <1>1 DEF Places
<1>4. IsFiniteSet(Places(q, b))
  BY <1>2, <1>3, FS_Subset
<1> QED  BY <1>4, FS_CardinalityType

LEMMA PlacesAppend ==
  ASSUME NEW S, NEW q \in Seq(S), NEW e \in S, NEW b
  PROVE  Cardinality(Places(Append(q, e), b)) =
           Cardinality(Places(q, b)) + (IF b = e THEN 1 ELSE 0)
<1>1. IsFiniteSet(Places(q, b)) /\ Cardinality(Places(q, b)) \in Nat
  BY PlacesFinite
<1>2. Len(q) + 1 \notin Places(q, b)
  BY LenProperties DEF Places
<1>3. CASE b = e
  <2>1. Places(Append(q, e), b) = Places(q, b) \cup {Len(q) + 1}
    BY <1>3 DEF Places
  <2> QED  BY <2>1, <1>1, <1>2, <1>3, FS_AddElement
<1>4. CASE b # e
  <2>1. Places(Append(q, e), b) = Places(q, b)
    BY <1>4 DEF Places
  <2> QED  BY <2>1, <1>1, <1>4
<1> QED  BY <1>3, <1>4

LEMMA PlacesTail ==
  ASSUME NEW S, NEW q \in Seq(S), q # <<>>, NEW b
  PROVE  Cardinality(Places(Tail(q), b)) =
           Cardinality(Places(q, b)) - (IF b = Head(q) THEN 1 ELSE 0)
<1> DEFINE A == Places(Tail(q), b)
           B == Places(q, b) \ {1}
           f == [k \in A |-> k + 1]
<1>1. /\ Len(q) \in Nat /\ Len(q) > 0 /\ DOMAIN q = 1 .. Len(q) /\ Head(q) = q[1]
      /\ Tail(q) \in Seq(S) /\ DOMAIN Tail(q) = 1 .. Len(q) - 1
      /\ \A k \in 1 .. Len(q) - 1 : Tail(q)[k] = q[k + 1]
  BY HeadTailProperties, LenProperties, EmptySeq
<1>2. \A k \in A : k \in Int /\ k + 1 \in B
  BY <1>1 DEF Places
<1>3. \A k \in B : k - 1 \in A /\ k \in Int
  BY <1>1 DEF Places
<1> HIDE DEF A, B
<1>4. f \in [A -> B]
  BY <1>2
<1>5. \A x, y \in A : f[x] = f[y] => x = y
  BY <1>2
<1>6. \A k \in B : \E x \in A : f[x] = k
  <2> TAKE k \in B
  <2>1. k - 1 \in A /\ f[k - 1] = k
    BY <1>3
  <2> QED  BY <2>1
<1>7. f \in Bijection(A, B)
  BY <1>4, <1>5, <1>6 DEF Bijection, Injection, Surjection, IsInjective
<1>8. ExistsBijection(A, B)
  BY <1>7 DEF ExistsBijection
<1>9. IsFiniteSet(A)
  BY <1>1, PlacesFinite DEF A
<1>10. Cardinality(B) = Cardinality(A)
  BY <1>8, <1>9, FS_Bijection
<1>11. IsFiniteSet(Places(q, b))
  BY PlacesFinite
<1>12. Cardinality(B) = Cardinality(Places(q, b)) - (IF 1 \in Places(q, b) THEN 1 ELSE 0)
  BY <1>11, FS_RemoveElement, FS_CardinalityType DEF B
<1>13. 1 \in Places(q, b) <=> b = Head(q)
  BY <1>1 DEF Places
<1> QED  BY <1>10, <1>12, <1>13 DEF A

LEMMA LinksArePlaces == \A b : Links(b) = Cardinality(Places(queue, b))
BY DEF Links, Places

-----------------------------------------------------------------------------
(* References.                                                             *)

LEMMA DisjointSum ==
  ASSUME NEW S, IsFiniteSet(S), NEW T, IsFiniteSet(T), S \cap T = {}
  PROVE  Cardinality(S \cup T) = Cardinality(S) + Cardinality(T)
<1>1. Cardinality(S) \in Nat /\ Cardinality(T) \in Nat
  BY FS_CardinalityType
<1>2. Cardinality(S \cap T) = 0
  BY FS_EmptySet
<1>3. Cardinality(S \cup T) = Cardinality(S) + Cardinality(T) - Cardinality(S \cap T)
  BY FS_Union
<1> QED  BY <1>1, <1>2, <1>3

\* One reference more of each linked buffer, one less of each that is dropped:
\* new ones start with one, and the allocator counts the buffers used.
LEMMA ReferencesCount ==
  ASSUME refcount \in [Buffers -> Nat], AllocatorOutlivesBuffers, open \in BOOLEAN,
         NEW new \in SUBSET Buffers, NEW linked \in SUBSET Buffers,
         NEW dropped \in SUBSET Buffers,
         \A b \in new : refcount[b] = 0 /\ b \notin dropped,
         \A b \in dropped : refcount[b] > 0,
         \A b \in linked : refcount[b] > 0 \/ b \in new,
         References(new, linked, dropped), open' = open
  PROVE  /\ refcount' \in [Buffers -> Nat] /\ alloc' \in Nat
         /\ AllocatorOutlivesBuffers'
         /\ \A b \in Buffers :
              refcount'[b] = refcount[b] + (IF b \in new THEN 1 ELSE 0)
                                         + (IF b \in linked THEN 1 ELSE 0)
                                         - (IF b \in dropped THEN 1 ELSE 0)
<1> DEFINE ref(b) == refcount[b] + (IF b \in new THEN 1 ELSE 0)
                                 + (IF b \in linked THEN 1 ELSE 0)
                                 - (IF b \in dropped THEN 1 ELSE 0)
           freed == {b \in dropped : ref(b) = 0}
           more  == Used \cup new
<1>1. /\ refcount' = [b \in Buffers |-> ref(b)]
      /\ alloc' = alloc + Cardinality(new) - Cardinality(freed)
  BY DEF References
<1>2. \A b \in Buffers : ref(b) \in Nat
  OBVIOUS
<1>3. Used' = more \ freed
  BY <1>1, <1>2 DEF Used
<1>4. freed \subseteq more /\ Used \cap new = {}
  BY DEF Used
<1>5. /\ IsFiniteSet(Used) /\ IsFiniteSet(new) /\ IsFiniteSet(dropped)
      /\ IsFiniteSet(freed) /\ IsFiniteSet(more) /\ IsFiniteSet(more \ freed)
  BY FS_Subset DEF Used
<1>a. \A b \in Buffers : refcount'[b] = ref(b)
  BY <1>1
<1>b. refcount' \in [Buffers -> Nat]
  BY <1>1, <1>2
<1> HIDE DEF freed
<1>6. Cardinality(more) = Cardinality(Used) + Cardinality(new)
  BY <1>4, <1>5, DisjointSum
<1> HIDE DEF more
<1>7. Cardinality(more) = Cardinality(more \ freed) + Cardinality(freed)
  <2>1. (more \ freed) \cup freed = more /\ (more \ freed) \cap freed = {}
    BY <1>4
  <2>2. Cardinality((more \ freed) \cup freed) = Cardinality(more \ freed) + Cardinality(freed)
    BY <2>1, <1>5, DisjointSum
  <2> QED  BY <2>1, <2>2
<1>8. /\ Cardinality(more) \in Nat /\ Cardinality(freed) \in Nat
      /\ Cardinality(more \ freed) \in Nat
      /\ Cardinality(Used) \in Nat /\ Cardinality(new) \in Nat
  BY <1>5, FS_CardinalityType
<1>9. alloc' = (IF open' THEN 1 ELSE 0) + Cardinality(Used')
  BY <1>1, <1>3, <1>6, <1>7, <1>8 DEF AllocatorOutlivesBuffers
<1>10. alloc' \in Nat
  BY <1>3, <1>8, <1>9
<1> QED  BY <1>a, <1>b, <1>9, <1>10 DEF AllocatorOutlivesBuffers

LEMMA HeldOwned ==
  ASSUME NEW b \in Buffers
  PROVE  Held(b) <=> \E o \in Outputs : b \in Owned(o)
BY DEF Held, Owned

LEMMA HeldOwnedNext ==
  ASSUME NEW b \in Buffers
  PROVE  Held(b)' <=> \E o \in Outputs : b \in Owned(o)'
BY DEF Held, Owned

LEMMA LinksType ==
  ASSUME queue \in Seq(Buffers), NEW b
  PROVE  Links(b) \in Nat
BY PlacesFinite, LinksArePlaces

\* A step of one output: wlroots takes the new buffers for it and drops some of
\* its own, and the linked ones stay or become its own.
LEMMA OwnerStep ==
  ASSUME TypeOK, Accounted, AllocatorOutlivesBuffers, Private, NEW o \in Outputs,
         NEW new \in SUBSET Buffers, NEW linked \in SUBSET Buffers,
         NEW dropped \in SUBSET Buffers,
         \A b \in new : refcount[b] = 0,
         dropped \subseteq Owned(o), linked \subseteq Owned(o) \cup new,
         References(new, linked, dropped), open' = open,
         Owned(o)' = (Owned(o) \cup new) \ dropped,
         \A p \in Outputs \ {o} : Owned(p)' = Owned(p),
         \A b \in Buffers : Links(b)' = Links(b) + (IF b \in linked THEN 1 ELSE 0)
  PROVE  /\ refcount' \in [Buffers -> Nat] /\ alloc' \in Nat
         /\ Accounted' /\ AllocatorOutlivesBuffers' /\ Private'
<1>1. \A b \in Buffers : Links(b) \in Nat
  BY LinksType DEF TypeOK
<1>2. \A b \in Buffers : Held(b) <=> \E p \in Outputs : b \in Owned(p)
  BY HeldOwned
<1>3. \A b \in Buffers : Held(b)' <=> \E p \in Outputs : b \in Owned(p)'
  BY HeldOwnedNext
<1>4. \A b \in Buffers, p \in Outputs : b \in Owned(p) => refcount[b] > 0
  BY <1>1, <1>2 DEF Accounted
<1>5. \A b \in new : \A p \in Outputs : b \notin Owned(p)
  BY <1>4
<1>6. \A b \in dropped : Held(b) /\ \A p \in Outputs \ {o} : b \notin Owned(p)
  BY <1>2 DEF Private
<1>7. /\ refcount' \in [Buffers -> Nat] /\ alloc' \in Nat
      /\ AllocatorOutlivesBuffers'
      /\ \A b \in Buffers :
           refcount'[b] = refcount[b] + (IF b \in new THEN 1 ELSE 0)
                                      + (IF b \in linked THEN 1 ELSE 0)
                                      - (IF b \in dropped THEN 1 ELSE 0)
  <2>1. \A b \in new : refcount[b] = 0 /\ b \notin dropped
    BY <1>5
  <2>2. \A b \in dropped : refcount[b] > 0
    BY <1>4
  <2>3. \A b \in linked : refcount[b] > 0 \/ b \in new
    BY <1>4
  <2>4. refcount \in [Buffers -> Nat] /\ open \in BOOLEAN
    BY DEF TypeOK
  <2> QED  BY <2>1, <2>2, <2>3, <2>4, ReferencesCount, SMTT(90)
<1>8. \A b \in Buffers : Held(b)' <=> b \in new \/ (Held(b) /\ b \notin dropped)
  <2> TAKE b \in Buffers
  <2>1. b \in new => Held(b)' /\ b \notin dropped
    BY <1>3, <1>5
  <2>2. b \in dropped => ~Held(b)'
    <3>1. b \in dropped => \A p \in Outputs : b \notin Owned(p)'
      BY <1>6
    <3> QED  BY <1>3, <3>1
  <2>3. b \notin new /\ b \notin dropped => \A p \in Outputs : b \in Owned(p)' <=> b \in Owned(p)
    OBVIOUS
  <2>4. b \notin new /\ b \notin dropped => (Held(b)' <=> Held(b))
    BY <1>2, <1>3, <2>3
  <2> QED  BY <2>1, <2>2, <2>4
<1>9. Accounted'
  <2> SUFFICES ASSUME NEW b \in Buffers
               PROVE  refcount'[b] = (IF Held(b)' THEN 1 ELSE 0) + Links(b)'
    BY DEF Accounted
  <2>1. refcount[b] = (IF Held(b) THEN 1 ELSE 0) + Links(b) /\ Links(b) \in Nat
    BY <1>1 DEF Accounted
  <2>2. b \in new => ~Held(b) /\ b \notin dropped
    BY <1>2, <1>5
  <2>3. b \in dropped => Held(b)
    BY <1>6
  <2>4. Held(b)' <=> b \in new \/ (Held(b) /\ b \notin dropped)
    BY <1>8
  <2>5. Links(b)' = Links(b) + (IF b \in linked THEN 1 ELSE 0)
    OBVIOUS
  <2>6. refcount'[b] = refcount[b] + (IF b \in new THEN 1 ELSE 0)
                                   + (IF b \in linked THEN 1 ELSE 0)
                                   - (IF b \in dropped THEN 1 ELSE 0)
    BY <1>7
  <2> DEFINE h == Held(b)
             hn == Held(b)'
             l == Links(b)
             ln == Links(b)'
  <2> HIDE DEF h, hn, l, ln
  <2>7. /\ refcount[b] = (IF h THEN 1 ELSE 0) + l /\ l \in Nat
        /\ b \in new => ~h /\ b \notin dropped
        /\ b \in dropped => h
        /\ hn <=> b \in new \/ (h /\ b \notin dropped)
        /\ ln = l + (IF b \in linked THEN 1 ELSE 0)
    BY <2>1, <2>2, <2>3, <2>4, <2>5 DEF h, hn, l, ln
  <2>8. refcount'[b] = (IF hn THEN 1 ELSE 0) + ln
    BY <2>6, <2>7
  <2> QED  BY <2>8 DEF hn, ln
<1>10. Private'
  <2> SUFFICES ASSUME NEW p \in Outputs, NEW q \in Outputs, p # q
               PROVE  Owned(p)' \cap Owned(q)' = {}
    BY DEF Private
  <2>1. CASE p = o
    BY <2>1, <1>5 DEF Private
  <2>2. CASE q = o
    BY <2>2, <1>5 DEF Private
  <2>3. CASE p # o /\ q # o
    BY <2>3 DEF Private
  <2> QED  BY <2>1, <2>2, <2>3
<1> QED  BY <1>7, <1>9, <1>10

\* What is linked is counted.
LEMMA LinkCounts ==
  ASSUME queue \in Seq(Buffers), NEW b \in Buffers, Link(b)
  PROVE  /\ queue' \in Seq(Buffers)
         /\ \A x : Links(x)' = Links(x) + (IF x \in Linked(b) THEN 1 ELSE 0)
<1>1. \A x : Links(x) = Cardinality(Places(queue, x)) /\ Links(x) \in Nat
  BY LinksArePlaces, LinksType
<1>2. \A x : Links(x)' = Cardinality(Places(queue', x))
  BY DEF Links, Places
<1>3. CASE acks
  <2>1. queue' = Append(queue, b)
    BY <1>3 DEF Link
  <2>2. \A x : Cardinality(Places(Append(queue, b), x)) =
                 Cardinality(Places(queue, x)) + (IF x = b THEN 1 ELSE 0)
    BY PlacesAppend
  <2> QED  BY <1>1, <1>2, <1>3, <2>1, <2>2 DEF Linked
<1>4. CASE ~acks
  <2>1. queue' = queue
    BY <1>4 DEF Link
  <2> QED  BY <1>1, <1>2, <1>4, <2>1 DEF Linked
<1> QED  BY <1>3, <1>4

\* Nothing changes hands.
LEMMA MemoryKept ==
  ASSUME Memory, UNCHANGED <<refcount, alloc, open, chain, current, queue>>,
         \A o \in Outputs : status'[o] # "live" => chain[o] = {} /\ current[o] = NoBuffer,
         todo' \subseteq Shown
  PROVE  Memory'
<1>1. Accounted' /\ AllocatorOutlivesBuffers'
  BY DEF Memory, Accounted, AllocatorOutlivesBuffers, Held, Links, Used
<1>2. Private' /\ Alive'
  BY DEF Memory, Private, Owned, Alive, Shown
<1> QED  BY <1>1, <1>2 DEF Memory

-----------------------------------------------------------------------------
(* What is under way is the end of the queue.                              *)

Suffix(q, u) ==
  /\ Len(q) >= Len(u)
  /\ \A k \in 1 .. Len(u) : q[Len(q) - Len(u) + k] = u[k].buf

LEMMA SuffixAppend ==
  ASSUME NEW q \in Seq(Buffers), NEW u \in Seq(Dumps), NEW d \in Dumps, Suffix(q, u)
  PROVE  Suffix(Append(q, d.buf), Append(u, d)) /\ Append(q, d.buf) \in Seq(Buffers)
<1>1. d.buf \in Buffers
  BY DEF Dumps
<1>2. Len(Append(q, d.buf)) = Len(q) + 1 /\ Len(Append(u, d)) = Len(u) + 1
      /\ Len(q) \in Nat /\ Len(u) \in Nat /\ Append(q, d.buf) \in Seq(Buffers)
  BY <1>1, LenProperties
<1>3. ASSUME NEW k \in 1 .. Len(u) + 1
      PROVE  Append(q, d.buf)[Len(q) - Len(u) + k] = Append(u, d)[k].buf
  <2>1. CASE k = Len(u) + 1
    BY <1>1, <1>2, <2>1
  <2>2. CASE k \in 1 .. Len(u)
    <3>1. Append(u, d)[k] = u[k]
      BY <2>2
    <3>2. Len(q) - Len(u) + k \in 1 .. Len(q)
      BY <1>2, <2>2 DEF Suffix
    <3>3. Append(q, d.buf)[Len(q) - Len(u) + k] = q[Len(q) - Len(u) + k]
      BY <1>1, <3>2
    <3> QED  BY <2>2, <3>1, <3>3 DEF Suffix
  <2>3. k = Len(u) + 1 \/ k \in 1 .. Len(u)
    BY LenProperties
  <2> QED  BY <2>1, <2>2, <2>3
<1>4. Len(q) >= Len(u) /\ Len(q) \in Nat /\ Len(u) \in Nat
  BY <1>2 DEF Suffix
<1> DEFINE qn == Append(q, d.buf)
           un == Append(u, d)
<1>5. /\ Len(qn) = Len(q) + 1 /\ Len(un) = Len(u) + 1 /\ qn \in Seq(Buffers)
      /\ \A k \in 1 .. Len(u) + 1 : qn[Len(q) - Len(u) + k] = un[k].buf
  BY <1>2, <1>3
<1> HIDE DEF qn, un
<1>6. Len(qn) - Len(un) = Len(q) - Len(u) /\ Len(qn) >= Len(un)
  BY <1>4, <1>5
<1>7. Suffix(qn, un) /\ qn \in Seq(Buffers)
  BY <1>5, <1>6 DEF Suffix
<1> QED  BY <1>7 DEF qn, un

LEMMA SuffixTail ==
  ASSUME NEW q \in Seq(Buffers), NEW u \in Seq(Dumps), u # <<>>, Suffix(q, u)
  PROVE  Suffix(q, Tail(u))
<1>1. /\ Len(q) \in Nat /\ Len(u) \in Nat /\ Len(Tail(u)) = Len(u) - 1
      /\ \A k \in 1 .. Len(u) - 1 : Tail(u)[k] = u[k + 1]
  BY HeadTailProperties, LenProperties
<1>2. ASSUME NEW k \in 1 .. Len(u) - 1
      PROVE  q[Len(q) - (Len(u) - 1) + k] = Tail(u)[k].buf
  <2>1. q[Len(q) - Len(u) + (k + 1)] = u[k + 1].buf
    BY <1>1 DEF Suffix
  <2>2. Len(q) - (Len(u) - 1) + k = Len(q) - Len(u) + (k + 1)
    BY <1>1
  <2> QED  BY <1>1, <2>1, <2>2
<1> QED  BY <1>1, <1>2 DEF Suffix

LEMMA SuffixTails ==
  ASSUME NEW q \in Seq(Buffers), NEW u \in Seq(Dumps), u # <<>>, Suffix(q, u)
  PROVE  q # <<>> /\ Suffix(Tail(q), Tail(u))
<1>1. Len(q) \in Nat /\ Len(u) \in Nat \ {0} /\ Len(q) >= Len(u)
  BY EmptySeq, LenProperties DEF Suffix
<1>2. q # <<>>
  BY <1>1, EmptySeq
<1>3. /\ Len(Tail(u)) = Len(u) - 1 /\ Len(Tail(q)) = Len(q) - 1
      /\ \A k \in 1 .. Len(u) - 1 : Tail(u)[k] = u[k + 1]
      /\ \A k \in 1 .. Len(q) - 1 : Tail(q)[k] = q[k + 1]
  BY <1>2, HeadTailProperties
<1>4. ASSUME NEW k \in 1 .. Len(u) - 1
      PROVE  Tail(q)[Len(q) - 1 - (Len(u) - 1) + k] = Tail(u)[k].buf
  <2> DEFINE i == Len(q) - 1 - (Len(u) - 1) + k
  <2>1. q[Len(q) - Len(u) + (k + 1)] = u[k + 1].buf
    BY <1>1 DEF Suffix
  <2>2. i + 1 = Len(q) - Len(u) + (k + 1) /\ i \in 1 .. Len(q) - 1
    BY <1>1
  <2>3. Tail(q)[i] = q[i + 1]
    BY <1>3, <2>2
  <2> QED  BY <1>3, <2>1, <2>2, <2>3
<1> QED  BY <1>1, <1>2, <1>3, <1>4 DEF Suffix

LEMMA SuffixNone ==
  ASSUME NEW q \in Seq(Buffers)
  PROVE  Suffix(q, <<>>) /\ Len(<<>>) = 0
BY LenProperties DEF Suffix

LEMMA UnderWay ==
  ASSUME toAgent \in Seq(Dumps), toDaemon \in Seq(Dumps)
  PROVE  /\ Unacknowledged \in Seq(Dumps)
         /\ Len(Unacknowledged) = Len(toAgent) + Len(toDaemon)
         /\ queue \in Seq(Buffers) =>
              (UnacknowledgedAreLast <=> (Connected /\ acks => Suffix(queue, Unacknowledged)))
<1>1. /\ Unacknowledged \in Seq(Dumps)
      /\ Len(Unacknowledged) = Len(toAgent) + Len(toDaemon)
  BY ConcatProperties DEF Unacknowledged
<1>2. DOMAIN Unacknowledged = 1 .. Len(Unacknowledged) /\ Len(Unacknowledged) \in Nat
  BY <1>1, LenProperties
<1>3. ASSUME queue \in Seq(Buffers)
      PROVE  UnacknowledgedAreLast <=> (Connected /\ acks => Suffix(queue, Unacknowledged))
  <2>1. Len(queue) \in Nat
    BY <1>3, LenProperties
  <2> QED  BY <1>2, <2>1 DEF UnacknowledgedAreLast, Suffix
<1> QED  BY <1>1, <1>3

LEMMA UnderWayNext ==
  ASSUME toAgent' \in Seq(Dumps), toDaemon' \in Seq(Dumps)
  PROVE  /\ Unacknowledged' \in Seq(Dumps)
         /\ Len(Unacknowledged') = Len(toAgent') + Len(toDaemon')
         /\ queue' \in Seq(Buffers) =>
              (UnacknowledgedAreLast' <=> (Connected' /\ acks' => Suffix(queue', Unacknowledged')))
<1>1. /\ Unacknowledged' \in Seq(Dumps)
      /\ Len(Unacknowledged') = Len(toAgent') + Len(toDaemon')
  BY ConcatProperties DEF Unacknowledged
<1>2. DOMAIN Unacknowledged' = 1 .. Len(Unacknowledged') /\ Len(Unacknowledged') \in Nat
  BY <1>1, LenProperties
<1>3. ASSUME queue' \in Seq(Buffers)
      PROVE  UnacknowledgedAreLast' <=> (Connected' /\ acks' => Suffix(queue', Unacknowledged'))
  <2>1. Len(queue') \in Nat
    BY <1>3, LenProperties
  <2> QED  BY <1>2, <2>1 DEF UnacknowledgedAreLast, Suffix
<1> QED  BY <1>1, <1>3

\* A dump written, read by the daemon, and its acknowledgement read.
LEMMA ConcatSteps ==
  ASSUME NEW a \in Seq(Dumps), NEW d \in Seq(Dumps)
  PROVE  /\ \A e \in Dumps : a \o Append(d, e) = Append(a \o d, e)
         /\ d # <<>> => Append(a, Head(d)) \o Tail(d) = a \o d
         /\ a # <<>> => Tail(a) \o d = Tail(a \o d) /\ a \o d # <<>>
<1>1. ASSUME NEW e \in Dumps
      PROVE  a \o Append(d, e) = Append(a \o d, e)
  <2> DEFINE l == a \o Append(d, e)
             r == Append(a \o d, e)
  <2>1. /\ l \in Seq(Dumps) /\ r \in Seq(Dumps)
        /\ Len(l) = Len(a) + Len(d) + 1 /\ Len(r) = Len(l)
    OBVIOUS
  <2>2. \A i \in 1 .. Len(l) : l[i] = r[i]
    OBVIOUS
  <2> HIDE DEF l, r
  <2>3. l = r
    BY <2>1, <2>2, SeqEqual
  <2> QED  BY <2>3 DEF l, r
<1>2. ASSUME d # <<>>
      PROVE  Append(a, Head(d)) \o Tail(d) = a \o d
  <2> DEFINE l == Append(a, Head(d)) \o Tail(d)
             r == a \o d
  <2>1. /\ Head(d) \in Dumps /\ Head(d) = d[1] /\ Tail(d) \in Seq(Dumps)
        /\ Len(d) \in Nat \ {0} /\ Len(Tail(d)) = Len(d) - 1
        /\ \A i \in 1 .. Len(d) - 1 : Tail(d)[i] = d[i + 1]
    BY <1>2, HeadTailProperties, EmptySeq
  <2>2. /\ Append(a, Head(d)) \in Seq(Dumps) /\ Len(Append(a, Head(d))) = Len(a) + 1
        /\ \A i \in 1 .. Len(a) : Append(a, Head(d))[i] = a[i]
        /\ Append(a, Head(d))[Len(a) + 1] = d[1]
    BY <2>1
  <2> HIDE DEF l, r
  <2>3. /\ l \in Seq(Dumps) /\ r \in Seq(Dumps) /\ Len(a) \in Nat
        /\ Len(l) = Len(a) + Len(d) /\ Len(r) = Len(a) + Len(d)
    BY <2>1, <2>2, ConcatProperties, LenProperties DEF l, r
  <2>4. ASSUME NEW i \in 1 .. Len(l)
        PROVE  l[i] = r[i]
    <3>1. l[i] = IF i <= Len(a) + 1 THEN Append(a, Head(d))[i] ELSE Tail(d)[i - (Len(a) + 1)]
      BY <2>1, <2>2, <2>3, ConcatProperties DEF l
    <3>2. r[i] = IF i <= Len(a) THEN a[i] ELSE d[i - Len(a)]
      BY <2>3, ConcatProperties DEF r
    <3>3. CASE i <= Len(a)
      BY <3>1, <3>2, <3>3, <2>2, <2>3
    <3>4. CASE i = Len(a) + 1
      BY <3>1, <3>2, <3>4, <2>2, <2>3
    <3>5. CASE i > Len(a) + 1
      <4>1. i - (Len(a) + 1) \in 1 .. Len(d) - 1 /\ i - (Len(a) + 1) + 1 = i - Len(a)
        BY <3>5, <2>1, <2>3
      <4>2. Tail(d)[i - (Len(a) + 1)] = d[i - Len(a)]
        BY <4>1, <2>1
      <4> QED  BY <3>1, <3>2, <3>5, <4>2, <2>3
    <3>6. i <= Len(a) \/ i = Len(a) + 1 \/ i > Len(a) + 1
      BY <2>1, <2>3
    <3> QED  BY <3>3, <3>4, <3>5, <3>6
  <2>5. l = r
    BY <2>3, <2>4, SeqEqual
  <2> QED  BY <2>5 DEF l, r
<1>3. ASSUME a # <<>>
      PROVE  Tail(a) \o d = Tail(a \o d) /\ a \o d # <<>>
  <2> DEFINE w == a \o d
             l == Tail(a) \o d
             r == Tail(w)
  <2>1. /\ Tail(a) \in Seq(Dumps) /\ Len(a) \in Nat \ {0} /\ Len(Tail(a)) = Len(a) - 1
        /\ \A i \in 1 .. Len(a) - 1 : Tail(a)[i] = a[i + 1]
    BY <1>3, HeadTailProperties, EmptySeq
  <2>2. /\ w \in Seq(Dumps) /\ Len(w) = Len(a) + Len(d) /\ Len(d) \in Nat
        /\ \A i \in 1 .. Len(a) + Len(d) : w[i] = IF i <= Len(a) THEN a[i] ELSE d[i - Len(a)]
    BY ConcatProperties, LenProperties
  <2> HIDE DEF w
  <2>3. w # <<>>
    BY <2>1, <2>2, EmptySeq
  <2>4. /\ r \in Seq(Dumps) /\ Len(r) = Len(a) + Len(d) - 1
        /\ \A i \in 1 .. Len(a) + Len(d) - 1 : r[i] = w[i + 1]
    BY <2>2, <2>3, HeadTailProperties
  <2>5. /\ l \in Seq(Dumps) /\ Len(l) = Len(a) + Len(d) - 1
        /\ \A i \in 1 .. Len(a) + Len(d) - 1 :
             l[i] = IF i <= Len(a) - 1 THEN Tail(a)[i] ELSE d[i - (Len(a) - 1)]
    BY <2>1, <2>2, ConcatProperties
  <2> HIDE DEF l, r
  <2>6. ASSUME NEW i \in 1 .. Len(l)
        PROVE  l[i] = r[i]
    <3>1. r[i] = IF i + 1 <= Len(a) THEN a[i + 1] ELSE d[i + 1 - Len(a)]
      BY <2>1, <2>2, <2>4, <2>5
    <3>2. CASE i <= Len(a) - 1
      BY <3>1, <3>2, <2>1, <2>5
    <3>3. CASE i > Len(a) - 1
      <4>1. i + 1 - Len(a) = i - (Len(a) - 1)
        BY <2>1
      <4>2. l[i] = d[i - (Len(a) - 1)]
        BY <3>3, <2>1, <2>5
      <4>3. r[i] = d[i + 1 - Len(a)]
        BY <3>1, <3>3, <2>1, <2>5
      <4> QED  BY <4>1, <4>2, <4>3
    <3>4. i <= Len(a) - 1 \/ i > Len(a) - 1
      BY <2>1, <2>2, <2>5
    <3> QED  BY <3>2, <3>3, <3>4
  <2>7. l = r
    BY <2>4, <2>5, <2>6, SeqEqual
  <2> QED  BY <2>3, <2>7 DEF l, r, w
<1> QED  BY <1>1, <1>2, <1>3

-----------------------------------------------------------------------------
(* The messages.                                                           *)

\* A step that touches neither the vchan nor the queue.
LEMMA MessagesKept ==
  ASSUME Messages, status \in [Outputs -> {"absent", "live", "gone"}],
         UNCHANGED <<queue, acks, enabled, conn, session, toDaemon, toAgent>>,
         \A o \in Outputs : status[o] # "absent" => status'[o] # "absent",
         session = 0 => status' = status,
         (\A o \in Outputs : status'[o] # "gone") => \A o \in Outputs : status[o] # "gone",
         toDaemon \in Seq(Dumps), toAgent \in Seq(Dumps)
  PROVE  Messages'
<1>1. Phases'
  BY DEF Messages, Phases
<1>2. \A q \in Seq(Dumps) : \A k \in DOMAIN q : q[k].win \in Outputs
  <2> TAKE q \in Seq(Dumps)
  <2> TAKE k \in DOMAIN q
  <2>1. q[k] \in Dumps
    BY LenProperties, ElementOfSeq
  <2> QED  BY <2>1 DEF Dumps
<1>3. Existed'
  BY <1>2 DEF Messages, Existed, Dumped
<1>4. UnacknowledgedAreLast' /\ NothingLate'
  BY DEF Messages, UnacknowledgedAreLast, NothingLate, Unacknowledged, Connected
<1> QED  BY <1>1, <1>3, <1>4 DEF Messages

\* A dump is linked and sent together, outside of the handshake.
LEMMA LinkAndSend ==
  ASSUME TypeOK, Messages, NEW o \in Outputs, NEW b \in Buffers, status[o] = "live",
         Link(b), SendDump(o, b),
         UNCHANGED <<status, acks, enabled, conn, session, toAgent>>
  PROVE  queue' \in Seq(Buffers) /\ toDaemon' \in Seq(Dumps) /\ Messages'
<1>1. /\ toDaemon \in Seq(Dumps) /\ toAgent \in Seq(Dumps) /\ queue \in Seq(Buffers)
      /\ conn \in {"waiting", "handshaken", "up", "broken"} /\ acks \in BOOLEAN
      /\ enabled \in BOOLEAN
  BY DEF TypeOK
<1>2. Dump(o, b) \in Dumps /\ Dump(o, b).buf = b /\ Dump(o, b).win = o
  BY DEF Dump, Dumps
<1>3. session # 0
  BY DEF Messages, Phases
<1>4. enabled /\ conn # "broken" <=> conn = "up"
  BY <1>1, <1>3 DEF Messages, Phases
<1>5. toDaemon' = IF conn = "up" THEN Append(toDaemon, Dump(o, b)) ELSE toDaemon
  BY <1>4 DEF SendDump
<1>6. queue' = IF acks THEN Append(queue, b) ELSE queue
  BY DEF Link
<1>7. queue' \in Seq(Buffers) /\ toDaemon' \in Seq(Dumps)
  BY <1>1, <1>2, <1>5, <1>6
<1>8. Phases'
  BY <1>3, <1>5 DEF Messages, Phases
<1>9. Existed'
  <2>1. Dumped(toAgent)'
    BY DEF Messages, Existed, Dumped
  <2>2. CASE conn = "up"
    <3>1. ASSUME NEW k \in 1 .. Len(toDaemon) + 1
          PROVE  status[Append(toDaemon, Dump(o, b))[k].win] # "absent"
      <4>1. CASE k = Len(toDaemon) + 1
        BY <1>1, <1>2, <4>1
      <4>2. CASE k \in 1 .. Len(toDaemon)
        BY <1>1, <1>2, <4>2 DEF Messages, Existed, Dumped
      <4>3. k = Len(toDaemon) + 1 \/ k \in 1 .. Len(toDaemon)
        BY <1>1, LenProperties
      <4> QED  BY <4>1, <4>2, <4>3
    <3>2. DOMAIN toDaemon' = 1 .. Len(toDaemon) + 1
      BY <1>1, <1>2, <1>5, <2>2
    <3> QED  BY <2>1, <2>2, <3>1, <3>2, <1>5 DEF Existed, Dumped
  <2>3. CASE conn # "up"
    BY <2>1, <2>3, <1>5 DEF Messages, Existed, Dumped
  <2> QED  BY <2>2, <2>3
<1>10. UnacknowledgedAreLast' /\ NothingLate'
  <2>1. CASE conn = "up" /\ acks
    <3>1. Unacknowledged' = Append(Unacknowledged, Dump(o, b))
      BY <1>1, <1>2, <1>5, <2>1, ConcatSteps DEF Unacknowledged
    <3>2. Unacknowledged \in Seq(Dumps) /\ Suffix(queue, Unacknowledged)
      BY <1>1, <2>1, UnderWay DEF Messages, Connected
    <3>3. Suffix(queue', Unacknowledged')
      BY <1>1, <1>2, <1>6, <2>1, <3>1, <3>2, SuffixAppend
    <3>4. UnacknowledgedAreLast'
      BY <1>1, <1>7, <3>3, UnderWayNext
    <3>5. /\ Len(queue') = Len(queue) + 1
          /\ Len(Unacknowledged') = Len(Unacknowledged) + 1
      BY <1>1, <1>2, <1>6, <2>1, <3>1, <3>2
    <3>6. NothingLate'
      BY <3>5 DEF Messages, NothingLate
    <3> QED  BY <3>4, <3>6
  <2>2. CASE ~acks
    BY <2>2 DEF UnacknowledgedAreLast, NothingLate
  <2>3. CASE conn # "up"
    <3>1. NothingLate'
      BY <2>3 DEF NothingLate
    <3>2. Connected' => Unacknowledged' = <<>>
      BY <1>1, <1>5, <2>3 DEF Messages, Phases, Connected, Unacknowledged
    <3>3. Connected' => Suffix(queue', Unacknowledged')
      BY <1>7, <3>2, SuffixNone
    <3> QED  BY <1>1, <1>7, <3>1, <3>3, UnderWayNext
  <2> QED  BY <2>1, <2>2, <2>3
<1> QED  BY <1>7, <1>8, <1>9, <1>10 DEF Messages

-----------------------------------------------------------------------------
(* The steps.                                                              *)

LEMMA InitInv == Init => IInv
<1> SUFFICES ASSUME Init PROVE IInv
  OBVIOUS
<1>1. TypeOK
  <2>1. <<>> \in Seq(Buffers) /\ <<>> \in Seq(Dumps)
    BY EmptySeq
  <2> QED  BY <2>1 DEF Init, TypeOK
<1>2. \A b : Links(b) = 0
  <2>1. \A b : Places(queue, b) = {}
    BY DEF Init, Places
  <2> QED  BY <2>1, LinksArePlaces, FS_EmptySet
<1>3. Accounted
  BY <1>2 DEF Init, Accounted, Held
<1>4. AllocatorOutlivesBuffers
  <2>1. Used = {}
    BY DEF Init, Used
  <2> QED  BY <2>1, FS_EmptySet DEF Init, AllocatorOutlivesBuffers
<1>5. Private /\ Alive
  BY DEF Init, Private, Owned, Alive
<1>6. Phases /\ Existed
  BY DEF Init, Phases, Existed, Dumped
<1>7. UnacknowledgedAreLast /\ NothingLate
  BY DEF Init, UnacknowledgedAreLast, NothingLate, Connected
<1> QED  BY <1>1, <1>3, <1>4, <1>5, <1>6, <1>7 DEF IInv, Memory, Messages

LEMMA NewOutputInv ==
  ASSUME IInv, NEW o \in Outputs, NewOutput(o)
  PROVE  IInv'
<1>1. TypeOK'
  BY DEF IInv, TypeOK, NewOutput, bufferVars, sessionVars
<1>2. Memory'
  BY MemoryKept DEF IInv, TypeOK, Memory, Alive, NewOutput, bufferVars, sessionVars
<1>3. Messages'
  BY MessagesKept DEF IInv, TypeOK, NewOutput, sessionVars
<1> QED  BY <1>1, <1>2, <1>3 DEF IInv

LEMMA CommitInv ==
  ASSUME IInv, NEW o \in Outputs, NEW b \in Buffers, Commit(o, b)
  PROVE  IInv'
<1> DEFINE new == {b} \ chain[o]
           old == {current[o]} \ (chain[o] \cup {NoBuffer})
<1>1. /\ status[o] = "live" /\ todo = {} /\ b # current[o]
      /\ \A x \in new : refcount[x] = 0
      /\ References(new, Linked(b), old)
      /\ chain' = [chain EXCEPT ![o] = @ \cup {b}]
      /\ current' = [current EXCEPT ![o] = b]
      /\ Link(b) /\ SendDump(o, b)
      /\ UNCHANGED <<open, status, acks, enabled, todo, conn, session, running, toAgent>>
  BY DEF Commit, LoopTurn, sessionVars
<1>2. TypeOK /\ Memory /\ Messages /\ chain \in [Outputs -> SUBSET Buffers]
      /\ current \in [Outputs -> Buffers \cup {NoBuffer}]
  BY DEF IInv, TypeOK
<1>3. queue' \in Seq(Buffers) /\ toDaemon' \in Seq(Dumps) /\ Messages'
  BY <1>1, <1>2, LinkAndSend
<1>4. \A x \in Buffers : Links(x)' = Links(x) + (IF x \in Linked(b) THEN 1 ELSE 0)
  BY <1>1, <1>2, LinkCounts DEF TypeOK
<1>5. chain'[o] = chain[o] \cup {b} /\ current'[o] = b
  BY <1>1, <1>2
<1>6. Owned(o)' = (Owned(o) \cup new) \ old
  BY <1>1, <1>2, <1>5 DEF Owned
<1>7. \A p \in Outputs \ {o} : Owned(p)' = Owned(p)
  BY <1>1, <1>2 DEF Owned
<1>8. /\ new \subseteq Buffers /\ Linked(b) \subseteq Buffers /\ old \subseteq Buffers
      /\ old \subseteq Owned(o) /\ Linked(b) \subseteq Owned(o) \cup new
  BY <1>2 DEF Linked, Owned
<1> HIDE DEF new, old
<1>9. /\ refcount' \in [Buffers -> Nat] /\ alloc' \in Nat
      /\ Accounted' /\ AllocatorOutlivesBuffers' /\ Private'
  <2>1. Accounted /\ AllocatorOutlivesBuffers /\ Private /\ open' = open
    BY <1>1, <1>2 DEF Memory
  <2> QED  BY <1>1, <1>2, <1>4, <1>6, <1>7, <1>8, <2>1, OwnerStep, SMTT(60)
<1>10. Alive'
  BY <1>1, <1>2 DEF Memory, Alive
<1>11. TypeOK'
  <2>1. /\ chain' \in [Outputs -> SUBSET Buffers]
        /\ current' \in [Outputs -> Buffers \cup {NoBuffer}]
    BY <1>1, <1>2
  <2> QED  BY <1>1, <1>2, <1>3, <1>9, <2>1 DEF TypeOK
<1> QED  BY <1>3, <1>9, <1>10, <1>11 DEF IInv, Memory

\* wlroots gives buffers of one output back: the memory half of Resize and of
\* DestroyOutput.
LEMMA Dropping ==
  ASSUME TypeOK, Memory, NEW o \in Outputs, NEW dropped \in SUBSET Buffers,
         dropped \subseteq Owned(o), References({}, {}, dropped),
         Owned(o)' = Owned(o) \ dropped,
         \A p \in Outputs \ {o} : Owned(p)' = Owned(p),
         open' = open, queue' = queue
  PROVE  /\ refcount' \in [Buffers -> Nat] /\ alloc' \in Nat
         /\ Accounted' /\ AllocatorOutlivesBuffers' /\ Private'
<1>1. \A x \in Buffers : Links(x)' = Links(x) + (IF x \in {} THEN 1 ELSE 0)
  <2>1. \A x : Links(x)' = Links(x) /\ Links(x) \in Nat
    BY LinksType DEF Links, TypeOK
  <2> QED  BY <2>1
<1>2. Owned(o)' = (Owned(o) \cup {}) \ dropped
  OBVIOUS
<1>3. \A x \in {} : refcount[x] = 0
  OBVIOUS
<1>4. {} \in SUBSET Buffers /\ {} \subseteq Owned(o) \cup {}
  OBVIOUS
<1>5. Accounted /\ AllocatorOutlivesBuffers /\ Private
  BY DEF Memory
<1> QED  BY <1>1, <1>2, <1>3, <1>4, <1>5, OwnerStep, SMTT(60)

LEMMA ResizeInv ==
  ASSUME IInv, NEW o \in Outputs, Resize(o)
  PROVE  IInv'
<1>1. /\ status[o] = "live"
      /\ References({}, {}, chain[o] \ {current[o]})
      /\ chain' = [chain EXCEPT ![o] = {}]
      /\ UNCHANGED <<open, current, status, queue, acks, enabled, todo, conn, session,
                     running, toDaemon, toAgent>>
  BY DEF Resize, sessionVars
<1>2. TypeOK /\ Memory /\ Messages /\ chain \in [Outputs -> SUBSET Buffers]
      /\ current \in [Outputs -> Buffers \cup {NoBuffer}]
  BY DEF IInv, TypeOK
<1>3. Messages'
  BY <1>1, <1>2, MessagesKept DEF TypeOK
<1>4. Owned(o)' = Owned(o) \ (chain[o] \ {current[o]})
  BY <1>1, <1>2 DEF Owned
<1>5. \A p \in Outputs \ {o} : Owned(p)' = Owned(p)
  BY <1>1, <1>2 DEF Owned
<1>6. chain[o] \ {current[o]} \subseteq Owned(o) /\ chain[o] \ {current[o]} \subseteq Buffers
  BY <1>2 DEF Owned
<1>7. /\ refcount' \in [Buffers -> Nat] /\ alloc' \in Nat
      /\ Accounted' /\ AllocatorOutlivesBuffers' /\ Private'
  BY <1>1, <1>2, <1>4, <1>5, <1>6, Dropping
<1>8. chain' \in [Outputs -> SUBSET Buffers] /\ Alive'
  BY <1>1, <1>2 DEF Memory, Alive, Shown
<1>9. TypeOK'
  BY <1>1, <1>2, <1>7, <1>8 DEF TypeOK
<1> QED  BY <1>3, <1>7, <1>8, <1>9 DEF IInv, Memory

LEMMA DestroyOutputInv ==
  ASSUME IInv, NEW o \in Outputs, DestroyOutput(o)
  PROVE  IInv'
<1>1. /\ status[o] = "live" /\ todo = {}
      /\ status' = [status EXCEPT ![o] = "gone"]
      /\ References({}, {}, Owned(o))
      /\ chain' = [chain EXCEPT ![o] = {}]
      /\ current' = [current EXCEPT ![o] = NoBuffer]
      /\ UNCHANGED <<open, queue, acks, enabled, todo, conn, session, running,
                     toDaemon, toAgent>>
  BY DEF DestroyOutput, Owned, sessionVars
<1>2. TypeOK /\ Memory /\ Messages /\ chain \in [Outputs -> SUBSET Buffers]
      /\ current \in [Outputs -> Buffers \cup {NoBuffer}]
      /\ status \in [Outputs -> {"absent", "live", "gone"}]
  BY DEF IInv, TypeOK
<1>3. Messages'
  <2>1. session # 0
    BY <1>1, <1>2 DEF Messages, Phases
  <2>2. \A p \in Outputs : status[p] # "absent" => status'[p] # "absent"
    BY <1>1, <1>2
  <2>3. status'[o] = "gone"
    BY <1>1, <1>2
  <2> QED  BY <1>1, <1>2, <2>1, <2>2, <2>3, MessagesKept DEF TypeOK
<1>4. Owned(o)' = Owned(o) \ Owned(o)
  BY <1>1, <1>2 DEF Owned
<1>5. \A p \in Outputs \ {o} : Owned(p)' = Owned(p)
  BY <1>1, <1>2 DEF Owned
<1>6. Owned(o) \subseteq Buffers
  BY <1>2 DEF Owned
<1>7. /\ refcount' \in [Buffers -> Nat] /\ alloc' \in Nat
      /\ Accounted' /\ AllocatorOutlivesBuffers' /\ Private'
  BY <1>1, <1>2, <1>4, <1>5, <1>6, Dropping
<1>8. /\ chain' \in [Outputs -> SUBSET Buffers]
      /\ current' \in [Outputs -> Buffers \cup {NoBuffer}]
      /\ status' \in [Outputs -> {"absent", "live", "gone"}]
  BY <1>1, <1>2
<1>9. Alive'
  BY <1>1, <1>2 DEF Memory, Alive
<1>10. TypeOK'
  BY <1>1, <1>2, <1>7, <1>8 DEF TypeOK
<1> QED  BY <1>3, <1>7, <1>9, <1>10 DEF IInv, Memory

LEMMA FirstDump ==
  ASSUME NEW q \in Seq(Dumps), q # <<>>
  PROVE  Head(q) = q[1] /\ 1 \in DOMAIN q /\ q[1].win \in Outputs
<1>1. Len(q) \in Nat \ {0} /\ DOMAIN q = 1 .. Len(q) /\ Head(q) = q[1]
  BY EmptySeq, LenProperties
<1>2. q[1] \in Dumps
  BY <1>1, ElementOfSeq
<1> QED  BY <1>1, <1>2 DEF Dumps

\* An acknowledgement unlinks the oldest dump, or nothing.
LEMMA ReadAckMemory ==
  ASSUME IInv, ReadAck
  PROVE  Memory' /\ refcount' \in [Buffers -> Nat] /\ alloc' \in Nat
<1>1. TypeOK /\ Memory /\ UNCHANGED <<open, chain, current, status, todo>>
      /\ queue \in Seq(Buffers)
  BY DEF IInv, TypeOK, ReadAck, outputVars, sessionVars
<1>2. Private' /\ Alive'
  BY <1>1 DEF Memory, Private, Owned, Alive, Shown
<1>3. CASE UNCHANGED <<queue, refcount, alloc>>
  <2>1. Accounted' /\ AllocatorOutlivesBuffers'
    BY <1>1, <1>3 DEF Memory, Accounted, AllocatorOutlivesBuffers, Held, Links, Used
  <2> QED  BY <1>1, <1>2, <1>3, <2>1 DEF TypeOK, Memory
<1>4. CASE queue # <<>> /\ queue' = Tail(queue) /\ References({}, {}, {Head(queue)})
  <2> DEFINE h == Head(queue)
  <2>1. h \in Buffers
    BY <1>1, <1>4, HeadTailProperties
  <2>2. \A x : /\ Links(x) \in Nat
               /\ Links(x)' \in Nat
               /\ Links(x)' = Links(x) - (IF x = h THEN 1 ELSE 0)
    <3> TAKE x
    <3>1. Links(x) = Cardinality(Places(queue, x)) /\ Links(x) \in Nat
      BY <1>1, LinksArePlaces, LinksType
    <3>2. Links(x)' = Cardinality(Places(Tail(queue), x))
      BY <1>4 DEF Links, Places
    <3>3. Tail(queue) \in Seq(Buffers)
      BY <1>1, <1>4, HeadTailProperties
    <3>4. Cardinality(Places(Tail(queue), x)) \in Nat
      BY <3>3, PlacesFinite
    <3>5. Cardinality(Places(Tail(queue), x)) =
            Cardinality(Places(queue, x)) - (IF x = h THEN 1 ELSE 0)
      BY <1>1, <1>4, PlacesTail
    <3> QED  BY <3>1, <3>2, <3>4, <3>5
  <2> HIDE DEF h
  <2>3. \A b \in Buffers : refcount[b] = (IF Held(b) THEN 1 ELSE 0) + Links(b)
    BY <1>1 DEF Memory, Accounted
  <2>4. refcount[h] > 0
    BY <2>1, <2>2, <2>3
  <2>5. /\ refcount' \in [Buffers -> Nat] /\ alloc' \in Nat
        /\ AllocatorOutlivesBuffers'
        /\ \A b \in Buffers :
             refcount'[b] = refcount[b] + (IF b \in {} THEN 1 ELSE 0)
                                        + (IF b \in {} THEN 1 ELSE 0)
                                        - (IF b \in {h} THEN 1 ELSE 0)
    <3>1. refcount \in [Buffers -> Nat] /\ open \in BOOLEAN
          /\ AllocatorOutlivesBuffers /\ open' = open /\ References({}, {}, {h})
      BY <1>1, <1>4 DEF TypeOK, Memory, h
    <3>2. /\ \A b \in {} : refcount[b] = 0 /\ b \notin {h}
          /\ \A b \in {} : refcount[b] > 0 \/ b \in {}
          /\ {} \in SUBSET Buffers /\ {h} \in SUBSET Buffers
          /\ \A b \in {h} : refcount[b] > 0
      BY <2>1, <2>4
    <3> DEFINE none == {}
               one == {h}
    <3> HIDE DEF none, one
    <3>3. /\ \A b \in none : refcount[b] = 0 /\ b \notin one
          /\ \A b \in none : refcount[b] > 0 \/ b \in none
          /\ none \in SUBSET Buffers /\ one \in SUBSET Buffers
          /\ \A b \in one : refcount[b] > 0
          /\ References(none, none, one)
      BY <3>1, <3>2 DEF none, one
    <3>4. /\ refcount' \in [Buffers -> Nat] /\ alloc' \in Nat
          /\ AllocatorOutlivesBuffers'
          /\ \A b \in Buffers :
               refcount'[b] = refcount[b] + (IF b \in none THEN 1 ELSE 0)
                                          + (IF b \in none THEN 1 ELSE 0)
                                          - (IF b \in one THEN 1 ELSE 0)
      BY <3>1, <3>3, ReferencesCount, SMTT(60)
    <3> QED  BY <3>4 DEF none, one
  <2>6. Accounted'
    <3> SUFFICES ASSUME NEW b \in Buffers
                 PROVE  refcount'[b] = (IF Held(b)' THEN 1 ELSE 0) + Links(b)'
      BY DEF Accounted
    <3>1. Held(b)' <=> Held(b)
      BY <1>1 DEF Held
    <3>2. refcount'[b] = refcount[b] - (IF b = h THEN 1 ELSE 0)
          /\ refcount[b] \in Nat
      BY <1>1, <2>5 DEF TypeOK
    <3>3. Links(b)' = Links(b) - (IF b = h THEN 1 ELSE 0) /\ Links(b) \in Nat
      BY <2>2
    <3>4. refcount[b] = (IF Held(b) THEN 1 ELSE 0) + Links(b)
      BY <2>3
    <3> QED  BY <3>1, <3>2, <3>3, <3>4
  <2> QED  BY <1>2, <2>5, <2>6 DEF Memory
<1> QED  BY <1>3, <1>4 DEF ReadAck, bufferVars

LEMMA ReadAckMessages ==
  ASSUME IInv, ReadAck
  PROVE  Messages' /\ queue' \in Seq(Buffers) /\ toAgent' \in Seq(Dumps)
<1>1. /\ conn # "waiting" /\ toAgent # <<>> /\ toAgent' = Tail(toAgent)
      /\ UNCHANGED <<status, acks, enabled, conn, session, toDaemon>>
  BY DEF ReadAck, outputVars, sessionVars
<1>2. /\ TypeOK /\ Messages /\ toDaemon \in Seq(Dumps) /\ toAgent \in Seq(Dumps)
      /\ queue \in Seq(Buffers) /\ acks \in BOOLEAN
      /\ conn \in {"waiting", "handshaken", "up", "broken"}
  BY DEF IInv, TypeOK
<1>3. acks /\ conn # "handshaken"
  BY <1>1, <1>2 DEF Messages, Phases
<1>4. \/ /\ status[Head(toAgent).win] = "live" /\ queue # <<>>
         /\ queue' = Tail(queue)
      \/ /\ ~(status[Head(toAgent).win] = "live" /\ queue # <<>>)
         /\ queue' = queue
  BY DEF ReadAck
<1>5. queue' \in Seq(Buffers) /\ toAgent' \in Seq(Dumps)
  BY <1>1, <1>2, <1>4, HeadTailProperties
<1>6. session # 0
  <2>1. Head(toAgent) = toAgent[1] /\ 1 \in DOMAIN toAgent /\ toAgent[1].win \in Outputs
    BY <1>1, <1>2, FirstDump
  <2> QED  BY <1>2, <2>1 DEF Messages, Existed, Dumped, Phases
<1>7. Phases'
  BY <1>1, <1>2, <1>3, <1>6 DEF Messages, Phases
<1>8. Existed'
  <2>1. \A k \in DOMAIN Tail(toAgent) : k + 1 \in DOMAIN toAgent /\ Tail(toAgent)[k] = toAgent[k + 1]
    <3>1. /\ Len(toAgent) \in Nat \ {0} /\ Tail(toAgent) \in Seq(Dumps)
          /\ Len(Tail(toAgent)) = Len(toAgent) - 1
          /\ \A k \in 1 .. Len(Tail(toAgent)) : Tail(toAgent)[k] = toAgent[k + 1]
      BY <1>1, <1>2, HeadTailProperties, EmptySeq
    <3>2. DOMAIN toAgent = 1 .. Len(toAgent) /\ DOMAIN Tail(toAgent) = 1 .. Len(Tail(toAgent))
      BY <1>2, <3>1, LenProperties
    <3> QED  BY <3>1, <3>2
  <2> QED  BY <1>1, <1>2, <2>1 DEF Messages, Existed, Dumped
<1>9. Unacknowledged' = Tail(Unacknowledged) /\ Unacknowledged # <<>>
      /\ Unacknowledged \in Seq(Dumps)
  BY <1>1, <1>2, ConcatSteps, UnderWay DEF Unacknowledged
<1>10. Connected => Suffix(queue, Unacknowledged)
  BY <1>2, <1>3, UnderWay DEF Messages
<1>11. UnacknowledgedAreLast'
  <2>1. Connected => Suffix(queue', Unacknowledged')
    <3>1. CASE queue' = Tail(queue)
      BY <1>2, <1>9, <1>10, <3>1, SuffixTails
    <3>2. CASE queue' = queue
      BY <1>2, <1>9, <1>10, <3>2, SuffixTail
    <3> QED  BY <1>4, <3>1, <3>2
  <2> QED  BY <1>1, <1>2, <1>5, <2>1, UnderWayNext DEF Connected
<1>12. NothingLate'
  <2> SUFFICES ASSUME session = 1, conn = "up", \A o \in Outputs : status[o] # "gone"
               PROVE  Len(queue') = Len(Unacknowledged')
    BY <1>1 DEF NothingLate
  <2>1. Len(queue) = Len(Unacknowledged)
    BY <1>2, <1>3 DEF Messages, NothingLate
  <2>2. queue # <<>>
    BY <1>2, <1>9, <1>10, SuffixTails DEF Connected
  <2>3. status[Head(toAgent).win] = "live"
    <3>1. Head(toAgent) = toAgent[1] /\ 1 \in DOMAIN toAgent /\ toAgent[1].win \in Outputs
      BY <1>1, <1>2, FirstDump
    <3>2. status[Head(toAgent).win] # "absent"
      BY <1>2, <3>1 DEF Messages, Existed, Dumped
    <3> QED  BY <1>2, <3>1, <3>2 DEF TypeOK
  <2>4. queue' = Tail(queue)
    BY <1>4, <2>2, <2>3
  <2>5. Len(Tail(queue)) = Len(queue) - 1 /\ Len(Tail(Unacknowledged)) = Len(Unacknowledged) - 1
    BY <1>2, <1>9, <2>2, HeadTailProperties
  <2> QED  BY <1>9, <2>1, <2>4, <2>5
<1> QED  BY <1>5, <1>7, <1>8, <1>11, <1>12 DEF Messages

LEMMA ReadAckInv ==
  ASSUME IInv, ReadAck
  PROVE  IInv'
<1>1. UNCHANGED <<open, chain, current, status, acks, enabled, todo, conn, session,
                  running, toDaemon>>
  BY DEF ReadAck, outputVars, sessionVars
<1>2. TypeOK'
  BY <1>1, ReadAckMemory, ReadAckMessages DEF IInv, TypeOK
<1> QED  BY <1>2, ReadAckMemory, ReadAckMessages DEF IInv

LEMMA ReconnectInv ==
  ASSUME IInv, Reconnect
  PROVE  IInv'
<1>1. /\ conn' = "waiting" /\ enabled' = FALSE /\ toDaemon' = <<>> /\ toAgent' = <<>>
      /\ UNCHANGED <<refcount, alloc, open, chain, current, status, queue, acks, running,
                     todo, session>>
  BY DEF Reconnect, bufferVars, outputVars
<1>2. TypeOK'
  <2>1. <<>> \in Seq(Dumps)
    BY EmptySeq
  <2> QED  BY <1>1, <2>1 DEF IInv, TypeOK
<1>3. Memory'
  BY <1>1, MemoryKept DEF IInv, Memory, Alive
<1>4. Messages'
  BY <1>1 DEF IInv, Messages, Phases, Existed, Dumped, UnacknowledgedAreLast, NothingLate,
              Connected
<1> QED  BY <1>2, <1>3, <1>4 DEF IInv

LEMMA ReconnectedInv ==
  ASSUME IInv, NEW version17 \in BOOLEAN, Reconnected(version17)
  PROVE  IInv'
<1>1. /\ conn = "handshaken" /\ conn' = "up" /\ enabled' = TRUE /\ session' = session + 1
      /\ acks' = version17 /\ todo' = Shown
      /\ UNCHANGED <<refcount, alloc, open, chain, current, status, queue, running,
                     toDaemon, toAgent>>
  BY DEF Reconnected, bufferVars, outputVars
<1>2. TypeOK'
  BY <1>1 DEF IInv, TypeOK, Shown
<1>3. Memory'
  BY <1>1, MemoryKept DEF IInv, Memory, Alive
<1>4. toDaemon = <<>> /\ toAgent = <<>> /\ session \in Nat /\ queue \in Seq(Buffers)
  BY <1>1 DEF IInv, TypeOK, Messages, Phases
<1>5. Phases' /\ Existed'
  BY <1>1, <1>4 DEF IInv, Messages, Phases, Existed, Dumped
<1>6. Unacknowledged' = <<>>
  BY <1>1, <1>4 DEF Unacknowledged
<1>7. UnacknowledgedAreLast'
  <2>1. toAgent' \in Seq(Dumps) /\ toDaemon' \in Seq(Dumps) /\ queue' \in Seq(Buffers)
    BY <1>2 DEF TypeOK
  <2>2. Suffix(queue', Unacknowledged')
    BY <1>6, <2>1, SuffixNone
  <2> QED  BY <2>1, <2>2, UnderWayNext
<1>8. NothingLate'
  <2>1. session' = 1 => queue' = <<>>
    BY <1>1, <1>4 DEF IInv, Messages, Phases
  <2> QED  BY <1>6, <2>1 DEF NothingLate
<1> QED  BY <1>2, <1>3, <1>5, <1>7, <1>8 DEF IInv, Messages

LEMMA RecreateWindowInv ==
  ASSUME IInv, NEW o \in Outputs, RecreateWindow(o)
  PROVE  IInv'
<1> DEFINE b == current[o]
<1>1. /\ o \in todo /\ todo' = todo \ {o}
      /\ References({}, Linked(b), {}) /\ Link(b) /\ SendDump(o, b)
      /\ UNCHANGED <<open, chain, current, status, acks, enabled, running, conn, session,
                     toAgent>>
  BY DEF RecreateWindow, outputVars
<1>2. /\ TypeOK /\ Memory /\ Messages /\ queue \in Seq(Buffers)
      /\ b \in Buffers /\ b \in Owned(o) /\ status[o] = "live"
  BY <1>1 DEF IInv, TypeOK, Memory, Alive, Shown, Owned
<1> HIDE DEF b
<1>3. queue' \in Seq(Buffers) /\ toDaemon' \in Seq(Dumps) /\ Messages'
  BY <1>1, <1>2, LinkAndSend
<1>4. \A x \in Buffers : Links(x)' = Links(x) + (IF x \in Linked(b) THEN 1 ELSE 0)
  BY <1>1, <1>2, LinkCounts
<1>5. \A p \in Outputs : Owned(p)' = Owned(p)
  BY <1>1 DEF Owned
<1>6. Owned(o)' = (Owned(o) \cup {}) \ {}
  BY <1>5
<1>7. /\ Linked(b) \in SUBSET Buffers /\ Linked(b) \subseteq Owned(o) \cup {}
      /\ {} \in SUBSET Buffers /\ {} \subseteq Owned(o) /\ \A x \in {} : refcount[x] = 0
  BY <1>2 DEF Linked
<1>8. /\ refcount' \in [Buffers -> Nat] /\ alloc' \in Nat
      /\ Accounted' /\ AllocatorOutlivesBuffers' /\ Private'
  <2>1. Accounted /\ AllocatorOutlivesBuffers /\ Private /\ open' = open
        /\ References({}, Linked(b), {})
    BY <1>1, <1>2 DEF Memory
  <2> QED  BY <1>2, <1>4, <1>5, <1>6, <1>7, <2>1, OwnerStep, SMTT(60)
<1>9. Alive'
  BY <1>1, <1>2 DEF Memory, Alive, Shown
<1>10. TypeOK'
  BY <1>1, <1>2, <1>3, <1>8 DEF TypeOK
<1> QED  BY <1>3, <1>8, <1>9, <1>10 DEF IInv, Memory

LEMMA StopInv ==
  ASSUME IInv, Stop
  PROVE  IInv'
<1>1. TypeOK'
  BY DEF IInv, TypeOK, Stop, bufferVars, outputVars, sessionVars
<1>2. Memory'
  BY MemoryKept DEF IInv, Memory, Alive, Stop, bufferVars, outputVars, sessionVars
<1>3. Messages'
  BY MessagesKept DEF IInv, TypeOK, Stop, outputVars, sessionVars
<1> QED  BY <1>1, <1>2, <1>3 DEF IInv

LEMMA DestroyAllocatorInv ==
  ASSUME IInv, DestroyAllocator
  PROVE  IInv'
<1>1. /\ open /\ open' = FALSE /\ alloc' = alloc - 1
      /\ UNCHANGED <<refcount, chain, current, status, queue, acks, enabled, todo, conn,
                     session, running, toDaemon, toAgent>>
  BY DEF DestroyAllocator, outputVars, sessionVars
<1>2. Cardinality(Used) \in Nat /\ alloc = 1 + Cardinality(Used)
  <2>1. IsFiniteSet(Used)
    BY FS_Subset DEF Used
  <2> QED  BY <1>1, <2>1, FS_CardinalityType DEF IInv, Memory, AllocatorOutlivesBuffers
<1>3. alloc' \in Nat /\ AllocatorOutlivesBuffers'
  <2>1. Used' = Used
    BY <1>1 DEF Used
  <2> QED  BY <1>1, <1>2, <2>1 DEF AllocatorOutlivesBuffers
<1>4. TypeOK'
  BY <1>1, <1>3 DEF IInv, TypeOK
<1>5. Memory'
  BY <1>1, <1>3 DEF IInv, Memory, Accounted, Held, Links, Private, Owned, Alive, Shown
<1>6. Messages'
  BY <1>1, MessagesKept DEF IInv, TypeOK
<1> QED  BY <1>4, <1>5, <1>6 DEF IInv

LEMMA DaemonConnectsInv ==
  ASSUME IInv, DaemonConnects
  PROVE  IInv'
<1>1. /\ conn = "waiting" /\ conn' = "handshaken"
      /\ UNCHANGED <<refcount, alloc, open, chain, current, status, queue, acks, enabled,
                     todo, session, running, toDaemon, toAgent>>
  BY DEF DaemonConnects, bufferVars, outputVars
<1>2. TypeOK'
  BY <1>1 DEF IInv, TypeOK
<1>3. Memory'
  BY <1>1, MemoryKept DEF IInv, Memory, Alive
<1>4. toDaemon' = <<>> /\ toAgent' = <<>>
  BY <1>1 DEF IInv, Messages, Phases
<1>5. Phases' /\ Existed' /\ NothingLate'
  BY <1>1, <1>4 DEF IInv, Messages, Phases, Existed, Dumped, NothingLate
<1>6. UnacknowledgedAreLast'
  <2>1. toAgent' \in Seq(Dumps) /\ toDaemon' \in Seq(Dumps) /\ queue' \in Seq(Buffers)
    BY <1>2 DEF TypeOK
  <2>2. Unacknowledged' = <<>>
    BY <1>4 DEF Unacknowledged
  <2> QED  BY <2>1, <2>2, SuffixNone, UnderWayNext
<1> QED  BY <1>2, <1>3, <1>5, <1>6 DEF IInv, Messages

LEMMA DaemonReadsInv ==
  ASSUME IInv, DaemonReads
  PROVE  IInv'
<1>1. /\ conn \in {"handshaken", "up"} /\ toDaemon # <<>> /\ toDaemon' = Tail(toDaemon)
      /\ toAgent' = IF acks THEN Append(toAgent, Head(toDaemon)) ELSE toAgent
      /\ UNCHANGED <<refcount, alloc, open, chain, current, status, queue, acks, enabled,
                     todo, conn, session, running>>
  BY DEF DaemonReads, Connected, bufferVars, outputVars, sessionVars
<1>2. /\ toDaemon \in Seq(Dumps) /\ toAgent \in Seq(Dumps) /\ queue \in Seq(Buffers)
      /\ TypeOK /\ Messages /\ acks \in BOOLEAN
  BY DEF IInv, TypeOK
<1>3. /\ Head(toDaemon) = toDaemon[1] /\ Head(toDaemon) \in Dumps
      /\ Tail(toDaemon) \in Seq(Dumps) /\ 1 \in DOMAIN toDaemon
      /\ DOMAIN toDaemon = 1 .. Len(toDaemon) /\ Len(toDaemon) \in Nat
      /\ DOMAIN Tail(toDaemon) = 1 .. Len(toDaemon) - 1
      /\ \A k \in 1 .. Len(toDaemon) - 1 : Tail(toDaemon)[k] = toDaemon[k + 1]
  BY <1>1, <1>2, HeadTailProperties, EmptySeq, LenProperties
<1>4. toDaemon' \in Seq(Dumps) /\ toAgent' \in Seq(Dumps)
  BY <1>1, <1>2, <1>3
<1>5. TypeOK'
  BY <1>1, <1>2, <1>4 DEF TypeOK
<1>6. Memory'
  BY <1>1, MemoryKept DEF IInv, Memory, Alive
<1>7. conn = "up"
  BY <1>1, <1>2 DEF Messages, Phases
<1>8. Phases'
  BY <1>1, <1>2, <1>7 DEF Messages, Phases
<1>9. Existed'
  <2>1. Dumped(toDaemon)'
    BY <1>1, <1>2, <1>3 DEF Messages, Existed, Dumped
  <2>2. CASE acks
    <3>1. ASSUME NEW k \in 1 .. Len(toAgent) + 1
          PROVE  status[Append(toAgent, Head(toDaemon))[k].win] # "absent"
      <4>1. CASE k = Len(toAgent) + 1
        BY <1>2, <1>3, <4>1 DEF Messages, Existed, Dumped
      <4>2. CASE k \in 1 .. Len(toAgent)
        BY <1>2, <1>3, <4>2 DEF Messages, Existed, Dumped
      <4>3. k = Len(toAgent) + 1 \/ k \in 1 .. Len(toAgent)
        BY <1>2, LenProperties
      <4> QED  BY <4>1, <4>2, <4>3
    <3>2. DOMAIN toAgent' = 1 .. Len(toAgent) + 1
      BY <1>1, <1>2, <1>3, <2>2
    <3> QED  BY <1>1, <2>1, <2>2, <3>1, <3>2 DEF Existed, Dumped
  <2>3. CASE ~acks
    BY <1>1, <1>2, <2>1, <2>3 DEF Messages, Existed, Dumped
  <2> QED  BY <2>2, <2>3
<1>10. UnacknowledgedAreLast' /\ NothingLate'
  <2>1. CASE acks
    <3>1. Unacknowledged' = Unacknowledged
      BY <1>1, <1>2, <2>1, ConcatSteps DEF Unacknowledged
    <3> QED  BY <1>1, <1>2, <3>1 DEF Messages, UnacknowledgedAreLast, NothingLate, Connected
  <2>2. CASE ~acks
    BY <1>1, <2>2 DEF UnacknowledgedAreLast, NothingLate
  <2> QED  BY <2>1, <2>2
<1> QED  BY <1>5, <1>6, <1>8, <1>9, <1>10, <1>2 DEF IInv, Messages

LEMMA DisconnectInv ==
  ASSUME IInv, Disconnect
  PROVE  IInv'
<1>1. /\ conn \in {"handshaken", "up"} /\ conn' = "broken" /\ toDaemon' = <<>>
      /\ UNCHANGED <<refcount, alloc, open, chain, current, status, queue, acks, enabled,
                     todo, session, running, toAgent>>
  BY DEF Disconnect, Connected, bufferVars, outputVars
<1>2. TypeOK'
  <2>1. <<>> \in Seq(Dumps)
    BY EmptySeq
  <2> QED  BY <1>1, <2>1 DEF IInv, TypeOK
<1>3. Memory'
  BY <1>1, MemoryKept DEF IInv, Memory, Alive
<1>4. Messages'
  BY <1>1 DEF IInv, Messages, Phases, Existed, Dumped, UnacknowledgedAreLast, NothingLate,
              Connected
<1> QED  BY <1>2, <1>3, <1>4 DEF IInv

LEMMA StutterInv ==
  ASSUME IInv, UNCHANGED vars
  PROVE  IInv'
<1>1. UNCHANGED <<refcount, alloc, open, chain, current, status, queue, acks, enabled, todo,
                  conn, session, running, toDaemon, toAgent>>
  BY DEF vars, bufferVars, outputVars, sessionVars
<1>2. TypeOK'
  BY <1>1 DEF IInv, TypeOK
<1>3. Memory'
  BY <1>1, MemoryKept DEF IInv, Memory, Alive
<1>4. Messages'
  BY <1>1, MessagesKept DEF IInv, TypeOK
<1> QED  BY <1>2, <1>3, <1>4 DEF IInv

-----------------------------------------------------------------------------
(* The theorems.                                                           *)

\* The invariant holds initially and every step keeps it: qubes_allocator.c and
\* the dump queue of qubes_output.c, for any windows, finite memory and sessions.
THEOREM Invariance == Spec => []IInv
<1>1. IInv /\ [Next]_vars => IInv'
  <2> SUFFICES ASSUME IInv, [Next]_vars
               PROVE  IInv'
    OBVIOUS
  <2>1. ASSUME NEW o \in Outputs, NewOutput(o) PROVE IInv'
    BY <2>1, NewOutputInv
  <2>2. ASSUME NEW o \in Outputs, NEW b \in Buffers, Commit(o, b) PROVE IInv'
    BY <2>2, CommitInv
  <2>3. ASSUME NEW o \in Outputs, Resize(o) PROVE IInv'
    BY <2>3, ResizeInv
  <2>4. ASSUME NEW o \in Outputs, DestroyOutput(o) PROVE IInv'
    BY <2>4, DestroyOutputInv
  <2>5. ASSUME NEW o \in Outputs, RecreateWindow(o) PROVE IInv'
    BY <2>5, RecreateWindowInv
  <2>6. CASE ReadAck
    BY <2>6, ReadAckInv
  <2>7. CASE Reconnect
    BY <2>7, ReconnectInv
  <2>8. ASSUME NEW version17 \in BOOLEAN, Reconnected(version17) PROVE IInv'
    BY <2>8, ReconnectedInv
  <2>9. CASE Stop
    BY <2>9, StopInv
  <2>10. CASE DestroyAllocator
    BY <2>10, DestroyAllocatorInv
  <2>11. CASE DaemonConnects
    BY <2>11, DaemonConnectsInv
  <2>12. CASE DaemonReads
    BY <2>12, DaemonReadsInv
  <2>13. CASE Disconnect
    BY <2>13, DisconnectInv
  <2>14. CASE UNCHANGED vars
    BY <2>14, StutterInv
  <2> QED
    BY <2>1, <2>2, <2>3, <2>4, <2>5, <2>6, <2>7, <2>8, <2>9, <2>10, <2>11, <2>12, <2>13,
       <2>14 DEF Next, OutputNext
<1> QED  BY InitInv, <1>1, PTL DEF Spec

\* Every variable keeps its type; in particular no reference count is negative
\* (assert(buffer->refcount > 0), qubes_allocator.c:230-250).
THEOREM TypeCorrect == Spec => []TypeOK
BY Invariance, PTL DEF IInv

\* No buffer is freed early or twice: its count is its owner's reference and
\* its links, whatever windows close and daemons come and go.
THEOREM ReferencesCounted == Spec => []Accounted
BY Invariance, PTL DEF IInv, Memory

\* The allocator's memory lasts as long as the last buffer
\* (qubes_allocator.c:79-80).
THEOREM AllocatorLast == Spec => []AllocatorOutlivesBuffers
BY Invariance, PTL DEF IInv, Memory

\* The dumps under way are the last of the queue, which is why the agent may pop
\* its head without looking at what is acknowledged (qubes_input.c:663-678).
THEOREM PoppedInOrder == Spec => []UnacknowledgedAreLast
BY Invariance, PTL DEF IInv, Messages

\* A dump under way is linked, and a link keeps its buffer: the daemon never
\* reads a dump of freed grants (qubes_output.c:148-151).
THEOREM GrantsOutliveDumps == Spec => []DumpedStaysGranted
<1>1. IInv => DumpedStaysGranted
  <2> SUFFICES ASSUME IInv, Connected, acks, NEW k \in DOMAIN toDaemon
               PROVE  refcount[toDaemon[k].buf] > 0
    BY DEF DumpedStaysGranted
  <2>1. /\ toDaemon \in Seq(Dumps) /\ toAgent \in Seq(Dumps) /\ queue \in Seq(Buffers)
        /\ UnacknowledgedAreLast /\ Accounted
    BY DEF IInv, TypeOK, Messages, Memory
  <2>2. /\ Len(queue) \in Nat /\ Len(toAgent) \in Nat /\ Len(toDaemon) \in Nat
        /\ k \in 1 .. Len(toDaemon) /\ DOMAIN queue = 1 .. Len(queue)
    BY <2>1, LenProperties
  <2>3. /\ Unacknowledged \in Seq(Dumps)
        /\ Len(Unacknowledged) = Len(toAgent) + Len(toDaemon)
        /\ Suffix(queue, Unacknowledged)
    BY <2>1, UnderWay
  <2>4. Unacknowledged[Len(toAgent) + k] = toDaemon[k]
    BY <2>1, <2>2, ConcatProperties DEF Unacknowledged
  <2> DEFINE i == Len(queue) - Len(Unacknowledged) + (Len(toAgent) + k)
  <2>5. queue[i] = toDaemon[k].buf /\ i \in DOMAIN queue
    <3>1. Len(toAgent) + k \in 1 .. Len(Unacknowledged)
      BY <2>2, <2>3
    <3>2. queue[i] = Unacknowledged[Len(toAgent) + k].buf
      BY <2>3, <3>1 DEF Suffix
    <3>3. Len(queue) >= Len(Unacknowledged)
      BY <2>3 DEF Suffix
    <3>4. i \in 1 .. Len(queue)
      BY <2>2, <2>3, <3>1, <3>3
    <3> QED  BY <2>2, <2>4, <3>2, <3>4
  <2> DEFINE b == toDaemon[k].buf
  <2>6. b \in Buffers
    BY <2>1, <2>5, <2>2, ElementOfSeq
  <2>7. Links(b) # 0 /\ Links(b) \in Nat
    <3>1. i \in Places(queue, b)
      BY <2>5 DEF Places
    <3>2. IsFiniteSet(Places(queue, b)) /\ Links(b) = Cardinality(Places(queue, b))
      BY <2>1, PlacesFinite, LinksArePlaces
    <3>3. Cardinality(Places(queue, b)) # 0
      BY <3>1, <3>2, FS_EmptySet
    <3> QED  BY <2>1, <3>2, <3>3, LinksType
  <2> HIDE DEF b
  <2>8. refcount[b] = (IF Held(b) THEN 1 ELSE 0) + Links(b)
    BY <2>1, <2>6 DEF Accounted
  <2>9. refcount[b] > 0
    BY <2>7, <2>8
  <2> QED  BY <2>9 DEF b
<1> QED  BY Invariance, <1>1, PTL

\* Without a lost connection or a closed window the links are the dumps under
\* way: every acknowledgement frees what it is for (qubes_input.c:663-678).
THEOREM LinksAreUnderWay == Spec => []NothingLeaks
<1>1. IInv => NothingLeaks
  <2> SUFFICES ASSUME IInv, session = 1, conn = "up", acks,
                      \A o \in Outputs : status[o] # "gone"
               PROVE  queue = [k \in DOMAIN Unacknowledged |-> Unacknowledged[k].buf]
    BY DEF NothingLeaks
  <2> DEFINE u == Unacknowledged
  <2>1. /\ queue \in Seq(Buffers) /\ u \in Seq(Dumps) /\ Suffix(queue, u)
        /\ Len(queue) = Len(u)
    <3>1. toAgent \in Seq(Dumps) /\ toDaemon \in Seq(Dumps) /\ queue \in Seq(Buffers)
      BY DEF IInv, TypeOK
    <3>2. UnacknowledgedAreLast /\ NothingLate /\ Connected
      BY DEF IInv, Messages, Connected
    <3> QED  BY <3>1, <3>2, UnderWay DEF NothingLate
  <2> HIDE DEF u
  <2>2. /\ DOMAIN u = 1 .. Len(u) /\ DOMAIN queue = 1 .. Len(u) /\ Len(u) \in Nat
        /\ queue \in [1 .. Len(u) -> Buffers]
    BY <2>1, LenProperties
  <2>3. \A k \in 1 .. Len(u) : queue[k] = u[k].buf
    <3> TAKE k \in 1 .. Len(u)
    <3>1. queue[Len(queue) - Len(u) + k] = u[k].buf
      BY <2>1 DEF Suffix
    <3>2. Len(queue) - Len(u) + k = k
      BY <2>1, <2>2
    <3> QED  BY <3>1, <3>2
  <2>4. queue = [k \in DOMAIN u |-> u[k].buf]
    BY <2>2, <2>3
  <2> QED  BY <2>4 DEF u
<1> QED  BY Invariance, <1>1, PTL
=============================================================================
