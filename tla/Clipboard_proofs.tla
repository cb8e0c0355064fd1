--------------------------- MODULE Clipboard_proofs ---------------------------
(***************************************************************************)
(* Theorems about Clipboard, for any contents, lengths, clients and pipes, *)
(* finitely many of them, and any capacities.                              *)
(*                                                                         *)
(* The invariant follows one pipe (Sound): it is fresh, or someone writes  *)
(* to it, or reads it, and a writer has exactly the rest of its content to *)
(* go.  The references count the writers.                                  *)
(*                                                                         *)
(* On top of it, Tally says that no byte is lost between a pipe and the    *)
(* reader's array, whatever clients write, and TallyExact that none is     *)
(* added to what is read from a pipe that has not been padded: the defect  *)
(* that the run ClipboardArray shows needs a read that finds nothing just  *)
(* after the array has grown.                                              *)
(***************************************************************************)
EXTENDS Clipboard, FiniteSetTheorems, WellFoundedInduction, TLAPS

Fields ==
  {"bytes", "written", "readable", "writable", "capacity", "from", "fresh", "padded"}

\* What the fields that nobody computes hold.
Shapes ==
  /\ running \in BOOLEAN /\ busy \in Pipes \cup {NoPipe}
  /\ length \in [Data -> 0 .. MaxSize] /\ refs \in [Data -> Int]
  /\ pipe = [p \in Pipes |-> pipe[p]] /\ \A p \in Pipes : DOMAIN pipe[p] = Fields
  /\ writer = [p \in Pipes |-> writer[p]]
  /\ handler = [p \in Pipes |-> handler[p]]
  /\ \A p \in Pipes : DOMAIN handler[p] = {"open", "size", "alloc"}

\* A pipe that has never been used.
Unused(p) == pipe[p].fresh => pipe[p] = FreshPipe /\ writer[p] = NoWriter /\ ~Handled(p)

\* A writer holds what is left of the content its pipe was opened for, and the
\* compositor does not read that pipe.
Underway(p) ==
  Writing(p) =>
    /\ writer[p].data \in Data /\ writer[p].left \in Nat
    /\ pipe[p].from = writer[p].data
    /\ pipe[p].writable = TRUE /\ ~Handled(p)
    /\ pipe[p].bytes \in Nat /\ pipe[p].capacity \in Nat
    /\ pipe[p].bytes <= pipe[p].capacity
    /\ pipe[p].written \in Int
    /\ pipe[p].written + writer[p].left = length[pipe[p].from]

Complete(p) ==
  running /\ pipe[p].from \in Data /\ pipe[p].readable /\ ~pipe[p].writable
    => pipe[p].written = length[pipe[p].from]

\* An open pipe to which `left' bytes of content d are still to be written.
Ready(q, d, left) ==
  /\ DOMAIN q = Fields /\ q.from = d /\ ~q.fresh /\ q.writable = TRUE
  /\ q.bytes \in Nat /\ q.capacity \in Nat /\ q.bytes <= q.capacity
  /\ q.written \in Int /\ q.written + left = length[d] /\ length[d] # 0

\* A content has come before anything is opened for it.
Known(p) == pipe[p].from \in Data => length[pipe[p].from] # 0

Sound(p) == Unused(p) /\ Underway(p) /\ Complete(p) /\ Known(p)

IInv ==
  /\ Shapes /\ RefsExact
  /\ \A p \in Pipes : Sound(p)
  /\ selection \in Data => length[selection] # 0
  /\ busy \in Pipes => Handled(busy)

USE LengthsAssumption, CapacityAssumption, NamesAssumption, PipesAssumption, SizesAssumption

-----------------------------------------------------------------------------
(* One write.                                                              *)

LEMMA MinOfTwo ==
  ASSUME NEW a \in Int, NEW b \in Int
  PROVE  Min({a, b}) \in {a, b} /\ Min({a, b}) <= a /\ Min({a, b}) <= b
<1>1. \E x \in {a, b} : \A y \in {a, b} : x =< y
  OBVIOUS
<1>2. Min({a, b}) \in {a, b} /\ \A y \in {a, b} : Min({a, b}) =< y
  BY <1>1 DEF Min
<1> QED  BY <1>2

LEMMA Writes ==
  ASSUME NEW q, NEW left \in Nat, q.bytes \in Nat, q.capacity \in Nat,
         q.bytes <= q.capacity
  PROVE  /\ Wrote(q, left) \in 0 .. left
         /\ q.bytes + Wrote(q, left) <= q.capacity
         /\ q.readable /\ WriterDone(q, left) => Wrote(q, left) = left
         /\ left <= q.capacity - q.bytes => WriterDone(q, left)
<1>1. CASE q.readable
  <2> DEFINE room == q.capacity - q.bytes
             m == Min({left, room})
  <2>1. room \in Nat /\ room \in Int /\ left \in Int
    OBVIOUS
  <2>3. Wrote(q, left) = m
    BY <1>1 DEF Wrote
  <2> HIDE DEF room
  <2>4. Min({left, room}) \in {left, room} /\ Min({left, room}) <= left
        /\ Min({left, room}) <= room
    BY <2>1, MinOfTwo, Zenon
  <2>2. m \in {left, room} /\ m <= left /\ m <= room
    BY <2>4
  <2> HIDE DEF m
  <2>5. m \in 0 .. left /\ (left <= room => m = left) /\ q.bytes + m <= q.capacity
    BY <2>1, <2>2 DEF room
  <2> QED  BY <1>1, <2>3, <2>5 DEF WriterDone, room
<1>2. CASE ~q.readable
  BY <1>2 DEF Wrote, WriterDone
<1> QED  BY <1>1, <1>2

-----------------------------------------------------------------------------
(* The references.                                                         *)

LEMMA WritersFinite ==
  ASSUME NEW d
  PROVE  IsFiniteSet(WritersOf(d)) /\ Cardinality(WritersOf(d)) \in Nat
<1>1. WritersOf(d) \subseteq Pipes
  BY DEF WritersOf
<1> QED  BY <1>1, FS_Subset, FS_CardinalityType

\* A step that leaves the writers alone.
LEMMA SameWriters ==
  ASSUME writer' = writer, NEW d
  PROVE  WritersOf(d)' = WritersOf(d)
BY DEF WritersOf

\* A writer is counted when it starts or goes on, and no longer when it is done.
LEMMA CountedWrite ==
  ASSUME Shapes, NEW p \in Pipes, NEW q, NEW d \in Data, NEW left, NEW r \in [Data -> Int],
         WriteData(p, q, d, left, r), selection' = selection,
         Writing(p) => writer[p].data = d,
         \A e \in Data : r[e] = References(e) + (IF e = d /\ ~Writing(p) THEN 1 ELSE 0)
  PROVE  RefsExact' /\ refs' \in [Data -> Int]
<1> DEFINE done == WriterDone(q, left)
           n == Wrote(q, left)
<1>1. /\ writer' = [writer EXCEPT ![p] =
                      IF done THEN NoWriter ELSE [data |-> d, left |-> left - n]]
      /\ refs' = IF done THEN [r EXCEPT ![d] = @ - 1] ELSE r
  BY DEF WriteData
<1> HIDE DEF done, n
<1>2. writer'[p].data = IF done THEN NoData ELSE d
  BY <1>1 DEF Shapes, NoWriter
<1>3. \A o \in Pipes \ {p} : writer'[o] = writer[o]
  BY <1>1 DEF Shapes
<1>4. ~Writing(p) => writer[p].data = NoData
  BY DEF Writing
<1>5. refs' \in [Data -> Int]
  BY <1>1
<1>6. ASSUME NEW e \in Data
      PROVE  refs'[e] = References(e)'
  <2>0. /\ References(e) = Cardinality(WritersOf(e)) + (IF selection = e THEN 1 ELSE 0)
        /\ References(e)' = Cardinality(WritersOf(e)') + (IF selection = e THEN 1 ELSE 0)
    BY DEF References
  <2>1. IsFiniteSet(WritersOf(e)) /\ Cardinality(WritersOf(e)) \in Nat
    BY WritersFinite
  <2>2. r[e] = References(e) + (IF e = d /\ ~Writing(p) THEN 1 ELSE 0)
    OBVIOUS
  <2>3. CASE e # d
    <3>1. WritersOf(e)' = WritersOf(e)
      BY <1>2, <1>3, <1>4, <2>3 DEF WritersOf
    <3>2. refs'[e] = r[e]
      BY <1>1, <2>3
    <3> QED  BY <2>0, <2>1, <2>2, <2>3, <3>1, <3>2
  <2>4. CASE e = d /\ done
    <3>1. WritersOf(e)' = WritersOf(e) \ {p}
      BY <1>2, <1>3, <2>4 DEF WritersOf
    <3>2. refs'[e] = r[e] - 1
      BY <1>1, <2>4
    <3>3. p \in WritersOf(e) <=> Writing(p)
      BY <1>4, <2>4 DEF WritersOf
    <3>4. Cardinality(WritersOf(e) \ {p}) =
            Cardinality(WritersOf(e)) - (IF Writing(p) THEN 1 ELSE 0)
      <4> DEFINE W == WritersOf(e)
      <4> HIDE DEF W
      <4>1. IsFiniteSet(W) /\ Cardinality(W) \in Nat /\ (p \in W <=> Writing(p))
        BY <2>1, <3>3 DEF W
      <4>2. Cardinality(W \ {p}) = IF p \in W THEN Cardinality(W) - 1 ELSE Cardinality(W)
        BY <4>1, FS_RemoveElement
      <4> QED  BY <4>1, <4>2 DEF W
    <3> QED  BY <2>0, <2>1, <2>2, <2>4, <3>1, <3>2, <3>4
  <2>5. CASE e = d /\ ~done
    <3>1. WritersOf(e)' = WritersOf(e) \cup {p}
      BY <1>2, <1>3, <2>5 DEF WritersOf
    <3>2. refs'[e] = r[e]
      BY <1>1, <2>5
    <3>3. p \in WritersOf(e) <=> Writing(p)
      BY <1>4, <2>5 DEF WritersOf
    <3>4. Cardinality(WritersOf(e) \cup {p}) =
            Cardinality(WritersOf(e)) + (IF Writing(p) THEN 0 ELSE 1)
      <4> DEFINE W == WritersOf(e)
      <4> HIDE DEF W
      <4>1. IsFiniteSet(W) /\ Cardinality(W) \in Nat /\ (p \in W <=> Writing(p))
        BY <2>1, <3>3 DEF W
      <4>2. Cardinality(W \cup {p}) = IF p \in W THEN Cardinality(W) ELSE Cardinality(W) + 1
        BY <4>1, FS_AddElement
      <4> QED  BY <4>1, <4>2 DEF W
    <3> QED  BY <2>0, <2>1, <2>2, <2>5, <3>1, <3>2, <3>4
  <2> QED  BY <2>3, <2>4, <2>5
<1> QED  BY <1>5, <1>6 DEF RefsExact

-----------------------------------------------------------------------------
(* Steps that change one pipe.                                             *)

\* The other pipes stay as they are.
LEMMA OnePipe ==
  ASSUME \A o \in Pipes : Sound(o), NEW p \in Pipes, length' = length, running' = running,
         \A o \in Pipes \ {p} : /\ pipe'[o] = pipe[o] /\ writer'[o] = writer[o]
                                /\ handler'[o].open = handler[o].open,
         Sound(p)'
  PROVE  \A o \in Pipes : Sound(o)'
<1> SUFFICES ASSUME NEW o \in Pipes PROVE Sound(o)'
  OBVIOUS
<1>1. CASE o # p
  BY <1>1 DEF Sound, Unused, Underway, Complete, Known, Writing, Handled
<1> QED  BY <1>1

\* A pipe after a write.
LEMMA SoundWrite ==
  ASSUME Shapes, NEW p \in Pipes, NEW q, NEW d \in Data, NEW left \in Nat, NEW r,
         Ready(q, d, left), length' = length, running' = running,
         ~Handled(p)' \/ left <= q.capacity - q.bytes,
         WriteData(p, q, d, left, r)
  PROVE  Sound(p)' /\ DOMAIN pipe'[p] = Fields
<1> USE DEF Ready
<1> DEFINE n == Wrote(q, left)
           done == WriterDone(q, left)
<1>1. /\ n \in 0 .. left /\ q.bytes + n <= q.capacity
      /\ q.readable /\ done => n = left
      /\ left <= q.capacity - q.bytes => done
  BY Writes
<1>2. /\ pipe'[p] = [q EXCEPT !.bytes = @ + n, !.written = @ + n, !.writable = ~done]
      /\ writer'[p] = IF done THEN NoWriter ELSE [data |-> d, left |-> left - n]
  BY DEF WriteData, Shapes
<1> HIDE DEF n, done
<1>3. /\ DOMAIN pipe'[p] = Fields
      /\ pipe'[p].bytes = q.bytes + n /\ pipe'[p].written = q.written + n
      /\ pipe'[p].writable = ~done /\ pipe'[p].readable = q.readable
      /\ pipe'[p].capacity = q.capacity /\ pipe'[p].from = d /\ ~pipe'[p].fresh
  BY <1>2 DEF Fields
<1>4. Unused(p)' /\ Known(p)'
  BY <1>3 DEF Unused, Known
<1>5. length[d] \in Int
  BY DEF Shapes
<1>6. CASE done
  <2>1. writer'[p].data = NoData
    BY <1>2, <1>6 DEF NoWriter
  <2>2. Underway(p)'
    BY <2>1 DEF Underway, Writing
  <2>3. q.readable => q.written + n = length[d]
    BY <1>1, <1>6
  <2>4. Complete(p)'
    BY <1>3, <2>3 DEF Complete
  <2> QED  BY <1>3, <1>4, <2>2, <2>4 DEF Sound
<1>7. CASE ~done
  <2>1. writer'[p].data = d /\ writer'[p].left = left - n
    BY <1>2, <1>7
  <2>2. left - n \in Nat /\ q.written + n + (left - n) = length[d] /\ ~Handled(p)'
        /\ q.bytes + n \in Nat /\ q.written + n \in Int
    BY <1>1, <1>5, <1>7
  <2>3. Underway(p)'
    BY <1>1, <1>3, <1>7, <2>1, <2>2 DEF Underway, Writing
  <2>4. Complete(p)'
    BY <1>3, <1>7 DEF Complete
  <2> QED  BY <1>3, <1>4, <2>3, <2>4 DEF Sound
<1> QED  BY <1>6, <1>7

\* A write to one pipe, with or without a reader that has just been made for it.
LEMMA WriteStep ==
  ASSUME IInv, NEW p \in Pipes, NEW q, NEW d \in Data, NEW left \in Nat, NEW r \in [Data -> Int],
         Ready(q, d, left),
         Writing(p) => writer[p].data = d,
         \A e \in Data : r[e] = References(e) + (IF e = d /\ ~Writing(p) THEN 1 ELSE 0),
         WriteData(p, q, d, left, r), busy = NoPipe,
         UNCHANGED <<running, busy, selection, length>>,
         \/ handler' = handler /\ ~Handled(p)
         \/ handler' = [handler EXCEPT ![p] = FirstHandler] /\ left <= q.capacity - q.bytes
  PROVE  IInv'
<1>1. Shapes /\ \A o \in Pipes : Sound(o)
  BY DEF IInv
<1>2. RefsExact' /\ refs' \in [Data -> Int]
  BY <1>1, CountedWrite, SMTT(30)
<1>3. ~Handled(p)' \/ left <= q.capacity - q.bytes
  BY DEF Handled
<1>4. Sound(p)' /\ DOMAIN pipe'[p] = Fields
  BY <1>1, <1>3, SoundWrite, SMTT(30)
<1>5. \A o \in Pipes \ {p} : /\ pipe'[o] = pipe[o] /\ writer'[o] = writer[o]
                             /\ handler'[o] = handler[o]
  BY <1>1 DEF Shapes, WriteData
<1>6. \A o \in Pipes : Sound(o)'
  BY <1>1, <1>4, <1>5, OnePipe
<1>7. Shapes'
  <2>1. /\ pipe' = [o \in Pipes |-> pipe'[o]] /\ writer' = [o \in Pipes |-> writer'[o]]
        /\ handler' = [o \in Pipes |-> handler'[o]]
    BY <1>1 DEF Shapes, WriteData
  <2>2. DOMAIN handler'[p] = {"open", "size", "alloc"}
    BY <1>1 DEF Shapes, FirstHandler
  <2> QED  BY <1>1, <1>2, <1>4, <1>5, <2>1, <2>2 DEF Shapes
<1> QED  BY <1>2, <1>6, <1>7 DEF IInv

\* A step of the other end of a pipe, or of its reader: no reference changes.
LEMMA PipeStep ==
  ASSUME IInv, NEW p \in Pipes, UNCHANGED <<running, selection, length, refs, writer>>,
         NEW q, DOMAIN q = Fields, pipe' = [pipe EXCEPT ![p] = q],
         NEW h, DOMAIN h = {"open", "size", "alloc"}, handler' = [handler EXCEPT ![p] = h],
         busy' \in {busy, NoPipe}, busy' = p => h.open, Sound(p)'
  PROVE  IInv'
<1>1. Shapes /\ RefsExact /\ \A o \in Pipes : Sound(o)
  BY DEF IInv
<1>2. \A o \in Pipes \ {p} : /\ pipe'[o] = pipe[o] /\ writer'[o] = writer[o]
                             /\ handler'[o] = handler[o]
  BY <1>1 DEF Shapes
<1>3. \A o \in Pipes : Sound(o)'
  BY <1>1, <1>2, OnePipe
<1>4. pipe'[p] = q /\ handler'[p] = h
  BY <1>1 DEF Shapes
<1>5. Shapes'
  <2>1. /\ pipe' = [o \in Pipes |-> pipe'[o]] /\ writer' = [o \in Pipes |-> writer'[o]]
        /\ handler' = [o \in Pipes |-> handler'[o]]
    BY <1>1 DEF Shapes
  <2> QED  BY <1>1, <1>2, <1>4, <2>1 DEF Shapes
<1>6. RefsExact'
  BY <1>1, SameWriters DEF RefsExact, References
<1>7. busy' \in Pipes => Handled(busy)'
  BY <1>2, <1>4 DEF IInv, Handled
<1> QED  BY <1>3, <1>5, <1>6, <1>7 DEF IInv

-----------------------------------------------------------------------------
(* The steps.                                                              *)

LEMMA InitInv == Init => IInv
<1> SUFFICES ASSUME Init PROVE IInv
  OBVIOUS
<1>1. Shapes
  BY DEF Init, Shapes, Fields, FreshPipe, ClosedPipe, NoHandler
<1>2. RefsExact
  <2> SUFFICES ASSUME NEW d \in Data PROVE refs[d] = References(d)
    BY DEF RefsExact
  <2>1. WritersOf(d) = {}
    BY DEF Init, WritersOf, NoWriter
  <2>2. Cardinality({}) = 0
    BY FS_EmptySet
  <2> QED  BY <2>1, <2>2 DEF Init, References
<1>3. \A p \in Pipes : Sound(p)
  BY DEF Init, Sound, Unused, Underway, Complete, Known, Writing, Handled, NoWriter,
         FreshPipe, ClosedPipe, NoHandler
<1> QED  BY <1>1, <1>2, <1>3 DEF Init, IInv

LEMMA HandleClipboardDataInv ==
  ASSUME IInv, NEW d \in Data, NEW n \in Lengths, HandleClipboardData(d, n)
  PROVE  IInv'
<1>1. /\ length[d] = 0 /\ length' = [length EXCEPT ![d] = n]
      /\ refs' = [Release(refs) EXCEPT ![d] = 1] /\ selection' = d
      /\ UNCHANGED <<running, busy, pipe, writer, handler>>
  BY DEF HandleClipboardData
<1>2. /\ Shapes /\ RefsExact /\ \A p \in Pipes : Sound(p)
      /\ length \in [Data -> 0 .. MaxSize] /\ refs \in [Data -> Int]
      /\ selection \in Data => length[selection] # 0
  BY DEF IInv, Shapes
<1>3. n \in 1 .. MaxSize
  OBVIOUS
<1>4. Release(refs) \in [Data -> Int]
  BY <1>2 DEF Release
<1>5. Shapes'
  <2>1. length' \in [Data -> 0 .. MaxSize] /\ refs' \in [Data -> Int]
    BY <1>1, <1>2, <1>3, <1>4
  <2> QED  BY <1>1, <1>2, <2>1 DEF Shapes
<1>6. \A p \in Pipes : Sound(p)'
  <2> SUFFICES ASSUME NEW p \in Pipes PROVE Sound(p)'
    OBVIOUS
  <2>1. Sound(p)
    BY <1>2
  <2>2. pipe[p].from \in Data => pipe[p].from # d /\ length'[pipe[p].from] = length[pipe[p].from]
    BY <1>1, <1>2, <2>1 DEF Sound, Known
  <2> QED  BY <1>1, <2>1, <2>2 DEF Sound, Unused, Underway, Complete, Known, Writing, Handled
<1>7. RefsExact'
  <2> SUFFICES ASSUME NEW e \in Data PROVE refs'[e] = References(e)'
    BY DEF RefsExact
  <2>1. WritersOf(e)' = WritersOf(e)
    BY <1>1, SameWriters
  <2>2. Cardinality(WritersOf(e)) \in Nat
    BY WritersFinite
  <2>3. CASE e = d
    <3>1. WritersOf(d) = {}
      BY <1>1, <1>2 DEF WritersOf, Sound, Underway, Known, Writing
    <3>2. Cardinality(WritersOf(d)) = 0
      BY <3>1, FS_EmptySet
    <3> QED  BY <1>1, <1>4, <2>1, <2>3, <3>2 DEF References
  <2>4. CASE e # d
    <3>1. refs'[e] = refs[e] - (IF selection = e THEN 1 ELSE 0)
      BY <1>1, <1>2, <1>4, <2>4 DEF Release
    <3>2. refs[e] = Cardinality(WritersOf(e)) + (IF selection = e THEN 1 ELSE 0)
      BY <1>2 DEF RefsExact, References
    <3> QED  BY <1>1, <2>1, <2>2, <2>4, <3>1, <3>2 DEF References
  <2> QED  BY <2>3, <2>4
<1>8. length'[d] # 0
  BY <1>1, <1>2, <1>3
<1> QED  BY <1>1, <1>5, <1>6, <1>7, <1>8 DEF IInv, Handled

\* The selection becomes none of the contents.
LEMMA Deselect ==
  ASSUME IInv, refs' = Release(refs), selection' \notin Data,
         UNCHANGED <<running, busy, length, pipe, writer, handler>>
  PROVE  IInv'
<1>1. /\ Shapes /\ RefsExact /\ refs \in [Data -> Int]
      /\ \A p \in Pipes : Sound(p)
  BY DEF IInv, Shapes
<1>2. refs' \in [Data -> Int]
  BY <1>1 DEF Release
<1>3. Shapes'
  BY <1>1, <1>2 DEF Shapes
<1>4. \A p \in Pipes : Sound(p)'
  BY <1>1 DEF Sound, Unused, Underway, Complete, Known, Writing, Handled
<1>5. RefsExact'
  <2> SUFFICES ASSUME NEW e \in Data PROVE refs'[e] = References(e)'
    BY DEF RefsExact
  <2>1. WritersOf(e)' = WritersOf(e) /\ Cardinality(WritersOf(e)) \in Nat
    BY SameWriters, WritersFinite
  <2>2. refs'[e] = refs[e] - (IF selection = e THEN 1 ELSE 0)
    BY <1>1 DEF Release
  <2>3. refs[e] = Cardinality(WritersOf(e)) + (IF selection = e THEN 1 ELSE 0)
    BY <1>1 DEF RefsExact, References
  <2> QED  BY <2>1, <2>2, <2>3 DEF References
<1> QED  BY <1>3, <1>4, <1>5 DEF IInv, Handled

\* What Retain adds.
LEMMA Retained ==
  ASSUME IInv, NEW d \in Data
  PROVE  /\ Retain(d) \in [Data -> Int]
         /\ \A e \in Data : Retain(d)[e] = References(e) + (IF e = d THEN 1 ELSE 0)
<1>1. refs \in [Data -> Int] /\ \A e \in Data : refs[e] = References(e)
  BY DEF IInv, Shapes, RefsExact
<1> HIDE DEF IInv
<1>2. Retain(d) \in [Data -> Int] /\ \A e \in Data : Retain(d)[e] = refs[e] + (IF e = d THEN 1 ELSE 0)
  BY <1>1 DEF Retain
<1> QED  BY <1>1, <1>2

LEMMA PasteInv ==
  ASSUME IInv, NEW p \in Pipes, Paste(p)
  PROVE  IInv'
<1> DEFINE d == selection
           q == OpenPipe(ClientCapacity, selection)
<1>1. /\ busy = NoPipe /\ d \in Data /\ pipe[p].fresh
      /\ WriteData(p, q, d, length[d], Retain(d))
      /\ UNCHANGED <<running, busy, selection, length, handler>>
  BY DEF Paste, Idle
<1>2. length[d] # 0 /\ length[d] \in Nat
  BY <1>1 DEF IInv, Shapes
<1>3. ~Writing(p) /\ ~Handled(p)
  BY <1>1 DEF IInv, Sound, Unused, Writing, NoWriter
<1>4. /\ DOMAIN q = Fields /\ q.bytes = 0 /\ q.capacity = ClientCapacity /\ q.from = d
      /\ ~q.fresh /\ q.written = 0 /\ q.writable = TRUE
  BY DEF OpenPipe, Fields
<1> HIDE DEF q, d
<1>5. /\ Retain(d) \in [Data -> Int]
      /\ \A e \in Data : Retain(d)[e] =
                           References(e) + (IF e = d /\ ~Writing(p) THEN 1 ELSE 0)
  BY <1>1, <1>3, Retained
<1>6. Ready(q, d, length[d])
  BY <1>2, <1>4 DEF Ready
<1> QED  BY <1>1, <1>2, <1>3, <1>4, <1>5, <1>6, WriteStep, SMTT(30)

LEMMA OnWritableInv ==
  ASSUME IInv, NEW p \in Pipes, OnWritable(p)
  PROVE  IInv'
<1> DEFINE d == writer[p].data
           q == pipe[p]
           left == writer[p].left
<1>1. /\ busy = NoPipe /\ Writing(p) /\ WriteData(p, q, d, left, refs)
      /\ UNCHANGED <<running, busy, selection, length, handler>>
  BY DEF OnWritable, Idle
<1>2. Sound(p) /\ DOMAIN q = Fields /\ refs \in [Data -> Int]
  BY DEF IInv, Shapes
<1>3. ~q.fresh
  BY <1>1, <1>2 DEF Sound, Unused, Writing, NoWriter
<1>4. d \in Data /\ left \in Nat /\ ~Handled(p) /\ Ready(q, d, left)
  BY <1>1, <1>2, <1>3 DEF Sound, Underway, Known, Ready
<1>5. Writing(p) => writer[p].data = d
  OBVIOUS
<1>6. \A e \in Data : refs[e] = References(e) + (IF e = d /\ ~Writing(p) THEN 1 ELSE 0)
  <2> TAKE e \in Data
  <2>1. refs[e] = References(e) /\ refs[e] \in Int
    BY <1>2 DEF IInv, RefsExact
  <2> QED  BY <1>1, <2>1
<1> HIDE DEF d, q, left
<1> QED  BY <1>1, <1>2, <1>3, <1>4, <1>5, <1>6, WriteStep, SMTT(30)

LEMMA HandleClipboardRequestInv ==
  ASSUME IInv, NEW p \in Pipes, HandleClipboardRequest(p)
  PROVE  IInv'
<1>1. /\ busy = NoPipe /\ pipe[p].fresh
      /\ handler' = [handler EXCEPT ![p] = FirstHandler]
      /\ UNCHANGED <<running, busy, selection, length>>
  BY DEF HandleClipboardRequest, Idle
<1>2. ~Writing(p) /\ ~Handled(p)
  BY <1>1 DEF IInv, Sound, Unused, Writing, NoWriter
<1>3. CASE /\ selection = Client /\ UNCHANGED <<writer, refs>>
           /\ pipe' = [pipe EXCEPT ![p] = OpenPipe(OwnCapacity, selection)]
  <2> DEFINE q == OpenPipe(OwnCapacity, selection)
             h == FirstHandler
  <2>1. DOMAIN q = Fields /\ q.from \notin Data /\ ~q.fresh
    BY <1>3 DEF OpenPipe, Fields
  <2>2. DOMAIN h = {"open", "size", "alloc"} /\ h.open
    BY DEF FirstHandler
  <2>3. pipe'[p] = q
    BY <1>3 DEF IInv, Shapes
  <2>4. Sound(p)'
    BY <1>2, <1>3, <2>1, <2>3 DEF Sound, Unused, Underway, Complete, Known, Writing
  <2> HIDE DEF q, h
  <2>5. pipe' = [pipe EXCEPT ![p] = q] /\ handler' = [handler EXCEPT ![p] = h]
    BY <1>1, <1>3 DEF q, h
  <2> QED  BY <1>1, <1>3, <2>1, <2>2, <2>4, <2>5, PipeStep
<1>4. CASE /\ selection \in Data
           /\ WriteData(p, OpenPipe(OwnCapacity, selection), selection, length[selection],
                        Retain(selection))
  <2> DEFINE d == selection
             q == OpenPipe(OwnCapacity, selection)
  <2>1. length[d] # 0 /\ length[d] \in Nat /\ length[d] <= OwnCapacity
    BY <1>4 DEF IInv, Shapes
  <2>2. /\ DOMAIN q = Fields /\ q.bytes = 0 /\ q.capacity = OwnCapacity /\ q.from = d
        /\ ~q.fresh /\ q.written = 0 /\ q.writable = TRUE
    BY DEF OpenPipe, Fields
  <2>3. d \in Data /\ WriteData(p, q, d, length[d], Retain(d))
    BY <1>4
  <2> HIDE DEF q, d
  <2>4. /\ Retain(d) \in [Data -> Int]
        /\ \A e \in Data : Retain(d)[e] =
                             References(e) + (IF e = d /\ ~Writing(p) THEN 1 ELSE 0)
    BY <1>2, <2>3, Retained
  <2>5. Ready(q, d, length[d]) /\ length[d] <= q.capacity - q.bytes
    BY <2>1, <2>2 DEF Ready
  <2>6. \/ handler' = handler /\ ~Handled(p)
        \/ handler' = [handler EXCEPT ![p] = FirstHandler]
           /\ length[d] <= q.capacity - q.bytes
    BY <1>1, <2>5
  <2>7. Writing(p) => writer[p].data = d
    BY <1>2
  <2>8. busy = NoPipe /\ UNCHANGED <<running, busy, selection, length>>
    BY <1>1
  <2> QED  BY <2>1, <2>3, <2>4, <2>5, <2>6, <2>7, <2>8, WriteStep, SMTT(30)
<1> QED  BY <1>3, <1>4 DEF HandleClipboardRequest

LEMMA OnReadableInv ==
  ASSUME IInv, NEW p \in Pipes, OnReadable(p)
  PROVE  IInv'
<1>1. Handled(p) /\ busy' = p
      /\ UNCHANGED <<running, selection, length, refs, pipe, writer, handler>>
  BY DEF OnReadable
<1>2. Shapes'
  BY <1>1 DEF IInv, Shapes
<1>3. RefsExact'
  BY <1>1, SameWriters DEF IInv, RefsExact, References
<1>4. \A o \in Pipes : Sound(o)'
  BY <1>1 DEF IInv, Sound, Unused, Underway, Complete, Known, Writing, Handled
<1> QED  BY <1>1, <1>2, <1>3, <1>4 DEF IInv, Handled

\* What a read does to the pipe and its reader, with any number of bytes: it ends
\* the reading, or changes neither the ends nor what was written.
LEMMA ReadStep ==
  ASSUME IInv, NEW p \in Pipes, busy = p, UNCHANGED <<running, selection, length, refs, writer>>,
         NEW q, DOMAIN q = Fields, pipe' = [pipe EXCEPT ![p] = q],
         NEW h, DOMAIN h = {"open", "size", "alloc"}, handler' = [handler EXCEPT ![p] = h],
         q.written = pipe[p].written, q.writable = pipe[p].writable, q.from = pipe[p].from,
         q.fresh = pipe[p].fresh,
         \/ ~q.readable /\ busy' = NoPipe
         \/ q.readable = pipe[p].readable /\ h.open /\ busy' \in {p, NoPipe}
  PROVE  IInv'
<1>1. Handled(p) /\ Sound(p)
  BY DEF IInv
<1>2. ~Writing(p) /\ ~pipe[p].fresh
  BY <1>1 DEF Sound, Underway, Unused
<1>3. pipe'[p] = q
  BY DEF IInv, Shapes
<1>4. ~Writing(p)'
  BY <1>2 DEF Writing
<1>5. Sound(p)'
  BY <1>1, <1>2, <1>3, <1>4 DEF Sound, Unused, Underway, Complete, Known
<1>6. busy' \in {busy, NoPipe} /\ (busy' = p => h.open)
  OBVIOUS
<1> QED  BY <1>5, <1>6, PipeStep

LEMMA ReadInv ==
  ASSUME IInv, NEW p \in Pipes, Read(p)
  PROVE  IInv'
<1>1. /\ busy = p /\ Handled(p) /\ DOMAIN pipe[p] = Fields
      /\ DOMAIN handler[p] = {"open", "size", "alloc"}
      /\ pipe = [o \in Pipes |-> pipe[o]] /\ handler = [o \in Pipes |-> handler[o]]
      /\ UNCHANGED <<running, selection, length, refs, writer>>
  BY DEF IInv, Shapes, Read
<1> DEFINE g == Grown(handler[p])
<1>2. DOMAIN g = {"open", "size", "alloc"} /\ g.open
  BY <1>1 DEF Grown, Handled
<1> HIDE DEF g
<1>3. CASE SendData(p)
  <2> DEFINE q == [pipe[p] EXCEPT !.readable = FALSE]
             h == NoHandler
  <2>1. pipe' = [pipe EXCEPT ![p] = q] /\ handler' = [handler EXCEPT ![p] = h] /\ busy' = NoPipe
    BY <1>3 DEF SendData, Closed
  <2>2. /\ DOMAIN q = Fields /\ ~q.readable /\ q.written = pipe[p].written
        /\ q.writable = pipe[p].writable /\ q.from = pipe[p].from /\ q.fresh = pipe[p].fresh
        /\ DOMAIN h = {"open", "size", "alloc"}
    BY <1>1 DEF Fields, NoHandler
  <2> HIDE DEF q, h
  <2> QED  BY <1>1, <2>1, <2>2, ReadStep
<1>4. CASE WouldBlock(p)
  <2> DEFINE e == pipe[p].padded \/ g # handler[p]
             q == [pipe[p] EXCEPT !.padded = e]
  <2>1. pipe' = [pipe EXCEPT ![p].padded = e]
    BY <1>4 DEF WouldBlock, g
  <2>2. handler' = [handler EXCEPT ![p] = g] /\ busy' = NoPipe
    BY <1>4 DEF WouldBlock, g
  <2> HIDE DEF e
  <2>3. pipe' = [pipe EXCEPT ![p] = q]
    BY <1>1, <2>1
  <2>4. /\ DOMAIN q = Fields /\ q.readable = pipe[p].readable
        /\ q.written = pipe[p].written /\ q.writable = pipe[p].writable
        /\ q.from = pipe[p].from /\ q.fresh = pipe[p].fresh
    BY <1>1 DEF Fields
  <2> HIDE DEF q
  <2> QED  BY <1>1, <1>2, <2>2, <2>3, <2>4, ReadStep
<1>5. CASE ReadData(p)
  <2> DEFINE n == Min({pipe[p].bytes,
                       Min({g.alloc, MaxMessage + 1}) - handler[p].size})
  <2>1. \/ /\ pipe' = [pipe EXCEPT ![p].bytes = @ - n, ![p].readable = FALSE]
           /\ Closed(p)
        \/ /\ pipe' = [pipe EXCEPT ![p].bytes = @ - n]
           /\ handler' = [handler EXCEPT ![p] = [g EXCEPT !.size = handler[p].size + n]]
           /\ UNCHANGED busy
    BY <1>5 DEF ReadData, g
  <2> HIDE DEF n
  <2>2. CASE /\ pipe' = [pipe EXCEPT ![p].bytes = @ - n, ![p].readable = FALSE]
             /\ Closed(p)
    <3> DEFINE q == [pipe[p] EXCEPT !.bytes = @ - n, !.readable = FALSE]
               h == NoHandler
    <3>1. /\ pipe' = [pipe EXCEPT ![p] = q] /\ handler' = [handler EXCEPT ![p] = h]
          /\ busy' = NoPipe
      BY <1>1, <2>2 DEF Closed
    <3>2. /\ DOMAIN q = Fields /\ ~q.readable /\ q.written = pipe[p].written
          /\ q.writable = pipe[p].writable /\ q.from = pipe[p].from
          /\ q.fresh = pipe[p].fresh /\ DOMAIN h = {"open", "size", "alloc"}
      BY <1>1 DEF Fields, NoHandler
    <3> HIDE DEF q, h
    <3> QED  BY <1>1, <3>1, <3>2, ReadStep
  <2>3. CASE /\ pipe' = [pipe EXCEPT ![p].bytes = @ - n]
             /\ handler' = [handler EXCEPT ![p] = [g EXCEPT !.size = handler[p].size + n]]
             /\ UNCHANGED busy
    <3> DEFINE q == [pipe[p] EXCEPT !.bytes = @ - n]
               h == [g EXCEPT !.size = handler[p].size + n]
    <3>1. /\ pipe' = [pipe EXCEPT ![p] = q] /\ handler' = [handler EXCEPT ![p] = h]
          /\ busy' = p
      BY <1>1, <2>3
    <3>2. /\ DOMAIN q = Fields /\ q.readable = pipe[p].readable
          /\ q.written = pipe[p].written /\ q.writable = pipe[p].writable
          /\ q.from = pipe[p].from /\ q.fresh = pipe[p].fresh
          /\ DOMAIN h = {"open", "size", "alloc"} /\ h.open
      BY <1>1, <1>2 DEF Fields
    <3> HIDE DEF q, h
    <3> QED  BY <1>1, <3>1, <3>2, ReadStep
  <2> QED  BY <2>1, <2>2, <2>3
<1> QED  BY <1>3, <1>4, <1>5 DEF Read

\* What a client does at its end of a pipe.
LEMMA ClientInv ==
  ASSUME IInv, NEW p \in Pipes,
         ClientWrites(p) \/ ClientCloses(p) \/ ClientReads(p) \/ ClientAbandons(p)
  PROVE  IInv'
<1>1. /\ Sound(p) /\ DOMAIN pipe[p] = Fields
      /\ DOMAIN handler[p] = {"open", "size", "alloc"}
      /\ pipe = [o \in Pipes |-> pipe[o]] /\ handler = [o \in Pipes |-> handler[o]]
      /\ busy \in Pipes => Handled(busy)
  BY DEF IInv, Shapes
<1>2. UNCHANGED <<running, busy, selection, length, refs, writer, handler>>
  BY DEF ClientWrites, ClientCloses, ClientReads, ClientAbandons
<1>3. pipe[p].fresh => ~pipe[p].writable /\ ~pipe[p].readable
  BY <1>1 DEF Sound, Unused, FreshPipe, ClosedPipe
<1>4. ASSUME NEW q, pipe' = [pipe EXCEPT ![p] = q], DOMAIN q = Fields, Sound(p)'
      PROVE  IInv'
  <2> DEFINE h == handler[p]
  <2>1. handler' = [handler EXCEPT ![p] = h] /\ DOMAIN h = {"open", "size", "alloc"}
    BY <1>1, <1>2
  <2>2. busy' \in {busy, NoPipe} /\ (busy' = p => h.open)
    BY <1>1, <1>2 DEF Handled
  <2> HIDE DEF h
  <2> QED  BY <1>2, <1>4, <2>1, <2>2, PipeStep
<1>5. ASSUME ClientOwns(p), NEW q, pipe'[p] = q, ~q.fresh, q.from = Client
      PROVE  Sound(p)'
  <2>1. ~Writing(p)'
    BY <1>1, <1>2, <1>5 DEF Sound, Underway, Writing, ClientOwns
  <2> QED  BY <1>5, <2>1 DEF Sound, Unused, Underway, Complete, Known
<1>6. CASE ClientWrites(p)
  <2>1. PICK n \in Chunks :
          pipe' = [pipe EXCEPT ![p].bytes = @ + n, ![p].written = @ + n]
    BY <1>6 DEF ClientWrites
  <2> DEFINE q == [pipe[p] EXCEPT !.bytes = @ + n, !.written = @ + n]
  <2>2. pipe' = [pipe EXCEPT ![p] = q] /\ pipe'[p] = q
    BY <1>1, <2>1
  <2>3. ClientOwns(p) /\ DOMAIN q = Fields /\ ~q.fresh /\ q.from = Client
    BY <1>1, <1>3, <1>6 DEF ClientWrites, ClientOwns, Fields
  <2> HIDE DEF q
  <2> QED  BY <1>4, <1>5, <2>2, <2>3
<1>7. CASE ClientCloses(p)
  <2> DEFINE q == [pipe[p] EXCEPT !.writable = FALSE]
  <2>1. pipe' = [pipe EXCEPT ![p] = q] /\ pipe'[p] = q
    BY <1>1, <1>7 DEF ClientCloses
  <2>2. ClientOwns(p) /\ DOMAIN q = Fields /\ ~q.fresh /\ q.from = Client
    BY <1>1, <1>3, <1>7 DEF ClientCloses, ClientOwns, Fields
  <2> HIDE DEF q
  <2> QED  BY <1>4, <1>5, <2>1, <2>2
<1>8. CASE ClientReads(p)
  <2> DEFINE q == [pipe[p] EXCEPT !.bytes = 0]
  <2>1. pipe' = [pipe EXCEPT ![p] = q] /\ pipe'[p] = q
    BY <1>1, <1>8 DEF ClientReads
  <2>2. /\ DOMAIN q = Fields /\ ~q.fresh /\ q.bytes = 0
        /\ q.written = pipe[p].written /\ q.readable = pipe[p].readable
        /\ q.writable = pipe[p].writable /\ q.capacity = pipe[p].capacity
        /\ q.from = pipe[p].from
    BY <1>1, <1>3, <1>8 DEF ClientReads, Fields
  <2> HIDE DEF q
  <2>3. Sound(p)'
    BY <1>1, <1>2, <2>1, <2>2 DEF Sound, Unused, Underway, Complete, Known, Writing, Handled
  <2> QED  BY <1>4, <2>1, <2>2, <2>3
<1>9. CASE ClientAbandons(p)
  <2> DEFINE q == [pipe[p] EXCEPT !.readable = FALSE]
  <2>1. pipe' = [pipe EXCEPT ![p] = q] /\ pipe'[p] = q
    BY <1>1, <1>9 DEF ClientAbandons
  <2>2. /\ DOMAIN q = Fields /\ ~q.fresh /\ q.bytes = pipe[p].bytes
        /\ q.written = pipe[p].written /\ ~q.readable
        /\ q.writable = pipe[p].writable /\ q.capacity = pipe[p].capacity
        /\ q.from = pipe[p].from
    BY <1>1, <1>3, <1>9 DEF ClientAbandons, Fields
  <2> HIDE DEF q
  <2>3. Sound(p)'
    BY <1>1, <1>2, <2>1, <2>2 DEF Sound, Unused, Underway, Complete, Known, Writing, Handled
  <2> QED  BY <1>4, <2>1, <2>2, <2>3
<1> QED  BY <1>6, <1>7, <1>8, <1>9

LEMMA DisplayDestroyInv ==
  ASSUME IInv, DisplayDestroy
  PROVE  IInv'
<1>1. /\ running' = FALSE /\ busy' = busy /\ busy = NoPipe /\ selection' = NoData
      /\ refs' = [d \in Data |-> Release(refs)[d] - Cardinality(WritersOf(d))]
      /\ pipe' = [p \in Pipes |->
                    IF Writing(p) THEN [pipe[p] EXCEPT !.writable = FALSE]
                    ELSE IF Handled(p) THEN [pipe[p] EXCEPT !.readable = FALSE]
                    ELSE pipe[p]]
      /\ writer' = [p \in Pipes |-> NoWriter]
      /\ handler' = [p \in Pipes |-> NoHandler]
      /\ length' = length
  BY DEF DisplayDestroy, Idle
<1>2. /\ Shapes /\ RefsExact /\ refs \in [Data -> Int]
      /\ \A p \in Pipes : Sound(p) /\ DOMAIN pipe[p] = Fields
  BY DEF IInv, Shapes
<1>3. /\ Release(refs) \in [Data -> Int]
      /\ \A d \in Data : Release(refs)[d] = refs[d] - (IF selection = d THEN 1 ELSE 0)
  BY <1>2 DEF Release
<1>4. \A d \in Data : Cardinality(WritersOf(d)) \in Nat
  BY WritersFinite
<1>5. RefsExact' /\ refs' \in [Data -> Int]
  <2>1. refs' \in [Data -> Int]
    BY <1>1, <1>3, <1>4
  <2>2. ASSUME NEW d \in Data
        PROVE  refs'[d] = References(d)'
    <3>1. WritersOf(d)' = {}
      BY <1>1 DEF WritersOf, NoWriter
    <3>2. Cardinality({}) = 0
      BY FS_EmptySet
    <3>3. refs[d] = Cardinality(WritersOf(d)) + (IF selection = d THEN 1 ELSE 0)
      BY <1>2 DEF RefsExact, References
    <3>4. refs'[d] = 0
      BY <1>1, <1>3, <1>4, <3>3
    <3>5. selection' # d
      BY <1>1
    <3> QED  BY <3>1, <3>2, <3>4, <3>5 DEF References
  <2> QED  BY <2>1, <2>2 DEF RefsExact
<1>6. ASSUME NEW p \in Pipes
      PROVE  Sound(p)' /\ DOMAIN pipe'[p] = Fields
  <2>1. Sound(p) /\ DOMAIN pipe[p] = Fields
    BY <1>2
  <2>2. /\ DOMAIN pipe'[p] = Fields /\ pipe'[p].fresh = pipe[p].fresh
        /\ pipe'[p].from = pipe[p].from
        /\ ~Writing(p) /\ ~Handled(p) => pipe'[p] = pipe[p]
    BY <1>1, <2>1 DEF Fields
  <2>3. writer'[p] = NoWriter /\ ~Handled(p)'
    BY <1>1 DEF Handled, NoHandler
  <2>4. Unused(p)'
    BY <2>1, <2>2, <2>3 DEF Sound, Unused, Writing, NoWriter
  <2>5. Underway(p)' /\ Complete(p)' /\ Known(p)'
    BY <1>1, <2>1, <2>2, <2>3 DEF Sound, Underway, Complete, Known, Writing, NoWriter
  <2> QED  BY <2>2, <2>4, <2>5 DEF Sound
<1>7. Shapes'
  <2>1. /\ pipe' = [p \in Pipes |-> pipe'[p]] /\ writer' = [p \in Pipes |-> writer'[p]]
        /\ handler' = [p \in Pipes |-> handler'[p]]
    BY <1>1
  <2>2. \A p \in Pipes : DOMAIN handler'[p] = {"open", "size", "alloc"}
    BY <1>1 DEF NoHandler
  <2> QED  BY <1>1, <1>2, <1>5, <1>6, <2>1, <2>2 DEF Shapes
<1> QED  BY <1>1, <1>5, <1>6, <1>7 DEF IInv

LEMMA StutterInv ==
  ASSUME IInv, UNCHANGED vars
  PROVE  IInv'
<1>1. UNCHANGED <<running, busy, selection, length, refs, pipe, writer, handler, delivered>>
  BY DEF vars
<1>2. Shapes'
  BY <1>1 DEF IInv, Shapes
<1>3. RefsExact'
  BY <1>1, SameWriters DEF IInv, RefsExact, References
<1>4. \A o \in Pipes : Sound(o)'
  BY <1>1 DEF IInv, Sound, Unused, Underway, Complete, Known, Writing, Handled
<1> QED  BY <1>1, <1>2, <1>3, <1>4 DEF IInv, Handled

-----------------------------------------------------------------------------
(* What the reader has collected.                                          *)
(* A pipe holds no more than was written to it; what has left it is in the *)
(* reader's array.  The array may have grown by more (WouldBlock), never   *)
(* when the compositor writes to the pipe itself, at once.                 *)

Counted(p) ==
  /\ pipe[p].capacity \in Nat /\ pipe[p].bytes \in 0 .. pipe[p].capacity
  /\ pipe[p].written \in Nat /\ pipe[p].bytes <= pipe[p].written
  /\ ~Writing(p) => writer[p] = NoWriter

\* An array: within its allocation, and not beyond the loop's assertion.
Sane(h) ==
  /\ DOMAIN h = {"open", "size", "alloc"}
  /\ h.size \in Nat /\ h.alloc \in Doublings /\ h.size <= h.alloc

\* No byte that was read is lost.
Collected(p) ==
  Handled(p) =>
    /\ delivered[p] = Nothing /\ pipe[p].from \in Data \cup {Client}
    /\ Sane(handler[p])
    /\ Header + pipe[p].written <= handler[p].size + pipe[p].bytes
    /\ pipe[p].from \in Data =>
         /\ ~pipe[p].writable
         /\ Header + pipe[p].written = handler[p].size + pipe[p].bytes

\* What has been sent from a pipe is all that was written to it, and the compositor's
\* own contents go back as they came.
Answered(p) ==
  /\ delivered[p] \in Nat \cup {Nothing}
  /\ delivered[p] # Nothing =>
       /\ ~pipe[p].writable /\ ~pipe[p].fresh /\ ~Handled(p)
       /\ pipe[p].from \in Data \cup {Client}
       /\ pipe[p].written <= delivered[p]
       /\ pipe[p].from \in Data => delivered[p] = pipe[p].written

Kept(p) == Counted(p) /\ Collected(p) /\ Answered(p)

Selectable == selection \in Data \cup {NoData, Client}

\* Every byte is accounted for.
Tally == Selectable /\ DOMAIN delivered = Pipes /\ \A p \in Pipes : Kept(p)

\* No read has found nothing just after the array had grown: then only what was
\* written is in it, or was sent, and it stays within what the loop asserts.
Exact(p) ==
  ~pipe[p].padded =>
    /\ Handled(p) => handler[p].size <= MaxMessage
    /\ pipe[p].from = Client =>
         /\ Handled(p) => Header + pipe[p].written = handler[p].size + pipe[p].bytes
         /\ delivered[p] # Nothing => delivered[p] = pipe[p].written

TallyExact == \A p \in Pipes : Exact(p)

-----------------------------------------------------------------------------
(* The reader's array.                                                     *)

LEMMA Least ==
  ASSUME NEW S \in SUBSET Nat, S # {}
  PROVE  Min(S) \in S /\ \A y \in S : Min(S) <= y
<1> DEFINE R == OpToRel(<, Nat)
<1>1. IsWellFoundedOn(R, Nat)
  BY NatLessThanWellFounded
<1>2. \A x, y \in Nat : <<x, y>> \in R <=> x < y
  BY DEF OpToRel
<1> HIDE DEF R
<1>3. PICK x \in S : \A y \in S : ~ (<<y, x>> \in R)
  BY <1>1, WFMin
<1>4. \A y \in S : x <= y
  <2> TAKE y \in S
  <2>1. x \in Nat /\ y \in Nat
    OBVIOUS
  <2>2. ~ (y < x)
    BY <1>2, <1>3, <2>1
  <2> QED  BY <2>1, <2>2
<1> QED  BY <1>4 DEF Min

\* wl_array_add finds an allocation that fits.
LEMMA AllocatedFits ==
  ASSUME NEW alloc \in Doublings \cup {0}, NEW size \in Nat, size <= 2 * MaxMessage + 1
  PROVE  Allocated(alloc, size) \in Doublings /\ size <= Allocated(alloc, size)
<1> DEFINE S == {a \in Doublings : a >= alloc /\ a >= size}
<1>1. Doublings \subseteq Nat /\ alloc \in Nat /\ MaxMessage \in Nat
  BY DoublingsAssumption DEF MaxMessage
<1>2. PICK big \in Doublings : 2 * MaxMessage + 1 <= big
  BY DoublingsAssumption
<1>3. big \in S \/ alloc \in S
  BY <1>1, <1>2
<1>4. S \in SUBSET Nat /\ S # {}
  BY <1>1, <1>3
<1>5. Min(S) \in S
  BY <1>4, Least
<1> QED  BY <1>5 DEF Allocated

\* Before a read there is room, and what is in the array stays.
LEMMA GrownRoom ==
  ASSUME NEW h, Sane(h), h.size <= MaxMessage
  PROVE  /\ Sane(Grown(h)) /\ Grown(h).open = h.open
         /\ h.size <= Grown(h).size /\ h.size < Grown(h).alloc
         /\ h.alloc # h.size => Grown(h) = h
<1>1. Doublings \subseteq Nat /\ MaxMessage \in Nat /\ Growth \in Nat /\ Growth # 0
  BY DoublingsAssumption DEF MaxMessage
<1>2. CASE h.alloc > h.size
  BY <1>2 DEF Grown, Sane
<1>3. CASE ~(h.alloc > h.size)
  <2> DEFINE m == Min({h.size + Growth, MaxMessage + 1})
             size == h.size + m
             alloc == Allocated(h.alloc, size)
  <2>1. h.size + Growth \in Int /\ MaxMessage + 1 \in Int /\ h.size \in Nat
    BY <1>1 DEF Sane
  <2>2. m \in {h.size + Growth, MaxMessage + 1} /\ m <= MaxMessage + 1
    BY <2>1, MinOfTwo
  <2> HIDE DEF m
  <2>3. m \in Nat /\ m >= 1
    BY <1>1, <2>1, <2>2
  <2>4. size \in Nat /\ size <= 2 * MaxMessage + 1 /\ h.size < size
    BY <1>1, <2>1, <2>2, <2>3
  <2>5. Grown(h) = [h EXCEPT !.size = size, !.alloc = alloc]
    BY <1>3 DEF Grown, m
  <2>6. h.alloc \in Doublings
    BY DEF Sane
  <2> HIDE DEF size
  <2>7. alloc \in Doublings /\ size <= alloc
    BY <2>4, <2>6, AllocatedFits
  <2> HIDE DEF alloc
  <2>8. Grown(h).size = size /\ Grown(h).alloc = alloc /\ Grown(h).open = h.open
        /\ DOMAIN Grown(h) = {"open", "size", "alloc"}
    BY <2>5 DEF Sane
  <2>9. h.alloc = h.size
    <3>1. h.alloc \in Nat /\ h.size <= h.alloc
      BY <1>1, <2>6 DEF Sane
    <3> QED  BY <1>3, <2>1, <3>1
  <2>10. alloc \in Nat
    BY <1>1, <2>7
  <2>11. Sane(Grown(h))
    BY <2>4, <2>7, <2>8 DEF Sane
  <2> QED  BY <2>1, <2>4, <2>7, <2>8, <2>9, <2>10, <2>11
<1> QED  BY <1>2, <1>3

\* A read that is not at the end asks for one byte at least: what it returns is 0
\* at the end of the file only.  It does not write behind the array.
LEMMA RoomToRead ==
  ASSUME NEW h, Sane(h), h.size <= MaxMessage
  PROVE  LET room == Min({Grown(h).alloc, MaxMessage + 1}) - h.size
         IN  room \in Nat /\ room >= 1 /\ h.size + room <= Grown(h).alloc
<1> DEFINE a == Grown(h).alloc
<1>1. MaxMessage \in Nat /\ Doublings \subseteq Nat
  BY DoublingsAssumption DEF MaxMessage
<1>2. Sane(Grown(h)) /\ h.size < a
  BY GrownRoom
<1>3. a \in Nat /\ h.size \in Nat
  BY <1>1, <1>2 DEF Sane
<1> HIDE DEF a
<1> DEFINE m == Min({a, MaxMessage + 1})
<1>4. a \in Int /\ MaxMessage + 1 \in Int
  BY <1>1, <1>3
<1>5. m \in {a, MaxMessage + 1} /\ m <= a
  BY <1>4, MinOfTwo
<1> HIDE DEF m
<1>6. m - h.size \in Nat /\ m - h.size >= 1 /\ h.size + (m - h.size) <= a
  BY <1>1, <1>2, <1>3, <1>5
<1> QED  BY <1>6 DEF a, m

-----------------------------------------------------------------------------
(* The steps, for what is collected.                                       *)

LEMMA SameKept ==
  ASSUME Tally, UNCHANGED <<pipe, writer, handler, delivered>>, Selectable'
  PROVE  Tally'
BY DEF Tally, Kept, Counted, Collected, Answered, Writing, Handled

LEMMA OtherKept ==
  ASSUME Tally, NEW p \in Pipes, Selectable', Kept(p)', DOMAIN delivered' = DOMAIN delivered,
         \A o \in Pipes \ {p} : /\ pipe'[o] = pipe[o] /\ writer'[o] = writer[o]
                                /\ handler'[o] = handler[o] /\ delivered'[o] = delivered[o]
  PROVE  Tally'
<1> SUFFICES ASSUME NEW o \in Pipes PROVE Kept(o)'
  BY DEF Tally
<1>1. CASE o # p
  BY <1>1 DEF Tally, Kept, Counted, Collected, Answered, Writing, Handled
<1> QED  BY <1>1

\* A pipe after a write.
LEMMA CountedWritten ==
  ASSUME Shapes, NEW p \in Pipes, NEW q, NEW d \in Data, NEW left \in Nat, NEW r,
         Ready(q, d, left), q.written \in Nat, q.bytes <= q.written,
         WriteData(p, q, d, left, r)
  PROVE  /\ Counted(p)' /\ pipe'[p].from = d /\ ~pipe'[p].fresh
         /\ q.readable /\ left <= q.capacity - q.bytes =>
              /\ ~pipe'[p].writable
              /\ pipe'[p].bytes = q.bytes + left /\ pipe'[p].written = q.written + left
         /\ \A o \in Pipes \ {p} : pipe'[o] = pipe[o] /\ writer'[o] = writer[o]
<1> DEFINE n == Wrote(q, left)
           done == WriterDone(q, left)
<1>1. /\ DOMAIN q = Fields /\ q.bytes \in Nat /\ q.capacity \in Nat
      /\ q.bytes <= q.capacity /\ q.from = d /\ ~q.fresh
  BY DEF Ready
<1>2. /\ n \in 0 .. left /\ q.bytes + n <= q.capacity
      /\ q.readable /\ done => n = left
      /\ left <= q.capacity - q.bytes => done
  BY <1>1, Writes
<1>3. /\ pipe'[p] = [q EXCEPT !.bytes = @ + n, !.written = @ + n, !.writable = ~done]
      /\ writer'[p] = IF done THEN NoWriter ELSE [data |-> d, left |-> left - n]
      /\ \A o \in Pipes \ {p} : pipe'[o] = pipe[o] /\ writer'[o] = writer[o]
  BY DEF WriteData, Shapes
<1> HIDE DEF n, done
<1>4. /\ pipe'[p].bytes = q.bytes + n /\ pipe'[p].written = q.written + n
      /\ pipe'[p].writable = ~done /\ pipe'[p].capacity = q.capacity
      /\ pipe'[p].from = d /\ ~pipe'[p].fresh
  BY <1>1, <1>3 DEF Fields
<1>5. ~Writing(p)' => writer'[p] = NoWriter
  BY <1>3 DEF Writing
<1>6. Counted(p)'
  BY <1>1, <1>2, <1>4, <1>5 DEF Counted
<1> QED  BY <1>2, <1>3, <1>4, <1>6

\* A write to a pipe that the compositor does not read.
LEMMA KeptWrite ==
  ASSUME IInv, Tally, NEW p \in Pipes, NEW q, NEW d \in Data, NEW left \in Nat, NEW r,
         Ready(q, d, left), q.written \in Nat, q.bytes <= q.written,
         WriteData(p, q, d, left, r), ~Handled(p), delivered[p] = Nothing,
         UNCHANGED <<selection, handler, delivered>>
  PROVE  Tally'
<1>1. /\ Counted(p)'
      /\ \A o \in Pipes \ {p} : pipe'[o] = pipe[o] /\ writer'[o] = writer[o]
  BY CountedWritten DEF IInv
<1>2. Collected(p)' /\ Answered(p)'
  BY DEF Collected, Answered, Handled
<1>3. Selectable'
  BY DEF Tally, Selectable
<1> QED  BY <1>1, <1>2, <1>3, OtherKept DEF Kept

LEMMA PasteKept ==
  ASSUME IInv, Tally, NEW p \in Pipes, Paste(p)
  PROVE  Tally'
<1> DEFINE d == selection
           q == OpenPipe(ClientCapacity, selection)
<1>1. /\ d \in Data /\ pipe[p].fresh /\ WriteData(p, q, d, length[d], Retain(d))
      /\ UNCHANGED <<selection, handler, delivered>>
  BY DEF Paste, Idle
<1>2. length[d] # 0 /\ length[d] \in Nat
  BY <1>1 DEF IInv, Shapes
<1>3. ~Handled(p) /\ delivered[p] = Nothing
  BY <1>1 DEF IInv, Sound, Unused, Tally, Kept, Answered
<1>4. /\ DOMAIN q = Fields /\ q.bytes = 0 /\ q.capacity = ClientCapacity /\ q.from = d
      /\ ~q.fresh /\ q.written = 0 /\ q.writable = TRUE
  BY DEF OpenPipe, Fields
<1> HIDE DEF q, d
<1>5. Ready(q, d, length[d]) /\ q.written \in Nat /\ q.bytes <= q.written
  BY <1>2, <1>4 DEF Ready
<1> QED  BY <1>1, <1>2, <1>3, <1>5, KeptWrite

LEMMA OnWritableKept ==
  ASSUME IInv, Tally, NEW p \in Pipes, OnWritable(p)
  PROVE  Tally'
<1> DEFINE d == writer[p].data
           q == pipe[p]
           left == writer[p].left
<1>1. /\ Writing(p) /\ WriteData(p, q, d, left, refs)
      /\ UNCHANGED <<selection, handler, delivered>>
  BY DEF OnWritable
<1>2. Sound(p) /\ DOMAIN q = Fields /\ Counted(p) /\ Answered(p)
  BY DEF IInv, Shapes, Tally, Kept
<1>3. ~q.fresh
  BY <1>1, <1>2 DEF Sound, Unused, Writing, NoWriter
<1>4. d \in Data /\ left \in Nat /\ ~Handled(p) /\ Ready(q, d, left) /\ q.writable
  BY <1>1, <1>2, <1>3 DEF Sound, Underway, Known, Ready
<1>5. q.written \in Nat /\ q.bytes <= q.written
  BY <1>2 DEF Counted
<1>6. delivered[p] = Nothing
  BY <1>2, <1>4 DEF Answered
<1> HIDE DEF d, q, left
<1> QED  BY <1>1, <1>4, <1>5, <1>6, KeptWrite

LEMMA HandleClipboardRequestKept ==
  ASSUME IInv, Tally, NEW p \in Pipes, HandleClipboardRequest(p)
  PROVE  Tally'
<1>1. /\ pipe[p].fresh /\ selection # NoData
      /\ handler' = [handler EXCEPT ![p] = FirstHandler]
      /\ UNCHANGED <<selection, length, delivered>>
  BY DEF HandleClipboardRequest
<1>2. /\ Shapes /\ Unused(p) /\ Counted(p) /\ Answered(p) /\ Selectable
  BY DEF IInv, Sound, Tally, Kept
<1>3. ~Writing(p) /\ delivered[p] = Nothing /\ Selectable'
  BY <1>1, <1>2 DEF Unused, Writing, NoWriter, Answered, Selectable
<1>4. handler'[p] = FirstHandler /\ \A o \in Pipes \ {p} : handler'[o] = handler[o]
  BY <1>1, <1>2 DEF Shapes
<1>5. Sane(FirstHandler) /\ FirstHandler.open /\ FirstHandler.size = Header
  <2>1. Header \in Nat /\ 0 \in Doublings \cup {0} /\ Header <= 2 * MaxMessage + 1
    BY DEF MaxMessage
  <2>2. Allocated(0, Header) \in Doublings /\ Header <= Allocated(0, Header)
    BY <2>1, AllocatedFits
  <2> QED  BY <2>1, <2>2 DEF FirstHandler, Sane
<1>6. SUFFICES ASSUME NEW full \in Nat,
                      Counted(p)', ~pipe'[p].fresh, pipe'[p].from = selection,
                      pipe'[p].bytes = full, pipe'[p].written = full,
                      selection \in Data => ~pipe'[p].writable,
                      \A o \in Pipes \ {p} : pipe'[o] = pipe[o] /\ writer'[o] = writer[o]
               PROVE  Tally'
  <2>1. CASE /\ selection = Client /\ UNCHANGED <<writer, refs>>
             /\ pipe' = [pipe EXCEPT ![p] = OpenPipe(OwnCapacity, selection)]
    <3>1. pipe'[p] = OpenPipe(OwnCapacity, selection) /\ writer' = writer
          /\ \A o \in Pipes \ {p} : pipe'[o] = pipe[o] /\ writer'[o] = writer[o]
      BY <1>2, <2>1 DEF Shapes
    <3>2. Counted(p)'
      BY <1>2, <3>1 DEF Counted, OpenPipe, Writing
    <3>3. ~pipe'[p].fresh /\ pipe'[p].from = selection /\ pipe'[p].bytes = 0
          /\ pipe'[p].written = 0 /\ selection \notin Data
      BY <2>1, <3>1 DEF OpenPipe
    <3> QED  BY <1>6, <3>1, <3>2, <3>3
  <2>2. CASE /\ selection \in Data
             /\ WriteData(p, OpenPipe(OwnCapacity, selection), selection,
                          length[selection], Retain(selection))
    <3> DEFINE d == selection
               q == OpenPipe(OwnCapacity, selection)
    <3>1. length[d] # 0 /\ length[d] \in Nat /\ length[d] <= OwnCapacity
      BY <2>2 DEF IInv, Shapes
    <3>2. /\ DOMAIN q = Fields /\ q.bytes = 0 /\ q.capacity = OwnCapacity /\ q.from = d
          /\ ~q.fresh /\ q.written = 0 /\ q.writable = TRUE /\ q.readable
      BY DEF OpenPipe, Fields
    <3>3. d \in Data /\ WriteData(p, q, d, length[d], Retain(d))
      BY <2>2
    <3> HIDE DEF q, d
    <3>4. /\ Ready(q, d, length[d]) /\ length[d] <= q.capacity - q.bytes
          /\ q.written \in Nat /\ q.bytes <= q.written
      BY <3>1, <3>2 DEF Ready
    <3>5. /\ Counted(p)' /\ pipe'[p].from = d /\ ~pipe'[p].fresh /\ ~pipe'[p].writable
          /\ pipe'[p].bytes = q.bytes + length[d] /\ pipe'[p].written = q.written + length[d]
          /\ \A o \in Pipes \ {p} : pipe'[o] = pipe[o] /\ writer'[o] = writer[o]
      BY <1>2, <3>1, <3>2, <3>3, <3>4, CountedWritten
    <3>6. pipe'[p].bytes = length[d] /\ pipe'[p].written = length[d]
      BY <3>1, <3>2, <3>5
    <3> QED  BY <1>6, <3>1, <3>5, <3>6 DEF d
  <2> QED  BY <2>1, <2>2 DEF HandleClipboardRequest
<1>7. Collected(p)'
  <2>1. selection \in Data \cup {Client}
    BY <1>1, <1>2 DEF Selectable
  <2>2. Header + full = handler'[p].size + full
    BY <1>4, <1>5
  <2> QED  BY <1>1, <1>3, <1>4, <1>5, <1>6, <2>1, <2>2 DEF Collected
<1>8. Answered(p)'
  BY <1>1, <1>3 DEF Answered
<1> QED  BY <1>1, <1>3, <1>4, <1>6, <1>7, <1>8, OtherKept DEF Kept

\* The end of the file: what is in the array is sent.
LEMMA SendDataKept ==
  ASSUME IInv, Tally, NEW p \in Pipes, Handled(p), SendData(p), UNCHANGED <<selection, writer>>
  PROVE  Tally'
<1>1. /\ pipe[p].bytes = 0 /\ ~pipe[p].writable
      /\ delivered' = [delivered EXCEPT ![p] = handler[p].size - Header]
      /\ pipe' = [pipe EXCEPT ![p].readable = FALSE]
      /\ handler' = [handler EXCEPT ![p] = NoHandler]
  BY DEF SendData, AtEnd, Closed
<1>2. /\ Shapes /\ ~pipe[p].fresh /\ DOMAIN pipe[p] = Fields
      /\ Counted(p) /\ Collected(p)
  BY DEF IInv, Shapes, Sound, Unused, Tally, Kept
<1>3. DOMAIN delivered = Pipes
  BY DEF Tally
<1>4. delivered'[p] = handler[p].size - Header /\ DOMAIN delivered' = DOMAIN delivered
  BY <1>1, <1>3
<1>5. /\ pipe'[p].bytes = pipe[p].bytes /\ pipe'[p].written = pipe[p].written
      /\ pipe'[p].writable = pipe[p].writable /\ pipe'[p].capacity = pipe[p].capacity
      /\ pipe'[p].from = pipe[p].from /\ pipe'[p].fresh = pipe[p].fresh
      /\ handler'[p] = NoHandler
      /\ \A o \in Pipes \ {p} : /\ pipe'[o] = pipe[o] /\ handler'[o] = handler[o]
                                /\ delivered'[o] = delivered[o]
  BY <1>1, <1>2 DEF Shapes, Fields
<1>6. ~Handled(p)'
  BY <1>5 DEF Handled, NoHandler
<1>7. Counted(p)'
  BY <1>2, <1>5 DEF Counted, Writing
<1>8. Answered(p)'
  <2> DEFINE size == handler[p].size
  <2>1. size \in Nat /\ Header + pipe[p].written <= size
        /\ (pipe[p].from \in Data => Header + pipe[p].written = size)
    BY <1>1, <1>2 DEF Collected, Counted, Sane
  <2>2. pipe[p].written \in Nat /\ Header \in Nat
    BY <1>2 DEF Counted
  <2> HIDE DEF size
  <2>3. /\ size - Header \in Nat /\ pipe[p].written <= size - Header
        /\ pipe[p].from \in Data => size - Header = pipe[p].written
    BY <2>1, <2>2
  <2> QED  BY <1>1, <1>2, <1>3, <1>4, <1>5, <1>6, <2>3 DEF Answered, Collected, size
<1>9. Collected(p)' /\ Selectable'
  BY <1>6 DEF Collected, Tally, Selectable
<1> QED  BY <1>4, <1>5, <1>7, <1>8, <1>9, OtherKept DEF Kept

\* Nothing to read yet.
LEMMA WouldBlockKept ==
  ASSUME IInv, Tally, NEW p \in Pipes, Handled(p), handler[p].size <= MaxMessage,
         WouldBlock(p), UNCHANGED <<selection, writer>>
  PROVE  Tally'
<1> DEFINE h == handler[p]
           g == Grown(handler[p])
           e == pipe[p].padded \/ g # h
<1>1. /\ pipe[p].bytes = 0 /\ pipe[p].writable
      /\ handler' = [handler EXCEPT ![p] = g] /\ UNCHANGED delivered
      /\ pipe' = [pipe EXCEPT ![p].padded = e]
  BY DEF WouldBlock, AtEnd
<1>2. Shapes /\ Kept(p) /\ Counted(p) /\ Collected(p) /\ Answered(p) /\ Sane(h)
      /\ DOMAIN pipe[p] = Fields
  BY DEF IInv, Shapes, Tally, Kept, Collected
<1> HIDE DEF e
<1>3. handler'[p] = g /\ \A o \in Pipes \ {p} : handler'[o] = handler[o] /\ pipe'[o] = pipe[o]
  BY <1>1, <1>2 DEF Shapes
<1>8. /\ pipe'[p].bytes = pipe[p].bytes /\ pipe'[p].written = pipe[p].written
      /\ pipe'[p].capacity = pipe[p].capacity /\ pipe'[p].from = pipe[p].from
      /\ pipe'[p].writable = pipe[p].writable
  BY <1>1, <1>2 DEF Shapes, Fields
<1>4. Sane(g) /\ g.open /\ h.size <= g.size
  BY <1>2, GrownRoom DEF Handled
<1>5. Header + pipe[p].written <= g.size + pipe[p].bytes
  <2>1. h.size \in Nat /\ g.size \in Nat /\ pipe[p].written \in Nat /\ Header \in Nat
        /\ pipe[p].bytes \in Nat /\ Header + pipe[p].written <= h.size + pipe[p].bytes
    BY <1>2, <1>4 DEF Counted, Collected, Sane
  <2> HIDE DEF g, h
  <2> QED  BY <1>4, <2>1
<1>6. Collected(p)'
  BY <1>1, <1>2, <1>3, <1>4, <1>5, <1>8 DEF Collected
<1>9. delivered[p] = Nothing /\ delivered' = delivered
  BY <1>1, <1>2 DEF Collected
<1>7. Counted(p)' /\ Answered(p)' /\ Selectable'
  BY <1>2, <1>8, <1>9 DEF Counted, Answered, Writing, Tally, Selectable
<1> QED  BY <1>1, <1>3, <1>6, <1>7, OtherKept DEF Kept

\* What a read takes from the pipe is in the array afterwards.
LEMMA ReadTakes ==
  ASSUME IInv, Tally, NEW p \in Pipes, Handled(p), handler[p].size <= MaxMessage, ReadData(p)
  PROVE  \E n \in 1 .. pipe[p].bytes :
           /\ handler[p].size + n <= Grown(handler[p]).alloc
           /\ \/ /\ pipe' = [pipe EXCEPT ![p].bytes = @ - n, ![p].readable = FALSE]
                 /\ handler' = [handler EXCEPT ![p] = NoHandler]
              \/ /\ handler[p].size + n <= MaxMessage
                 /\ pipe' = [pipe EXCEPT ![p].bytes = @ - n]
                 /\ handler' = [handler EXCEPT
                                  ![p] = [Grown(handler[p]) EXCEPT !.size = handler[p].size + n]]
<1> DEFINE h == handler[p]
           g == Grown(h)
           room == Min({g.alloc, MaxMessage + 1}) - h.size
           n == Min({pipe[p].bytes, room})
<1>1. Sane(h) /\ pipe[p].bytes \in Nat
  BY DEF Tally, Kept, Collected, Counted
<1>2. room \in Nat /\ room >= 1 /\ h.size + room <= g.alloc
  BY <1>1, RoomToRead
<1>3. h.size \in Nat /\ g.alloc \in Nat
  <2>1. Sane(g) /\ Doublings \subseteq Nat
    BY <1>1, GrownRoom, DoublingsAssumption
  <2> QED  BY <1>1, <2>1 DEF Sane
<1>4. /\ n > 0
      /\ \/ /\ pipe' = [pipe EXCEPT ![p].bytes = @ - n, ![p].readable = FALSE]
            /\ handler' = [handler EXCEPT ![p] = NoHandler]
         \/ /\ h.size + n <= MaxMessage
            /\ pipe' = [pipe EXCEPT ![p].bytes = @ - n]
            /\ handler' = [handler EXCEPT ![p] = [g EXCEPT !.size = h.size + n]]
  BY DEF ReadData, Closed
<1> HIDE DEF room
<1>5. n \in {pipe[p].bytes, room} /\ n <= pipe[p].bytes /\ n <= room
  <2>1. pipe[p].bytes \in Int /\ room \in Int
    BY <1>1, <1>2
  <2> QED  BY <2>1, MinOfTwo, Zenon
<1> HIDE DEF n, g, h
<1>6. n \in 1 .. pipe[p].bytes /\ h.size + n <= g.alloc
  BY <1>1, <1>2, <1>3, <1>4, <1>5
<1> QED  BY <1>4, <1>6 DEF g, h

LEMMA ReadDataKept ==
  ASSUME IInv, Tally, NEW p \in Pipes, Handled(p), handler[p].size <= MaxMessage,
         ReadData(p), UNCHANGED <<selection, writer, delivered>>
  PROVE  Tally'
<1> DEFINE h == handler[p]
           g == Grown(handler[p])
<1>1. PICK n \in 1 .. pipe[p].bytes :
         /\ h.size + n <= g.alloc
         /\ \/ /\ pipe' = [pipe EXCEPT ![p].bytes = @ - n, ![p].readable = FALSE]
               /\ handler' = [handler EXCEPT ![p] = NoHandler]
            \/ /\ pipe' = [pipe EXCEPT ![p].bytes = @ - n]
               /\ handler' = [handler EXCEPT ![p] = [g EXCEPT !.size = h.size + n]]
  BY ReadTakes
<1>2. /\ Shapes /\ Counted(p) /\ Collected(p) /\ Answered(p) /\ Sane(h)
      /\ DOMAIN pipe[p] = Fields /\ ~pipe[p].fresh
  BY DEF IInv, Shapes, Sound, Unused, Tally, Kept, Collected
<1>3. Sane(g) /\ g.open
  BY <1>2, GrownRoom DEF Handled
<1>4. /\ pipe'[p].bytes = pipe[p].bytes - n /\ pipe'[p].written = pipe[p].written
      /\ pipe'[p].writable = pipe[p].writable /\ pipe'[p].capacity = pipe[p].capacity
      /\ pipe'[p].from = pipe[p].from /\ pipe'[p].fresh = pipe[p].fresh
      /\ \A o \in Pipes \ {p} : pipe'[o] = pipe[o] /\ handler'[o] = handler[o]
  BY <1>1, <1>2 DEF Shapes, Fields
<1>5. /\ h.size \in Nat /\ pipe[p].bytes \in Nat /\ pipe[p].written \in Nat
      /\ pipe[p].capacity \in Nat /\ pipe[p].bytes <= pipe[p].capacity
      /\ pipe[p].bytes <= pipe[p].written /\ Header \in Nat /\ n \in Nat /\ n <= pipe[p].bytes
  BY <1>2 DEF Counted, Sane
<1>6. Counted(p)' /\ Selectable'
  BY <1>2, <1>4, <1>5 DEF Counted, Writing, Tally, Selectable
<1>7. delivered[p] = Nothing
  BY <1>2 DEF Collected
<1>8. Answered(p)'
  BY <1>7 DEF Answered
<1>9. CASE handler' = [handler EXCEPT ![p] = NoHandler]
  <2>1. ~Handled(p)'
    BY <1>2, <1>9 DEF Shapes, Handled, NoHandler
  <2>2. Collected(p)'
    BY <2>1 DEF Collected
  <2> QED  BY <1>4, <1>6, <1>8, <2>2, OtherKept DEF Kept
<1>10. CASE handler' = [handler EXCEPT ![p] = [g EXCEPT !.size = h.size + n]]
  <2>1. /\ handler'[p].size = h.size + n /\ handler'[p].alloc = g.alloc
        /\ DOMAIN handler'[p] = {"open", "size", "alloc"}
    BY <1>2, <1>3, <1>10 DEF Shapes, Sane
  <2>2. h.size + n \in Nat
    BY <1>5
  <2>3. Sane(handler'[p])
    BY <1>1, <1>3, <2>1, <2>2 DEF Sane
  <2>4. /\ Header + pipe[p].written <= h.size + pipe[p].bytes
        /\ pipe[p].from \in Data =>
             ~pipe[p].writable /\ Header + pipe[p].written = h.size + pipe[p].bytes
        /\ pipe[p].from \in Data \cup {Client}
    BY <1>2 DEF Collected
  <2> HIDE DEF h, g
  <2>5. (h.size + n) + (pipe[p].bytes - n) = h.size + pipe[p].bytes
    BY <1>5
  <2>6. Collected(p)'
    BY <1>4, <1>7, <2>1, <2>3, <2>4, <2>5 DEF Collected
  <2> QED  BY <1>4, <1>6, <1>8, <2>6, OtherKept DEF Kept
<1> QED  BY <1>1, <1>9, <1>10

LEMMA ReadKept ==
  ASSUME IInv, Tally, NEW p \in Pipes, Read(p)
  PROVE  Tally'
<1>1. Handled(p) /\ handler[p].size <= MaxMessage /\ UNCHANGED <<selection, writer>>
  BY DEF IInv, Read
<1>2. CASE SendData(p)
  BY <1>1, <1>2, SendDataKept
<1>3. CASE WouldBlock(p)
  BY <1>1, <1>3, WouldBlockKept
<1>4. CASE ReadData(p)
  <2>1. UNCHANGED delivered
    BY <1>4 DEF ReadData
  <2> QED  BY <1>1, <1>4, <2>1, ReadDataKept
<1> QED  BY <1>2, <1>3, <1>4 DEF Read

\* What a client does at its end of a pipe.
LEMMA ClientKept ==
  ASSUME IInv, Tally, NEW p \in Pipes,
         ClientWrites(p) \/ ClientCloses(p) \/ ClientReads(p) \/ ClientAbandons(p)
  PROVE  Tally'
<1>1. /\ Shapes /\ Unused(p) /\ Counted(p) /\ Collected(p) /\ Answered(p)
      /\ DOMAIN pipe[p] = Fields
  BY DEF IInv, Shapes, Sound, Tally, Kept
<1>2. UNCHANGED <<selection, writer, handler, delivered>> /\ Selectable'
      /\ DOMAIN delivered' = DOMAIN delivered
  BY DEF ClientWrites, ClientCloses, ClientReads, ClientAbandons, Tally, Selectable
<1>3. ~pipe[p].fresh
  BY <1>1 DEF Unused, FreshPipe, ClosedPipe, ClientWrites, ClientCloses, ClientReads,
              ClientAbandons, ClientOwns
<1>4. SUFFICES ASSUME NEW q, pipe' = [pipe EXCEPT ![p] = q],
                      Counted(p)', Collected(p)', Answered(p)'
               PROVE  Tally'
  <2>1. CASE ClientWrites(p)
    <3>1. PICK n \in Chunks :
            /\ pipe[p].bytes + n <= pipe[p].capacity
            /\ pipe' = [pipe EXCEPT ![p].bytes = @ + n, ![p].written = @ + n]
      BY <2>1 DEF ClientWrites
    <3> DEFINE q == [pipe[p] EXCEPT !.bytes = @ + n, !.written = @ + n]
    <3>2. /\ pipe' = [pipe EXCEPT ![p] = q] /\ pipe'[p] = q
          /\ q.bytes = pipe[p].bytes + n /\ q.written = pipe[p].written + n
          /\ q.capacity = pipe[p].capacity /\ q.from = pipe[p].from /\ q.fresh = pipe[p].fresh
          /\ q.writable = pipe[p].writable
      BY <1>1, <3>1 DEF Shapes, Fields
    <3>3. n \in Nat /\ ClientOwns(p) /\ Client \notin Data
      BY <2>1, ChunksAssumption DEF ClientWrites
    <3>4. pipe[p].writable /\ pipe[p].from = Client
      BY <3>3 DEF ClientOwns
    <3>5. pipe[p].bytes \in Nat /\ pipe[p].written \in Nat /\ pipe[p].capacity \in Nat
          /\ Header \in Nat /\ pipe[p].bytes <= pipe[p].written
      BY <1>1 DEF Counted
    <3> HIDE DEF q
    <3>6. Counted(p)'
      <4>1. q.capacity \in Nat /\ q.bytes \in 0 .. q.capacity
        BY <3>1, <3>2, <3>3, <3>5
      <4>2. q.written \in Nat /\ q.bytes <= q.written
        BY <3>2, <3>3, <3>5
      <4> QED  BY <1>1, <1>2, <3>2, <4>1, <4>2 DEF Counted, Writing
    <3>7. Collected(p)'
      <4>1. CASE Handled(p)
        <5>1. handler[p].size \in Nat /\ Header + pipe[p].written <= handler[p].size + pipe[p].bytes
          BY <1>1, <4>1 DEF Collected, Sane
        <5>2. Header + q.written <= handler[p].size + q.bytes
          BY <3>2, <3>3, <3>5, <5>1
        <5> QED  BY <1>1, <1>2, <3>2, <3>3, <3>4, <4>1, <5>2 DEF Collected, Handled
      <4>2. CASE ~Handled(p)
        BY <1>2, <4>2 DEF Collected, Handled
      <4> QED  BY <4>1, <4>2
    <3>8. Answered(p)'
      <4>1. delivered[p] = Nothing
        BY <1>1, <3>4 DEF Answered
      <4> QED  BY <1>2, <4>1 DEF Answered
    <3> QED  BY <1>4, <3>2, <3>6, <3>7, <3>8
  <2>2. CASE ClientCloses(p)
    <3> DEFINE q == [pipe[p] EXCEPT !.writable = FALSE]
    <3>1. /\ pipe' = [pipe EXCEPT ![p] = q] /\ pipe'[p] = q
          /\ q.bytes = pipe[p].bytes /\ q.written = pipe[p].written
          /\ q.capacity = pipe[p].capacity /\ q.from = pipe[p].from /\ q.fresh = pipe[p].fresh
          /\ ~q.writable
      BY <1>1, <2>2 DEF ClientCloses, Shapes, Fields
    <3> HIDE DEF q
    <3>2. Counted(p)' /\ Collected(p)' /\ Answered(p)'
      BY <1>1, <1>2, <3>1 DEF Counted, Collected, Answered, Writing, Handled
    <3> QED  BY <1>4, <3>1, <3>2
  <2>3. CASE ClientReads(p)
    <3> DEFINE q == [pipe[p] EXCEPT !.bytes = 0]
    <3>1. /\ pipe' = [pipe EXCEPT ![p] = q] /\ pipe'[p] = q
          /\ q.bytes = 0 /\ q.written = pipe[p].written
          /\ q.capacity = pipe[p].capacity /\ q.from = pipe[p].from /\ q.fresh = pipe[p].fresh
          /\ q.writable = pipe[p].writable /\ ~Handled(p)
      BY <1>1, <2>3 DEF ClientReads, Shapes, Fields
    <3> HIDE DEF q
    <3>2. Counted(p)' /\ Collected(p)' /\ Answered(p)'
      BY <1>1, <1>2, <3>1 DEF Counted, Collected, Answered, Writing, Handled
    <3> QED  BY <1>4, <3>1, <3>2
  <2>4. CASE ClientAbandons(p)
    <3> DEFINE q == [pipe[p] EXCEPT !.readable = FALSE]
    <3>1. /\ pipe' = [pipe EXCEPT ![p] = q] /\ pipe'[p] = q
          /\ q.bytes = pipe[p].bytes /\ q.written = pipe[p].written
          /\ q.capacity = pipe[p].capacity /\ q.from = pipe[p].from /\ q.fresh = pipe[p].fresh
          /\ q.writable = pipe[p].writable
      BY <1>1, <2>4 DEF ClientAbandons, Shapes, Fields
    <3> HIDE DEF q
    <3>2. Counted(p)' /\ Collected(p)' /\ Answered(p)'
      BY <1>1, <1>2, <3>1 DEF Counted, Collected, Answered, Writing, Handled
    <3> QED  BY <1>4, <3>1, <3>2
  <2> QED  BY <2>1, <2>2, <2>3, <2>4
<1>5. \A o \in Pipes \ {p} : pipe'[o] = pipe[o]
  BY <1>1, <1>4 DEF Shapes
<1> QED  BY <1>2, <1>4, <1>5, OtherKept DEF Kept

LEMMA DisplayDestroyKept ==
  ASSUME IInv, Tally, DisplayDestroy
  PROVE  Tally'
<1> SUFFICES ASSUME NEW p \in Pipes PROVE Kept(p)'
  BY DEF Tally, Selectable, DisplayDestroy
<1>1. /\ pipe'[p] = IF Writing(p) THEN [pipe[p] EXCEPT !.writable = FALSE]
                    ELSE IF Handled(p) THEN [pipe[p] EXCEPT !.readable = FALSE]
                    ELSE pipe[p]
      /\ writer'[p] = NoWriter /\ handler'[p] = NoHandler /\ delivered' = delivered
  BY DEF DisplayDestroy
<1>2. DOMAIN pipe[p] = Fields /\ Counted(p) /\ Answered(p)
  BY DEF IInv, Shapes, Tally, Kept
<1>3. /\ pipe'[p].bytes = pipe[p].bytes /\ pipe'[p].written = pipe[p].written
      /\ pipe'[p].capacity = pipe[p].capacity /\ pipe'[p].from = pipe[p].from
      /\ pipe'[p].fresh = pipe[p].fresh /\ (pipe'[p].writable => pipe[p].writable)
  BY <1>1, <1>2 DEF Fields
<1>4. ~Handled(p)'
  BY <1>1 DEF Handled, NoHandler
<1>5. Counted(p)' /\ Collected(p)'
  BY <1>1, <1>2, <1>3, <1>4 DEF Counted, Collected
<1>6. Answered(p)'
  BY <1>1, <1>2, <1>3, <1>4 DEF Answered
<1> QED  BY <1>5, <1>6 DEF Kept

LEMMA InitTally == Init => Tally
BY DEF Init, Tally, Selectable, Kept, Counted, Collected, Answered, Writing, Handled,
       NoWriter, NoHandler, FreshPipe, ClosedPipe

-----------------------------------------------------------------------------
(* The steps, for a pipe that is not padded.                               *)

LEMMA OtherExact ==
  ASSUME TallyExact, NEW p \in Pipes, Exact(p)',
         \A o \in Pipes \ {p} : /\ pipe'[o] = pipe[o] /\ handler'[o] = handler[o]
                                /\ delivered'[o] = delivered[o]
  PROVE  TallyExact'
<1> SUFFICES ASSUME NEW o \in Pipes PROVE Exact(o)'
  BY DEF TallyExact
<1>1. CASE o # p
  BY <1>1 DEF TallyExact, Exact, Handled
<1> QED  BY <1>1

LEMMA SameExact ==
  ASSUME TallyExact, UNCHANGED <<pipe, handler, delivered>>
  PROVE  TallyExact'
BY DEF TallyExact, Exact, Handled

\* A write to a pipe for a content of the daemon's.
LEMMA OwnExact ==
  ASSUME IInv, TallyExact, NEW p \in Pipes, NEW q, NEW d \in Data, NEW left, NEW r,
         WriteData(p, q, d, left, r), DOMAIN q = Fields, q.from = d,
         \A o \in Pipes \ {p} : handler'[o] = handler[o], delivered' = delivered,
         Handled(p)' => handler'[p].size <= MaxMessage
  PROVE  TallyExact'
<1>1. pipe'[p].from = d /\ \A o \in Pipes \ {p} : pipe'[o] = pipe[o]
  BY DEF WriteData, IInv, Shapes, Fields
<1>3. Exact(p)'
  BY <1>1 DEF Exact
<1> QED  BY <1>1, <1>3, OtherExact

LEMMA HandleClipboardRequestExact ==
  ASSUME IInv, Tally, TallyExact, NEW p \in Pipes,
         HandleClipboardRequest(p)
  PROVE  TallyExact'
<1>1. /\ pipe[p].fresh /\ delivered' = delivered
      /\ handler' = [handler EXCEPT ![p] = FirstHandler]
  BY DEF HandleClipboardRequest
<1>2. /\ handler'[p] = FirstHandler
      /\ \A o \in Pipes \ {p} : handler'[o] = handler[o]
  BY <1>1 DEF IInv, Shapes
<1>3. delivered[p] = Nothing
  BY <1>1 DEF Tally, Kept, Answered
<1>4. CASE pipe' = [pipe EXCEPT ![p] = OpenPipe(OwnCapacity, selection)]
  <2>1. /\ pipe'[p] = OpenPipe(OwnCapacity, selection)
        /\ \A o \in Pipes \ {p} : pipe'[o] = pipe[o]
    BY <1>4 DEF IInv, Shapes
  <2>2. FirstHandler.size = Header /\ Header <= MaxMessage
    BY DEF FirstHandler, MaxMessage
  <2>3. Exact(p)'
    BY <1>1, <1>2, <1>3, <2>1, <2>2 DEF Exact, OpenPipe
  <2> QED  BY <1>1, <1>2, <2>1, <2>3, OtherExact
<1>5. CASE /\ selection \in Data
           /\ WriteData(p, OpenPipe(OwnCapacity, selection), selection, length[selection],
                        Retain(selection))
  <2> DEFINE q == OpenPipe(OwnCapacity, selection)
  <2>1. DOMAIN q = Fields /\ q.from = selection
    BY DEF OpenPipe, Fields
  <2> HIDE DEF q
  <2>2. WriteData(p, q, selection, length[selection], Retain(selection))
    BY <1>5 DEF q
  <2>3. handler'[p].size <= MaxMessage
    BY <1>2 DEF FirstHandler, MaxMessage
  <2> QED  BY <1>1, <1>2, <1>5, <2>1, <2>2, <2>3, OwnExact
<1> QED  BY <1>4, <1>5 DEF HandleClipboardRequest

LEMMA ReadExact ==
  ASSUME IInv, Tally, TallyExact, NEW p \in Pipes, Read(p)
  PROVE  TallyExact'
<1> DEFINE h == handler[p]
<1>1. /\ Handled(p) /\ h.size <= MaxMessage /\ DOMAIN pipe[p] = Fields
      /\ Shapes /\ Counted(p) /\ Collected(p) /\ Exact(p) /\ Sane(h)
      /\ delivered[p] = Nothing /\ DOMAIN delivered = Pipes
  BY DEF IInv, Shapes, Read, Tally, Kept, Collected, TallyExact
<1>2. /\ h.size \in Nat /\ pipe[p].bytes \in Nat /\ pipe[p].written \in Nat /\ Header \in Nat
  BY <1>1 DEF Counted, Sane
<1>3. CASE SendData(p)
  <2>1. /\ pipe[p].bytes = 0
        /\ delivered' = [delivered EXCEPT ![p] = h.size - Header]
        /\ pipe' = [pipe EXCEPT ![p].readable = FALSE]
        /\ handler' = [handler EXCEPT ![p] = NoHandler]
    BY <1>3 DEF SendData, AtEnd, Closed
  <2>2. /\ pipe'[p].from = pipe[p].from /\ pipe'[p].written = pipe[p].written
        /\ pipe'[p].padded = pipe[p].padded
        /\ handler'[p] = NoHandler /\ delivered'[p] = h.size - Header
        /\ \A o \in Pipes \ {p} : /\ pipe'[o] = pipe[o] /\ handler'[o] = handler[o]
                                  /\ delivered'[o] = delivered[o]
    BY <1>1, <2>1 DEF Shapes, Fields
  <2>3. ~pipe[p].padded /\ pipe[p].from = Client => h.size - Header = pipe[p].written
    <3>1. ~pipe[p].padded /\ pipe[p].from = Client => Header + pipe[p].written = h.size + pipe[p].bytes
      BY <1>1 DEF Exact
    <3> HIDE DEF h
    <3> QED  BY <1>2, <2>1, <3>1
  <2>4. Exact(p)'
    BY <2>2, <2>3 DEF Exact, Handled, NoHandler
  <2> QED  BY <2>2, <2>4, OtherExact
<1>4. CASE WouldBlock(p)
  <2> DEFINE e == pipe[p].padded \/ Grown(h) # h
  <2>1. /\ pipe' = [pipe EXCEPT ![p].padded = e] /\ UNCHANGED delivered
        /\ handler' = [handler EXCEPT ![p] = Grown(h)]
    BY <1>4 DEF WouldBlock
  <2> HIDE DEF e
  <2>2. /\ handler'[p] = Grown(h) /\ pipe'[p].padded = e
        /\ pipe'[p].bytes = pipe[p].bytes /\ pipe'[p].written = pipe[p].written
        /\ pipe'[p].from = pipe[p].from
        /\ \A o \in Pipes \ {p} : handler'[o] = handler[o] /\ pipe'[o] = pipe[o]
    BY <1>1, <2>1 DEF Shapes, Fields
  <2>3. CASE e
    <3>1. pipe'[p].padded
      BY <2>2, <2>3, Zenon
    <3>2. Exact(p)'
      BY <3>1 DEF Exact
    <3> QED  BY <2>1, <2>2, <3>2, OtherExact
  <2>4. CASE ~e
    <3>1. Grown(h) = h /\ ~pipe[p].padded
      BY <2>4 DEF e
    <3>2. Exact(p)'
      BY <1>1, <2>1, <2>2, <3>1 DEF Exact, Handled
    <3> QED  BY <2>1, <2>2, <3>2, OtherExact
  <2> QED  BY <2>3, <2>4
<1>5. CASE ReadData(p)
  <2>1. PICK n \in 1 .. pipe[p].bytes :
          \/ /\ pipe' = [pipe EXCEPT ![p].bytes = @ - n, ![p].readable = FALSE]
             /\ handler' = [handler EXCEPT ![p] = NoHandler]
          \/ /\ h.size + n <= MaxMessage
             /\ pipe' = [pipe EXCEPT ![p].bytes = @ - n]
             /\ handler' = [handler EXCEPT ![p] = [Grown(h) EXCEPT !.size = h.size + n]]
    BY <1>1, <1>5, ReadTakes
  <2>2. /\ pipe'[p].bytes = pipe[p].bytes - n /\ pipe'[p].written = pipe[p].written
        /\ pipe'[p].from = pipe[p].from /\ pipe'[p].padded = pipe[p].padded
        /\ delivered' = delivered
        /\ \A o \in Pipes \ {p} : pipe'[o] = pipe[o] /\ handler'[o] = handler[o]
    BY <1>1, <1>5, <2>1 DEF Shapes, Fields, ReadData
  <2>3. CASE handler' = [handler EXCEPT ![p] = NoHandler]
    <3>1. ~Handled(p)'
      BY <1>1, <2>3 DEF Shapes, Handled, NoHandler
    <3>2. Exact(p)'
      BY <1>1, <2>2, <3>1 DEF Exact
    <3> QED  BY <2>2, <3>2, OtherExact
  <2>4. CASE /\ h.size + n <= MaxMessage
             /\ handler' = [handler EXCEPT ![p] = [Grown(h) EXCEPT !.size = h.size + n]]
    <3>1. DOMAIN Grown(h) = {"open", "size", "alloc"}
      BY <1>1, GrownRoom DEF Sane
    <3>2. handler'[p].size = h.size + n
      BY <1>1, <2>4, <3>1 DEF Shapes
    <3>3. (h.size + n) + (pipe[p].bytes - n) = h.size + pipe[p].bytes
      <4> HIDE DEF h
      <4> QED  BY <1>2
    <3>4. Exact(p)'
      <4>1. Handled(p)' => handler'[p].size <= MaxMessage
        BY <2>4, <3>2
      <4>2. ~pipe[p].padded /\ pipe[p].from = Client =>
              Header + pipe[p].written = h.size + pipe[p].bytes
        BY <1>1 DEF Exact
      <4>3. ~pipe[p].padded /\ pipe[p].from = Client =>
              Header + pipe'[p].written = handler'[p].size + pipe'[p].bytes
        BY <2>2, <3>2, <3>3, <4>2
      <4> QED  BY <1>1, <2>2, <4>1, <4>2, <4>3 DEF Exact
    <3> QED  BY <2>2, <3>4, OtherExact
  <2> QED  BY <2>1, <2>3, <2>4
<1> QED  BY <1>3, <1>4, <1>5 DEF Read

LEMMA ClientExact ==
  ASSUME IInv, Tally, TallyExact, NEW p \in Pipes,
         ClientWrites(p) \/ ClientCloses(p) \/ ClientReads(p) \/ ClientAbandons(p)
  PROVE  TallyExact'
<1>1. /\ DOMAIN pipe[p] = Fields /\ Shapes /\ Exact(p) /\ Counted(p) /\ Collected(p)
      /\ Answered(p)
  BY DEF IInv, Shapes, Tally, Kept, TallyExact
<1>2. UNCHANGED <<handler, delivered>>
  BY DEF ClientWrites, ClientCloses, ClientReads, ClientAbandons
<1>3. CASE ClientWrites(p)
  <2>1. PICK n \in Chunks :
          /\ pipe[p].written + n <= MaxWritten
          /\ pipe' = [pipe EXCEPT ![p].bytes = @ + n, ![p].written = @ + n]
    BY <1>3 DEF ClientWrites
  <2>2. /\ pipe'[p].bytes = pipe[p].bytes + n /\ pipe'[p].written = pipe[p].written + n
        /\ pipe'[p].from = pipe[p].from /\ pipe'[p].padded = pipe[p].padded
        /\ \A o \in Pipes \ {p} : pipe'[o] = pipe[o]
    BY <1>1, <2>1 DEF Shapes, Fields
  <2>3. delivered[p] = Nothing
    BY <1>1, <1>3 DEF ClientWrites, ClientOwns, Answered
  <2>4. Handled(p) /\ Header + pipe[p].written = handler[p].size + pipe[p].bytes
          => Header + (pipe[p].written + n) = handler[p].size + (pipe[p].bytes + n)
    <3>1. Handled(p) => handler[p].size \in Nat
      BY <1>1 DEF Collected, Sane
    <3>2. pipe[p].written \in Nat /\ pipe[p].bytes \in Nat /\ n \in Nat /\ Header \in Nat
      BY <1>1, ChunksAssumption DEF Counted
    <3> QED  BY <3>1, <3>2
  <2>5. Exact(p)'
    BY <1>1, <1>2, <2>2, <2>3, <2>4 DEF Exact, Handled
  <2> QED  BY <1>2, <2>2, <2>5, OtherExact
<1>4. CASE ClientCloses(p)
  <2>1. /\ pipe'[p].bytes = pipe[p].bytes /\ pipe'[p].written = pipe[p].written
        /\ pipe'[p].from = pipe[p].from /\ pipe'[p].padded = pipe[p].padded
        /\ \A o \in Pipes \ {p} : pipe'[o] = pipe[o]
    BY <1>1, <1>4 DEF ClientCloses, Shapes, Fields
  <2>2. Exact(p)'
    BY <1>1, <1>2, <2>1 DEF Exact, Handled
  <2> QED  BY <1>2, <2>1, <2>2, OtherExact
<1>5. CASE ClientReads(p) \/ ClientAbandons(p)
  <2>1. /\ pipe'[p].written = pipe[p].written /\ ~Handled(p)
        /\ pipe'[p].from = pipe[p].from /\ pipe'[p].padded = pipe[p].padded
        /\ \A o \in Pipes \ {p} : pipe'[o] = pipe[o]
    BY <1>1, <1>5 DEF ClientReads, ClientAbandons, Shapes, Fields
  <2>2. Exact(p)'
    BY <1>1, <1>2, <2>1 DEF Exact, Handled
  <2> QED  BY <1>2, <2>1, <2>2, OtherExact
<1> QED  BY <1>3, <1>4, <1>5

LEMMA DisplayDestroyExact ==
  ASSUME IInv, TallyExact, DisplayDestroy
  PROVE  TallyExact'
<1> SUFFICES ASSUME NEW p \in Pipes PROVE Exact(p)'
  BY DEF TallyExact
<1>1. /\ pipe'[p] = IF Writing(p) THEN [pipe[p] EXCEPT !.writable = FALSE]
                    ELSE IF Handled(p) THEN [pipe[p] EXCEPT !.readable = FALSE]
                    ELSE pipe[p]
      /\ handler'[p] = NoHandler /\ delivered' = delivered
  BY DEF DisplayDestroy
<1>2. DOMAIN pipe[p] = Fields /\ Exact(p)
  BY DEF IInv, Shapes, TallyExact
<1>3. /\ pipe'[p].from = pipe[p].from /\ pipe'[p].written = pipe[p].written
      /\ pipe'[p].padded = pipe[p].padded
  BY <1>1, <1>2 DEF Fields
<1> QED  BY <1>1, <1>2, <1>3 DEF Exact, Handled, NoHandler

-----------------------------------------------------------------------------
(* The theorems.                                                           *)

\* The invariant holds initially and every step keeps it: qubes_data_source.c
\* and qubes_clipboard.c, for any contents, clients and pipes.
THEOREM Invariance == Spec => []IInv
<1>1. IInv /\ [Next]_vars => IInv'
  <2> SUFFICES ASSUME IInv, [Next]_vars
               PROVE  IInv'
    OBVIOUS
  <2>1. ASSUME NEW d \in Data, NEW n \in Lengths, HandleClipboardData(d, n) PROVE IInv'
    BY <2>1, HandleClipboardDataInv
  <2>2. CASE SetSelection
    BY <2>2, Deselect DEF SetSelection
  <2>3. CASE LoseSelection
    <3>1. refs' = Release(refs) /\ selection' \notin Data
      BY <2>3 DEF LoseSelection, Release
    <3> QED  BY <2>3, <3>1, Deselect DEF LoseSelection
  <2>4. ASSUME NEW p \in Pipes, Paste(p) PROVE IInv'
    BY <2>4, PasteInv
  <2>5. ASSUME NEW p \in Pipes, OnWritable(p) PROVE IInv'
    BY <2>5, OnWritableInv
  <2>6. ASSUME NEW p \in Pipes, HandleClipboardRequest(p) PROVE IInv'
    BY <2>6, HandleClipboardRequestInv
  <2>7. ASSUME NEW p \in Pipes, OnReadable(p) PROVE IInv'
    BY <2>7, OnReadableInv
  <2>8. ASSUME NEW p \in Pipes, Read(p) PROVE IInv'
    BY <2>8, ReadInv
  <2>9. ASSUME NEW p \in Pipes,
               ClientWrites(p) \/ ClientCloses(p) \/ ClientReads(p) \/ ClientAbandons(p)
        PROVE  IInv'
    BY <2>9, ClientInv
  <2>10. CASE DisplayDestroy
    BY <2>10, DisplayDestroyInv
  <2>11. CASE UNCHANGED vars
    BY <2>11, StutterInv
  <2> QED
    BY <2>1, <2>2, <2>3, <2>4, <2>5, <2>6, <2>7, <2>8, <2>9, <2>10, <2>11 DEF Next
<1> QED  BY InitInv, <1>1, PTL DEF Spec

\* No content is freed while a source or a writer uses it, nor kept after
\* ("Use after free!", qubes_data_source.c:93).
THEOREM ContentsCounted == Spec => []RefsExact
BY Invariance, PTL DEF IInv

\* A client that keeps its pipe open gets all of what it pasted, though others
\* paste and the selection is replaced meanwhile.
THEOREM PastesComplete == Spec => []PastedWhole
<1>1. IInv => PastedWhole
  BY DEF IInv, Sound, Complete, PastedWhole
<1> QED  BY Invariance, <1>1, PTL

\* The pipe that the compositor writes and reads itself takes a content at once:
\* no writer waits for the one thread that would have to read.
THEOREM NoSelfWait == Spec => []NeverBlocksItself
<1>1. IInv => NeverBlocksItself
  BY DEF IInv, Sound, Underway, NeverBlocksItself
<1> QED  BY Invariance, <1>1, PTL

\* What the reader collects, whatever clients write: the second invariant, which every
\* step keeps that keeps the first.
THEOREM TallyInvariance == Spec => []Tally
<1>1. IInv /\ Tally /\ [Next]_vars => Tally'
  <2> SUFFICES ASSUME IInv, Tally, [Next]_vars
               PROVE  Tally'
    OBVIOUS
  <2>1. ASSUME NEW d \in Data, NEW n \in Lengths, HandleClipboardData(d, n) PROVE Tally'
    <3>1. UNCHANGED <<pipe, writer, handler, delivered>> /\ Selectable'
      BY <2>1 DEF HandleClipboardData, Selectable
    <3> QED  BY <3>1, SameKept
  <2>2. CASE SetSelection
    <3>1. UNCHANGED <<pipe, writer, handler, delivered>> /\ Selectable'
      BY <2>2 DEF SetSelection, Selectable
    <3> QED  BY <3>1, SameKept
  <2>3. CASE LoseSelection
    <3>1. UNCHANGED <<pipe, writer, handler, delivered>> /\ Selectable'
      BY <2>3 DEF LoseSelection, Selectable
    <3> QED  BY <3>1, SameKept
  <2>4. ASSUME NEW p \in Pipes, Paste(p) PROVE Tally'
    BY <2>4, PasteKept
  <2>5. ASSUME NEW p \in Pipes, OnWritable(p) PROVE Tally'
    BY <2>5, OnWritableKept
  <2>6. ASSUME NEW p \in Pipes, HandleClipboardRequest(p) PROVE Tally'
    BY <2>6, HandleClipboardRequestKept
  <2>7. ASSUME NEW p \in Pipes, OnReadable(p) PROVE Tally'
    <3>1. UNCHANGED <<pipe, writer, handler, delivered>> /\ Selectable'
      BY <2>7 DEF OnReadable, Tally, Selectable
    <3> QED  BY <3>1, SameKept
  <2>8. ASSUME NEW p \in Pipes, Read(p) PROVE Tally'
    BY <2>8, ReadKept
  <2>9. ASSUME NEW p \in Pipes,
               ClientWrites(p) \/ ClientCloses(p) \/ ClientReads(p) \/ ClientAbandons(p)
        PROVE  Tally'
    BY <2>9, ClientKept
  <2>10. CASE DisplayDestroy
    BY <2>10, DisplayDestroyKept
  <2>11. CASE UNCHANGED vars
    <3>1. UNCHANGED <<pipe, writer, handler, delivered>> /\ Selectable'
      BY <2>11 DEF vars, Tally, Selectable
    <3> QED  BY <3>1, SameKept
  <2> QED
    BY <2>1, <2>2, <2>3, <2>4, <2>5, <2>6, <2>7, <2>8, <2>9, <2>10, <2>11 DEF Next
<1> QED  BY Invariance, InitTally, <1>1, PTL DEF Spec

\* Every variable keeps its range: no pipe holds more than its capacity, and no count of
\* references is below zero or above what the pipes and the source can hold.
THEOREM TypeCorrect == Spec => []TypeOK
<1>1. IInv /\ Tally => TypeOK
  <2> SUFFICES ASSUME IInv, Tally PROVE TypeOK
    OBVIOUS
  <2>1. /\ running \in BOOLEAN /\ busy \in Pipes \cup {NoPipe}
        /\ selection \in Data \cup {NoData, Client}
        /\ length \in [Data -> 0 .. MaxSize]
    BY DEF IInv, Shapes, Tally, Selectable
  <2>2. refs \in [Data -> 0 .. Cardinality(Pipes) + 1]
    <3>1. ASSUME NEW d \in Data
          PROVE  refs[d] \in 0 .. Cardinality(Pipes) + 1
      <4> DEFINE c == Cardinality(WritersOf(d))
      <4>1. WritersOf(d) \subseteq Pipes
        BY DEF WritersOf
      <4>2. c \in Nat /\ Cardinality(Pipes) \in Nat /\ c <= Cardinality(Pipes)
        BY <4>1, WritersFinite, FS_Subset, FS_CardinalityType
      <4>3. refs[d] = c + (IF selection = d THEN 1 ELSE 0)
        BY DEF IInv, RefsExact, References
      <4> HIDE DEF c
      <4> QED  BY <4>2, <4>3
    <3>2. refs \in [Data -> Int]
      BY DEF IInv, Shapes
    <3> QED  BY <3>1, <3>2
  <2>3. ASSUME NEW p \in Pipes
        PROVE  /\ pipe[p].bytes \in 0 .. pipe[p].capacity
               /\ writer[p].data \in Data \cup {NoData} /\ writer[p].left \in 0 .. MaxSize
               /\ delivered[p] \in Nat \cup {Nothing}
    <3>1. Counted(p) /\ Answered(p) /\ Underway(p)
      BY DEF Tally, Kept, IInv, Sound
    <3>2. CASE Writing(p)
      <4>1. /\ writer[p].data \in Data /\ writer[p].left \in Nat
            /\ pipe[p].written \in Nat
            /\ pipe[p].written + writer[p].left = length[writer[p].data]
        BY <3>1, <3>2 DEF Underway, Counted
      <4>2. length[writer[p].data] \in 0 .. MaxSize
        BY <2>1, <4>1
      <4> QED  BY <3>1, <4>1, <4>2 DEF Counted, Answered
    <3>3. CASE ~Writing(p)
      BY <3>1, <3>3 DEF Counted, Answered, NoWriter
    <3> QED  BY <3>2, <3>3
  <2> QED  BY <2>1, <2>2, <2>3 DEF TypeOK
<1> QED  BY Invariance, TallyInvariance, <1>1, PTL

\* The reader's array is within its allocation ("corrupt wl_array", qubes_clipboard.c:62,
\* 77 and 121) whatever clients write, and a read has room for a byte: that it returns 0
\* means the end of the file.
ArrayInBounds ==
  \A p \in Pipes :
    Handled(p) =>
      /\ Sane(handler[p])
      /\ handler[p].size <= MaxMessage =>
           Sane(Grown(handler[p])) /\ handler[p].size < Grown(handler[p]).alloc

THEOREM ReadsInBounds == Spec => []ArrayInBounds
<1>1. Tally => ArrayInBounds
  BY GrownRoom DEF Tally, Kept, Collected, ArrayInBounds
<1> QED  BY TallyInvariance, <1>1, PTL

\* Whatever clients write, and however the array grows: what the daemon is sent is sent
\* when the pipe is closed and holds every byte, and a content of the daemon's own goes
\* back to it as it came.
SentWhole ==
  \A p \in Pipes :
    delivered[p] # Nothing =>
      /\ ~pipe[p].writable /\ pipe[p].written <= delivered[p]
      /\ pipe[p].from \in Data => delivered[p] = pipe[p].written

THEOREM NothingLost == Spec => []SentWhole
<1>1. Tally => SentWhole
  BY DEF Tally, Kept, Answered, SentWhole
<1> QED  BY TallyInvariance, <1>1, PTL

\* Nothing but what was written gets into the array, or is sent, before a read finds
\* nothing just after it has grown.
THEOREM ExactInvariance == Spec => []TallyExact
<1>1. Init => TallyExact
  BY DEF Init, TallyExact, Exact, FreshPipe, ClosedPipe, Handled, NoHandler
<1>2. IInv /\ Tally /\ TallyExact /\ [Next]_vars => TallyExact'
  <2> SUFFICES ASSUME IInv, Tally, TallyExact, [Next]_vars
               PROVE  TallyExact'
    OBVIOUS
  <2>1. CASE UNCHANGED <<pipe, handler, delivered>>
    BY <2>1, SameExact
  <2>2. ASSUME NEW p \in Pipes, Paste(p) PROVE TallyExact'
    <3> DEFINE d == selection
               q == OpenPipe(ClientCapacity, selection)
    <3>1. /\ d \in Data /\ WriteData(p, q, d, length[d], Retain(d))
          /\ UNCHANGED <<handler, delivered>>
      BY <2>2 DEF Paste
    <3>2. DOMAIN q = Fields /\ q.from = d
      BY DEF OpenPipe, Fields
    <3>3. ~Handled(p)'
      BY <2>2, <3>1 DEF Paste, IInv, Sound, Unused, Handled
    <3> HIDE DEF q, d
    <3> QED  BY <3>1, <3>2, <3>3, OwnExact
  <2>3. ASSUME NEW p \in Pipes, OnWritable(p) PROVE TallyExact'
    <3>1. /\ Writing(p) /\ UNCHANGED <<handler, delivered>>
          /\ WriteData(p, pipe[p], writer[p].data, writer[p].left, refs)
      BY <2>3 DEF OnWritable
    <3>2. /\ DOMAIN pipe[p] = Fields /\ writer[p].data \in Data
          /\ pipe[p].from = writer[p].data /\ ~Handled(p)'
      BY <3>1 DEF IInv, Shapes, Sound, Underway, Handled
    <3> QED  BY <3>1, <3>2, OwnExact
  <2>4. ASSUME NEW p \in Pipes, HandleClipboardRequest(p) PROVE TallyExact'
    BY <2>4, HandleClipboardRequestExact
  <2>5. ASSUME NEW p \in Pipes, Read(p) PROVE TallyExact'
    BY <2>5, ReadExact
  <2>6. ASSUME NEW p \in Pipes,
               ClientWrites(p) \/ ClientCloses(p) \/ ClientReads(p) \/ ClientAbandons(p)
        PROVE  TallyExact'
    BY <2>6, ClientExact
  <2>7. CASE DisplayDestroy
    BY <2>7, DisplayDestroyExact
  <2>8. CASE \/ \E d \in Data, n \in Lengths : HandleClipboardData(d, n)
             \/ SetSelection \/ LoseSelection \/ \E p \in Pipes : OnReadable(p)
             \/ UNCHANGED vars
    BY <2>1, <2>8 DEF HandleClipboardData, SetSelection, LoseSelection, OnReadable, vars
  <2> QED  BY <2>2, <2>3, <2>4, <2>5, <2>6, <2>7, <2>8 DEF Next
<1> QED  BY Invariance, TallyInvariance, <1>1, <1>2, PTL DEF Spec

\* The daemon is sent all that was written, after the pipe was closed, and no more than
\* that but where a read found nothing just after the array had grown
\* (qubes_clipboard.c:64-75 and 97-103), whatever clients write and wherever they pause.
THEOREM NothingAdded == Spec => []SentAsWritten
<1>1. Tally /\ TallyExact => SentAsWritten
  <2> SUFFICES ASSUME Tally, TallyExact, NEW p \in Pipes, delivered[p] # Nothing
               PROVE  /\ ~pipe[p].writable /\ delivered[p] >= pipe[p].written
                      /\ ~pipe[p].padded => delivered[p] = pipe[p].written
    BY DEF SentAsWritten
  <2>1. Answered(p) /\ Exact(p) /\ Counted(p)
    BY DEF Tally, Kept, TallyExact
  <2>2. ~pipe[p].padded => delivered[p] = pipe[p].written
    BY <2>1 DEF Answered, Exact
  <2>3. delivered[p] >= pipe[p].written
    BY <2>1 DEF Answered, Counted
  <2> QED  BY <2>1, <2>2, <2>3 DEF Answered
<1> QED  BY TallyInvariance, ExactInvariance, <1>1, PTL

\* The loop's assertion ("already made array too large?", qubes_clipboard.c:65) can fail
\* only for a pipe with such a read: ArrayNotTooLarge, which clients can break, holds of
\* every other.
TooLargeOnlyPadded ==
  \A p \in Pipes : busy = p /\ ~pipe[p].padded => handler[p].size <= MaxMessage

THEOREM ArraySmallEnough == Spec => []TooLargeOnlyPadded
<1>1. IInv /\ TallyExact => TooLargeOnlyPadded
  BY DEF IInv, TallyExact, Exact, TooLargeOnlyPadded
<1> QED  BY Invariance, ExactInvariance, <1>1, PTL
=============================================================================
