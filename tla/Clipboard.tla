------------------------------ MODULE Clipboard ------------------------------
(***************************************************************************)
(* The clipboard in both directions.                                        *)
(*                                                                          *)
(* MSG_CLIPBOARD_DATA of the daemon becomes the selection, a data source    *)
(* that writes to the pipe of every client that pastes it                   *)
(* (qubes_data_source.c).  MSG_CLIPBOARD_REQ makes the compositor read the  *)
(* selection from a pipe and send it to the daemon (qubes_clipboard.c).     *)
(*                                                                          *)
(* Data is modelled by its length: a pipe holds a number of bytes, and what *)
(* is sent to the daemon is right when as many bytes are sent as were       *)
(* written.  The compositor is one thread; clients read and write between   *)
(* any two of its reads.                                                    *)
(***************************************************************************)
EXTENDS Integers, FiniteSets, FiniteSetsExt

CONSTANTS
    Data,           \* the clipboard contents the daemon sends, each once
    Lengths,        \* their lengths
    Pipes,          \* bound: the pipes opened
    Chunks,         \* the sizes of a client's writes
    MaxWritten,     \* bound: what a client writes to one pipe
    Header,         \* sizeof(struct msg_hdr)
    MaxSize,        \* MAX_CLIPBOARD_SIZE
    Growth,         \* the step of the reader's array, 0xFF
    MinAlloc,       \* the first allocation of a wl_array, 16
    MaxDoublings,   \* bound: how often it doubles
    ClientCapacity, \* the capacity of a pipe made by a client
    OwnCapacity,    \* the capacity of a pipe made by the compositor
    NoPipe, NoData, Client  \* no pipe, no content, a client's selection

MaxMessage == MaxSize + Header

ASSUME LengthsAssumption == Lengths \subseteq 1 .. MaxSize
ASSUME CapacityAssumption ==
    ClientCapacity \in Nat \ {0} /\ OwnCapacity \in Nat /\ MaxSize <= OwnCapacity
ASSUME NamesAssumption == {NoData, Client} \cap Data = {} /\ NoPipe \notin Pipes
ASSUME PipesAssumption == IsFiniteSet(Pipes)
ASSUME SizesAssumption == {Header, MaxSize, Growth, MinAlloc} \subseteq Nat \ {0}
ASSUME ChunksAssumption == Chunks \subseteq Nat

\* The allocations of the reader's array.  They go as far as its size can.
Doublings == {MinAlloc * 2^k : k \in 0 .. MaxDoublings}

ASSUME DoublingsAssumption ==
    Doublings \subseteq Nat /\ \E a \in Doublings : 2 * MaxMessage + 1 <= a

VARIABLES
    running,    \* whether the display exists
    busy,       \* the pipe qubes_on_clipboard_data is in a loop for, or NoPipe
    selection,  \* seat->selection_source: NoData, Client, or a content of Data
    length,     \* length[d]: 0 until the daemon has sent d
    refs,       \* qubes_clipboard_data::refcount
    pipe,       \* bytes, ends and capacity of each pipe; `written' and `padded'
                \* are history: the latter, that a read found nothing just after
                \* the reader's array had grown (WouldBlock)
    writer,     \* qubes_clipboard_writer of each pipe
    handler,    \* qubes_clipboard_handler of each pipe
    delivered   \* the length sent to the daemon from each pipe, or Nothing

vars == <<running, busy, selection, length, refs, pipe, writer, handler, delivered>>

Nothing == -1

Writing(p) == writer[p].data # NoData
Handled(p) == handler[p].open

ClosedPipe == [bytes |-> 0, written |-> 0, readable |-> FALSE, writable |-> FALSE,
               capacity |-> 0, from |-> NoData, fresh |-> FALSE, padded |-> FALSE]
FreshPipe == [ClosedPipe EXCEPT !.fresh = TRUE]
OpenPipe(capacity, from) ==
    [bytes |-> 0, written |-> 0, readable |-> TRUE, writable |-> TRUE,
     capacity |-> capacity, from |-> from, fresh |-> FALSE, padded |-> FALSE]
NoWriter == [data |-> NoData, left |-> 0]
NoHandler == [open |-> FALSE, size |-> 0, alloc |-> 0]

Idle == running /\ busy = NoPipe

(***************************************************************************)
(* The selection and the references to its data.                            *)
(***************************************************************************)
\* Mutant of Release: the data of a replaced selection is kept.
ReleaseNothing(r) == r

\* qubes_data_source_destroy, of the selection that is replaced.
Release(r) ==
    IF selection \in Data THEN [r EXCEPT ![selection] = @ - 1] ELSE r

\* MSG_CLIPBOARD_DATA
HandleClipboardData(d, n) ==
    /\ Idle /\ length[d] = 0
    /\ length' = [length EXCEPT ![d] = n]
    /\ refs' = [Release(refs) EXCEPT ![d] = 1]
    /\ selection' = d
    /\ UNCHANGED <<running, busy, pipe, writer, handler, delivered>>

\* A client copies something.
SetSelection ==
    /\ Idle /\ selection # Client
    /\ refs' = Release(refs)
    /\ selection' = Client
    /\ UNCHANGED <<running, busy, length, pipe, writer, handler, delivered>>

\* The client whose selection it is goes away.
LoseSelection ==
    /\ Idle /\ selection = Client
    /\ selection' = NoData
    /\ UNCHANGED <<running, busy, length, refs, pipe, writer, handler, delivered>>

(***************************************************************************)
(* Writing to a pipe.  What is written comes after the write: a writer is    *)
(* gone when nothing is left or the other end is closed, and writes on when *)
(* there is room again (EAGAIN).                                            *)
(***************************************************************************)
\* Mutant of Wrote: one unit at a time.
WroteOne(q, left) == IF q.readable THEN Min({1, left, q.capacity - q.bytes}) ELSE 0

\* What a call of write takes of `left' bytes, with pipe q.
Wrote(q, left) == IF q.readable THEN Min({left, q.capacity - q.bytes}) ELSE 0

\* Mutants of WriterDone: after the first write; without a look at the error.
WriterDoneEarly(q, left) == ~q.readable \/ Wrote(q, left) > 0
WriterDoneIgnoresError(q, left) == Wrote(q, left) = left

WriterDone(q, left) == ~q.readable \/ Wrote(q, left) = left

\* The writer, the pipe and the references after a call of write with `left' bytes
\* of d to go.
WriteData(p, q, d, left, r) ==
    LET n == Wrote(q, left)
        done == WriterDone(q, left)
    IN  /\ pipe' = [pipe EXCEPT ![p] = [q EXCEPT !.bytes = @ + n,
                                                 !.written = @ + n,
                                                 !.writable = ~done]]
        /\ writer' = [writer EXCEPT ![p] =
                         IF done THEN NoWriter ELSE [data |-> d, left |-> left - n]]
        /\ refs' = IF done THEN [r EXCEPT ![d] = @ - 1] ELSE r

\* Mutant of Retain: the writer shares the source's reference.
RetainNot(d) == refs

\* qubes_data_source_send: the data is retained, then written at once.
Retain(d) == [refs EXCEPT ![d] = @ + 1]

\* A client asks for the selection.  Its descriptor is taken to be non-blocking,
\* though nothing here makes it so (qubes_data_source.c:133-155): a write that
\* finds no room returns.  On a blocking one the one thread would wait in it.
Paste(p) ==
    /\ Idle /\ selection \in Data /\ pipe[p].fresh
    /\ WriteData(p, OpenPipe(ClientCapacity, selection), selection, length[selection],
                 Retain(selection))
    /\ UNCHANGED <<running, busy, selection, length, handler, delivered>>

\* qubes_data_writer_write_data, called by the event loop.
OnWritable(p) ==
    /\ Idle /\ Writing(p)
    /\ ~pipe[p].readable \/ pipe[p].bytes < pipe[p].capacity
    /\ WriteData(p, pipe[p], writer[p].data, writer[p].left, refs)
    /\ UNCHANGED <<running, busy, selection, length, handler, delivered>>

(***************************************************************************)
(* Reading the selection for the daemon.                                    *)
(***************************************************************************)
\* wl_array_add doubles the allocation until the size fits.
Allocated(alloc, size) == Min({a \in Doublings : a >= alloc /\ a >= size})

FirstHandler ==
    [open |-> TRUE, size |-> Header, alloc |-> Allocated(0, Header)]

\* MSG_CLIPBOARD_REQ.  The pipe's write end is given to the client that owns the
\* selection, or written to by the compositor itself, without O_NONBLOCK.
HandleClipboardRequest(p) ==
    /\ Idle /\ pipe[p].fresh /\ selection # NoData
    /\ handler' = [handler EXCEPT ![p] = FirstHandler]
    /\ \/ /\ selection = Client
          /\ pipe' = [pipe EXCEPT ![p] = OpenPipe(OwnCapacity, selection)]
          /\ UNCHANGED <<writer, refs>>
       \/ /\ selection \in Data
          /\ WriteData(p, OpenPipe(OwnCapacity, selection), selection, length[selection],
                       Retain(selection))
    /\ UNCHANGED <<running, busy, selection, length, delivered>>

\* The event loop calls qubes_on_clipboard_data.
OnReadable(p) ==
    /\ Idle /\ Handled(p)
    /\ pipe[p].bytes > 0 \/ ~pipe[p].writable
    /\ busy' = p
    /\ UNCHANGED <<running, selection, length, refs, pipe, writer, handler, delivered>>

\* The array before a read: it grows, its size included, when it is full.
Grown(h) ==
    IF h.alloc > h.size THEN h
    ELSE LET size == h.size + Min({h.size + Growth, MaxMessage + 1})
         IN  [h EXCEPT !.size = size, !.alloc = Allocated(h.alloc, size)]

Closed(p) ==
    /\ handler' = [handler EXCEPT ![p] = NoHandler]
    /\ busy' = NoPipe

\* Mutant of AtEnd: an empty pipe is taken for a closed one.
AtEndEarly(p) == pipe[p].bytes = 0

\* The end of the file: what has been read is sent.
AtEnd(p) == pipe[p].bytes = 0 /\ ~pipe[p].writable

SendData(p) ==
    /\ AtEnd(p)
    /\ delivered' = [delivered EXCEPT ![p] = handler[p].size - Header]
    /\ pipe' = [pipe EXCEPT ![p].readable = FALSE]
    /\ Closed(p)

\* EAGAIN: the handler is called again later.  The array stays grown.
WouldBlock(p) ==
    /\ ~AtEnd(p) /\ pipe[p].bytes = 0
    /\ handler' = [handler EXCEPT ![p] = Grown(handler[p])]
    /\ pipe' = [pipe EXCEPT ![p].padded = @ \/ Grown(handler[p]) # handler[p]]
    /\ busy' = NoPipe
    /\ UNCHANGED delivered

ReadData(p) ==
    LET h == handler[p]
        n == Min({pipe[p].bytes, Min({Grown(h).alloc, MaxMessage + 1}) - h.size})
    IN  /\ n > 0
        /\ \/ /\ h.size + n > MaxMessage
              /\ pipe' = [pipe EXCEPT ![p].bytes = @ - n, ![p].readable = FALSE]
              /\ Closed(p)
           \/ /\ h.size + n <= MaxMessage
              /\ pipe' = [pipe EXCEPT ![p].bytes = @ - n]
              /\ handler' = [handler EXCEPT ![p] = [Grown(h) EXCEPT !.size = h.size + n]]
              /\ UNCHANGED busy
        /\ UNCHANGED delivered

\* One turn of the loop of qubes_on_clipboard_data, for a handler whose size
\* passes the loop's assertion.
Read(p) ==
    /\ running /\ busy = p
    /\ handler[p].size <= MaxMessage
    /\ SendData(p) \/ WouldBlock(p) \/ ReadData(p)
    /\ UNCHANGED <<running, selection, length, refs, writer>>

(***************************************************************************)
(* The clients' ends of the pipes.                                          *)
(***************************************************************************)
ClientOwns(p) == pipe[p].writable /\ pipe[p].from = Client

ClientWrites(p) ==
    /\ running /\ ClientOwns(p) /\ pipe[p].readable
    /\ \E n \in Chunks :
          /\ pipe[p].written + n <= MaxWritten
          /\ pipe[p].bytes + n <= pipe[p].capacity
          /\ pipe' = [pipe EXCEPT ![p].bytes = @ + n, ![p].written = @ + n]
    /\ UNCHANGED <<running, busy, selection, length, refs, writer, handler, delivered>>

ClientCloses(p) ==
    /\ running /\ ClientOwns(p)
    /\ pipe' = [pipe EXCEPT ![p].writable = FALSE]
    /\ UNCHANGED <<running, busy, selection, length, refs, writer, handler, delivered>>

ClientReads(p) ==
    /\ running /\ ~Handled(p) /\ pipe[p].readable /\ pipe[p].bytes > 0
    /\ pipe' = [pipe EXCEPT ![p].bytes = 0]
    /\ UNCHANGED <<running, busy, selection, length, refs, writer, handler, delivered>>

ClientAbandons(p) ==
    /\ running /\ ~Handled(p) /\ Writing(p) /\ pipe[p].readable
    /\ pipe' = [pipe EXCEPT ![p].readable = FALSE]
    /\ UNCHANGED <<running, busy, selection, length, refs, writer, handler, delivered>>

(***************************************************************************)
(* wl_display_destroy: the listeners of the writers and handlers, and the   *)
(* seat's, which destroys the selection.                                    *)
(***************************************************************************)
WritersOf(d) == {p \in Pipes : writer[p].data = d}
References(d) == Cardinality(WritersOf(d)) + (IF selection = d THEN 1 ELSE 0)

DisplayDestroy ==
    /\ Idle
    /\ running' = FALSE
    /\ selection' = NoData
    /\ refs' = [d \in Data |-> Release(refs)[d] - Cardinality(WritersOf(d))]
    /\ pipe' = [p \in Pipes |->
                  IF Writing(p) THEN [pipe[p] EXCEPT !.writable = FALSE]
                  ELSE IF Handled(p) THEN [pipe[p] EXCEPT !.readable = FALSE]
                  ELSE pipe[p]]
    /\ writer' = [p \in Pipes |-> NoWriter]
    /\ handler' = [p \in Pipes |-> NoHandler]
    /\ UNCHANGED <<busy, length, delivered>>

(***************************************************************************)
(* The specification.                                                       *)
(***************************************************************************)
Init ==
    /\ running = TRUE /\ busy = NoPipe
    /\ selection = NoData
    /\ length = [d \in Data |-> 0] /\ refs = [d \in Data |-> 0]
    /\ pipe = [p \in Pipes |-> FreshPipe]
    /\ writer = [p \in Pipes |-> NoWriter]
    /\ handler = [p \in Pipes |-> NoHandler]
    /\ delivered = [p \in Pipes |-> Nothing]

Next ==
    \/ \E d \in Data, n \in Lengths : HandleClipboardData(d, n)
    \/ SetSelection \/ LoseSelection
    \/ \E p \in Pipes :
          \/ Paste(p) \/ OnWritable(p)
          \/ HandleClipboardRequest(p) \/ OnReadable(p) \/ Read(p)
          \/ ClientWrites(p) \/ ClientCloses(p)
          \/ ClientReads(p) \/ ClientAbandons(p)
    \/ DisplayDestroy

Spec == Init /\ [][Next]_vars

\* The event loop serves every descriptor that is ready; clients read what they
\* asked for and close what they have written.
FairSpec ==
    /\ Spec
    /\ \A p \in Pipes :
          /\ SF_vars(OnWritable(p)) /\ SF_vars(OnReadable(p)) /\ WF_vars(Read(p))
          /\ WF_vars(ClientReads(p)) /\ WF_vars(ClientCloses(p))

(***************************************************************************)
(* Properties.                                                              *)
(***************************************************************************)
TypeOK ==
    /\ running \in BOOLEAN /\ busy \in Pipes \cup {NoPipe}
    /\ selection \in Data \cup {NoData, Client}
    /\ length \in [Data -> 0 .. MaxSize]
    /\ refs \in [Data -> 0 .. Cardinality(Pipes) + 1]
    /\ \A p \in Pipes :
          /\ pipe[p].bytes \in 0 .. pipe[p].capacity
          /\ writer[p].data \in Data \cup {NoData} /\ writer[p].left \in 0 .. MaxSize
          /\ delivered[p] \in Nat \cup {Nothing}

\* Every reference to a content is counted, by its source or by a writer: it is
\* freed with the last of them and no write uses it after that ("Use after free!").
RefsExact == \A d \in Data : refs[d] = References(d)

\* A client that does not abandon its pipe gets the whole content, also when the
\* selection changes half-way.
PastedWhole ==
    \A p \in Pipes :
       running /\ pipe[p].from \in Data /\ pipe[p].readable /\ ~pipe[p].writable
          => pipe[p].written = length[pipe[p].from]

\* What the daemon is sent is sent after the pipe was closed (a read that finds
\* nothing, qubes_clipboard.c:97-103, is not the end) and holds every byte that
\* was written to it.  It is no more than that, unless such a read came just when
\* the array had grown: then the growth is sent as well.
SentAsWritten ==
    \A p \in Pipes :
       delivered[p] # Nothing =>
         /\ ~pipe[p].writable /\ delivered[p] >= pipe[p].written
         /\ ~pipe[p].padded => delivered[p] = pipe[p].written

\* The compositor, the only reader of its own pipe, never waits for room in it.
NeverBlocksItself == \A p \in Pipes : ~(Writing(p) /\ Handled(p))

\* qubes_clipboard.c:65, an assertion: "already made array too large?".
ArrayNotTooLarge == \A p \in Pipes : busy = p => handler[p].size <= MaxMessage

\* Every transfer ends, and with it the use of its data and descriptors, for
\* clients that read what they asked for until they have it or give it up, and
\* close what they write to (FairSpec).
TransfersEnd ==
    \A p \in Pipes : (Writing(p) \/ Handled(p)) ~> ~(Writing(p) \/ Handled(p))
=============================================================================
