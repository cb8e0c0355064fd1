------------------------------ MODULE DumpQueue ------------------------------
(***************************************************************************)
(* Who keeps the memory of a frame alive: the buffers of grant references  *)
(* (qubes_allocator.c), the buffer an output shows (qubes_output_commit,   *)
(* qubes_output_deinit_raw) and the queue of links to the dumps that the   *)
(* GUI daemon has yet to acknowledge (qubes_output_dump_buffer,            *)
(* MSG_WINDOW_DUMP_ACK in qubes_parse_event), across reconnections and     *)
(* with daemons older than protocol 1.7, which do not acknowledge.         *)
(*                                                                         *)
(* A message is the dump itself, and its acknowledgement the same record:  *)
(* the code never looks at which buffer is acknowledged, it pops the       *)
(* oldest link; the buf of an acknowledgement is there for the properties. *)
(* Windows exist from the first handshake on: with one created before it   *)
(* the daemon quits at once (GuiSessionSecondCreate).                      *)
(*                                                                         *)
(* ReferencesAtOnce, ReferencesUnowned, LinkedUncounted, LinkFirst,        *)
(* ResizeDropsShown and ReadAckLazy are not part of the model: each is a   *)
(* plausible mistake in the operator that follows it, there to show that a *)
(* property would notice the mistake.                                      *)
(***************************************************************************)
EXTENDS Integers, Sequences, FiniteSets

CONSTANTS
  Outputs,      \* windows; an id is never used again, so each lives once
  Buffers,      \* addresses of struct qubes_buffer
  NoBuffer,     \* the null output->buffer
  ChainCap,     \* WLR_SWAPCHAIN_CAP
  MaxSessions,  \* bound: handshakes in a behaviour
  MaxQueue      \* bound: links that stop rendering

ASSUME BuffersAssumption == IsFiniteSet(Buffers) /\ NoBuffer \notin Buffers
ASSUME CapAssumption ==
  ChainCap \in Nat /\ MaxSessions \in Nat /\ MaxQueue \in Nat

VARIABLES
  refcount,   \* buffer->refcount, 0 when the memory is free
  alloc,      \* allocator->refcount
  open,       \* allocator->xenfd # -1
  chain,      \* the swapchain wlroots keeps for each output
  current,    \* output->buffer, locked
  status,     \* life of each output: "absent", "live", "gone"
  queue,      \* server->queue_head .. queue_tail, the buffers linked
  acks,       \* backend->protocol_version >= 0x10007
  enabled, running, todo, conn, session,      \* as in GuiSession
  toDaemon,   \* dumps written or queued, not read by the daemon
  toAgent     \* acknowledgements the agent has not read

bufferVars  == <<refcount, alloc>>
outputVars  == <<chain, current, status>>
sessionVars == <<acks, enabled, todo, conn, session>>
vars == <<bufferVars, open, outputVars, queue, sessionVars, running, toDaemon, toAgent>>

-----------------------------------------------------------------------------
Dumps == [win : Outputs, buf : Buffers]
Dump(o, b) == [win |-> o, buf |-> b]

Used   == {b \in Buffers : refcount[b] > 0}
Shown  == {o \in Outputs : current[o] # NoBuffer}
Held(b) == \E o \in Outputs : b \in chain[o] \/ current[o] = b

\* qubes_buffer_create (new), the link of a dump (linked) and the calls of
\* qubes_buffer_destroy (dropped): the last reference frees the buffer, and a
\* buffer holds a reference to the allocator.
ReferencesAtOnce(new, linked, dropped) ==
  LET ref(b) == IF b \in dropped THEN 0
                ELSE refcount[b] + (IF b \in new THEN 1 ELSE 0)
                                 + (IF b \in linked THEN 1 ELSE 0)
  IN /\ refcount' = [b \in Buffers |-> ref(b)]
     /\ alloc' = alloc + Cardinality(new) - Cardinality(dropped)
ReferencesUnowned(new, linked, dropped) ==
  LET ref(b) == refcount[b] + (IF b \in new THEN 1 ELSE 0)
                            + (IF b \in linked THEN 1 ELSE 0)
                            - (IF b \in dropped THEN 1 ELSE 0)
  IN /\ refcount' = [b \in Buffers |-> ref(b)]
     /\ alloc' = alloc - Cardinality({b \in dropped : ref(b) = 0})
References(new, linked, dropped) ==
  LET ref(b) == refcount[b] + (IF b \in new THEN 1 ELSE 0)
                            + (IF b \in linked THEN 1 ELSE 0)
                            - (IF b \in dropped THEN 1 ELSE 0)
  IN /\ refcount' = [b \in Buffers |-> ref(b)]
     /\ alloc' = alloc + Cardinality(new)
                       - Cardinality({b \in dropped : ref(b) = 0})

\* qubes_output_dump_buffer: the buffers linked, and the message.
LinkedUncounted(b) == {}
Linked(b) == IF acks THEN {b} ELSE {}
LinkFirst(b) == queue' = IF acks THEN <<b>> \o queue ELSE queue
Link(b) == queue' = IF acks THEN Append(queue, b) ELSE queue
SendDump(o, b) ==
  toDaemon' = IF enabled /\ conn # "broken" THEN Append(toDaemon, Dump(o, b)) ELSE toDaemon

-----------------------------------------------------------------------------
(* Rendering: wlroots renders a frame into a buffer of the swapchain and   *)
(* commits it; it drops the swapchain when the size of the output changes. *)

LoopTurn == running /\ todo = {}

NewOutput(o) ==
  /\ LoopTurn /\ session > 0 /\ status[o] = "absent"
  /\ status' = [status EXCEPT ![o] = "live"]
  /\ UNCHANGED <<bufferVars, open, chain, current, queue, sessionVars, running,
                 toDaemon, toAgent>>

\* qubes_output_commit: the old buffer is unlocked, and destroyed if its
\* swapchain is gone; the new one is locked and dumped.
Commit(o, b) ==
  LET new == {b} \ chain[o]
      old == {current[o]} \ (chain[o] \cup {NoBuffer})
  IN /\ LoopTurn /\ status[o] = "live" /\ b # current[o]
     /\ Len(queue) < MaxQueue /\ Len(toDaemon) < MaxQueue
     /\ new # {} => refcount[b] = 0 /\ Cardinality(chain[o]) < ChainCap
     /\ References(new, Linked(b), old)
     /\ chain' = [chain EXCEPT ![o] = @ \cup {b}]
     /\ current' = [current EXCEPT ![o] = b]
     /\ Link(b) /\ SendDump(o, b)
     /\ UNCHANGED <<open, status, sessionVars, running, toAgent>>

\* The swapchain is replaced; the buffer shown stays locked.
ResizeDropsShown(o) ==
  /\ LoopTurn /\ status[o] = "live" /\ chain[o] # {}
  /\ References({}, {}, chain[o])
  /\ chain' = [chain EXCEPT ![o] = {}]
  /\ UNCHANGED <<open, current, status, queue, sessionVars, running, toDaemon, toAgent>>
Resize(o) ==
  /\ LoopTurn /\ status[o] = "live" /\ chain[o] # {}
  /\ References({}, {}, chain[o] \ {current[o]})
  /\ chain' = [chain EXCEPT ![o] = {}]
  /\ UNCHANGED <<open, current, status, queue, sessionVars, running, toDaemon, toAgent>>

\* qubes_output_deinit: wlr_output_destroy drops the swapchain, then
\* qubes_output_deinit_raw unlocks the buffer shown.
DestroyOutput(o) ==
  /\ todo = {} /\ status[o] = "live"
  /\ status' = [status EXCEPT ![o] = "gone"]
  /\ References({}, {}, (chain[o] \cup {current[o]}) \ {NoBuffer})
  /\ chain' = [chain EXCEPT ![o] = {}]
  /\ current' = [current EXCEPT ![o] = NoBuffer]
  /\ UNCHANGED <<open, queue, sessionVars, running, toDaemon, toAgent>>

-----------------------------------------------------------------------------
(* The event loop's vchan source.                                          *)

\* MSG_WINDOW_DUMP_ACK.  The Rust code drops it when the window is gone.
ReadAckLazy ==
  /\ LoopTurn /\ conn # "waiting" /\ toAgent # <<>>
  /\ toAgent' = Tail(toAgent)
  /\ IF status[Head(toAgent).win] = "live" /\ queue # <<>> /\ ~Held(Head(queue))
     THEN /\ queue' = Tail(queue)
          /\ References({}, {}, {Head(queue)})
     ELSE UNCHANGED <<queue, bufferVars>>
  /\ UNCHANGED <<open, outputVars, sessionVars, running, toDaemon>>
ReadAck ==
  /\ LoopTurn /\ conn # "waiting" /\ toAgent # <<>>
  /\ toAgent' = Tail(toAgent)
  /\ IF status[Head(toAgent).win] = "live" /\ queue # <<>>
     THEN /\ queue' = Tail(queue)
          /\ References({}, {}, {Head(queue)})
     ELSE UNCHANGED <<queue, bufferVars>>
  /\ UNCHANGED <<open, outputVars, sessionVars, running, toDaemon>>

\* qubes_reconnect, message 1.  The queue of links is left alone.
Reconnect ==
  /\ LoopTurn /\ conn = "broken"
  /\ conn' = "waiting" /\ enabled' = FALSE
  /\ toDaemon' = <<>> /\ toAgent' = <<>>
  /\ UNCHANGED <<bufferVars, open, outputVars, queue, acks, running, todo, session>>

\* qubes_reconnect, message 2: the version of the new daemon, then each window
\* that shows a buffer dumps it once more.
Reconnected(version17) ==
  /\ LoopTurn /\ conn = "handshaken"
  /\ conn' = "up" /\ enabled' = TRUE /\ session' = session + 1
  /\ acks' = version17 /\ todo' = Shown
  /\ UNCHANGED <<bufferVars, open, outputVars, queue, running, toDaemon, toAgent>>

\* qubes_recreate_window
RecreateWindow(o) ==
  /\ running /\ o \in todo
  /\ todo' = todo \ {o}
  /\ References({}, Linked(current[o]), {})
  /\ Link(current[o]) /\ SendDump(o, current[o])
  /\ UNCHANGED <<open, outputVars, acks, enabled, running, conn, session, toAgent>>

\* The end of main: the outputs go with the clients, then the allocator.
Stop ==
  /\ LoopTurn
  /\ running' = FALSE
  /\ UNCHANGED <<bufferVars, open, outputVars, queue, sessionVars, toDaemon, toAgent>>

\* qubes_allocator_destroy
DestroyAllocator ==
  /\ ~running /\ open /\ \A o \in Outputs : status[o] # "live"
  /\ open' = FALSE /\ alloc' = alloc - 1
  /\ UNCHANGED <<refcount, outputVars, queue, sessionVars, running, toDaemon, toAgent>>

-----------------------------------------------------------------------------
(* The daemon and the vchan, outside src/.                                 *)

Connected == conn \in {"handshaken", "up"}

DaemonConnects ==
  /\ running /\ conn = "waiting" /\ session < MaxSessions
  /\ conn' = "handshaken"
  /\ UNCHANGED <<bufferVars, open, outputVars, queue, acks, enabled, todo, session,
                 running, toDaemon, toAgent>>

\* The daemon maps the grants of a dump and, from 1.7 on, says so.
DaemonReads ==
  /\ Connected /\ toDaemon # <<>>
  /\ toDaemon' = Tail(toDaemon)
  /\ toAgent' = IF acks THEN Append(toAgent, Head(toDaemon)) ELSE toAgent
  /\ UNCHANGED <<bufferVars, open, outputVars, queue, sessionVars, running>>

Disconnect ==
  /\ Connected /\ session < MaxSessions
  /\ conn' = "broken" /\ toDaemon' = <<>>
  /\ UNCHANGED <<bufferVars, open, outputVars, queue, acks, enabled, todo, session,
                 running, toAgent>>

-----------------------------------------------------------------------------
Init ==
  /\ refcount = [b \in Buffers |-> 0] /\ alloc = 1 /\ open = TRUE
  /\ chain = [o \in Outputs |-> {}]
  /\ current = [o \in Outputs |-> NoBuffer]
  /\ status = [o \in Outputs |-> "absent"]
  /\ queue = <<>> /\ acks = FALSE
  /\ enabled = TRUE /\ running = TRUE /\ todo = {}
  /\ conn = "waiting" /\ session = 0
  /\ toDaemon = <<>> /\ toAgent = <<>>

OutputNext ==
  \E o \in Outputs :
    \/ NewOutput(o)
    \/ \E b \in Buffers : Commit(o, b)
    \/ Resize(o)
    \/ DestroyOutput(o)
    \/ RecreateWindow(o)

Next ==
  \/ OutputNext
  \/ ReadAck
  \/ Reconnect
  \/ \E version17 \in BOOLEAN : Reconnected(version17)
  \/ Stop
  \/ DestroyAllocator
  \/ DaemonConnects
  \/ DaemonReads
  \/ Disconnect

Spec == Init /\ [][Next]_vars

-----------------------------------------------------------------------------
(* Properties.                                                             *)

TypeOK ==
  /\ refcount \in [Buffers -> Nat] /\ alloc \in Nat /\ open \in BOOLEAN
  /\ chain \in [Outputs -> SUBSET Buffers]
  /\ current \in [Outputs -> Buffers \cup {NoBuffer}]
  /\ status \in [Outputs -> {"absent", "live", "gone"}]
  /\ queue \in Seq(Buffers) /\ acks \in BOOLEAN
  /\ enabled \in BOOLEAN /\ running \in BOOLEAN /\ todo \subseteq Outputs
  /\ conn \in {"waiting", "handshaken", "up", "broken"} /\ session \in Nat
  /\ toDaemon \in Seq(Dumps) /\ toAgent \in Seq(Dumps)

Links(b) == Cardinality({k \in DOMAIN queue : queue[k] = b})

\* A buffer has one reference of wlroots and one of each link, so that it is
\* freed by the last of them, never before and never twice
\* (qubes_allocator.c:230-250, qubes_output.c:142-161).
Accounted == \A b \in Buffers : refcount[b] = (IF Held(b) THEN 1 ELSE 0) + Links(b)

\* The dumps of this session that the agent does not know to be mapped.
Unacknowledged == toAgent \o toDaemon

\* They are the last ones of the queue: what popping the head in turn relies
\* on, and what survives that the queue is neither emptied at a reconnection
\* nor popped for a window that is gone (qubes_input.c:663-678).
UnacknowledgedAreLast ==
  LET late == Len(queue) - Len(Unacknowledged)
  IN Connected /\ acks =>
       /\ late >= 0
       /\ \A k \in DOMAIN Unacknowledged : queue[late + k] = Unacknowledged[k].buf

\* The daemon finds the grants of every dump it reads allocated
\* (refcount, qubes_allocator.h:22-24; link->buffer, qubes_output.c:148-151).
DumpedStaysGranted ==
  Connected /\ acks => \A k \in DOMAIN toDaemon : refcount[toDaemon[k].buf] > 0

\* Without a lost connection or a closed window nothing is kept too long: the
\* links are those of the dumps under way.
NothingLeaks ==
  session = 1 /\ conn = "up" /\ acks /\ (\A o \in Outputs : status[o] # "gone") =>
    queue = [k \in DOMAIN Unacknowledged |-> Unacknowledged[k].buf]

\* The allocator is freed with the last buffer, after its handle is closed
\* ("Xen FD wasn't closed by qubes_allocator_destroy?", qubes_allocator.c:79-80).
AllocatorOutlivesBuffers == alloc = (IF open THEN 1 ELSE 0) + Cardinality(Used)

=============================================================================
