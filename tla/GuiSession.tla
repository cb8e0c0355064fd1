----------------------------- MODULE GuiSession -----------------------------
(***************************************************************************)
(* The life of the windows of the Wayland GUI agent across the sessions of *)
(* the GUI protocol: the Rust backend (src/src/qubes.rs: the enabled flag, *)
(* the window ids and the id -> pointer map), the reconnection handler     *)
(* (qubes_reconnect, qubes_recreate_window) and every handler that creates,*)
(* maps, unmaps, updates or destroys a window (qubes_output.c,             *)
(* qubes_wayland.c, qubes_xwayland.c), talking to a GUI daemon over a      *)
(* vchan that may break at any moment.                                     *)
(*                                                                         *)
(* The agent is one thread around an event loop, so a handler is one step. *)
(* The one exception is the recreation of all windows after a handshake:   *)
(* it is one step per window (todo), during which no other agent step can  *)
(* run, while the daemon may already read what has been sent.              *)
(*                                                                         *)
(* A message is [op, win, ref].  Every message that only needs its window  *)
(* to exist (MSG_CONFIGURE, MSG_WINDOW_DUMP, MSG_SHMIMAGE, MSG_WMNAME,     *)
(* MSG_WMCLASS, MSG_WINDOW_FLAGS, MSG_WINDOW_HINTS) is an "UPDATE"; a run  *)
(* of them sent by one handler is one "UPDATE", and is part of the CREATE  *)
(* or MAP of the window that the handler sends before or after it.  Of the *)
(* daemon's messages for a window, those whose handlers change nothing     *)
(* here (input, focus, clipboard) are dispatched as the two modelled.      *)
(* MSG_FOCUS with a focused popup destroys it: that is DestroyWindow (see   *)
(* Seat for when it happens).                                              *)
(*                                                                         *)
(* SendAlways, DestroyIdKeeps, DestroyIdForgets, FreedDirty,               *)
(* ReconnectEnabled, ReconnectForgetful, DescribeUnchecked and             *)
(* RecreateUnmapped are not part of the model: each is a plausible mistake *)
(* in the operator that follows it, there to show that a property would    *)
(* notice the mistake.                                                     *)
(***************************************************************************)
EXTENDS Integers, Sequences, FiniteSets

CONSTANTS
  Windows,       \* struct qubes_output pointers; one is reused after free()
  NullPtr,       \* the null userdata pointer of qubes.rs
  NoEntry,       \* "no such key" in the BTreeMap of qubes.rs
  Kind,          \* Windows -> "toplevel", "popup" or "xwayland"
  Parent,        \* the window a window is transient for, or NullPtr
  Oversized,     \* windows whose client may exceed MAX_WINDOW_WIDTH/HEIGHT
  EarlyClients,  \* may clients have windows before the first handshake?
  MaxWid,        \* u32::MAX, the id the counter may not pass
  MaxSessions,   \* bound: handshakes in a behaviour
  MaxQueue       \* bound: queued messages that stop clients and daemon

ASSUME KindAssumption == Kind \in [Windows -> {"toplevel", "popup", "xwayland"}]
ASSUME ParentAssumption == Parent \in [Windows -> Windows \cup {NullPtr}]
ASSUME PointerAssumption ==
  NullPtr \notin Windows /\ NoEntry \notin Windows /\ NullPtr # NoEntry
ASSUME OversizedAssumption == Oversized \subseteq Windows
ASSUME EarlyAssumption == EarlyClients \in BOOLEAN
ASSUME BoundAssumption ==
  MaxWid \in Nat /\ MaxSessions \in Nat /\ MaxQueue \in Nat

VARIABLES
  \* QubesData (qubes.rs)
  enabled,       \* messages of the C code are passed on
  nextId,        \* wid, the next id to hand out
  map,           \* id -> pointer handed to qubes_parse_event
  \* the views list and each qubes_output in it
  live,          \* outputs linked in server->views
  wid,           \* output->window_id, 0 when none was generated yet
  created,       \* QUBES_OUTPUT_CREATED
  mapped,        \* QUBES_OUTPUT_MAPPED
  fits,          \* is output->guest within 1..MAX_WINDOW_WIDTH/HEIGHT?
  todo,          \* outputs the handshake handler has yet to recreate
  running,       \* FALSE once wl_display_terminate() was called
  \* the vchan and the GUI daemon
  conn,          \* state of the connection, see ConnStates
  session,       \* handshakes the agent has handled
  toDaemon,      \* messages written or queued, not read by the daemon
  toAgent,       \* messages of the daemon the agent has not read
  known,         \* ids of windows the daemon has
  shown          \* ids of windows the daemon shows

daemonVars == <<known, shown>>
windowVars == <<live, wid, created, mapped, fits>>
idVars     == <<nextId, map>>
vars == <<enabled, idVars, windowVars, todo, running,
          conn, session, toDaemon, toAgent, daemonVars>>

-----------------------------------------------------------------------------
Ids == 1 .. MaxWid

\* "waiting": no daemon has completed the handshake; "handshaken": it has, but
\* the agent has not handled it; "up": the agent has; "broken": vchan closed.
ConnStates == {"waiting", "handshaken", "up", "broken"}

AgentMessages  == [op  : {"CREATE", "UPDATE", "MAP", "UNMAP", "DESTROY"},
                   win : Ids, ref : 0 .. MaxWid]
DaemonMessages == [op : {"CONFIGURE", "CLOSE", "DESTROY"}, win : Ids]

Msg(op, id)   == [op |-> op, win |-> id, ref |-> 0]
Event(op, id) == [op |-> op, win |-> id]

\* transient_for of a MSG_MAP: the window_id of the parent's output.
TransientFor(w) == IF Parent[w] \in live THEN wid[Parent[w]] ELSE 0
MapMsg(w, id)   == [op |-> "MAP", win |-> id, ref |-> TransientFor(w)]

\* The sizes the client of w may pick: TRUE when within the limits.
Sizes(w) == IF w \in Oversized THEN BOOLEAN ELSE {TRUE}

\* Only a popup has a size when its output is initialised.
InitialSizes(w) == IF Kind[w] = "popup" THEN Sizes(w) ELSE {FALSE}

-----------------------------------------------------------------------------
(* The Rust backend.                                                       *)

\* qubes_rust_send_message: dropped while disabled.  The connection queues
\* until a daemon is there; what is written to a broken vchan is lost.
SendAlways(msgs) ==
  toDaemon' = IF conn # "broken" THEN toDaemon \o msgs ELSE toDaemon
Send(msgs) ==
  toDaemon' = IF enabled /\ conn # "broken" THEN toDaemon \o msgs ELSE toDaemon

\* qubes_output_ensure_created for an output whose guest size fits iff fit.
Creates(w, fit)  == fit /\ ~created[w]
IdAfter(w)       == IF wid[w] = 0 THEN nextId ELSE wid[w]
Creation(w, fit) == IF Creates(w, fit) THEN <<Msg("CREATE", IdAfter(w))>> ELSE <<>>
News(w) == IF created[w] THEN <<Msg("UPDATE", wid[w])>> ELSE Creation(w, TRUE)

EnsureCreated(w, fit) ==
  IF Creates(w, fit)
  THEN /\ created' = [created EXCEPT ![w] = TRUE]
       /\ IF wid[w] = 0
          THEN /\ nextId < MaxWid              \* checked_add, or abort
               /\ nextId' = nextId + 1
               /\ wid' = [wid EXCEPT ![w] = nextId]
               /\ map' = [map EXCEPT ![nextId] = w]
          ELSE UNCHANGED <<nextId, wid, map>>
  ELSE UNCHANGED <<created, nextId, wid, map>>

Resized(w, fit) == fits' = [fits EXCEPT ![w] = fit]

-----------------------------------------------------------------------------
(* Handlers of client requests.                                            *)

\* The event loop may run a client handler: the bound on the queue is ours.
ClientTurn(w) ==
  /\ running /\ todo = {} /\ w \in live
  /\ Len(toDaemon) < MaxQueue

\* qubes_output_init.  A popup has its parent's position and its own size at
\* once, and the forced commit creates it; the others have size 0x0.
NewView(w, fit) ==
  /\ running /\ todo = {} /\ w \notin live
  /\ EarlyClients \/ session > 0
  /\ Len(toDaemon) < MaxQueue
  /\ live' = live \cup {w}
  /\ Resized(w, fit)
  /\ EnsureCreated(w, fit)
  /\ Send(IF fit THEN News(w) ELSE <<>>)
  /\ UNCHANGED <<enabled, mapped, todo, running, conn, session, toAgent, daemonVars>>

\* qubes_surface_commit.  qubes_output_commit_size gives up when the guest size
\* does not fit yet, unless an unacknowledged configure of the daemon lets it
\* replace the guest size first (only a created window can have one).
XdgCommit(w) ==
  /\ ClientTurn(w) /\ Kind[w] # "xwayland"
  /\ fits[w] \/ created[w]
  /\ Resized(w, TRUE)
  /\ EnsureCreated(w, TRUE)
  /\ Send(News(w))
  /\ UNCHANGED <<enabled, live, mapped, todo, running, conn, session, toAgent, daemonVars>>

\* request_configure, set_geometry, commit and set_hints of an Xwayland window
\* refuse a size out of range; set_parent (fit = FALSE) does not check.
XwaylandConfigure(w, fit) ==
  /\ ClientTurn(w) /\ Kind[w] = "xwayland"
  /\ Resized(w, fit)
  /\ EnsureCreated(w, fit)
  /\ Send(IF fit THEN News(w) ELSE <<>>)
  /\ UNCHANGED <<enabled, live, mapped, todo, running, conn, session, toAgent, daemonVars>>

\* What qubes_view_map and qubes_xwayland_surface_map do with the client's
\* present size.  Out of range, the former keeps the size and gives up, the
\* latter gives up at once.
MapView(w, fit) ==
  /\ Resized(w, IF Kind[w] = "xwayland" THEN fits[w] \/ fit ELSE fit)
  /\ mapped' = [mapped EXCEPT ![w] = mapped[w] \/ fit]

Mapping(w, fit) == IF fit THEN <<MapMsg(w, IdAfter(w))>> ELSE <<>>

MapWindow(w, fit) ==
  /\ ClientTurn(w) /\ ~mapped[w]
  /\ MapView(w, fit)
  /\ EnsureCreated(w, fit)
  /\ Send(Creation(w, fit) \o Mapping(w, fit))
  /\ UNCHANGED <<enabled, live, todo, running, conn, session, toAgent, daemonVars>>

\* qubes_output_unmap; its output commit runs qubes_output_ensure_created.
UnmapWindow(w) ==
  /\ ClientTurn(w) /\ mapped[w]
  /\ mapped' = [mapped EXCEPT ![w] = FALSE]
  /\ EnsureCreated(w, fits[w])
  /\ Send(IF created[w] \/ fits[w]
          THEN Creation(w, fits[w]) \o <<Msg("UNMAP", IdAfter(w))>> ELSE <<>>)
  /\ UNCHANGED <<enabled, live, fits, todo, running, conn, session, toAgent, daemonVars>>

\* Title, class and flag requests and the repaint of a frame: messages about
\* an output that has been created (most of them ask for mapped as well).
DescribeUnchecked(w) ==
  /\ ClientTurn(w)
  /\ Send(<<Msg("UPDATE", wid[w])>>)
  /\ UNCHANGED <<enabled, idVars, windowVars, todo, running, conn, session,
                 toAgent, daemonVars>>
Describe(w) ==
  /\ ClientTurn(w) /\ created[w]
  /\ Send(<<Msg("UPDATE", wid[w])>>)
  /\ UNCHANGED <<enabled, idVars, windowVars, todo, running, conn, session,
                 toAgent, daemonVars>>

\* destroy_id, run with a MSG_DESTROY that is passed on.
DestroyIdKeeps(w)   == map
DestroyIdForgets(w) == IF enabled THEN [map EXCEPT ![wid[w]] = NoEntry] ELSE map
DestroyId(w)        == IF enabled THEN [map EXCEPT ![wid[w]] = NullPtr] ELSE map

\* free(): the next output at this address starts with window_id 0.
FreedDirty(w) == wid
Freed(w)      == [wid EXCEPT ![w] = 0]

\* qubes_output_deinit, then free().
Deinit(w) ==
  /\ live' = live \ {w}
  /\ wid' = Freed(w)
  /\ created' = [created EXCEPT ![w] = FALSE]
  /\ mapped' = [mapped EXCEPT ![w] = FALSE]
  /\ fits' = [fits EXCEPT ![w] = FALSE]
  /\ IF created[w]
     THEN /\ Send(<<Msg("DESTROY", wid[w])>>)
          /\ map' = DestroyId(w)
     ELSE UNCHANGED <<toDaemon, map>>

DestroyWindow(w) ==
  /\ ClientTurn(w)
  /\ Deinit(w)
  /\ UNCHANGED <<enabled, nextId, todo, running, conn, session, toAgent, daemonVars>>

-----------------------------------------------------------------------------
(* The vchan becomes readable or hangs up: on_fd_ready.                    *)

AgentTurn == running /\ todo = {} /\ conn # "waiting"

\* A message for a window: the callback runs with the pointer in the map, not
\* at all when that is absent or null.
Delivered(m) == m.op # "DESTROY" /\ map[m.win] \in Windows

\* qubes_handle_configure answers for an Xwayland window and a popup, whose
\* guest size becomes the (valid) configured one, and for most toplevels.
HandleConfigure(w) ==
  /\ Resized(w, fits[w] \/ Kind[w] # "toplevel")
  /\ Send(<<Msg("UPDATE", wid[w])>>)
  /\ UNCHANGED <<idVars, live, wid, created, mapped>>

\* MSG_CLOSE destroys a popup (wlr_xdg_popup_destroy emits destroy); the other
\* windows are asked to close and may do so later.
HandleClose(w) ==
  IF Kind[w] = "popup"
  THEN Deinit(w) /\ UNCHANGED nextId
  ELSE UNCHANGED <<idVars, windowVars, toDaemon>>

\* Is w the output the message was meant for?  (the assertion on window_id)
Reaches(w, id) == w \in live /\ wid[w] = id

ReadEvent ==
  /\ AgentTurn /\ toAgent # <<>>
  /\ LET m == Head(toAgent)
         w == map[m.win]
     IN /\ m.op # "DESTROY"
        /\ \/ /\ ~Delivered(m)
              /\ UNCHANGED <<idVars, windowVars, toDaemon, running>>
           \/ /\ Delivered(m) /\ Reaches(w, m.win)
              /\ IF m.op = "CONFIGURE" THEN HandleConfigure(w) ELSE HandleClose(w)
              /\ UNCHANGED running
           \/ /\ Delivered(m) /\ ~Reaches(w, m.win)   \* the process aborts
              /\ running' = FALSE
              /\ UNCHANGED <<idVars, windowVars, toDaemon>>
  /\ toAgent' = Tail(toAgent)
  /\ UNCHANGED <<enabled, todo, conn, session, daemonVars>>

\* MSG_DESTROY from the daemon acknowledges ours: the id leaves the map.  For
\* an id that is absent or in use it is a protocol error, fatal (type 3) when
\* the connection itself is fine.
ReadDestroy ==
  /\ AgentTurn /\ toAgent # <<>>
  /\ LET m == Head(toAgent)
     IN /\ m.op = "DESTROY"
        /\ map' = [map EXCEPT ![m.win] = NoEntry]
        /\ IF map[m.win] = NullPtr
           THEN UNCHANGED <<enabled, running>>
           ELSE enabled' = FALSE /\ running' = FALSE
  /\ toAgent' = Tail(toAgent)
  /\ UNCHANGED <<nextId, windowVars, todo, conn, session, toDaemon, daemonVars>>

\* protocol_error with needs_reconnect(): callback type 1, qubes_reconnect.
ReconnectEnabled ==
  /\ AgentTurn /\ conn = "broken"
  /\ conn' = "waiting" /\ toAgent' = <<>> /\ toDaemon' = <<>>
  /\ UNCHANGED <<enabled, idVars, windowVars, todo, running, session, daemonVars>>
ReconnectForgetful ==
  /\ AgentTurn /\ conn = "broken"
  /\ enabled' = FALSE /\ map' = [i \in Ids |-> NoEntry]
  /\ conn' = "waiting" /\ toAgent' = <<>> /\ toDaemon' = <<>>
  /\ UNCHANGED <<nextId, windowVars, todo, running, session, daemonVars>>
Reconnect ==
  /\ AgentTurn /\ conn = "broken"
  /\ enabled' = FALSE
  /\ conn' = "waiting" /\ toAgent' = <<>> /\ toDaemon' = <<>>
  /\ UNCHANGED <<idVars, windowVars, todo, running, session, daemonVars>>

\* The same when the vchan or its event source cannot be set up again.
ReconnectFails ==
  /\ AgentTurn /\ conn = "broken"
  /\ enabled' = FALSE /\ running' = FALSE
  /\ UNCHANGED <<idVars, windowVars, todo, conn, session, toDaemon, toAgent,
                 daemonVars>>

\* Nothing left to read and reconnected(): callback type 2, qubes_reconnect
\* clears QUBES_OUTPUT_CREATED everywhere, then recreates each output.
Reconnected ==
  /\ AgentTurn /\ conn = "handshaken" /\ toAgent = <<>>
  /\ enabled' = TRUE
  /\ created' = [w \in Windows |-> FALSE]
  /\ todo' = live
  /\ conn' = "up" /\ session' = session + 1
  /\ UNCHANGED <<idVars, live, wid, mapped, fits, running, toDaemon, toAgent,
                 daemonVars>>

\* qubes_recreate_window.  The views list is kept in order of creation and
\* keyboard focus, so the next output of the list may be any of todo.
RecreateUnmapped(w, fit) ==
  /\ running /\ w \in todo
  /\ todo' = todo \ {w}
  /\ EnsureCreated(w, fits[w])
  /\ Send(Creation(w, fits[w]))
  /\ UNCHANGED <<enabled, live, mapped, fits, running, conn, session, toAgent, daemonVars>>
RecreateWindow(w, fit) ==
  /\ running /\ w \in todo
  /\ todo' = todo \ {w}
  /\ EnsureCreated(w, fits[w])
  /\ IF fits[w] /\ mapped[w]
     THEN /\ MapView(w, fit)
          /\ Send(Creation(w, TRUE) \o Mapping(w, fit))
     ELSE /\ UNCHANGED <<fits, mapped>>
          /\ Send(Creation(w, fits[w]))
  /\ UNCHANGED <<enabled, live, running, conn, session, toAgent, daemonVars>>

-----------------------------------------------------------------------------
(* The GUI daemon and the vchan (outside src/): a daemon that keeps to the *)
(* protocol, quits at a message that does not, and may be restarted.       *)

Connected == conn \in {"handshaken", "up"}

DaemonConnects ==
  /\ running /\ conn = "waiting" /\ session < MaxSessions
  /\ conn' = "handshaken"
  /\ UNCHANGED <<enabled, idVars, windowVars, todo, running, session, toDaemon,
                 toAgent, daemonVars>>

\* The daemon's own rule: a window is created once, before anything else.
Legal(m) == IF m.op = "CREATE" THEN m.win \notin known ELSE m.win \in known

Breaks ==
  /\ conn' = "broken" /\ toDaemon' = <<>>
  /\ known' = {} /\ shown' = {}
  /\ UNCHANGED toAgent

DaemonReads ==
  /\ Connected /\ toDaemon # <<>>
  /\ LET m == Head(toDaemon)
     IN IF ~Legal(m) THEN Breaks
        ELSE /\ toDaemon' = Tail(toDaemon)
             /\ known' = CASE m.op = "CREATE"  -> known \cup {m.win}
                           [] m.op = "DESTROY" -> known \ {m.win}
                           [] OTHER            -> known
             /\ shown' = CASE m.op = "MAP" -> shown \cup {m.win}
                           [] m.op \in {"UNMAP", "DESTROY"} -> shown \ {m.win}
                           [] OTHER -> shown
             /\ toAgent' = IF m.op = "DESTROY"
                           THEN Append(toAgent, Event("DESTROY", m.win))
                           ELSE toAgent
             /\ UNCHANGED conn
  /\ UNCHANGED <<enabled, idVars, windowVars, todo, running, session>>

DaemonSends(op, id) ==
  /\ Connected /\ id \in known
  /\ Len(toAgent) < MaxQueue /\ Len(toDaemon) < MaxQueue
  /\ toAgent' = Append(toAgent, Event(op, id))
  /\ UNCHANGED <<enabled, idVars, windowVars, todo, running, conn, session,
                 toDaemon, daemonVars>>

\* The daemon dies, or dom0 closes the vchan, between any two steps.
Disconnect ==
  /\ Connected /\ session < MaxSessions
  /\ Breaks
  /\ UNCHANGED <<enabled, idVars, windowVars, todo, running, session>>

-----------------------------------------------------------------------------
Init ==
  /\ enabled = TRUE /\ nextId = 1 /\ map = [i \in Ids |-> NoEntry]
  /\ live = {} /\ todo = {} /\ running = TRUE
  /\ wid = [w \in Windows |-> 0]
  /\ created = [w \in Windows |-> FALSE]
  /\ mapped = [w \in Windows |-> FALSE]
  /\ fits = [w \in Windows |-> FALSE]
  /\ conn = "waiting" /\ session = 0
  /\ toDaemon = <<>> /\ toAgent = <<>>
  /\ known = {} /\ shown = {}

Recreation == \E w \in Windows : \E fit \in Sizes(w) : RecreateWindow(w, fit)

Client ==
  \E w \in Windows :
    \/ \E fit \in InitialSizes(w) : NewView(w, fit)
    \/ XdgCommit(w)
    \/ \E fit \in Sizes(w) : XwaylandConfigure(w, fit) \/ MapWindow(w, fit)
    \/ UnmapWindow(w)
    \/ Describe(w)
    \/ DestroyWindow(w)

Daemon ==
  \/ DaemonConnects
  \/ DaemonReads
  \/ \E op \in {"CONFIGURE", "CLOSE"}, id \in Ids : DaemonSends(op, id)
  \/ Disconnect

Next ==
  \/ Client
  \/ ReadEvent
  \/ ReadDestroy
  \/ Reconnect
  \/ ReconnectFails
  \/ Reconnected
  \/ Recreation
  \/ Daemon

Spec == Init /\ [][Next]_vars

\* The event loop serves its sources and the handshake handler finishes; a
\* daemon that is alive reads, and one is started while the agent waits.
\* Nothing is assumed of clients, of the daemon's events or of disconnects.
Fairness ==
  /\ WF_vars(ReadEvent) /\ WF_vars(ReadDestroy) /\ WF_vars(Reconnect)
  /\ WF_vars(Reconnected) /\ WF_vars(Recreation)
  /\ WF_vars(DaemonConnects) /\ WF_vars(DaemonReads)

FairSpec == Spec /\ Fairness

-----------------------------------------------------------------------------
(* Properties.                                                             *)

TypeOK ==
  /\ enabled \in BOOLEAN /\ running \in BOOLEAN
  /\ nextId \in Nat /\ session \in Nat
  /\ map \in [Ids -> Windows \cup {NullPtr, NoEntry}]
  /\ live \subseteq Windows /\ todo \subseteq live
  /\ wid \in [Windows -> 0 .. MaxWid]
  /\ created \in [Windows -> BOOLEAN]
  /\ mapped \in [Windows -> BOOLEAN]
  /\ fits \in [Windows -> BOOLEAN]
  /\ conn \in ConnStates
  /\ toDaemon \in Seq(AgentMessages) /\ toAgent \in Seq(DaemonMessages)
  /\ known \subseteq Ids /\ shown \subseteq known

\* A message the Rust code passes on reaches the output it was sent for: the
\* pointer in the map is that of a live output with that window_id (the
\* assertion at qubes_input.c:582; otherwise the pointer was freed).
DispatchReachesWindow ==
  toAgent # <<>> /\ Delivered(Head(toAgent)) =>
    Reaches(map[Head(toAgent).win], Head(toAgent).win)

\* MSG_DESTROY from the daemon always answers one of ours, so on_fd_ready
\* never takes it for a protocol error and ends the compositor
\* (qubes.rs:112-121).
DestroyIsAwaited ==
  toAgent # <<>> /\ Head(toAgent).op = "DESTROY" =>
    map[Head(toAgent).win] = NullPtr

\* Destroying a window never panics in destroy_id (qubes.rs:52-61): its id is
\* in the map, not null, and no other window shares it.
DestroyFindsId ==
  \A w \in live : created[w] => wid[w] \in Ids /\ map[wid[w]] = w

\* The daemon never meets a message for a window it was not told of in this
\* session ("msg 0x93 without CREATE for 0x1", NOTE at qubes.rs:14-29).
NoMessageWithoutCreate ==
  Connected /\ toDaemon # <<>> /\ Head(toDaemon).op # "CREATE" =>
    Head(toDaemon).win \in known

\* Nor is it told twice of the same window in one session, which is what
\* dropping messages until the windows are recreated is for (qubes.rs:25-29).
NoSecondCreate ==
  Connected /\ toDaemon # <<>> /\ Head(toDaemon).op = "CREATE" =>
    Head(toDaemon).win \notin known

\* The daemon has no window whose id the agent has already struck out.
NoGhostWindow == \A id \in known : map[id] # NoEntry

\* Once the daemon stops dying, a window that stays mapped is in the end shown
\* and stays so, whatever disconnections, half-done recreations and dropped
\* messages came before (qubes_recreate_window, qubes_input.c:429-457).  Its
\* size is within the limits while it is mapped: one that is not by the time
\* of a recreation is refused, and not mapped again when it is created later.
StaysShown(w) ==
  [](mapped[w] => fits[w]) =>
    (<>[](running /\ conn # "broken" /\ w \in live /\ mapped[w])
       => <>[](wid[w] \in shown))

MappedIsShown == \A w \in Windows : StaysShown(w)

\* The ids as WindowIds sees them.
idStates ==
  [i \in Ids |-> IF i >= nextId THEN "free"
                 ELSE IF map[i] = NullPtr THEN "released"
                 ELSE IF map[i] = NoEntry THEN "gone" ELSE "held"]

WI == INSTANCE WindowIds WITH idState <- idStates

\* Ids live as WindowIds promises: in order, once, reserved until the daemon
\* has acknowledged the destruction (qubes.rs:40-61 and 112-121).
IdsImplemented == WI!idSpec

=============================================================================
