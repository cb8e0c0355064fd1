# A TLA+ model of the Qubes Wayland GUI agent

`qubes-compositor` is a Wayland compositor that runs in a Qubes OS guest. It
shows the windows of Wayland and Xwayland clients on the host by talking the
Qubes GUI protocol, over a *vchan*, to a *GUI daemon* on the host. The C code
(`src/cbits`) is built on wlroots; a small Rust backend (`src/src/qubes.rs`)
owns the connection. This directory holds specifications of its core in TLA+,
configurations that model-check them with TLC, and theorems proved with TLAPS.

Paths below are relative to the root of the repository, as in `PROJECT.json`,
where `map` gives the lines each definition stands for.

## 1. Inventory

The agent is **one thread around a Wayland event loop**. A handler (a client
request, a readable descriptor, a timer) runs to its end before another does.
Concurrency comes from outside: several clients; the GUI daemon, which crosses
its messages with the agent's, may die at any point and be restarted; and the
pipes of the clipboard.

| Component | Source | State | Operations | What makes it correct |
|---|---|---|---|---|
| Rust backend | `src/src/qubes.rs` | `enabled`, the id counter, the map id -> pointer, the vchan | send, id, destroy_id, on_fd_ready (dispatch, reconnect, reconnected) | a pointer passed to C is alive and the right one; no message for a window the daemon has not; ids are not reused |
| Reconnection | `src/cbits/qubes_input.c` (qubes_reconnect, qubes_recreate_window) | QUBES_OUTPUT_CREATED of each output | clear, set up the event source, recreate every window | what is mapped is shown again, and announced once |
| Window life | `qubes_output.c`, `qubes_wayland.c`, `qubes_xwayland.c` | views list, window_id, CREATED, MAPPED, guest size | init, ensure_created, map, unmap, commit, deinit | a window exists on the host exactly while it should |
| Frame buffers | `qubes_allocator.c`, `qubes_output.c`, `qubes_input.c` | reference counts, buffer shown, queue of unacknowledged dumps | create, destroy, commit, dump, acknowledge | grants stay while the daemon may read them, are freed once after |
| Size and position | `qubes_window_position.c` | guest, host, change flags, NEED_CONFIGURE_ACK, serial | MSG_CONFIGURE in, send, ack_configure, commit_size | daemon, agent and client agree in the end; resizes end |
| Clipboard | `qubes_clipboard.c`, `qubes_data_source.c`, `qubes_input.c` | selection, reference counts, writers and readers of pipes | paste, request, readable, writable, destroy | data is alive while written, sent whole and exactly, no wait on itself |
| Keyboard, pointer, focus | `qubes_input.c`, `main.c` | backend->keymap, the wlr_keyboard's pressed keys, the seat's focus, activated toplevels | key press, keymap notify, focus in/out, window flags, motion | a released key is released on both sides; the focus is alive and where the host has it; one active window |
| Frame clock, scene | `qubes_output.c`, `main.c`, `qubes_wayland.c`, `qubes_xwayland.c` | the timer, frame_pending of the server and of each output, scene nodes, commit listeners | tick, frame, map, unmap, commit, recreate | what a client commits to a visible window is drawn, its frame callbacks answered |
| Xwayland details | `qubes_xwayland.c` | listeners, output.magic, hints, flags | associate, dissociate, hints, class, title | listeners once each |
| Backend, startup, shutdown | `qubes_backend.c`, `main.c` | wlr objects, the flag of the event loop, exit_status | start, signals, loop, end of main | everything destroyed once, in order; what ends the compositor does end it |
| Keyboard layout | `main.c` | keymap, the watch of QubesDB | watch, first read, qubes_reap_watches, refresh | the layout in force is the one set last, if it compiles |
| Not ours | wlroots, gui-rust crates (submodules), packaging, Rust prototypes that `lib.rs` does not declare | - | - | - |

They interact by direct calls and listeners (C), by callbacks with three message
types from Rust to C (`qubes_parse_event`: 0 or 1 lost, 2 reconnected, 3 fatal,
else an event), and through the state named above: `window_id` and CREATED are
read by every sender of a message.

**Hard behaviours.** `hazards` in `PROJECT.json` lists each at its line. The
main ones: messages that are dropped while the backend is disabled, or queued
before the first handshake; a connection that breaks during recreation;
pointers in the id map of windows destroyed in those periods; the crossing of
MSG_DESTROY with events; acknowledgements of dumps that carry no buffer and
outlive sessions; resizes from both sides at once; partial reads and writes of
the clipboard; key and focus messages that are dropped with their window or lost
with the session; a clock shared by all windows that stops when no frame succeeds;
a layout that changes between a watch and a read, and an end that comes before the
loop.

## 2. Modules

| Module | Models | |
|---|---|---|
| `GuiSession` | Rust backend, reconnection, window life, daemon | the core |
| `WindowIds` | what the backend promises of ids | abstract specification that `GuiSession` implements |
| `GuiSession_proofs` | - | theorems about `GuiSession`: ids and acknowledgements |
| `GuiProtocol_proofs` | - | theorems about `GuiSession`: what the daemon is told |
| `DumpQueue` | buffers, allocator, dump acknowledgements | |
| `DumpQueue_proofs` | - | theorems about `DumpQueue` |
| `WindowPosition` | size and position of one mapped window | |
| `WindowPosition_proofs` | - | theorems about `WindowPosition` |
| `Clipboard` | both directions of the clipboard | |
| `Clipboard_proofs` | - | theorems about `Clipboard` |
| `Seat` | keys, keyboard focus, activation | |
| `Seat_proofs` | - | theorems about `Seat` |
| `Scene` | frame clock, outputs and scenes, listeners of Xwayland views | |
| `Scene_proofs` | - | theorems about `Scene` |
| `MainLoop` | main from QubesDB to its end, the keyboard layout, signals | |
| `MainLoop_proofs` | - | theorems about `MainLoop` |
| `MC...` | - | the values TLC gives the constants |

In each of them an operator just before a definition, and introduced as a
mistake or mutant of it, is not part of the model: it says how the code might
plausibly be wrong, and each property is known to fail under one of them
(`mutants` in `PROJECT.json`).

### GuiSession

*State.* `enabled`, `nextId`, `map` are the fields of QubesData. `live` is the
views list, `wid`, `created`, `mapped`, `fits` the fields of each output (`fits`:
is `guest` within the limits, all that the control flow looks at). `todo` holds
the outputs that the handshake handler has still to recreate. `conn`, `session`,
`toDaemon`, `toAgent` are the vchan, `known` and `shown` what the daemon has.

*Steps.* One handler is one action: `NewView`, `XdgCommit`, `XwaylandConfigure`,
`MapWindow`, `UnmapWindow`, `Describe`, `DestroyWindow` for the clients;
`ReadEvent`, `ReadDestroy`, `Reconnect`, `ReconnectFails`, `Reconnected` for
on_fd_ready. Only the recreation is cut into one step per window
(`RecreateWindow`): the daemon may already read, and die, meanwhile. No other
step of the agent is possible while `todo` is not empty. A window is the address
of its output, so that a freed and reused address is the same window again.

*Abstractions.* The many messages that require only that their window exists
(configure, dump, shm image, title, class, flags, hints) are one "UPDATE"; a run
of them is one. Events of the daemon are those whose handlers change the state
here (configure, close, destroy). The order of the views list depends on the
focus, so recreation takes the windows in any order. An assertion that fails, or
a panic, is `running' = FALSE`. A client may have windows before the first
handshake (`EarlyClients`): `main` forks the startup command before the event
loop runs (`src/cbits/main.c:956-970`) and nothing waits for the daemon; before
the handshake, messages are queued by the connection (the NOTE at
`src/src/qubes.rs:14-29`).

*Daemon.* A daemon that keeps to the protocol: it quits at a second creation or
a message for a window it does not have, acknowledges MSG_DESTROY, sends events
for windows it has, and can die between any two steps.

### DumpQueue

*State.* The two reference counts, the swapchain that wlroots keeps per output
(`chain`), `output->buffer` (`current`), the links in the order of the queue, the
daemon's protocol version (`acks`) and the connection as in `GuiSession`.
*Steps.* A commit with a buffer, a change of size (wlroots drops the swapchain),
the destruction of an output, an acknowledgement, the reconnection, the end of
main. Windows exist only from the first handshake on: with one before it the
daemon quits at once (see `session_second_create`).

An acknowledgement carries no buffer, the agent pops the oldest link; and the
queue is neither emptied when the connection is lost, nor popped when the window
acknowledged is gone (the Rust code drops that message). So the queue lags
behind. What survives, `UnacknowledgedAreLast`, is that the dumps not yet
acknowledged are the *last* links: grants are released late, never early.

### WindowPosition

One axis (the code is the same for the other, with other names). `output` is
the C struct with the messages it has queued for the daemon; `configures`,
`wanted`, `acked` are the xdg-shell side; `daemon`, `queued` the daemon, which sends
no second MSG_CONFIGURE before the first is answered and sends its box again
when the answer is another. `Modeset` says what wlroots does with an
unchanged mode (nothing), which decides whether a configure message is sent.
The window stays mapped; mapping and reconnection are in `GuiSession`.

### Clipboard

Data is a length, a pipe a number of bytes, its two ends and its capacity. A read or
write moves as many bytes as there are, or is room for. The reader's array is modelled
down to `wl_array`'s doubling of its allocation, since the assertions of the code are
about it. Sizes are scaled: in `clipboard` 1 for the header (12 in the code), 4 for the
maximum (65000), 1 for the growth (255), 2 for the first allocation (16), in
`clipboard_array` 3, 5, 2 and 4. The compositor's own pipe, which it fills with a
blocking write when the daemon asks for the daemon's own data, holds the maximum in
both (65000 <= 65536): an assumption of the module. Between any two reads of one call
the clients go on.

A read that fails with EAGAIN just after the array has grown leaves the growth in its
size. The history field `padded` of a pipe remembers such a read: what is sent from it
is longer than what was written, and `SentAsWritten` claims no exact length for it.

The descriptor that a client pastes through is taken to be non-blocking, so that a
write without room returns. Nothing in `src/cbits/qubes_data_source.c:133-155` sets
O_NONBLOCK on it: with a blocking one, the thread waits in `write` until the client
reads, and for ever if it neither reads nor closes.

### Seat

*State.* A key is recorded three times, by the agent (`keymap`), by wlroots
(`keycodes`) and by the focused client (`clientKeys`); `held` is the truth, on the
host. `focus`, `active` are the seat's focus and the toplevels told to look
active, `hostFocus`, `known` the daemon's side, `toAgent`, `toDaemon` the vchan.
`lent` remembers which toplevels are active for a reason other than their own focus.

*Steps.* One per message of the daemon that the C code handles
(`ReadKeypress`, `ReadKeymapNotify`, `ReadFocusIn`, `ReadFocusOut`, `ReadFlags`),
with the popup that FOCUS_OUT destroys as an action of its own; the message for a
window that is gone, which is dropped (`ReadForGone`); windows that come, map,
unmap and go; the loss of the session and the next handshake. A client may destroy a
window and keep its wl_surface: the seat's focus is then on no window (`Gone`), until
the client destroys the surface (`DestroySurface`) or the focus moves. An X11 window has
a surface from its association to its dissociation, mapped or not. The assertion after
`wlr_xdg_popup_destroy` depends on wlroots, so both outcomes are steps.

*Numbering.* `handle_keypress` subtracts 8 from the daemon's keycode before it
looks at `backend->keymap`; `MSG_KEYMAP_NOTIFY` is compared with the same bits
as it comes. The repository does not say how the daemon numbers the latter:
`Offset` is 0 or 8; the theorems hold for any, and the run takes 0 (section 3 says what
8 would do).

*Daemon.* It sends the keys of the moment before a FOCUS_IN, and FOCUS_OUT for a
window that is unmapped under its focus.

### Scene

*State.* One record per window, `out[w]`: what wlroots keeps of the output
(`enabled`, `pending`, `idle`, `damage`), the two nodes of its scene (`root`,
`tree`), the link of `view->commit` as a C list would have it (`"bad"` after an
insertion of a linked listener), and what the client waits for (`dirty`, `asked`).
Shared by all: `server->frame_pending` and whether the timer is set.

*Steps.* The timer callback for all outputs at once, the idle frame wlroots schedules
after damage, every handler that maps, unmaps, commits or configures a window of either
kind, association and dissociation of X11 windows, a resize by the daemon, and the
recreation of all mapped windows. Sizes that are refused and commits of the output that
fail are choices. The map and the commit that a client's request causes are one step,
because wlroots emits both from one request. When an X11 window is mapped again, the
frame comes before the scene knows of the content, because `view->commit` is linked
before the scene's listener (`src/cbits/qubes_xwayland.c:82-84`). A parent of an X11
window without an output fails the assertion in `qubes_xwayland_surface_map`: the
compositor stops.

### MainLoop

*State.* `at` is what the process does next: the steps of main in their order, then
the loop. `run` is the flag of the wl_display, `ready` what the current iteration of
the loop has still to serve, `got` the string that was read, `keymap` the layout in
force, `status` and `stopping` what the parent and systemd are told. `entry`,
`events` and `alive` are QubesDB, `fatal` and `sigint` the options.
*Steps.* `qubes_refresh_keyboard_layout` is two steps, `ReadLayout` and `SetLayout`,
that main and `qubes_reap_watches` share, so that QubesDB may be written between the
watch event, the read and the change. One iteration serves all that is readable, in
any order, and tests `run` only then: a signal and a layout event of the same
iteration are both served.
*Abstractions.* A layout is a value that compiles or does not. A watch event stays
readable until it is read, also when it arrives during another call of the library;
once QubesDB is gone every read fails. `wl_display_run` sets the flag that
`wl_display_terminate` clears, as libwayland does. The vchan is readable at any time
and its handler may end the loop, for whatever reason `GuiSession` has.

## 3. Runs

| Run | Question | Bounds |
|---|---|---|
| `session_late` | Clients that start after the handshake: messages reach their window, no window is announced twice or left over, a window that stays mapped is in the end shown | toplevel and popup, the popup of any size; 2 sessions, 4 ids, queues 2 |
| `session_early` | Clients that may start before it: ids and acknowledgements stay in order, no message for an unknown window; `WindowIds` is implemented | toplevel and Xwayland window; 2 sessions, 4 ids, queue 1 |
| `session_second_create` | fails: a window announced twice | 1 session |
| `dump_queue` | Counts exact, grants there while needed, nothing leaks in a quiet session | 2 outputs, 4 buffers, 3 sessions, swapchains of 2, queues 4 |
| `window_position` | Every configure is answered, resizes end, both sides agree; `host` of an xdg window is what `STATE_TRACKING.md` says until the first MSG_CONFIGURE | limit 2, boxes inside and beyond it; 2 moves, 1 client request, 1 other configure |
| `resize_frozen` | fails: a resize that never ends | as above, a client that skips configure events |
| `clipboard` | References exact, transfers whole, nothing sent that was not written but for `padded` pipes, no self-wait, every transfer of a client that reads or closes ends | 2 contents of length 4, 2 pipes, of 3 for clients and 4 for the compositor; clients write single bytes, 5 at most |
| `clipboard_array` | fails: the reader's array counts garbage | 1 pipe, lengths 1 and 4 |
| `seat` | The focus is alive and the host's, keys are in step, activation follows, no key is stuck | toplevel, popup, X11 window; 2 keys, a keyboard that holds 1, queues 1 |
| `scene` | The clock runs under a window whose root is enabled, its content is drawn, callbacks are answered, while its frames do not fail; listeners are in one list | 2 windows of either kind, the second transient for the first |
| `remap_blank` | fails: a window mapped again has nothing to draw | as above |
| `main_loop` | No change of the layout is missed and each takes effect; signals and fatal layouts end the compositor | 2 layouts that compile, 1 that does not; 3 writes of QubesDB |

*Why the bounds are enough.* Two windows are needed for an event or a parent that
belongs to another window, and the code never relates more than two, except in
`seat`, where a popup, its toplevel and a third window take the focus from each
other. Two sessions contain the first one, with its different beginning, a loss in every
state, and a recreation; `dump_queue` needs three for the lag of the queue to
carry over twice and for daemons of both versions to follow each other. Four ids let
both addresses be reused after a free. Queue bounds of one or two only stop the
producers (a handler may still add all of its messages), and give every
crossing of one message with another. Four buffers are two per output, one shown and
one being drawn. In `window_position` two moves cross each other and one
change by the client. In `clipboard` a content of 4 in a pipe of 3 needs two
writes; the array grows several times, to beyond the maximum, and a client that writes
byte by byte pauses at every size of it, full or not. In `seat` two
keys and room for one make the wlr_keyboard's array overflow, so that the three
records of a key really differ. `scene` has no counter: its state is finite. In
`main_loop` three writes put one before the watch, one between the read and the
change, and one behind another event.

*What the counters bound.* `MaxWid`, `MaxSessions`, `MaxQueue`, `MaxMoves`,
`MaxRequests`, `MaxOthers`, `MaxPending`, `MaxWritten`, `MaxSets` and `Pipes` bound the
environment; `MaxDoublings` says how far the reader's array may grow, and is assumed to
be far enough. At `MaxWid` ids the program aborts as well (`checked_add`).

*Deadlock* is not checked: with the counters at their bounds, or after the
compositor has stopped, nothing need happen.

*Symmetry* is used in `dump_queue` only, where no temporal property is checked.

### Fairness

- `GuiSession`: the event loop serves every source and finishes its handlers; a
  daemon that is alive reads; while the agent waits for one, one is started (the
  agent can promise nothing without). Clients, the daemon's events and disconnections
  are not fair. `MappedIsShown` is about a connection that from some time
  on does not break, and about a window whose size is within the limits while it
  is mapped: one whose client has left them by the time of a recreation is refused
  (`qubes_view_map`) though still marked as mapped.
- `WindowPosition`: messages are read on both sides, and the client acknowledges
  configure events and commits what it acknowledged (xdg-shell asks for it). The
  frame timer is not assumed.
- `Clipboard`: strong fairness of each descriptor, because one thread serves them
  in turn (each is disabled while another is in its loop, and served at
  the next dispatch); clients read what they asked for, or give it up, and close what they have
  written. Writing is not fair: a client may close early. A client that stops reading
  and closes nothing is outside `TransfersEnd`: its writer would wait for ever.
- `Seat`: none. `NoStuckKey` has its condition in the formula: keymaps go on being
  read, which they are as long as the host's focus goes on moving. Without it a
  release that was dropped with its window would never be made up for.
- `Scene`: the event loop serves its timer and its idle sources (weak fairness of
  `Tick` and `IdleFrame`). That commits succeed, or that clients do anything, is not
  assumed: the properties speak of windows that stay shown and whose last frame
  did not fail (`failed`). A mode that is committed with the timer off, after which the
  output waits for a frame, is *not* left out.
- `MainLoop`: the process takes its next step (weak fairness of `Process` as a whole,
  one thread). That no source waits for ever follows from the loop, which serves all
  that is readable in each iteration. QubesDB and signals are not fair.

### What the failing runs show

1. **A second creation** (`session_second_create`). `setup_qubes_backend` starts
   with `enabled: true` (`src/src/qubes.rs:299`). A window of a client that is
   faster than the daemon is announced, queued, and announced again when the
   handshake is handled; the comment at `src/src/qubes.rs:27-29` describes what
   the flag is for. The daemon quits and the agent reconnects; in the second
   session, with `enabled` cleared by the loss, all is well.
2. **A frozen resize** (`resize_frozen`). Only the acknowledgement of the very
   serial of the resize clears NEED_CONFIGURE_ACK, or a commit of the size in
   `host`, which has been put back to the old one. A client that
   acknowledges a later configure event only is refused for good.
3. **A grown array** (`clipboard_array`). When the array has grown and `read` then
   fails with EAGAIN, the growth stays in its `size`. Without more growth the same
   defect sends bytes nobody wrote. `clipboard` has such reads, too, and shows that
   nothing is sent in excess without one (`SentAsWritten`).
4. **A blank window** (`remap_blank`). `xdg_surface_unmap` disables the root of the
   scene as well as the tree below it (`src/cbits/qubes_wayland.c:180-181`), and
   `qubes_output_map` enables only the tree (`src/cbits/qubes_output.c:552`). The
   window is on the host's screen again with no content.

The passing runs state what holds around these cases: `session_early` includes
early clients and shows what they do not break; `ContentDrawn` and
`CallbacksAnswered` are about windows whose nodes are all enabled, `ClockRuns` about
windows whose root is.

What these three leave out is reachable. An xdg window is unmapped, which disables its
root for good; the timer runs out; the window is mapped again, which commits a mode
(`src/cbits/qubes_output.c:556`) and so waits for a frame, without setting the timer; and
its client's commit is refused, so that no frame is sent either. It is mapped and
enabled and waits with the timer off, though no frame failed, until another window's
frame, or a commit of its own that is not refused, sets the timer. It is one of the blank
windows of `remap_blank`. For the others the run and
`TimerRuns` show that this cannot happen: the output of an xdg window that was never
unmapped is enabled all the time, so that the frame of `qubes_output_configure`, just
before it is mapped, sets the timer; an X11 window whose size is refused is not mapped,
and the frame of one that is not refused comes after the mode.

Five more things met on the way have no run of their own.

Windows are recreated
in the order of the views list, so that a MSG_MAP may name a parent the
daemon does not have yet; the model allows every order.

A window created before
the first handshake whose size then leaves the limits is not recreated, is
destroyed without a MSG_DESTROY, and leaves its pointer in the id map, so that
`DispatchReachesWindow` is checked with late clients only.

`qubes_output_configure` keeps an X11 window's new size in `guest` while
`qubes_send_configure` sends `host`: for X11 windows `src/STATE_TRACKING.md:11` does
not hold, and neither `HostAsDocumented` nor `Agreement` speaks of them.

If the daemon's keymaps are numbered by X11 keycodes, as its key presses are
(`src/cbits/qubes_input.c:69`), each MSG_KEYMAP_NOTIFY leaves bits that are eight too
high: a key held while the focus arrives is recorded as another one, its release is
taken for no change and never passed on. `InSync` then fails (`Offset` 8); the
repository does not say which numbering the daemon uses.

main reads the layout before `wl_display_run` (`src/cbits/main.c:930`). If it does not
compile and this is fatal, or cannot be read, systemd is told STOPPING=1 and
`wl_display_terminate` clears a flag that `wl_display_run` sets again. The compositor
runs on, and returns 78 or 71 when a signal ends it later. Changes read in the loop,
which the help of `--keymap-errors` speaks of, do end it (`TakesEffect`).

## 4. Proofs

`GuiSession_proofs` proves, for any windows, kinds, parents, sizes, bounds, with
or without early clients:

| Theorem | |
|---|---|
| `Invariance` | `Spec => []IInv` |
| `TypeCorrect` | `Spec => []TypeOK` |
| `DestroyAwaited` | an acknowledgement always finds the null pointer it expects, so that the agent never takes a well-behaved daemon's for a protocol error |
| `DestroyFinds` | the id of each created window is in the map for that window: `destroy_id` does not panic |
| `IdsRefined` | `GuiSession` implements `WindowIds` under the mapping `idStates` |

They use the assumptions on the constants in `GuiSession`: kinds and parents are
what they should be, the two null values are no windows and differ, and the
bounds are naturals.

`IInv` is `TypeOK` with three parts, none of which can be left out. `Counter`: the
map is empty from the counter on, so that a new id overwrites nothing. `Owners`: the
map has each output with an id under that id, a created one has an id, a freed one
has none; from it follows that the ids of messages are in range, and
`DestroyFindsId`. `Struck`: every MSG_DESTROY under way, to the daemon or back,
finds a null pointer, and is the only one of its id in either direction, so
that acknowledging one cannot strike out what another relies on. The proof has one lemma per
group of actions, one step per action, and lemmas about sequences for what
`Append`, `Tail` and concatenation do to `Struck`. `Owners` and `Struck` meet in
`Deinit`: the id struck out had its own output in the map, hence no
MSG_DESTROY was under way for it. The refinement is proved step by step:
a creation is `Allocate`, a destruction `Release`, the acknowledgement
`Acknowledge`, and the rest stutters.

`GuiProtocol_proofs` builds on it. The first two hold for any clients, the others for
clients that start after the handshake (`~EarlyClients`), without which
`session_second_create` refutes `CreatedOnce`:

| Theorem | |
|---|---|
| `MessagesInOrder` | `Spec => []TInv` |
| `CreatedBeforeUse` | the daemon never reads a message for a window it does not have |
| `LateInvariance` | `Spec => []LInv` |
| `CreatedOnce` | no window is announced twice in a session |
| `NoWindowLeftOver` | no window stays on the host after its end |
| `DispatchAlive` | an event is dispatched to the window it is for |

Both invariants speak of what the daemon will have been told of an id when it has read
what is on the way (`Told`: known already, or a MSG_CREATE is queued). `TInv`: messages
come after the creation of their window and before its destruction (`InOrder`), and
while anything is heard, whatever the agent may speak of has been told (`CreatedTold`,
`AskersTold`). `LInv` is the converse: a told id is owned by a created output or its
destruction is on the way (`Accounted`). This is what makes `CreatedFirst` inductive: an
id about to be announced is not told already, since its output is not created, no other
output has it (`Owners`), and its destruction on the way would have left a null pointer
in the map (`Struck`), where its output is. `Quiet` says that nothing crosses from one
session to the next, and `Addressed` that events under way keep their window. The
handlers are all of one form, creating a window if need be and speaking about it
(`Ensuring`), and one lemma says what such a handler leaves of each invariant.

`Seat_proofs` proves, for any windows, keys, numbering of keymaps and capacity of
the keyboard:

| Theorem | |
|---|---|
| `Invariance` | `Spec => []IInv` |
| `TypeCorrect` | `Spec => []TypeOK`: the keyboard's array is never overrun and holds recorded keys only |
| `KeysTracked` | a key that the client believes to be pressed has its bit set, so that its release will be passed on |
| `ActivationFollowsFocus` | a toplevel that lost the focus is not left activated |
| `FocusLives` | the focus is never on a window that is gone |
| `FocusArrives` | the window with the host's focus has the seat's or will be given it, unless it is about to go: `Spec => [](Shown /\ FocusFollows)` |
| `KeysArrive` | each key's bit is the host's or will be, where keymaps and keys are numbered alike (`Offset = 0`): `Spec => []KeysFollow` |
| `SeatInSync` | with nothing under way the agent's keys and focus are the host's: `InSync`, for `Offset = 0` |

`FocusLives` is the hard one of the first five. FOCUS_IN is handled without a look at the
window's state, so the message must not name a window that is gone; it names
what the daemon shows, and what the daemon shows may be gone already. The
invariant adds that for every window that is gone, and that the daemon shows or
will show when it has read what is on the way, the MSG_DESTROY is on the way as
well, behind everything else about it; `Addressee` then gives `Gone`, and the
messages sent before were struck when the window was destroyed.

`InSync` speaks only of states with empty queues, so it says nothing that a step
could keep. What a step keeps is said of the queue (`Comes`): of the messages for
the agent that concern a key, the last one gives it the bit it has on the host and
is for the window with the host's focus, hence not dropped; where there is none
the bit is right already. The same is said of the focus. Both hold while the host's
focus stays on a window that is not about to go (`Steady`): the daemon's own message
is lost with its window, and the next focus brings a keymap. That the window is still
mapped when its FOCUS_IN is read, without which the seat would not take it, is
`Shown`: what the daemon shows and is not mapped has its MSG_UNMAP or MSG_DESTROY on
the way. `Offset = 0` is a hypothesis of the last two because the code subtracts
8 from one numbering and not from the other (see section 3); `FocusArrives` holds
for any.

`Scene_proofs` proves, for any windows, kinds and parents:

| Theorem | |
|---|---|
| `Invariance` | `Spec => []IInv` |
| `TypeCorrect` | `Spec => []TypeOK` |
| `TimerRuns` | the timer is set while a window with its root enabled is mapped and enabled and its last frame did not fail |
| `ListenersHear` | a commit listener is in one list, and linked while its window is mapped |
| `TreesExist` | a mapped window has the subsurface tree its handlers use |

The handlers of `Scene` are compositions of functions on one output. The invariant
is therefore a predicate of one output (`Sound`), one of an output and the timer
(`Timed`), and `framePending => armed`; each function has a lemma that says it
preserves the first two. `KindFits`, what the kind of a window implies for its
listener, its tree and its root (an xdg output that is disabled has its root disabled,
too), is the strengthening that makes them inductive: without it the mapping of an xdg
window might find no listener linked, or enable with the timer off an output whose root
is enabled.

`DumpQueue_proofs` proves, for any windows, any finite set of buffers and any
bounds (of the assumptions, that `Buffers` is finite and `NoBuffer` is none of them
is what the counting needs):

| Theorem | |
|---|---|
| `Invariance` | `Spec => []IInv` |
| `TypeCorrect` | `Spec => []TypeOK`: no count is negative |
| `ReferencesCounted` | a buffer is freed by the last of its references |
| `AllocatorLast` | the allocator lasts as long as the last buffer |
| `PoppedInOrder` | the dumps not yet acknowledged are the last links |
| `GrantsOutliveDumps` | a daemon of protocol 1.7 finds the grants of every dump it reads |
| `LinksAreUnderWay` | in a session without losses each acknowledgement frees what it is for |

The invariant has two halves. In `Memory`, a buffer belongs to one output
(`Private`) that is alive (`Alive`): wlroots' reference can then be counted once
though the swapchain and `output->buffer` both name the buffer. In `Messages`,
nothing is under way outside a session, and nothing is drawn before the first one
(`Phases`): a dump is then linked exactly when it is sent, or linked while nothing
can be sent, and what is unacknowledged stays a suffix of the queue under all three
of its moves (both grow, both shrink, only the messages shrink).
`GrantsOutliveDumps` joins the halves: a dump under way has a place in the queue,
hence its buffer a link, hence a reference.

`Clipboard_proofs` proves, for any contents and lengths, any clients, finitely many
pipes, any capacities with room for the maximum in the compositor's own pipe, and
allocations that reach as far as the array can grow:

| Theorem | |
|---|---|
| `Invariance` | `Spec => []IInv` |
| `ContentsCounted` | a content is freed with the last of its source and its writers |
| `PastesComplete` | a client that keeps its pipe open gets all it pasted |
| `NoSelfWait` | the compositor never blocks on the pipe it would have to read |
| `TallyInvariance` | `Spec => []Tally` |
| `TypeCorrect` | `Spec => []TypeOK`: no pipe holds more than its capacity, and no count of references is negative |
| `ReadsInBounds` | the reader's array is within its allocation whatever clients write, and every read has room for a byte |
| `NothingLost` | what the daemon is sent holds every byte written, after the pipe was closed; its own content comes back as it was |
| `ExactInvariance` | `Spec => []TallyExact` |
| `NothingAdded` | `Spec => []SentAsWritten`: a pipe that is not `padded` is sent as it was written |
| `ArraySmallEnough` | the assertion of `clipboard_array` fails for `padded` pipes only |

In the invariant each pipe is unused, or has a writer with exactly the rest of its
content to go, or is read by the compositor (`Sound`), and a content's references are
its writers and, while it is the selection, its source. The assumption that the own
pipe holds `MaxSize` is what `NoSelfWait` rests on.

`Tally`, proved on top of it, is about the reader's array, whose size may be wrong, as
`clipboard_array` shows: the header and what was written and is not in the pipe any
more are together never more than that size. They are exactly that size when the
compositor writes to its own pipe, which is done at once and never makes its reader
wait. For clients, equality is lost in one place only: a read that finds nothing with
the size equal to the allocation, after the array has grown for it (`padded`).
`TallyExact` says that there is no other: while a pipe is not `padded`, the size is
exact. `NothingAdded` and `ArraySmallEnough` follow for any clients, without a
hypothesis on their writes. That the smallest
allocation that fits exists (`Least`) is taken from the well-foundedness of the
naturals; that the powers of two are naturals and one is large enough is the
assumption `DoublingsAssumption`, which TLC evaluates.

`WindowPosition_proofs` proves, for any limit and boxes, any kind of window, patient
client or not:

| Theorem | |
|---|---|
| `Invariance` | `Spec => []IInv` |
| `TypeCorrect` | `Spec => []TypeOK`: both copies always have a size within the limits |
| `HostIsGuest` | until the daemon configures the window, `host` is `guest` |
| `ToldInvariance` | `Spec => []Told`, for a patient client |
| `DaemonAgrees` | with nothing under way the daemon has the box that the compositor has: `Agreement`, for a patient client |

A handler is again a composition of functions on the output (`Say`, `SendConfigure`,
`Modeset`, `CommitSize`), with one lemma for each.

`Agreement`, too, is about quiet states only. `Told` says what holds on the way there:
the message that the daemon reads last is where the window is, or one that it
will not believe (`Right`), unless a resize of the daemon is still to be answered
(`Owing`); then `host` and `guest` may differ, and the size in `host` is what the
client is being asked for, or has just agreed to (`Owed`); and while commits are
refused for want of an acknowledgement, the configure event that it would
acknowledge is still in the list (`Awaited`). This last part is what a client breaks
that skips a configure event, as `resize_frozen` shows, and why the two theorems
assume `Patient`; it is the hypothesis of the run, too. A popup gets no configure
events for its size, so that a resize by the daemon always changes its mode and is
answered at once (`PopupShown`).

`MainLoop_proofs` proves, for any layouts and any number of changes:

| Theorem | |
|---|---|
| `Invariance` | `Spec => []IInv` |
| `TypeCorrect` | `Spec => []TypeOK`: what is in force is a layout that compiles |
| `NoChangeMissed` | in the loop, without a watch event to read, the layout of QubesDB is in force if it compiles |

Besides `TypeOK` the invariant is `UpToDate`: unless a watch event is left to read, what
has been read is what QubesDB has, and what is in force from then on is too. It rests on
the watch being there before the first read: a write after that leaves an event.
`TypeOK` of `MainLoop` is proved and not among the invariants of the run.

**Only model-checked:** liveness (`MappedIsShown`, `DaemonAnswered`, `ResizeEnds`,
`TransfersEnd`, `NoStuckKey`, `ContentDrawn`, `CallbacksAnswered`, `TakesEffect`), which
is out of the prover's reach. Every invariant of a passing run is stated by a
theorem, some with a hypothesis that the run satisfies as well: clients that
start after the handshake, a patient client, and `Offset = 0`.

## 5. Not modelled

- *Seat*: grabs of popups (wlroots keeps the focus while one is held), popups of
  popups, modifiers, clients before the first handshake, and a second window made of a
  wl_surface that its client kept. The pointer: motion,
  button and crossing handlers translate one message into one call and
  keep no state.
- *Scene*: what is drawn, and the output of the whole screen, which is never
  mapped.
- *Xwayland*: hints, titles, classes; a NULL parent in
  `qubes_xwayland_surface_set_parent` (`src/cbits/qubes_xwayland.c:403`), a plain
  dereference that a model could only restate.
- The creation of the wlroots objects, of the socket and of the startup command, and
  argument parsing: straight-line code that ends the process when it fails.
- Failing allocations, which return before any state changes, except in the
  clipboard's array; MIME types and empty clipboard contents; message bodies other
  than those named.
- wlroots, the gui-rust crates and the daemon are outside the repository and
  appear as the code uses them.

`PROJECT.json` says it per component.

## 6. Plan

Written, in this order: `GuiSession` with `WindowIds` and its proofs, since every
other part depends on ids, dispatch and reconnection; `DumpQueue` with its proofs;
`WindowPosition`, `Clipboard`, `Seat`, `Scene` and `MainLoop` with their proofs.

Next:

1. Grabs of popups in `Seat`, with the pointer's focus, which follows the same
   windows.
2. A composition of `Scene` with `WindowPosition`: the resize that waits for a
   commit, and the frame that the commit waits for, share the timer.
