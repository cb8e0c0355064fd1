-------------------------------- MODULE Seat --------------------------------
(***************************************************************************)
(* Keyboard input: the keys that the daemon reports, the keyboard focus    *)
(* that it moves, and what the focused client is told of both.             *)
(*                                                                         *)
(* A key is recorded three times.  The agent keeps a bit per key           *)
(* (backend->keymap), the wlr_keyboard keeps a short array of pressed keys *)
(* (keycodes), and the focused client keeps what it was told (clientKeys). *)
(* Messages about them are dropped with their window, and lost with the    *)
(* connection, and MSG_KEYMAP_NOTIFY is what repairs them afterwards.      *)
(*                                                                         *)
(* MSG_KEYPRESS carries X11 keycodes, from which handle_keypress takes 8;  *)
(* the bits of MSG_KEYMAP_NOTIFY are used as they come.  How the daemon    *)
(* numbers them is not in this repository: Offset is 0 if the two agree    *)
(* and 8 if they are X11 keycodes as well.                                 *)
(*                                                                         *)
(* A window that the daemon cannot address any more is Gone: the backend   *)
(* finds a null pointer for its id and drops the message (GuiSession).     *)
(* The focus is Gone when it is on the surface of such a window: a client  *)
(* may destroy a window and keep its wl_surface.  That it makes another    *)
(* window of that surface is left out.                                     *)
(* Grabs of popups, under which wlroots keeps the focus where it is, are   *)
(* left out, and so is the pointer.                                        *)
(***************************************************************************)
EXTENDS Integers, Sequences, FiniteSets

CONSTANTS Windows, Kind, Parent,   \* as in GuiSession
          NoWindow, Gone,          \* no window; a window since destroyed
          Keys,                    \* as handle_keypress numbers them: X11 less 8
          Offset,                  \* what MSG_KEYMAP_NOTIFY adds to these numbers
          KeysCap,                 \* WLR_KEYBOARD_KEYS_CAP
          MaxQueue                 \* bounds the messages that wait

ASSUME SeatAssumption ==
  /\ Kind \in [Windows -> {"toplevel", "popup", "xwayland"}]
  /\ Parent \in [Windows -> Windows \cup {NoWindow}]
  /\ NoWindow \notin Windows /\ Gone \notin Windows /\ NoWindow # Gone
  /\ \A w \in Windows : Kind[w] = "popup" => /\ Parent[w] \in Windows
                                            /\ Kind[Parent[w]] = "toplevel"
  /\ IsFiniteSet(Windows) /\ IsFiniteSet(Keys)
  /\ Keys \subseteq Nat /\ Offset \in Nat
  /\ KeysCap \in Nat /\ MaxQueue \in Nat

VARIABLES
  running,       \* FALSE once an assertion has failed
  state,         \* per window: "absent", "hidden" (created, not mapped), "shown"
  focus,         \* seat->keyboard_state.focused_surface, by its window; Gone
                 \* if only the surface is left of it
  active,        \* the toplevels that were told that they are activated
  lent,          \* toplevels activated without being focused: by the focus of
                 \* a popup, or by the daemon restoring them (history only)
  keymap,        \* backend->keymap
  keycodes,      \* keyboard->keycodes
  clientKeys,    \* keys that the focused client believes to be pressed
  connected, toDaemon, toAgent,
  held,          \* keys pressed on the host
  known,         \* windows that the daemon shows
  hostFocus      \* the one that has the host's focus

agentVars  == <<running, state, focus, active, lent, keymap, keycodes, clientKeys>>
daemonVars == <<held, known, hostFocus>>
vars == <<agentVars, connected, toDaemon, toAgent, daemonVars>>

Init ==
  /\ running = TRUE
  /\ state = [w \in Windows |-> "absent"]
  /\ focus = NoWindow /\ active = {} /\ lent = {}
  /\ keymap = {} /\ keycodes = {} /\ clientKeys = {}
  /\ connected = FALSE /\ toDaemon = <<>> /\ toAgent = <<>>
  /\ held = {} /\ known = {} /\ hostFocus = NoWindow

\* The bits of MSG_KEYMAP_NOTIFY for keys.
Bits(keys) == {k + Offset : k \in keys}

Toplevels == {w \in Windows : Kind[w] = "toplevel"}
Popups    == {w \in Windows : Kind[w] = "popup"}

\* The toplevel that the focus of w activates (the code follows the parents of
\* nested popups up to it).
Root(w) == IF w \in Popups THEN Parent[w] ELSE w

-----------------------------------------------------------------------------
(* The keyboard.                                                           *)

\* set_add of wlr_keyboard.
PressedSet(codes, k) ==
  IF Cardinality(codes) < KeysCap THEN codes \cup {k} ELSE codes

\* wlr_keyboard_notify_key, and keyboard_handle_key that it calls: the key
\* reaches the client that has the focus.
NotifyPressed(k) ==
  /\ keycodes' = PressedSet(keycodes, k)
  /\ clientKeys' = IF focus = NoWindow THEN clientKeys ELSE clientKeys \cup {k}

NotifyReleased(ks) ==
  /\ keycodes' = keycodes \ ks
  /\ clientKeys' = clientKeys \ ks

\* A mistake: only MSG_KEYMAP_NOTIFY updates the bits.
KeypressNotRecorded(k, pressed) ==
  /\ UNCHANGED keymap
  /\ \/ /\ (k \in keymap) # pressed
        /\ IF pressed THEN NotifyPressed(k) ELSE NotifyReleased({k})
     \/ /\ (k \in keymap) = pressed
        /\ UNCHANGED <<keycodes, clientKeys>>

\* handle_keypress: an event only for a key whose bit changes.
Keypress(k, pressed) ==
  /\ keymap' = IF pressed THEN keymap \cup {k} ELSE keymap \ {k}
  /\ \/ /\ (k \in keymap) # pressed
        /\ IF pressed THEN NotifyPressed(k) ELSE NotifyReleased({k})
     \/ /\ (k \in keymap) = pressed
        /\ UNCHANGED <<keycodes, clientKeys>>

\* A mistake: the map is replaced, nobody is told of the releases.
KeymapCopied(down) ==
  /\ keymap' = down
  /\ UNCHANGED <<keycodes, clientKeys>>

\* MSG_KEYMAP_NOTIFY: keys released meanwhile are reported; keys pressed
\* meanwhile are recorded in silence.
KeymapNotify(down) ==
  /\ keymap' = down
  /\ NotifyReleased(keymap \ down)

-----------------------------------------------------------------------------
(* The focus.                                                              *)

\* A mistake: losing the focus leaves a toplevel activated.
NothingDeactivated == {}

\* Both places that take the focus away deactivate a toplevel, and never the
\* toplevel of a popup.
Deactivated == IF focus \in Toplevels THEN {focus} ELSE {}

\* A mistake: the window is activated, the keyboard does not enter it unless
\* another window had the focus.
GiveFocusFromOther(w) ==
  /\ active' = (active \ Deactivated) \cup ({Root(w)} \cap Toplevels)
  /\ lent' = (lent \ (Deactivated \cup {w})) \cup (({Root(w)} \ {w}) \cap Toplevels)
  /\ IF focus = NoWindow
     THEN UNCHANGED <<focus, clientKeys>>
     ELSE focus' = w /\ clientKeys' = keycodes

\* qubes_give_view_keyboard_focus.  A window has a surface as long as it can be
\* addressed, an X11 window too: from its association to its dissociation.
GiveFocus(w) ==
  \/ /\ focus = w
     /\ active' = active \cup ({w} \cap Toplevels)
     /\ lent' = lent \ {w}
     /\ UNCHANGED <<focus, clientKeys>>
  \/ /\ focus # w
     /\ active' = (active \ Deactivated) \cup ({Root(w)} \cap Toplevels)
     /\ lent' = (lent \ (Deactivated \cup {w}))
                  \cup (({Root(w)} \ {w}) \cap Toplevels)
     /\ focus' = w /\ clientKeys' = keycodes

\* wlr_seat forgets a surface with its destruction.
ClearFocus == focus' = NoWindow /\ clientKeys' = {}

\* The window w is gone, and its surface with it or later.
DropFocusOf(w) ==
  \/ focus = w /\ ClearFocus
  \/ focus = w /\ focus' = Gone /\ UNCHANGED clientKeys
  \/ focus # w /\ UNCHANGED <<focus, clientKeys>>

\* A message is sent if there is a session.
Send(m) == toDaemon' = IF connected THEN Append(toDaemon, m) ELSE toDaemon

\* A mistake: the id of a destroyed window keeps its pointer.
StruckNothing(q, w) == q

\* What is left of the messages in q once w is destroyed.
Struck(q, w) ==
  [i \in DOMAIN q |-> IF q[i].win = w THEN [q[i] EXCEPT !.win = Gone] ELSE q[i]]

\* The end of a view: MSG_DESTROY, and its id finds no pointer any more.
Freed(w, queue) ==
  /\ state' = [state EXCEPT ![w] = "absent"]
  /\ active' = active \ {w} /\ lent' = lent \ {w}
  /\ Send([type |-> "DESTROY", win |-> w])
  /\ toAgent' = Struck(queue, w)

-----------------------------------------------------------------------------
(* Windows come and go.                                                    *)

CanSend == running /\ Len(toDaemon) < MaxQueue

NewWindow(w) ==
  /\ running
  /\ state[w] = "absent"
  /\ Kind[w] = "popup" => state[Parent[w]] # "absent"
  /\ state' = [state EXCEPT ![w] = "hidden"]
  /\ UNCHANGED <<running, focus, active, lent, keymap, keycodes, clientKeys,
                 connected, toDaemon, toAgent, daemonVars>>

MapWindow(w) ==
  /\ CanSend
  /\ state[w] = "hidden"
  /\ state' = [state EXCEPT ![w] = "shown"]
  /\ Send([type |-> "MAP", win |-> w])
  /\ UNCHANGED <<running, focus, active, lent, keymap, keycodes, clientKeys,
                 connected, toAgent, daemonVars>>

\* Unmapping moves no focus.
UnmapWindow(w) ==
  /\ CanSend
  /\ state[w] = "shown"
  /\ state' = [state EXCEPT ![w] = "hidden"]
  /\ Send([type |-> "UNMAP", win |-> w])
  /\ UNCHANGED <<running, focus, active, lent, keymap, keycodes, clientKeys,
                 connected, toAgent, daemonVars>>

\* wlroots destroys the popups of a window before the window.
DestroyWindow(w) ==
  /\ CanSend
  /\ state[w] # "absent"
  /\ \A p \in Popups : Parent[p] = w => state[p] = "absent"
  /\ Freed(w, toAgent)
  /\ DropFocusOf(w)
  /\ UNCHANGED <<running, keymap, keycodes, connected, daemonVars>>

\* The surface that a client kept is destroyed as well.
DestroySurface ==
  /\ running /\ focus = Gone
  /\ ClearFocus
  /\ UNCHANGED <<running, state, active, lent, keymap, keycodes, connected,
                 toDaemon, toAgent, daemonVars>>

-----------------------------------------------------------------------------
(* Messages of the daemon: qubes_parse_event and its handlers.             *)

Received(type) == running /\ toAgent # <<>> /\ Head(toAgent).type = type
Addressed == Head(toAgent).win # Gone

\* The backend drops a message for a window that is gone.
ReadForGone ==
  /\ running /\ toAgent # <<>> /\ ~Addressed
  /\ toAgent' = Tail(toAgent)
  /\ UNCHANGED <<agentVars, connected, toDaemon, daemonVars>>

ReadKeypress ==
  /\ Received("KEYPRESS") /\ Addressed
  /\ Keypress(Head(toAgent).key, Head(toAgent).pressed)
  /\ toAgent' = Tail(toAgent)
  /\ UNCHANGED <<running, state, focus, active, lent, connected, toDaemon, daemonVars>>

ReadKeymapNotify ==
  /\ Received("KEYMAP_NOTIFY")
  /\ KeymapNotify(Head(toAgent).keys)
  /\ toAgent' = Tail(toAgent)
  /\ UNCHANGED <<running, state, focus, active, lent, connected, toDaemon, daemonVars>>

ReadFocusIn ==
  /\ Received("FOCUS_IN") /\ Addressed
  /\ GiveFocus(Head(toAgent).win)
  /\ toAgent' = Tail(toAgent)
  /\ UNCHANGED <<running, state, keymap, keycodes, connected, toDaemon, daemonVars>>

\* FOCUS_OUT deactivates and clears whatever has the focus, whichever window
\* the message is about.
ReadFocusOut ==
  /\ Received("FOCUS_OUT") /\ Addressed
  /\ focus \notin Popups
  /\ active' = active \ Deactivated
  /\ lent' = lent \ Deactivated
  /\ ClearFocus
  /\ toAgent' = Tail(toAgent)
  /\ UNCHANGED <<running, state, keymap, keycodes, connected, toDaemon, daemonVars>>

\* A popup that has the focus is destroyed.  That its destruction takes the
\* focus away is wlroots' doing, which the code only asserts.
ReadFocusOutOfPopup ==
  /\ Received("FOCUS_OUT") /\ Addressed
  /\ focus \in Popups
  /\ \/ /\ Freed(focus, Tail(toAgent))
        /\ ClearFocus
        /\ UNCHANGED running
     \/ /\ running' = FALSE
        /\ toAgent' = Tail(toAgent)
        /\ UNCHANGED <<state, focus, active, lent, clientKeys, toDaemon>>
  /\ UNCHANGED <<keymap, keycodes, connected, daemonVars>>

\* handle_window_flags: minimising deactivates, restoring activates.
ReadFlags ==
  /\ Received("WINDOW_FLAGS") /\ Addressed
  /\ LET w == {Head(toAgent).win} \cap Toplevels
         restored == ~Head(toAgent).minimize
     IN  /\ active' = IF restored THEN active \cup w ELSE active \ w
         /\ lent' = IF restored THEN lent \cup w ELSE lent \ w
  /\ toAgent' = Tail(toAgent)
  /\ UNCHANGED <<running, state, focus, keymap, keycodes, clientKeys,
                 connected, toDaemon, daemonVars>>

-----------------------------------------------------------------------------
(* The connection, and the daemon.                                         *)

\* The agent keeps focus and keys over a loss; the host keeps its keys only.
Disconnect ==
  /\ running /\ connected
  /\ connected' = FALSE
  /\ toDaemon' = <<>> /\ toAgent' = <<>>
  /\ known' = {} /\ hostFocus' = NoWindow
  /\ UNCHANGED <<agentVars, held>>

\* The handshake: every mapped window is created and mapped again, in the
\* order of the views list (which the focus has rearranged: any order).
Reconnect ==
  /\ running /\ ~connected
  /\ connected' = TRUE
  /\ LET shown == {w \in Windows : state[w] = "shown"} IN
       \E order \in [1..Cardinality(shown) -> shown] :
         /\ \A w \in shown : \E i \in DOMAIN order : order[i] = w
         /\ toDaemon' = [i \in DOMAIN order |-> [type |-> "MAP", win |-> order[i]]]
  /\ UNCHANGED <<agentVars, toAgent, daemonVars>>

\* The id by which the daemon knows w still has w's pointer in the agent.
Addressee(w) ==
  IF \E i \in DOMAIN toDaemon : toDaemon[i] = [type |-> "DESTROY", win |-> w]
  THEN Gone ELSE w

Tell(ms) == toAgent' = toAgent \o ms
CanTell == running /\ connected /\ Len(toAgent) < MaxQueue

DaemonMaps ==
  /\ running /\ connected /\ toDaemon # <<>> /\ Head(toDaemon).type = "MAP"
  /\ known' = known \cup {Head(toDaemon).win}
  /\ toDaemon' = Tail(toDaemon)
  /\ UNCHANGED <<agentVars, connected, toAgent, held, hostFocus>>

\* The host takes the focus from a window that is unmapped, and says so; of a
\* destroyed one it says nothing.
DaemonHides ==
  /\ running /\ connected /\ toDaemon # <<>> /\ Head(toDaemon).type # "MAP"
  /\ LET m == Head(toDaemon) IN
       /\ known' = known \ {m.win}
       /\ hostFocus' = IF hostFocus = m.win THEN NoWindow ELSE hostFocus
       /\ IF hostFocus = m.win /\ m.type = "UNMAP"
          THEN Tell(<<[type |-> "FOCUS_OUT", win |-> Addressee(m.win)]>>)
          ELSE UNCHANGED toAgent
  /\ toDaemon' = Tail(toDaemon)
  /\ UNCHANGED <<agentVars, connected, held>>

\* The daemon sends the keys of the moment before it says that a window has
\* the focus.
HostFocusIn(w) ==
  /\ CanTell
  /\ hostFocus = NoWindow /\ w \in known
  /\ hostFocus' = w
  /\ Tell(<<[type |-> "KEYMAP_NOTIFY", win |-> NoWindow, keys |-> Bits(held)],
            [type |-> "FOCUS_IN", win |-> Addressee(w)]>>)
  /\ UNCHANGED <<agentVars, connected, toDaemon, held, known>>

HostFocusOut ==
  /\ CanTell
  /\ hostFocus # NoWindow
  /\ hostFocus' = NoWindow
  /\ Tell(<<[type |-> "FOCUS_OUT", win |-> Addressee(hostFocus)]>>)
  /\ UNCHANGED <<agentVars, connected, toDaemon, held, known>>

\* A key of the host; the daemon hears of it for the focused window.
HostKey(k) ==
  /\ running
  /\ held' = IF k \in held THEN held \ {k} ELSE held \cup {k}
  /\ \/ /\ hostFocus = NoWindow
        /\ UNCHANGED toAgent
     \/ /\ hostFocus # NoWindow /\ CanTell
        /\ Tell(<<[type |-> "KEYPRESS", win |-> Addressee(hostFocus),
                   key |-> k, pressed |-> k \notin held]>>)
  /\ UNCHANGED <<agentVars, connected, toDaemon, known, hostFocus>>

\* Of flags for other windows handle_window_flags takes no notice.
HostMinimize(w, minimize) ==
  /\ CanTell
  /\ w \in known \cap Toplevels
  /\ Tell(<<[type |-> "WINDOW_FLAGS", win |-> Addressee(w), minimize |-> minimize]>>)
  /\ UNCHANGED <<agentVars, connected, toDaemon, daemonVars>>

-----------------------------------------------------------------------------
Agent ==
  \/ ReadForGone \/ ReadKeypress \/ ReadKeymapNotify
  \/ ReadFocusIn \/ ReadFocusOut \/ ReadFocusOutOfPopup \/ ReadFlags

Client(w) == NewWindow(w) \/ MapWindow(w) \/ UnmapWindow(w) \/ DestroyWindow(w)

Host ==
  \/ DaemonMaps \/ DaemonHides \/ HostFocusOut
  \/ \E w \in Windows : HostFocusIn(w)
  \/ \E k \in Keys : HostKey(k)
  \/ \E w \in Windows, minimize \in BOOLEAN : HostMinimize(w, minimize)

Next ==
  \/ Agent \/ Host \/ Disconnect \/ Reconnect
  \/ DestroySurface \/ \E w \in Windows : Client(w)

Spec == Init /\ [][Next]_vars
-----------------------------------------------------------------------------
(* Properties.                                                             *)

AgentMessages ==
  [type : {"KEYMAP_NOTIFY"}, win : {NoWindow}, keys : SUBSET Bits(Keys)]
    \cup [type : {"FOCUS_IN", "FOCUS_OUT"}, win : Windows \cup {Gone}]
    \cup [type : {"KEYPRESS"}, win : Windows \cup {Gone}, key : Keys, pressed : BOOLEAN]
    \cup [type : {"WINDOW_FLAGS"}, win : Windows \cup {Gone}, minimize : BOOLEAN]

\* Values of the right kind; the array of the wlr_keyboard is never overrun,
\* and what it holds is recorded in the bits as well.
TypeOK ==
  /\ running \in BOOLEAN
  /\ state \in [Windows -> {"absent", "hidden", "shown"}]
  /\ focus \in Windows \cup {NoWindow, Gone}
  /\ active \subseteq Toplevels /\ lent \subseteq Toplevels
  /\ keymap \subseteq Keys \cup Bits(Keys) /\ clientKeys \subseteq Keys
  /\ keycodes \subseteq Keys \cap keymap /\ Cardinality(keycodes) <= KeysCap
  /\ connected \in BOOLEAN
  /\ toDaemon \in Seq([type : {"MAP", "UNMAP", "DESTROY"}, win : Windows])
  /\ toAgent \in Seq(AgentMessages)
  /\ held \subseteq Keys /\ known \subseteq Windows
  /\ hostFocus \in Windows \cup {NoWindow}

\* The focus is never left on, or given to, a window that no longer exists,
\* whatever the daemon says of it (a surface that outlives its window may keep
\* the focus, but only until the focus moves), and without a focus no client
\* believes a key to be pressed.
FocusIsAlive ==
  /\ focus \in Windows => state[focus] # "absent"
  /\ focus = NoWindow => clientKeys = {}

\* Every key that a client believes to be pressed is one whose release the
\* agent will pass on: its bit is set.  This must hold through silent changes
\* of the keymap, moves of the focus, and losses of the connection.
HeldIsTracked == clientKeys \subseteq keymap

\* A toplevel that looks active has the focus, or a popup of it was given the
\* focus, or the daemon restored it.  Losing the focus, by FOCUS_OUT or to
\* another window, must take the activation away again in every other case.
ActiveIsFocused == active \subseteq ({focus} \cup lent)

\* When nothing is under way, a mapped window that has the host's focus has the
\* focus of the seat, and the agent's keys are the host's, whatever was
\* dropped, lost or overtaken before, if keymaps and key presses number keys
\* alike once 8 is taken off the latter (Offset = 0; qubes_input.c:69-72).
InSync ==
  connected /\ running /\ toDaemon = <<>> /\ toAgent = <<>>
  /\ hostFocus # NoWindow /\ state[hostFocus] = "shown"
    => /\ focus = hostFocus
       /\ keymap = held
       /\ clientKeys \subseteq held

\* No key is stuck: one that stays released on the host is in the end released
\* for the client, provided that keymaps go on arriving.
NoStuckKey ==
  ([]<><<ReadKeymapNotify>>_vars) =>
    \A k \in Keys : <>[](k \notin held) => <>[](k \notin clientKeys)
=============================================================================
