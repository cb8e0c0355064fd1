------------------------------ MODULE MainLoop ------------------------------
(***************************************************************************)
(* The life of the process (main.c): it opens QubesDB and watches the      *)
(* keyboard layout, starts the backend, reads the layout, adds its signal  *)
(* handlers and runs the event loop until something terminates it.         *)
(*                                                                         *)
(* The layout may be set at any time, between any two steps of main and    *)
(* between the two reads of a handler.  An iteration of the loop serves    *)
(* every source that is readable when it begins, in any order, and only    *)
(* then tests whether to go on.                                            *)
(***************************************************************************)
EXTENDS Naturals, Sequences

CONSTANTS
  Layouts,   \* the values of /keyboard-layout that XKB can compile
  Broken,    \* those that it cannot
  Default,   \* the layout of the defaults, with which the keyboard starts
  NoEntry,   \* /keyboard-layout does not exist (ENOENT), or there is no keyboard
  Failed,    \* what qdb_read returns without a QubesDB
  MaxSets    \* bound: how often QubesDB is written

ASSUME LayoutsAssumption ==
  /\ Default \in Layouts
  /\ Layouts \cap Broken = {} /\ {NoEntry, Failed} \cap (Layouts \cup Broken) = {}
  /\ NoEntry # Failed
ASSUME BoundAssumption == MaxSets \in Nat

Entries == Layouts \cup Broken \cup {NoEntry}

VARIABLES
  fatal,      \* server->keymap_errors_fatal
  sigint,     \* handle_sigint
  at,         \* what the process does next
  ready,      \* the sources this iteration of the event loop has yet to serve
  run,        \* whether the event loop goes on (wl_display)
  handling,   \* the signal handlers are there
  signalled,  \* a signal awaits its handler
  stopping,   \* systemd was told STOPPING=1
  status,     \* server->exit_status, or the status of err()
  entry,      \* /keyboard-layout
  alive,      \* QubesDB is there
  events,     \* its watch events not yet read
  sets,       \* how often it was written
  got,        \* keyboard_layout of qubes_refresh_keyboard_layout
  keymap      \* the layout of server->keyboard

options == <<fatal, sigint>>
loop == <<ready, run>>
ending == <<handling, signalled, stopping, status>>
database == <<entry, alive, sets>>
vars == <<options, at, loop, ending, database, events, got, keymap>>

Sources == {"qubesdb", "signal", "vchan"}
Steps == {"open", "start", "read", "set", "handlers", "run", "loop", "exited", "killed"}
Ended == at \in {"exited", "killed"}

-----------------------------------------------------------------------------
(* main, up to the event loop.                                             *)

OpenQubesDB ==
  /\ at = "open"
  /\ \/ alive /\ at' = "start" /\ UNCHANGED status
     \/ ~alive /\ at' = "exited" /\ status' = 1
  /\ UNCHANGED <<options, loop, handling, signalled, stopping, database, events, got, keymap>>

\* Mutant of Watching: the watch is added after the first read.
WatchingLate == at \notin {"open", "start", "read", "set"}

\* qdb_watch comes before everything else that looks at the layout.
Watching == at # "open"

\* wlr_backend_start announces the one keyboard (server_new_keyboard).
StartBackend ==
  /\ at = "start" /\ at' = "read"
  /\ keymap' = Default
  /\ UNCHANGED <<options, loop, ending, database, events, got>>

AddSignalHandlers ==
  /\ at = "handlers" /\ at' = "run"
  /\ handling' = TRUE
  /\ UNCHANGED <<options, loop, signalled, stopping, status, database, events, got, keymap>>

\* wl_display_run sets the flag that wl_display_terminate clears.
Run ==
  /\ at = "run" /\ at' = "loop"
  /\ run' = TRUE
  /\ UNCHANGED <<options, ready, ending, database, events, got, keymap>>

-----------------------------------------------------------------------------
(* The layout: read and then put into force, by main and by the watch.     *)

ReadLayout ==
  /\ at = "read" /\ at' = "set"
  /\ got' = IF alive THEN entry ELSE Failed
  /\ UNCHANGED <<options, loop, ending, database, events, keymap>>

\* wl_display_terminate, and what systemd and the parent of the process are told.
StopWith(code) == run' = FALSE /\ stopping' = TRUE /\ status' = code
GoOn == UNCHANGED <<run, stopping, status>>

\* An entry that is gone changes nothing: the layout in force stays.
SetLayout ==
  /\ at = "set" /\ at' = IF handling THEN "loop" ELSE "handlers"
  /\ \/ got \in Layouts /\ keymap' = got /\ GoOn
     \/ got \in Broken /\ fatal /\ StopWith(78) /\ UNCHANGED keymap
     \/ got \in Broken /\ ~fatal /\ GoOn /\ UNCHANGED keymap
     \/ got = NoEntry /\ GoOn /\ UNCHANGED keymap
     \/ got = Failed /\ StopWith(71) /\ UNCHANGED keymap
  /\ UNCHANGED <<options, ready, handling, signalled, database, events, got>>

-----------------------------------------------------------------------------
(* The event loop.                                                         *)

Readable(s) ==
  CASE s = "qubesdb" -> events # <<>> \/ ~alive
    [] s = "signal" -> signalled
    [] s = "vchan" -> TRUE

Dispatch ==
  /\ at = "loop" /\ ready = {} /\ run
  /\ ready' \in SUBSET {s \in Sources : Readable(s)} \ {{}}
  /\ \A s \in {"qubesdb", "signal"} : Readable(s) => s \in ready'
  /\ UNCHANGED <<options, at, run, ending, database, events, got, keymap>>

Serve(s) == at = "loop" /\ s \in ready /\ ready' = ready \ {s}

\* Mutant of ReapWatches: all events are read, and the last looked at.
ReapWatchesLast ==
  /\ Serve("qubesdb")
  /\ at' = IF events # <<>> /\ events[Len(events)] = "layout" THEN "read" ELSE "loop"
  /\ events' = <<>>
  /\ UNCHANGED <<options, run, ending, database, got, keymap>>

\* qubes_reap_watches: one event, or none when QubesDB is gone.
ReapWatches ==
  /\ Serve("qubesdb")
  /\ \/ events = <<>> /\ UNCHANGED <<at, events>>
     \/ events # <<>> /\ Head(events) = "layout" /\ at' = "read" /\ events' = Tail(events)
     \/ events # <<>> /\ Head(events) = "domain" /\ UNCHANGED at /\ events' = Tail(events)
  /\ UNCHANGED <<options, run, ending, database, got, keymap>>

\* qubes_clean_exit.
CleanExit ==
  /\ Serve("signal")
  /\ signalled' = FALSE /\ stopping' = TRUE /\ run' = FALSE
  /\ UNCHANGED <<options, at, handling, status, database, events, got, keymap>>

\* A message is handled (GuiSession), the reconnection fails, or a protocol error
\* or the event source ends the loop without a word of stopping.
ServeBackend ==
  /\ Serve("vchan")
  /\ \/ UNCHANGED <<run, stopping>>
     \/ run' = FALSE /\ stopping' = TRUE
     \/ run' = FALSE /\ UNCHANGED stopping
  /\ UNCHANGED <<options, at, handling, signalled, status, database, events, got, keymap>>

\* wl_display_run returns, main frees everything and returns exit_status.
Exit ==
  /\ at = "loop" /\ ready = {} /\ ~run
  /\ at' = "exited"
  /\ UNCHANGED <<options, loop, ending, database, events, got, keymap>>

-----------------------------------------------------------------------------
(* The surroundings.                                                       *)

Caught(sig) == handling /\ (sig = "SIGINT" => sigint)

\* Without a handler a signal ends the process.
Signal(sig) ==
  /\ ~Ended
  /\ IF Caught(sig) THEN signalled' = TRUE /\ UNCHANGED at
     ELSE at' = "killed" /\ UNCHANGED signalled
  /\ UNCHANGED <<options, loop, handling, stopping, status, database, events, got, keymap>>

Written(what) ==
  /\ alive /\ sets < MaxSets /\ ~Ended
  /\ sets' = sets + 1
  /\ events' = IF Watching THEN Append(events, what) ELSE events

LayoutSet(e) ==
  /\ Written("layout") /\ entry' = e
  /\ UNCHANGED <<options, at, loop, ending, alive, got, keymap>>

DomainSet ==
  /\ Written("domain")
  /\ UNCHANGED <<options, at, loop, ending, entry, alive, got, keymap>>

QubesDBDies ==
  /\ alive /\ ~Ended
  /\ alive' = FALSE
  /\ UNCHANGED <<options, at, loop, ending, entry, events, sets, got, keymap>>

-----------------------------------------------------------------------------
Init ==
  /\ fatal \in BOOLEAN /\ sigint \in BOOLEAN
  /\ at = "open" /\ ready = {} /\ run = FALSE
  /\ handling = FALSE /\ signalled = FALSE /\ stopping = FALSE /\ status = 0
  /\ entry \in Entries /\ alive = TRUE /\ events = <<>> /\ sets = 0
  /\ got = NoEntry /\ keymap = NoEntry

Process ==
  \/ OpenQubesDB \/ StartBackend \/ AddSignalHandlers \/ Run
  \/ ReadLayout \/ SetLayout
  \/ Dispatch \/ ReapWatches \/ CleanExit \/ ServeBackend \/ Exit

Next ==
  \/ Process
  \/ \E sig \in {"SIGTERM", "SIGHUP", "SIGINT"} : Signal(sig)
  \/ \E e \in Entries : LayoutSet(e)
  \/ DomainSet \/ QubesDBDies

Spec == Init /\ [][Next]_vars

\* The process runs; the rest owes it nothing.
FairSpec == Spec /\ WF_vars(Process)

-----------------------------------------------------------------------------
TypeOK ==
  /\ fatal \in BOOLEAN /\ sigint \in BOOLEAN /\ run \in BOOLEAN /\ alive \in BOOLEAN
  /\ handling \in BOOLEAN /\ signalled \in BOOLEAN /\ stopping \in BOOLEAN
  /\ at \in Steps /\ ready \subseteq Sources /\ status \in {0, 1, 71, 78}
  /\ entry \in Entries /\ got \in Entries \cup {Failed}
  /\ keymap \in Layouts \cup {NoEntry}
  /\ events \in Seq({"layout", "domain"}) /\ sets \in 0 .. MaxSets

LayoutEvent == \E k \in DOMAIN events : events[k] = "layout"

\* No change of the layout is missed, wherever it falls between the watch, the
\* first read and the reads of the handlers: in the loop, without a watch event left
\* to read, the layout in force is that of QubesDB, if it compiles.
LayoutFollows ==
  at = "loop" /\ alive /\ ~LayoutEvent /\ entry \in Layouts => keymap = entry

\* What QubesDB and the system ask of the compositor takes effect: a layout comes into
\* force unless it is replaced before; a signal that is caught ends the compositor, also
\* one that comes before the loop; and so does, with --keymap-errors exit (main.c:331),
\* a change to a layout that does not compile, if it is still there when it is read.
LayoutArrives ==
  \A l \in Layouts : entry = l ~> keymap = l \/ entry # l \/ ~alive \/ Ended
SignalEnds == signalled ~> Ended
FatalEnds ==
  fatal /\ handling /\ entry \in Broken /\ LayoutEvent ~> entry \notin Broken \/ ~alive \/ Ended
TakesEffect == LayoutArrives /\ SignalEnds /\ FatalEnds
=============================================================================
