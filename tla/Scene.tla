-------------------------------- MODULE Scene --------------------------------
(***************************************************************************)
(* When a window is drawn: the frame clock of the compositor, the wlr      *)
(* output and the scene of each window, and the listeners of Xwayland      *)
(* views, which decide whether a commit of the client is heard at all.     *)
(*                                                                         *)
(* There is one timer for all windows.  A frame of an output arms it if    *)
(* server->frame_pending is not set; when it fires it clears the flag and  *)
(* sends a frame to every output.  So the clock runs only as long as some  *)
(* frame succeeds, and a commit of an output that no frame follows leaves  *)
(* it waiting (frame_pending) for a timer that may not be armed.           *)
(*                                                                         *)
(* out[w] is the output of window w with what belongs to it.  Sizes that   *)
(* are refused, and commits that fail, are choices.  A commit of a client  *)
(* is one step: wlroots emits map (or unmap), then commit, from it.        *)
(***************************************************************************)
CONSTANTS Windows,
          Parent,      \* the window that an X11 window may be transient for
          NoWindow

ASSUME SceneAssumption ==
  NoWindow \notin Windows /\ Parent \in [Windows -> Windows \cup {NoWindow}]

VARIABLES
  running,         \* FALSE once an assertion has failed
  out,
  framePending,    \* server->frame_pending
  armed            \* is server->timer set?

vars == <<running, out, framePending, armed>>

Outputs ==
  [kind : {"none", "xdg", "xwayland"},
   live : BOOLEAN,       \* the output exists (of an X11 window: associated)
   surface : BOOLEAN,    \* the client's surface is mapped
   mapped : BOOLEAN,     \* QUBES_OUTPUT_MAPPED
   enabled : BOOLEAN, pending : BOOLEAN, idle : BOOLEAN,
                         \* of the wlr_output: enabled, frame_pending, idle_frame
   damage : BOOLEAN,     \* it has something to draw
   root : BOOLEAN,       \* is the root of its scene enabled?
   tree : {"none", "off", "on"},                \* scene_subsurface_tree
   commit : {"self", "linked", "null", "bad"},  \* the link of view->commit
   dirty : BOOLEAN,      \* the client's last content is not drawn yet
   asked : BOOLEAN,      \* the client waits for a frame callback
   failed : BOOLEAN]     \* the last frame that had something to draw failed
                         \* (history only: no action reads it)

Absent ==
  [kind |-> "none", live |-> FALSE, surface |-> FALSE, mapped |-> FALSE,
   enabled |-> FALSE, pending |-> FALSE, idle |-> FALSE, damage |-> FALSE,
   root |-> FALSE, tree |-> "none", commit |-> "null",
   dirty |-> FALSE, asked |-> FALSE, failed |-> FALSE]

\* main sets the timer once before the event loop.
Init ==
  /\ running = TRUE
  /\ out = [w \in Windows |-> Absent]
  /\ framePending = FALSE /\ armed = TRUE

-----------------------------------------------------------------------------
(* wlroots.                                                                *)

\* What for_each_buffer reaches of the client's surface, and what damages.
Visible(o) == o.surface /\ o.root /\ o.tree = "on"

\* A commit of a mode: wlroots waits for the frame event of what it shows, also
\* when no timer is set that could bring it.
Modeset(o) == [o EXCEPT !.pending = o.enabled, !.damage = TRUE]

\* wlr_output_schedule_frame.
Schedule(o) == [o EXCEPT !.damage = TRUE, !.idle = @ \/ ~o.pending]

\* The scene hears of new content if the surface is in it.
NewContent(o, asks) ==
  LET n == [o EXCEPT !.dirty = TRUE, !.asked = @ \/ asks] IN
  IF Visible(o) THEN Schedule(n) ELSE n

-----------------------------------------------------------------------------
(* Frames.                                                                 *)

\* qubes_wlr_scene_output_commit: nothing to do, or an attempt.
CommitFails(o, ok) == o.enabled /\ o.mapped /\ o.damage /\ ~ok

\* Does the frame event of o get as far as the timer?
Arms(o, ok) == o.enabled /\ ~CommitFails(o, ok)

\* wlr_output_send_frame, and qubes_output_frame for an enabled output.
Framed(o, ok) ==
  IF Arms(o, ok)
  THEN [o EXCEPT !.pending = TRUE,
                 !.damage = @ /\ ~o.mapped,
                 !.dirty = @ /\ ~(o.mapped /\ Visible(o)),
                 !.failed = FALSE]
  ELSE [o EXCEPT !.pending = FALSE, !.failed = @ \/ CommitFails(o, ok)]

\* A mistake: the flag is set without the timer.
ClockForgetsTimer(arms) ==
  /\ framePending' = (framePending \/ arms)
  /\ UNCHANGED armed

\* "Schedule another timer callback", once.
Clock(arms) ==
  /\ framePending' = (framePending \/ arms)
  /\ armed' = (armed \/ (arms /\ ~framePending))

\* A mistake: the callback leaves the flag set.
TickKeepsFlag(arms) == armed' = (arms /\ ~framePending) /\ UNCHANGED framePending

\* A mistake: the flag is cleared after the frames have been sent.
TickedTooLate(arms) == armed' = (arms /\ ~framePending) /\ framePending' = FALSE

\* The timer is spent and the flag cleared before the frames are sent.
Ticked(arms) == armed' = arms /\ framePending' = arms

\* qubes_send_frame_callbacks.
Tick ==
  /\ running /\ armed
  /\ \E ok \in [Windows -> BOOLEAN] :
       /\ out' = [w \in Windows |->
            IF out[w].live
            THEN [Framed([out[w] EXCEPT !.pending = FALSE], ok[w])
                    EXCEPT !.asked = @ /\ ~Visible(out[w])]
            ELSE out[w]]
       /\ Ticked(\E w \in Windows : out[w].live /\ Arms(out[w], ok[w]))
  /\ UNCHANGED running

\* schedule_frame_handle_idle_timer.
IdleFrame(w) ==
  /\ running /\ out[w].idle
  /\ \E ok \in BOOLEAN :
       LET o == [out[w] EXCEPT !.idle = FALSE] IN
       IF o.pending
       THEN out' = [out EXCEPT ![w] = o] /\ UNCHANGED <<framePending, armed>>
       ELSE out' = [out EXCEPT ![w] = Framed(o, ok)] /\ Clock(Arms(o, ok))
  /\ UNCHANGED running

-----------------------------------------------------------------------------
(* Outputs and views.                                                      *)

Quiet == UNCHANGED <<running, framePending, armed>>

\* qubes_output_init: enabled from the start; its surface is in the scene.
NewOutput(kind) ==
  [Absent EXCEPT !.kind = kind, !.live = TRUE, !.enabled = TRUE,
                 !.root = TRUE, !.tree = "on"]

\* qubes_new_xdg_surface.  The commits of its output succeed if it has a size.
NewXdgSurface(w) ==
  /\ running /\ out[w].kind = "none"
  /\ LET o == [NewOutput("xdg") EXCEPT !.commit = "linked"] IN
       \E sized \in BOOLEAN :
         out' = [out EXCEPT ![w] = IF sized THEN Modeset(o) ELSE o]
  /\ Quiet

\* wl_signal_add and the guarded wl_list_remove on view->commit.
Linked(link)   == IF link = "linked" THEN "bad" ELSE "linked"
Unlinked(link) == IF link = "bad" THEN "bad" ELSE "null"

\* A mistake: the listener is added again without taking it out first.
RelinkedTwice(link) == Linked(link)

\* if (view->commit.link.next) wl_list_remove, then wl_signal_add.
Relinked(link) == Linked(Unlinked(link))

NewXwaylandSurface(w) ==
  /\ running /\ out[w].kind = "none"
  /\ out' = [out EXCEPT ![w] = [Absent EXCEPT !.kind = "xwayland", !.commit = "self"]]
  /\ Quiet

Associate(w) ==
  /\ running /\ out[w].kind = "xwayland" /\ ~out[w].live
  /\ out' = [out EXCEPT ![w] = [NewOutput("xwayland")
                                  EXCEPT !.commit = Linked(out[w].commit)]]
  /\ Quiet

\* wlroots unmaps first.  The output is freed.
Dissociate(w) ==
  /\ running /\ out[w].kind = "xwayland" /\ out[w].live /\ ~out[w].surface
  /\ out' = [out EXCEPT ![w] = [Absent EXCEPT !.kind = "xwayland", !.commit = "self"]]
  /\ Quiet

\* qubes_output_deinit and the end of the view; wlroots unmaps first.
DestroyWindow(w) ==
  /\ running /\ out[w].kind # "none" /\ ~out[w].surface
  /\ out' = [out EXCEPT ![w] = Absent]
  /\ Quiet

-----------------------------------------------------------------------------
(* Mapping.                                                                *)

\* qubes_output_map: the flag and the tree at once, the output if its commit
\* succeeds.  Without a tree it dereferences a null pointer.
OutputMap(o, ok) ==
  LET n == [o EXCEPT !.mapped = TRUE, !.tree = IF @ = "none" THEN @ ELSE "on"]
  IN IF o.mapped THEN o ELSE IF ok THEN Modeset([n EXCEPT !.enabled = TRUE]) ELSE n

\* A mistake: the flag is left set.
OutputUnmapKeepsFlag(o) == [o EXCEPT !.enabled = FALSE]

\* qubes_output_unmap.
OutputUnmap(o) == [o EXCEPT !.mapped = FALSE, !.enabled = FALSE]

\* A mistake: output->surface is not forgotten when the tree is destroyed, so
\* that the surface mapped again looks unchanged.
SetSurfaceUnchanged(o) == o

\* qubes_output_set_surface: of an X11 window that was unmapped.
SetSurface(o) == [o EXCEPT !.tree = IF @ = "none" THEN "on" ELSE @]

\* The outcomes of a handler whose size may be refused, and whose commits of
\* the output may fail.
Outcomes == {"refused", "fails", "ok"}

\* The end of qubes_output_configure and of qubes_surface_commit.
SendFrame(o, outcome) == IF outcome = "refused" THEN o ELSE Framed(o, outcome = "ok")
SendArms(o, outcome)  == outcome # "refused" /\ Arms(o, outcome = "ok")

\* The transient parent of an X11 window has no output: parent_view->output.magic
\* is zero, whether the parent is not associated yet or not any more.
ParentWithoutOutput(w) ==
  /\ Parent[w] \in Windows
  /\ out[Parent[w]].kind = "xwayland" /\ ~out[Parent[w]].live

\* xdg_surface_map and then qubes_surface_commit, of one commit of the client.
MapXdg(w) ==
  /\ running /\ out[w].kind = "xdg" /\ ~out[w].surface
  /\ \E configured, committed \in Outcomes, modeset, asks \in BOOLEAN :
       LET o1 == [out[w] EXCEPT !.surface = TRUE]
           o2 == SendFrame(o1, configured)
           o3 == IF configured = "refused" THEN o2 ELSE OutputMap(o2, modeset)
           o4 == NewContent(o3, asks)
       IN  /\ out' = [out EXCEPT ![w] = SendFrame(o4, committed)]
           /\ Clock(SendArms(o1, configured) \/ SendArms(o4, committed))
  /\ UNCHANGED running

\* qubes_xwayland_surface_map and then qubes_xwayland_surface_commit, which the
\* listener just added hears.  A size that is refused is refused by both.  The
\* scene hears of the commit first if it has the surface since Associate, and
\* last if set_surface has just put it back: the view's listener is older then.
MapXwayland(w) ==
  /\ running /\ out[w].kind = "xwayland" /\ out[w].live /\ ~out[w].surface
  /\ \E configured \in Outcomes, modeset, transient, asks \in BOOLEAN :
       LET o1 == [out[w] EXCEPT !.surface = TRUE]
           o2 == SetSurface([SendFrame(o1, configured) EXCEPT !.commit = Relinked(@)])
           o3 == OutputMap(o2, modeset)
           o4 == IF out[w].tree = "none" THEN o3 ELSE NewContent(o3, asks)
           o5 == SendFrame(o4, configured)
       IN  \/ /\ configured = "refused"
              /\ out' = [out EXCEPT ![w] = NewContent(o1, asks)]
              /\ Quiet
           \/ /\ configured # "refused"
              /\ transient /\ ParentWithoutOutput(w)
              /\ running' = FALSE
              /\ UNCHANGED <<out, framePending, armed>>
           \/ /\ configured # "refused"
              /\ ~(transient /\ ParentWithoutOutput(w))
              /\ out' = [out EXCEPT ![w] =
                            IF out[w].tree = "none" THEN NewContent(o5, asks) ELSE o5]
              /\ Clock(SendArms(o1, configured) \/ SendArms(o4, configured))
              /\ UNCHANGED running

\* xdg_surface_unmap; qubes_surface_commit follows if a commit unmapped it.
UnmapXdg(w) ==
  /\ running /\ out[w].kind = "xdg" /\ out[w].surface
  /\ \E committed \in Outcomes :
       LET o == OutputUnmap([out[w] EXCEPT !.root = FALSE, !.tree = "off",
                               !.surface = FALSE, !.dirty = FALSE, !.asked = FALSE])
       IN  out' = [out EXCEPT ![w] = SendFrame(o, committed)]
  /\ Quiet

\* xwayland_surface_unmap: the tree is destroyed, the listener taken out.
UnmapXwayland(w) ==
  /\ running /\ out[w].kind = "xwayland" /\ out[w].surface
  /\ out' = [out EXCEPT ![w] =
         OutputUnmap([out[w] EXCEPT !.tree = "none", !.commit = Unlinked(@),
                        !.surface = FALSE, !.dirty = FALSE, !.asked = FALSE])]
  /\ Quiet

-----------------------------------------------------------------------------
(* Mapped windows.                                                         *)

\* qubes_surface_commit and qubes_xwayland_surface_commit.
ClientCommit(w) ==
  /\ running /\ out[w].surface
  /\ \E committed \in Outcomes, asks \in BOOLEAN :
       LET o == NewContent(out[w], asks)
           outcome == IF o.commit = "linked" THEN committed ELSE "refused"
       IN  /\ out' = [out EXCEPT ![w] = SendFrame(o, outcome)]
           /\ Clock(SendArms(o, outcome))
  /\ UNCHANGED running

\* X11 requests that end in qubes_output_configure (size, hints, parent), of a
\* window that need not be mapped.
XwaylandConfigure(w) ==
  /\ running /\ out[w].kind = "xwayland" /\ out[w].live
  /\ \E ok \in BOOLEAN :
       /\ out' = [out EXCEPT ![w] = Framed(@, ok)]
       /\ Clock(Arms(out[w], ok))
  /\ UNCHANGED running

\* MSG_CONFIGURE with another size: the output is enabled, mapped or not.
HostResizes(w) ==
  /\ running /\ out[w].kind = "xdg"
  /\ out' = [out EXCEPT ![w] = Modeset([@ EXCEPT !.enabled = TRUE])]
  /\ Quiet

\* qubes_toplevel_ack_configure.
AckConfigure(w) ==
  /\ running /\ out[w].kind = "xdg"
  /\ out' = [out EXCEPT ![w] = Modeset(@)]
  /\ Quiet

\* qubes_recreate_window of every window that is mapped: as if mapped again.
Recreated(o, outcome) ==
  IF ~o.mapped THEN o
  ELSE IF o.kind = "xwayland" /\ outcome # "refused"
       THEN [SendFrame(o, outcome) EXCEPT !.commit = Relinked(@)]
       ELSE SendFrame(o, outcome)

Reconnected ==
  /\ running
  /\ \E outcome \in [Windows -> Outcomes], transient \in BOOLEAN :
       \/ /\ transient
          /\ \E w \in Windows : /\ out[w].kind = "xwayland" /\ out[w].mapped
                                /\ outcome[w] # "refused" /\ ParentWithoutOutput(w)
          /\ running' = FALSE
          /\ UNCHANGED <<out, framePending, armed>>
       \/ /\ ~transient
          /\ out' = [w \in Windows |-> Recreated(out[w], outcome[w])]
          /\ Clock(\E w \in Windows : out[w].mapped /\ SendArms(out[w], outcome[w]))
          /\ UNCHANGED running

-----------------------------------------------------------------------------
Client(w) ==
  \/ NewXdgSurface(w) \/ NewXwaylandSurface(w) \/ Associate(w) \/ Dissociate(w)
  \/ DestroyWindow(w) \/ MapXdg(w) \/ MapXwayland(w) \/ UnmapXdg(w)
  \/ UnmapXwayland(w) \/ ClientCommit(w) \/ XwaylandConfigure(w) \/ AckConfigure(w)

Next ==
  \/ Tick \/ Reconnected
  \/ \E w \in Windows : IdleFrame(w) \/ HostResizes(w) \/ Client(w)

Spec == Init /\ [][Next]_vars

\* The event loop serves its timer and its idle sources; clients, the daemon
\* and the success of commits are not fair.
FairSpec == Spec /\ WF_vars(Tick) /\ \A w \in Windows : WF_vars(IdleFrame(w))

-----------------------------------------------------------------------------
(* Properties.                                                             *)

\* Values of the right kind; QUBES_OUTPUT_MAPPED implies a mapped surface, and
\* that an output.
TypeOK ==
  /\ running \in BOOLEAN /\ framePending \in BOOLEAN /\ armed \in BOOLEAN
  /\ out \in [Windows -> Outputs]
  /\ \A w \in Windows : /\ out[w].mapped => out[w].surface
                        /\ out[w].surface => out[w].live

\* The clock does not stop under a window: while one is mapped and enabled, the
\* root of its scene is enabled and its last frame did not fail, the timer is
\* set, although every commit of a mode (on mapping, qubes_output.c:556, on
\* resizing and on ack_configure) waits for a frame without setting it; and
\* the flag that keeps frames from setting the timer is never set without it.
\* A root is disabled for good when an xdg window is unmapped (the windows of
\* MappedIsVisible).  Such a window may be mapped again after the timer has run
\* out, its commit refused: it is enabled then, waits for a frame, no frame of
\* it has failed, and no timer is set.
ClockRuns ==
  /\ framePending => armed
  /\ \A w \in Windows :
       out[w].mapped /\ out[w].enabled /\ out[w].root /\ ~out[w].failed => armed

\* The commit listener of a view is in one list at most, and it hears the
\* commits of every mapped window, through any order of associations, mappings
\* and reconnections.
CommitsHeard ==
  \A w \in Windows :
    /\ out[w].commit # "bad"
    /\ out[w].mapped => out[w].commit = "linked"

\* A mapped output has the tree that qubes_output_map enables: of an X11 window
\* it comes and goes with each mapping.
MappedHasTree == \A w \in Windows : out[w].mapped => out[w].tree = "on"

\* A window of which something may be seen, and whose last frame did not fail.
Shown(w) ==
  running /\ out[w].mapped /\ out[w].enabled /\ Visible(out[w]) /\ ~out[w].failed

\* What a client commits to a window that is shown is drawn, also when the
\* commit itself was refused, and also while the output waits for the frame of
\* a mode, when wlroots schedules none of its own (schedule_frame) ...
ContentDrawn ==
  \A w \in Windows : (out[w].dirty /\ Shown(w)) ~> (~out[w].dirty \/ ~Shown(w))

\* ... and it gets the frame callback it waits for.
CallbacksAnswered ==
  \A w \in Windows : (out[w].asked /\ Shown(w)) ~> (~out[w].asked \/ ~Shown(w))

\* xdg_surface_map: "Called when the surface is mapped, or ready to display
\* on-screen." (qubes_wayland.c:164)
MappedIsVisible == \A w \in Windows : out[w].mapped => Visible(out[w])
=============================================================================
