----------------------------- MODULE WindowPosition -----------------------------
(***************************************************************************)
(* The size and position of one mapped window, agreed between the GUI       *)
(* daemon, the compositor and the client (qubes_window_position.c and the   *)
(* handlers that call it).  The two axes are handled by the same code with  *)
(* other names, so that one of them is modelled: a box is its left edge and *)
(* its width.                                                               *)
(***************************************************************************)
EXTENDS Integers, Sequences

CONSTANTS
    Kinds,          \* the kinds of window: among "toplevel", "popup", "xwayland"
    Max,            \* MAX_WINDOW_WIDTH, the largest size and coordinate
    DaemonBoxes,    \* the boxes the user gives the window on the host
    ClientBoxes,    \* the boxes the client asks for
    Patient,        \* whether the client acknowledges every configure event
    MaxMoves,       \* bound: what the user does
    MaxRequests,    \* bound: what the client does unasked
    MaxOthers,      \* bound: configure events sent for another reason
    MaxPending      \* bound: the MSG_CONFIGUREs unread by the daemon at any handler

Boxes == [x : Int, width : Int]

ASSUME MaxAssumption == Max \in Nat \ {0}
ASSUME BoxesAssumption == DaemonBoxes \subseteq Boxes /\ ClientBoxes \subseteq Boxes
ASSUME KindsAssumption == Kinds \subseteq {"toplevel", "popup", "xwayland"}

VARIABLES
    kind,
    output,     \* struct qubes_output, with what it has queued for the daemon
    configures, \* the configure events the client has not acknowledged
    wanted,     \* the size the next configure event will carry, 0 for none
    acked,      \* the size the client acknowledged and is to commit, 0 for none
    toAgent,    \* the MSG_CONFIGUREs on their way to the compositor
    daemon,     \* the box the daemon shows the window in
    queued,     \* whether the daemon awaits an answer (have_queued_configure)
    moves, requests, others     \* the bounds' counters

vars == <<kind, output, configures, wanted, acked, toAgent, daemon, queued,
          moves, requests, others>>
bounds == <<moves, requests, others>>

Fits(width) == width \in 1 .. Max
Valid(box) == Fits(box.width) /\ box.x \in -Max .. Max

(***************************************************************************)
(* What the compositor tells the daemon.                                    *)
(***************************************************************************)
Changed == {"LEFT_CHANGED", "RIGHT_CHANGED", "WIDTH_CHANGED"}
Flags == Changed \cup {"NEED_CONFIGURE_ACK"}

ChangedBy(box, guest) ==
    {f \in Changed : \/ f = "LEFT_CHANGED" /\ box.x # guest.x
                     \/ f = "RIGHT_CHANGED"
                            /\ box.x + box.width # guest.x + guest.width
                     \/ f = "WIDTH_CHANGED" /\ box.width # guest.width}

\* qubes_send_configure_msg
Say(o, box) == [o EXCEPT !.out = Append(@, box)]

\* Mutant of SendConfigure: the guest's copy is never promoted.
SendConfigureOnce(o) ==
    Say([o EXCEPT !.flags = @ \ Changed], o.host)

\* The host's copy first, then the guest's, when something has changed.
SendConfigure(o) ==
    LET told == IF o.flags \cap Changed # {}
                THEN [Say(o, o.host) EXCEPT !.host = o.guest]
                ELSE o
    IN  Say([told EXCEPT !.flags = @ \ Changed], told.host)

\* wlr_output_commit_state passes a mode on to qubes_output_commit only when it
\* is not the output's current one.
Modeset(o, width) ==
    IF o.mode = width THEN o ELSE SendConfigure([o EXCEPT !.mode = width])

\* A frame is drawn at the guest's size.
Drawn(o) == Modeset(o, o.guest.width)

\* A step of the compositor is not taken while the daemon is too far behind.
Room == Len(output.out) <= MaxPending

(***************************************************************************)
(* MSG_CONFIGURE from the daemon.                                           *)
(***************************************************************************)
\* Mutant of Refused: a message that is not valid is dropped.
RefusedSilently(box) == ~Valid(box) /\ UNCHANGED <<output, configures, wanted>>

\* It is sent back as it came.
Refused(box) ==
    /\ ~Valid(box)
    /\ output' = Say(output, box)
    /\ UNCHANGED <<configures, wanted>>

ConfigureXwayland(box) ==
    /\ kind = "xwayland"
    /\ output' = Say([output EXCEPT !.host = box, !.guest = box], box)
    /\ UNCHANGED <<configures, wanted>>

Recorded(box) ==
    [output EXCEPT !.host = box,
                   !.flags = (@ \ Changed) \cup ChangedBy(box, output.guest)]

\* The client is not told of a position; without any change this is an answer.
Moved(box) ==
    /\ kind # "xwayland" /\ box.width = output.guest.width
    /\ output' = Say([Recorded(box) EXCEPT !.guest.x = box.x], box)
    /\ UNCHANGED <<configures, wanted>>

\* Mutant of SetSize: the serial is not kept.
UntrackedSize(width) ==
    Append(configures, [width |-> width, tracked |-> FALSE])

\* wlr_xdg_toplevel_set_size: only the serial of the last one is remembered.
SetSize(width) ==
    Append([i \in DOMAIN configures |-> [configures[i] EXCEPT !.tracked = FALSE]],
           [width |-> width, tracked |-> TRUE])

ResizedToplevel(box) ==
    /\ kind = "toplevel" /\ box.width # output.guest.width
    /\ output' = Modeset([Recorded(box) EXCEPT !.guest.x = box.x,
                                               !.flags = @ \cup {"NEED_CONFIGURE_ACK"}],
                         box.width)
    /\ configures' = SetSize(box.width)
    /\ wanted' = box.width

ResizedPopup(box) ==
    /\ kind = "popup" /\ box.width # output.guest.width
    /\ output' = Modeset([Recorded(box) EXCEPT !.guest = box], box.width)
    /\ UNCHANGED <<configures, wanted>>

HandleConfigure ==
    /\ Room /\ toAgent # <<>>
    /\ LET box == Head(toAgent)
       IN  \/ Refused(box)
           \/ /\ Valid(box)
              /\ \/ ConfigureXwayland(box)
                 \/ Moved(box)
                 \/ ResizedToplevel(box)
                 \/ ResizedPopup(box)
    /\ toAgent' = Tail(toAgent)
    /\ UNCHANGED <<kind, acked, daemon, queued, bounds>>

\* Any other reason to configure the client: it is activated, or asks for
\* something that is not implemented.
OtherConfigure ==
    /\ kind = "toplevel" /\ others < MaxOthers
    /\ others' = others + 1
    /\ configures' = Append(configures, [width |-> wanted, tracked |-> FALSE])
    /\ UNCHANGED <<kind, output, wanted, acked, toAgent, daemon, queued,
                   moves, requests>>

(***************************************************************************)
(* The client: it acknowledges configure events, commits a new size, or,    *)
(* under Xwayland, is moved and resized at its own request.                 *)
(***************************************************************************)
AckConfigure ==
    /\ Room /\ configures # <<>>
    /\ \E n \in IF Patient THEN {1} ELSE DOMAIN configures :
          /\ output' = IF configures[n].tracked /\ "NEED_CONFIGURE_ACK" \in output.flags
                       THEN Modeset([output EXCEPT !.flags = @ \ {"NEED_CONFIGURE_ACK"}],
                                    output.host.width)
                       ELSE output
          /\ acked' = configures[n].width
          /\ configures' = SubSeq(configures, n + 1, Len(configures))
    /\ UNCHANGED <<kind, wanted, toAgent, daemon, queued, bounds>>

KeptLeft(o, width) ==
    IF "WIDTH_CHANGED" \notin o.flags \/ width = o.host.width THEN o.guest.x
    ELSE IF "LEFT_CHANGED" \notin o.flags /\ "RIGHT_CHANGED" \in o.flags
         THEN o.host.x + o.host.width - width
    ELSE IF "LEFT_CHANGED" \in o.flags /\ "RIGHT_CHANGED" \notin o.flags
         THEN o.host.x
    ELSE o.guest.x

\* Mutant of RefusesSize: every commit is accepted.
RefusesNothing(o, width) == FALSE

\* A size beyond the limits, or another than the daemon's while a configure event
\* is outstanding.
RefusesSize(o, width) ==
    \/ ~Fits(width)
    \/ "NEED_CONFIGURE_ACK" \in o.flags /\ width # o.host.width

CommitSize(o, width) ==
    SendConfigure([o EXCEPT !.guest = [x |-> KeptLeft(o, width), width |-> width],
                            !.flags = (@ \ {"NEED_CONFIGURE_ACK"}) \cup {"WIDTH_CHANGED"}])

\* A commit that is accepted draws a frame when there is something to draw: always
\* after a change of size.  A client that commits a size beyond the limits still
\* owes the one it acknowledged.
Commit(width) ==
    /\ Room /\ kind # "xwayland"
    /\ \/ RefusesSize(output, width) /\ UNCHANGED output
       \/ /\ ~RefusesSize(output, width)
          /\ LET o == CommitSize(output, width)
             IN  \/ output' = Drawn(o)
                 \/ width = output.guest.width /\ output' = o
    /\ acked' = IF Fits(width) THEN 0 ELSE acked
    /\ UNCHANGED <<kind, configures, wanted, toAgent, daemon, queued, moves, others>>

CommitAcked == acked # 0 /\ Commit(acked) /\ UNCHANGED requests
CommitOther ==
    /\ requests < MaxRequests
    /\ requests' = requests + 1
    /\ \E box \in ClientBoxes : Commit(box.width)

\* qubes_output_configure, which sets no flag that SendConfigure looks at.
RequestConfigure ==
    /\ Room /\ kind = "xwayland" /\ requests < MaxRequests
    /\ requests' = requests + 1
    /\ \E box \in ClientBoxes :
          /\ Fits(box.width) /\ box # output.guest
          /\ LET o == SendConfigure([output EXCEPT !.guest = box])
             IN  output' \in {o, Drawn(o)}
    /\ UNCHANGED <<kind, configures, wanted, acked, toAgent, daemon, queued,
                   moves, others>>

\* The frame timer.
Frame ==
    /\ Room /\ output.mode # output.guest.width
    /\ output' = Drawn(output)
    /\ UNCHANGED <<kind, configures, wanted, acked, toAgent, daemon, queued,
                   bounds>>

(***************************************************************************)
(* The daemon.  It sends no second MSG_CONFIGURE before the first one is    *)
(* answered with the box it shows, and answers any other box with that one. *)
(***************************************************************************)
UserMoves ==
    /\ moves < MaxMoves
    /\ moves' = moves + 1
    /\ \E box \in DaemonBoxes \ {daemon} :
          /\ daemon' = box
          /\ toAgent' = IF queued THEN toAgent ELSE Append(toAgent, box)
    /\ queued' = TRUE
    /\ UNCHANGED <<kind, output, configures, wanted, acked, requests, others>>

DaemonReads ==
    /\ output.out # <<>>
    /\ output' = [output EXCEPT !.out = Tail(@)]
    /\ LET box == Head(output.out)
       IN  \/ /\ queued /\ box = daemon
              /\ queued' = FALSE
              /\ UNCHANGED <<daemon, toAgent>>
           \/ /\ queued /\ box # daemon
              /\ toAgent' = Append(toAgent, daemon)
              /\ UNCHANGED <<daemon, queued>>
           \/ /\ ~queued
              /\ daemon' = box
              /\ UNCHANGED <<toAgent, queued>>
    /\ UNCHANGED <<kind, configures, wanted, acked, bounds>>

(***************************************************************************)
(* The window has just been created and mapped: host and guest agree, and   *)
(* the output's mode, set with another refresh rate by qubes_output_map,    *)
(* equals none that a later commit asks for.                                *)
(***************************************************************************)
Init ==
    /\ kind \in Kinds
    /\ \E box \in ClientBoxes :
          /\ box = [x |-> 0, width |-> 1]
          /\ output = [host |-> box, guest |-> box, flags |-> {}, mode |-> 0, out |-> <<>>]
          /\ daemon = box
    /\ configures = <<>> /\ wanted = 0 /\ acked = 0
    /\ toAgent = <<>> /\ queued = FALSE
    /\ moves = 0 /\ requests = 0 /\ others = 0

Next ==
    \/ HandleConfigure \/ OtherConfigure
    \/ AckConfigure \/ CommitAcked \/ CommitOther \/ RequestConfigure
    \/ Frame
    \/ UserMoves \/ DaemonReads

Spec == Init /\ [][Next]_vars

\* The event loop and the daemon read what they are sent, and a client answers
\* configure events as xdg-shell asks of it.
FairSpec ==
    /\ Spec
    /\ WF_vars(HandleConfigure) /\ WF_vars(DaemonReads)
    /\ WF_vars(AckConfigure) /\ WF_vars(CommitAcked)

(***************************************************************************)
(* Properties.                                                              *)
(***************************************************************************)
\* The guest's copy always has a size the protocol allows, so that
\* qubes_output_ensure_created never fails once the window is created.
TypeOK ==
    /\ kind \in Kinds
    /\ output.host \in Boxes /\ Fits(output.host.width)
    /\ output.guest \in Boxes /\ Fits(output.guest.width)
    /\ output.flags \subseteq Flags
    /\ output.mode \in 0 .. Max
    /\ output.out \in Seq(Boxes) /\ toAgent \in Seq(Boxes)
    /\ configures \in Seq([width : 0 .. Max, tracked : BOOLEAN])
    /\ wanted \in 0 .. Max /\ acked \in 0 .. Max
    /\ daemon \in Boxes /\ queued \in BOOLEAN

Quiet ==
    /\ output.out = <<>> /\ toAgent = <<>>
    /\ configures = <<>> /\ acked = 0

\* Whatever was crossed on the way, when nothing is under way any more the
\* daemon shows an xdg window where qubes_output::guest says it is, unless it
\* asked for coordinates that qubes_handle_configure refuses.
Agreement ==
    Quiet /\ kind # "xwayland" => daemon = output.guest \/ ~Valid(daemon)

\* Every MSG_CONFIGURE is answered, also one that is not valid: the daemon, which
\* sends no other before that, is never stuck.
DaemonAnswered == queued ~> ~queued

\* A resize by the daemon ends: the flag that makes qubes_output_commit_size
\* ignore the client is cleared (steps 7 to 12 of the head of the file).
ResizeEnds ==
    ("NEED_CONFIGURE_ACK" \in output.flags) ~> ("NEED_CONFIGURE_ACK" \notin output.flags)

\* STATE_TRACKING.md:11: qubes_output::host stores "the guest's values if no
\* MSG_CONFIGURE has been received yet", and none has before the user's first
\* move.  Not so for Xwayland, whose requests never reach the host's copy.
HostAsDocumented ==
    moves = 0 /\ kind # "xwayland" => output.host = output.guest
=================================================================================
