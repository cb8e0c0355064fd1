------------------------- MODULE WindowPosition_proofs -------------------------
(***************************************************************************)
(* Theorems about WindowPosition, for windows of any kind, any limit, any  *)
(* boxes and clients that skip configure events or do not.                 *)
(*                                                                         *)
(* The handlers are compositions of Say, SendConfigure and Modeset on the  *)
(* output; each has a lemma that says what it preserves.                   *)
(*                                                                         *)
(* That the two sides agree when nothing is under way (Agreement) rests on *)
(* what was said last (Told): the last message to the daemon is where the  *)
(* window is, unless a resize of the daemon is owed, and what is owed is   *)
(* on its way through a client that acknowledges every configure event.    *)
(***************************************************************************)
EXTENDS WindowPosition, SequenceTheorems, TLAPS

Sized == {box \in Boxes : Fits(box.width)}
Outputs == [host : Sized, guest : Sized, flags : SUBSET Flags, mode : 0 .. Max,
            out : Seq(Boxes)]
Configures == Seq([width : 0 .. Max, tracked : BOOLEAN])

\* TypeOK, with the fields of the output.
Typed ==
    /\ kind \in Kinds /\ output \in Outputs
    /\ toAgent \in Seq(Boxes) /\ configures \in Configures
    /\ wanted \in 0 .. Max /\ acked \in 0 .. Max
    /\ daemon \in Boxes /\ queued \in BOOLEAN

\* Before its first MSG_CONFIGURE the compositor waits for no acknowledgement, and
\* what it changes of the guest's copy it tells the daemon at once.
Unmoved ==
    moves = 0 =>
        /\ toAgent = <<>> /\ queued = FALSE
        /\ kind # "xwayland" => /\ output.host = output.guest
                                /\ "NEED_CONFIGURE_ACK" \notin output.flags

IInv == Typed /\ moves \in Nat /\ Unmoved

USE MaxAssumption, BoxesAssumption, KindsAssumption

-----------------------------------------------------------------------------
(* What is said of an output.                                              *)

LEMMA SayType ==
    ASSUME NEW o \in Outputs, NEW box \in Boxes
    PROVE  /\ Say(o, box) \in Outputs
           /\ Say(o, box).host = o.host /\ Say(o, box).guest = o.guest
           /\ Say(o, box).flags = o.flags /\ Say(o, box).mode = o.mode
<1>1. Append(o.out, box) \in Seq(Boxes)
    BY DEF Outputs
<1> QED  BY <1>1 DEF Say, Outputs

\* The host's copy becomes the guest's or stays; no flag is set.
LEMMA SendConfigureType ==
    ASSUME NEW o \in Outputs
    PROVE  /\ SendConfigure(o) \in Outputs
           /\ SendConfigure(o).guest = o.guest /\ SendConfigure(o).mode = o.mode
           /\ SendConfigure(o).host = IF o.flags \cap Changed # {} THEN o.guest ELSE o.host
           /\ SendConfigure(o).flags = o.flags \ Changed
<1> DEFINE told == IF o.flags \cap Changed # {}
                   THEN [Say(o, o.host) EXCEPT !.host = o.guest]
                   ELSE o
           left == [told EXCEPT !.flags = @ \ Changed]
<1>1. o.host \in Boxes /\ o.host \in Sized /\ o.guest \in Sized /\ o.flags \subseteq Flags
    BY DEF Outputs, Sized
<1>2. /\ Say(o, o.host) \in Outputs /\ Say(o, o.host).guest = o.guest
      /\ Say(o, o.host).flags = o.flags /\ Say(o, o.host).mode = o.mode
    BY <1>1, SayType
<1>3. /\ told \in Outputs /\ told.guest = o.guest /\ told.mode = o.mode
      /\ told.host = IF o.flags \cap Changed # {} THEN o.guest ELSE o.host
      /\ told.flags = o.flags
    BY <1>1, <1>2 DEF Outputs
<1>4. SendConfigure(o) = Say(left, told.host)
    BY DEF SendConfigure
<1> HIDE DEF told
<1>5. /\ left \in Outputs /\ left.guest = o.guest /\ left.mode = o.mode
      /\ left.host = told.host /\ left.flags = o.flags \ Changed
    BY <1>1, <1>3 DEF Outputs
<1> HIDE DEF left
<1>6. told.host \in Boxes
    BY <1>3 DEF Outputs, Sized
<1>7. /\ Say(left, told.host) \in Outputs /\ Say(left, told.host).host = left.host
      /\ Say(left, told.host).guest = left.guest /\ Say(left, told.host).flags = left.flags
      /\ Say(left, told.host).mode = left.mode
    BY <1>5, <1>6, SayType
<1> QED  BY <1>3, <1>4, <1>5, <1>7

LEMMA ModesetType ==
    ASSUME NEW o \in Outputs, NEW width \in 0 .. Max
    PROVE  /\ Modeset(o, width) \in Outputs
           /\ Modeset(o, width).guest = o.guest
           /\ Modeset(o, width).host \in {o.host, o.guest}
           /\ Modeset(o, width).flags \subseteq o.flags
<1> DEFINE m == [o EXCEPT !.mode = width]
<1>1. m \in Outputs /\ m.guest = o.guest /\ m.host = o.host /\ m.flags = o.flags
    BY DEF Outputs
<1>2. Modeset(o, width) = IF o.mode = width THEN o ELSE SendConfigure(m)
    BY DEF Modeset
<1> HIDE DEF m
<1> QED  BY <1>1, <1>2, SendConfigureType

LEMMA DrawnType ==
    ASSUME NEW o \in Outputs
    PROVE  /\ Drawn(o) \in Outputs
           /\ Drawn(o).guest = o.guest
           /\ Drawn(o).host \in {o.host, o.guest}
           /\ Drawn(o).flags \subseteq o.flags
<1>1. o.guest.width \in 0 .. Max
    BY DEF Outputs, Sized, Fits
<1> QED  BY <1>1, ModesetType DEF Drawn

\* A commit of a size within the limits leaves both copies alike.
LEMMA CommitSizeType ==
    ASSUME NEW o \in Outputs, NEW width, Fits(width)
    PROVE  /\ CommitSize(o, width) \in Outputs
           /\ CommitSize(o, width).host = CommitSize(o, width).guest
           /\ "NEED_CONFIGURE_ACK" \notin CommitSize(o, width).flags
<1> DEFINE g == [x |-> KeptLeft(o, width), width |-> width]
           f == (o.flags \ {"NEED_CONFIGURE_ACK"}) \cup {"WIDTH_CHANGED"}
           c == [o EXCEPT !.guest = g, !.flags = f]
<1>1. /\ o.host \in Boxes /\ o.guest \in Boxes /\ o.flags \subseteq Flags
      /\ o.host.x \in Int /\ o.host.width \in Int /\ o.guest.x \in Int /\ width \in Int
    BY DEF Outputs, Sized, Boxes, Fits
<1>2. KeptLeft(o, width) \in Int
    BY <1>1 DEF KeptLeft
<1>3. g \in Sized /\ f \subseteq Flags /\ "WIDTH_CHANGED" \in f \cap Changed
      /\ "NEED_CONFIGURE_ACK" \notin f
    BY <1>1, <1>2 DEF Sized, Boxes, Flags, Changed, Fits
<1> HIDE DEF g, f
<1>4. c \in Outputs /\ c.guest = g /\ c.flags = f
    BY <1>3 DEF Outputs
<1>5. CommitSize(o, width) = SendConfigure(c)
    BY DEF CommitSize, g, f
<1> HIDE DEF c
<1>6. /\ SendConfigure(c) \in Outputs /\ SendConfigure(c).guest = c.guest
      /\ SendConfigure(c).host = IF c.flags \cap Changed # {} THEN c.guest ELSE c.host
      /\ SendConfigure(c).flags = c.flags \ Changed
    BY <1>4, SendConfigureType
<1> QED  BY <1>3, <1>4, <1>5, <1>6

-----------------------------------------------------------------------------
(* The steps.                                                              *)

LEMMA InitInv == Init => IInv
<1> SUFFICES ASSUME Init PROVE IInv
    OBVIOUS
<1> DEFINE box == [x |-> 0, width |-> 1]
<1>1. box \in Sized /\ box \in Boxes
    BY DEF Sized, Boxes, Fits
<1>2. /\ output = [host |-> box, guest |-> box, flags |-> {}, mode |-> 0, out |-> <<>>]
      /\ daemon = box
    BY DEF Init
<1> HIDE DEF box
<1>3. output \in Outputs
    BY <1>1, <1>2, EmptySeq DEF Outputs
<1>4. <<>> \in Seq(Boxes) /\ <<>> \in Configures
    BY EmptySeq DEF Configures
<1>5. /\ kind \in Kinds /\ configures = <<>> /\ wanted = 0 /\ acked = 0
      /\ toAgent = <<>> /\ queued = FALSE /\ moves = 0
    BY DEF Init
<1>6. Typed
    <2>1. kind \in Kinds /\ toAgent \in Seq(Boxes) /\ configures \in Configures
        BY <1>4, <1>5
    <2>2. wanted \in 0 .. Max /\ acked \in 0 .. Max
        BY <1>5
    <2>3. daemon \in Boxes /\ queued \in BOOLEAN
        BY <1>1, <1>2, <1>5
    <2> QED  BY <1>3, <2>1, <2>2, <2>3 DEF Typed
<1>7. Unmoved
    BY <1>2, <1>5 DEF Unmoved
<1> QED  BY <1>5, <1>6, <1>7 DEF IInv

LEMMA FirstBox ==
    ASSUME NEW q \in Seq(Boxes), q # <<>>
    PROVE  Head(q) \in Boxes /\ Tail(q) \in Seq(Boxes)
BY HeadTailProperties

\* MSG_CONFIGURE.
LEMMA HandleConfigureInv ==
    ASSUME IInv, HandleConfigure
    PROVE  IInv'
<1> DEFINE box == Head(toAgent)
<1>1. /\ toAgent # <<>> /\ toAgent' = Tail(toAgent)
      /\ UNCHANGED <<kind, acked, daemon, queued, moves>>
      /\ \/ Refused(box)
         \/ Valid(box) /\ (\/ ConfigureXwayland(box) \/ Moved(box)
                           \/ ResizedToplevel(box) \/ ResizedPopup(box))
    BY DEF HandleConfigure, bounds
<1>2. /\ Typed /\ output \in Outputs /\ moves \in Nat /\ moves # 0
      /\ wanted \in 0 .. Max /\ configures \in Configures
    BY <1>1 DEF IInv, Typed, Unmoved
<1>3. box \in Boxes /\ toAgent' \in Seq(Boxes)
    BY <1>1, <1>2, FirstBox DEF Typed
<1> HIDE DEF box
<1>4. Valid(box) => box \in Sized /\ box.x \in Int /\ box.width \in 0 .. Max
    BY <1>3 DEF Valid, Sized, Fits, Boxes
<1>5. Valid(box) => /\ Recorded(box) \in Outputs /\ Recorded(box).guest = output.guest
    BY <1>2, <1>4 DEF Recorded, ChangedBy, Outputs, Flags, Changed
<1>6. ASSUME Valid(box), NEW x \in Int
      PROVE  [Recorded(box) EXCEPT !.guest.x = x] \in Outputs
    <2> DEFINE r == Recorded(box)
               g == [r.guest EXCEPT !.x = x]
    <2>1. r \in Outputs /\ r.guest \in Sized
        BY <1>5, <1>6 DEF Outputs
    <2>2. g \in Sized
        BY <2>1 DEF Sized, Boxes
    <2>3. [r EXCEPT !.guest.x = x] = [r EXCEPT !.guest = g]
        OBVIOUS
    <2> HIDE DEF r, g
    <2>4. [r EXCEPT !.guest = g] \in Outputs
        BY <2>1, <2>2 DEF Outputs
    <2> QED  BY <2>3, <2>4 DEF r
<1>7. output' \in Outputs /\ wanted' \in 0 .. Max /\ configures' \in Configures
    <2>1. CASE Refused(box)
        BY <1>2, <1>3, <2>1, SayType DEF Refused
    <2>2. CASE Valid(box) /\ ConfigureXwayland(box)
        <3>1. [output EXCEPT !.host = box, !.guest = box] \in Outputs
            BY <1>2, <1>4, <2>2 DEF Outputs
        <3> QED  BY <1>2, <1>3, <2>2, <3>1, SayType DEF ConfigureXwayland
    <2>3. CASE Valid(box) /\ Moved(box)
        <3>1. [Recorded(box) EXCEPT !.guest.x = box.x] \in Outputs
            BY <1>4, <1>6, <2>3
        <3> QED  BY <1>2, <1>3, <2>3, <3>1, SayType DEF Moved
    <2>4. CASE Valid(box) /\ ResizedToplevel(box)
        <3> DEFINE m == [Recorded(box) EXCEPT !.guest.x = box.x]
                   r == [m EXCEPT !.flags = @ \cup {"NEED_CONFIGURE_ACK"}]
        <3>1. m \in Outputs
            BY <1>4, <1>6, <2>4
        <3>2. [Recorded(box) EXCEPT !.guest.x = box.x,
                                    !.flags = @ \cup {"NEED_CONFIGURE_ACK"}] = r
            OBVIOUS
        <3>3. output' = Modeset(r, box.width) /\ configures' = SetSize(box.width)
              /\ wanted' = box.width
            BY <2>4, <3>2 DEF ResizedToplevel
        <3> HIDE DEF m
        <3>4. r \in Outputs
            BY <3>1 DEF Outputs, Flags
        <3> HIDE DEF r
        <3>5. output' \in Outputs
            BY <1>4, <2>4, <3>3, <3>4, ModesetType
        <3>6. configures' \in Configures
            <4> DEFINE T == [width : 0 .. Max, tracked : BOOLEAN]
                       s == [i \in DOMAIN configures |-> [configures[i] EXCEPT !.tracked = FALSE]]
                       e == [width |-> box.width, tracked |-> TRUE]
            <4>1. /\ DOMAIN configures = 1 .. Len(configures) /\ Len(configures) \in Nat
                  /\ \A i \in 1 .. Len(configures) : configures[i] \in T
                BY <1>2, LenProperties, ElementOfSeq DEF Configures
            <4>2. \A i \in 1 .. Len(configures) : [configures[i] EXCEPT !.tracked = FALSE] \in T
                BY <4>1
            <4>3. s \in Seq(T)
                BY <4>1, <4>2
            <4>4. e \in T
                BY <1>4, <2>4
            <4> HIDE DEF T
            <4>5. Append(s, e) \in Seq(T)
                BY <4>3, <4>4
            <4> QED  BY <3>3, <4>5 DEF SetSize, Configures, T
        <3> QED  BY <1>4, <2>4, <3>3, <3>5, <3>6
    <2>5. CASE Valid(box) /\ ResizedPopup(box)
        <3> DEFINE r == [Recorded(box) EXCEPT !.guest = box]
        <3>1. r \in Outputs
            BY <1>4, <1>5, <2>5 DEF Outputs
        <3> HIDE DEF r
        <3>2. output' = Modeset(r, box.width)
            BY <2>5 DEF ResizedPopup, r
        <3> QED  BY <1>2, <1>4, <2>5, <3>1, <3>2, ModesetType DEF ResizedPopup
    <2> QED  BY <1>1, <2>1, <2>2, <2>3, <2>4, <2>5
<1> QED  BY <1>1, <1>2, <1>3, <1>7 DEF IInv, Typed, Unmoved

LEMMA OtherConfigureInv ==
    ASSUME IInv, OtherConfigure
    PROVE  IInv'
<1> DEFINE T == [width : 0 .. Max, tracked : BOOLEAN]
           e == [width |-> wanted, tracked |-> FALSE]
<1>1. e \in T /\ configures \in Seq(T)
    BY DEF IInv, Typed, Configures
<1>2. configures' = Append(configures, e)
    BY DEF OtherConfigure
<1> HIDE DEF T, e
<1>3. configures' \in Seq(T)
    BY <1>1, <1>2
<1>4. configures' \in Configures
    BY <1>3 DEF Configures, T
<1> QED  BY <1>4 DEF IInv, Typed, Unmoved, OtherConfigure

LEMMA AckConfigureInv ==
    ASSUME IInv, AckConfigure
    PROVE  IInv'
<1>1. /\ UNCHANGED <<kind, wanted, toAgent, daemon, queued, moves>>
      /\ configures # <<>>
    BY DEF AckConfigure, bounds
<1>2. PICK n \in IF Patient THEN {1} ELSE DOMAIN configures :
        /\ output' = IF configures[n].tracked /\ "NEED_CONFIGURE_ACK" \in output.flags
                     THEN Modeset([output EXCEPT !.flags = @ \ {"NEED_CONFIGURE_ACK"}],
                                  output.host.width)
                     ELSE output
        /\ acked' = configures[n].width
        /\ configures' = SubSeq(configures, n + 1, Len(configures))
    BY DEF AckConfigure
<1>3. Typed /\ output \in Outputs /\ configures \in Configures
    BY DEF IInv, Typed
<1> DEFINE T == [width : 0 .. Max, tracked : BOOLEAN]
<1>4. /\ Len(configures) \in Nat \ {0} /\ DOMAIN configures = 1 .. Len(configures)
      /\ \A i \in 1 .. Len(configures) : configures[i] \in T
    BY <1>1, <1>3, LenProperties, EmptySeq, ElementOfSeq DEF Configures
<1>5. n \in 1 .. Len(configures)
    BY <1>4
<1>6. acked' \in 0 .. Max
    BY <1>2, <1>4, <1>5
<1>7. configures' \in Configures
    <2> HIDE DEF T
    <2>1. SubSeq(configures, n + 1, Len(configures)) \in Seq(T)
        BY <1>4, <1>5, SubSeqProperties
    <2> QED  BY <1>2, <2>1 DEF Configures, T
<1> DEFINE m == [output EXCEPT !.flags = @ \ {"NEED_CONFIGURE_ACK"}]
<1>8. m \in Outputs /\ output.host.width \in 0 .. Max
    BY <1>3 DEF Outputs, Sized, Fits
<1>9. output' = IF configures[n].tracked /\ "NEED_CONFIGURE_ACK" \in output.flags
                THEN Modeset(m, output.host.width) ELSE output
    BY <1>2
<1> HIDE DEF m
<1>10. output' \in Outputs
    BY <1>3, <1>8, <1>9, ModesetType
<1>11. Unmoved'
    BY <1>1, <1>9 DEF IInv, Unmoved
<1> QED  BY <1>1, <1>3, <1>6, <1>7, <1>10, <1>11 DEF IInv, Typed

\* A commit of the client, accepted or refused.
LEMMA CommitType ==
    ASSUME IInv, NEW width, Commit(width)
    PROVE  /\ output' \in Outputs /\ acked' \in 0 .. Max
           /\ moves = 0 =>
                /\ output'.host = output'.guest
                /\ "NEED_CONFIGURE_ACK" \notin output'.flags
<1>1. /\ acked' = IF Fits(width) THEN 0 ELSE acked
      /\ kind # "xwayland"
      /\ \/ output' = output
         \/ /\ Fits(width)
            /\ \/ output' = Drawn(CommitSize(output, width))
               \/ output' = CommitSize(output, width)
    BY DEF Commit, RefusesSize
<1>2. output \in Outputs /\ acked \in 0 .. Max /\ Unmoved
    BY DEF IInv, Typed
<1>3. acked' \in 0 .. Max
    BY <1>1, <1>2
<1>4. CASE output' = output
    BY <1>1, <1>2, <1>3, <1>4 DEF Unmoved
<1>5. CASE Fits(width) /\ output' # output
    <2> DEFINE c == CommitSize(output, width)
    <2>1. /\ c \in Outputs /\ c.host = c.guest
          /\ "NEED_CONFIGURE_ACK" \notin c.flags
        BY <1>2, <1>5, CommitSizeType
    <2>2. output' = c \/ output' = Drawn(c)
        BY <1>1, <1>5
    <2> HIDE DEF c
    <2> QED  BY <1>3, <2>1, <2>2, DrawnType
<1> QED  BY <1>1, <1>4, <1>5

LEMMA CommitInv ==
    ASSUME IInv, CommitAcked \/ CommitOther
    PROVE  IInv'
<1>1. /\ UNCHANGED <<kind, configures, wanted, toAgent, daemon, queued, moves>>
      /\ \E width : Commit(width)
    BY DEF CommitAcked, CommitOther, Commit
<1>2. PICK width : Commit(width)
    BY <1>1
<1>3. /\ output' \in Outputs /\ acked' \in 0 .. Max
      /\ moves = 0 =>
           /\ output'.host = output'.guest
           /\ "NEED_CONFIGURE_ACK" \notin output'.flags
    BY <1>2, CommitType
<1> QED  BY <1>1, <1>3 DEF IInv, Typed, Unmoved

LEMMA RequestConfigureInv ==
    ASSUME IInv, RequestConfigure
    PROVE  IInv'
<1>1. /\ UNCHANGED <<kind, configures, wanted, acked, toAgent, daemon, queued, moves>>
      /\ kind = "xwayland"
    BY DEF RequestConfigure
<1>2. PICK box \in ClientBoxes :
        /\ Fits(box.width)
        /\ LET o == SendConfigure([output EXCEPT !.guest = box])
           IN  output' \in {o, Drawn(o)}
    BY DEF RequestConfigure
<1> DEFINE g == [output EXCEPT !.guest = box]
           o == SendConfigure(g)
<1>3. g \in Outputs
    BY <1>2 DEF IInv, Typed, Outputs, Sized
<1>4. output' = o \/ output' = Drawn(o)
    BY <1>2
<1> HIDE DEF g
<1>5. o \in Outputs
    BY <1>3, SendConfigureType
<1> HIDE DEF o
<1>6. output' \in Outputs
    BY <1>4, <1>5, DrawnType
<1> QED  BY <1>1, <1>6 DEF IInv, Typed, Unmoved

LEMMA FrameInv ==
    ASSUME IInv, Frame
    PROVE  IInv'
<1>1. /\ UNCHANGED <<kind, configures, wanted, acked, toAgent, daemon, queued, moves>>
      /\ output' = Drawn(output)
    BY DEF Frame, bounds
<1>2. /\ output \in Outputs /\ output' \in Outputs /\ output'.guest = output.guest
      /\ output'.host \in {output.host, output.guest}
      /\ output'.flags \subseteq output.flags
    BY <1>1, DrawnType DEF IInv, Typed
<1> QED  BY <1>1, <1>2 DEF IInv, Typed, Unmoved

LEMMA UserMovesInv ==
    ASSUME IInv, UserMoves
    PROVE  IInv'
<1>1. /\ UNCHANGED <<kind, output, configures, wanted, acked>>
      /\ moves' = moves + 1 /\ queued' = TRUE
    BY DEF UserMoves
<1>2. PICK box \in DaemonBoxes :
        daemon' = box /\ toAgent' = IF queued THEN toAgent ELSE Append(toAgent, box)
    BY DEF UserMoves
<1>3. daemon' \in Boxes /\ toAgent' \in Seq(Boxes)
    BY <1>2 DEF IInv, Typed
<1> QED  BY <1>1, <1>3 DEF IInv, Typed, Unmoved

LEMMA DaemonReadsInv ==
    ASSUME IInv, DaemonReads
    PROVE  IInv'
<1> DEFINE box == Head(output.out)
<1>1. /\ output.out # <<>> /\ output' = [output EXCEPT !.out = Tail(@)]
      /\ UNCHANGED <<kind, configures, wanted, acked, moves>>
      /\ \/ queued' = FALSE /\ UNCHANGED <<daemon, toAgent>>
         \/ queued /\ toAgent' = Append(toAgent, daemon) /\ UNCHANGED <<daemon, queued>>
         \/ daemon' = box /\ UNCHANGED <<toAgent, queued>>
    BY DEF DaemonReads, bounds
<1>2. /\ output \in Outputs /\ output.out \in Seq(Boxes) /\ toAgent \in Seq(Boxes)
      /\ daemon \in Boxes /\ queued \in BOOLEAN
    BY DEF IInv, Typed, Outputs
<1>3. box \in Boxes /\ Tail(output.out) \in Seq(Boxes)
    BY <1>1, <1>2, FirstBox
<1> HIDE DEF box
<1>4. /\ output' \in Outputs /\ output'.host = output.host /\ output'.guest = output.guest
      /\ output'.flags = output.flags
    BY <1>1, <1>2, <1>3 DEF Outputs
<1>5. toAgent' \in Seq(Boxes) /\ daemon' \in Boxes /\ queued' \in BOOLEAN
    <2>1. toAgent' = toAgent \/ toAgent' = Append(toAgent, daemon)
        BY <1>1
    <2>2. daemon' = daemon \/ daemon' = box
        BY <1>1
    <2>3. queued' = queued \/ queued' = FALSE
        BY <1>1
    <2>4. toAgent' \in Seq(Boxes)
        BY <1>2, <2>1
    <2>5. daemon' \in Boxes
        BY <1>2, <1>3, <2>2
    <2>6. queued' \in BOOLEAN
        BY <1>2, <2>3
    <2> QED  BY <2>4, <2>5, <2>6
<1> QED  BY <1>1, <1>4, <1>5 DEF IInv, Typed, Unmoved

-----------------------------------------------------------------------------
(* What the daemon was told last (clients that acknowledge every configure *)
(* event).                                                                 *)

Latest(q) == q[Len(q)]

\* The daemon has resized the window and was told nothing since.
Owing(o) == "WIDTH_CHANGED" \in o.flags

Coherent(o) == Owing(o) \/ o.host = o.guest

\* The daemon was just told where the window is.
Spoken(o) ==
    /\ o.out # <<>> /\ Latest(o.out) = o.guest
    /\ o.host = o.guest /\ ~Owing(o)

\* Where the window is, or what the compositor only sends back.
Right(o, box) == box = o.guest \/ ~Valid(box)

\* What the daemon reads last is right, or it has read it, or it will ask again.
SaidRight ==
    \/ Owing(output)
    \/ /\ output.out # <<>> => Right(output, Latest(output.out))
       /\ output.out = <<>> /\ ~queued => Right(output, daemon)
       /\ output.out = <<>> /\ queued => toAgent # <<>>

\* What is owed is under way: the client will be asked for, is being asked for or
\* has agreed to the daemon's size.
Owed ==
    Owing(output) =>
        /\ kind = "toplevel" /\ wanted = output.host.width
        /\ configures = <<>> => acked = output.host.width
        /\ configures # <<>> => Latest(configures).width = output.host.width

\* The acknowledgement that is waited for can still arrive.
Awaited ==
    "NEED_CONFIGURE_ACK" \in output.flags =>
        \E i \in DOMAIN configures : configures[i].tracked

\* The output of a popup never has another size than it in its mode, so that a
\* resize always changes the mode.
PopupShown ==
    kind = "popup" => configures = <<>> /\ output.mode \in {0, output.guest.width}

Told ==
    kind # "xwayland" =>
        Coherent(output) /\ SaidRight /\ Owed /\ Awaited /\ PopupShown

LEMMA LatestOfAppend ==
    ASSUME NEW S, NEW q \in Seq(S), NEW e \in S
    PROVE  /\ Append(q, e) # <<>> /\ Latest(Append(q, e)) = e
           /\ DOMAIN q \subseteq DOMAIN Append(q, e)
           /\ \A i \in DOMAIN q : Append(q, e)[i] = q[i]
BY DEF Latest

LEMMA LatestOfTail ==
    ASSUME NEW S, NEW q \in Seq(S), q # <<>>
    PROVE  /\ Tail(q) = <<>> => Latest(q) = Head(q)
           /\ Tail(q) # <<>> => Latest(Tail(q)) = Latest(q)
           /\ \A i \in DOMAIN q : i # 1 => i - 1 \in DOMAIN Tail(q) /\ Tail(q)[i - 1] = q[i]
<1>1. Len(q) \in Nat \ {0} /\ Len(Tail(q)) = Len(q) - 1 /\ Head(q) = q[1]
      /\ \A i \in 1 .. Len(q) - 1 : Tail(q)[i] = q[i + 1]
      /\ DOMAIN q = 1 .. Len(q) /\ DOMAIN Tail(q) = 1 .. Len(q) - 1
    OBVIOUS
<1>2. Tail(q) = <<>> => Len(q) = 1
    <2>1. Len(<<>>) = 0
        OBVIOUS
    <2>2. Tail(q) = <<>> => Len(Tail(q)) = 0
        BY <2>1, Zenon
    <2> DEFINE n == Len(Tail(q))
    <2>3. n = Len(q) - 1 /\ Len(q) \in Nat
        BY <1>1
    <2> HIDE DEF n
    <2>4. n = 0 => Len(q) = 1
        BY <2>3
    <2> QED  BY <2>2, <2>4, Zenon DEF n
<1>3. Tail(q) # <<>> => Len(q) - 1 \in 1 .. Len(q) - 1
    <2>1. Tail(q) \in Seq(S)
        OBVIOUS
    <2>2. Tail(q) # <<>> => Len(Tail(q)) # 0
        BY <2>1, EmptySeq
    <2> QED  BY <1>1, <2>2
<1> QED  BY <1>1, <1>2, <1>3 DEF Latest

LEMMA SaySays ==
    ASSUME NEW o \in Outputs, NEW box \in Boxes
    PROVE  Say(o, box).out # <<>> /\ Latest(Say(o, box).out) = box
<1>1. o.out \in Seq(Boxes) /\ Say(o, box).out = Append(o.out, box)
    BY DEF Outputs, Say
<1> QED  BY <1>1, LatestOfAppend

\* The guest's copy is the last that qubes_output_send_configure tells.
LEMMA SendConfigureSays ==
    ASSUME NEW o \in Outputs, Coherent(o)
    PROVE  Spoken(SendConfigure(o))
<1> DEFINE told == IF o.flags \cap Changed # {}
                   THEN [Say(o, o.host) EXCEPT !.host = o.guest]
                   ELSE o
           left == [told EXCEPT !.flags = @ \ Changed]
<1>1. /\ SendConfigure(o).guest = o.guest
      /\ SendConfigure(o).host = IF o.flags \cap Changed # {} THEN o.guest ELSE o.host
      /\ SendConfigure(o).flags = o.flags \ Changed
    BY SendConfigureType
<1>2. SendConfigure(o).host = o.guest /\ ~Owing(SendConfigure(o))
    BY <1>1 DEF Coherent, Owing, Changed
<1>3. o.host \in Boxes /\ o.host \in Sized /\ o.guest \in Sized /\ o.flags \subseteq Flags
    BY DEF Outputs, Sized
<1>4. Say(o, o.host) \in Outputs
    BY <1>3, SayType
<1>5. told \in Outputs /\ told.host \in Boxes
    BY <1>3, <1>4 DEF Outputs, Sized
<1>6. SendConfigure(o) = Say(left, told.host)
    BY DEF SendConfigure
<1> HIDE DEF told
<1>7. left \in Outputs /\ left.host = told.host
    BY <1>5 DEF Outputs
<1> HIDE DEF left
<1>8. SendConfigure(o).out # <<>> /\ Latest(SendConfigure(o).out) = told.host
      /\ SendConfigure(o).host = left.host
    BY <1>5, <1>6, <1>7, SaySays, SayType
<1> QED  BY <1>1, <1>2, <1>7, <1>8 DEF Spoken

LEMMA ModesetSays ==
    ASSUME NEW o \in Outputs, NEW width \in 0 .. Max, Coherent(o)
    PROVE  /\ Modeset(o, width) = o \/ Spoken(Modeset(o, width))
           /\ o.mode # width => Spoken(Modeset(o, width))
           /\ Modeset(o, width).mode = width
           /\ Modeset(o, width).guest = o.guest
           /\ "NEED_CONFIGURE_ACK" \in Modeset(o, width).flags
                => "NEED_CONFIGURE_ACK" \in o.flags
<1> DEFINE m == [o EXCEPT !.mode = width]
<1>1. m \in Outputs /\ m.guest = o.guest /\ m.host = o.host /\ m.flags = o.flags
      /\ m.mode = width
    BY DEF Outputs
<1>2. Modeset(o, width) = IF o.mode = width THEN o ELSE SendConfigure(m)
    BY DEF Modeset
<1> HIDE DEF m
<1>3. Coherent(m)
    BY <1>1 DEF Coherent, Owing
<1>4. Spoken(SendConfigure(m)) /\ SendConfigure(m).mode = width
      /\ SendConfigure(m).guest = o.guest /\ SendConfigure(m).flags = o.flags \ Changed
    BY <1>1, <1>3, SendConfigureSays, SendConfigureType
<1> QED  BY <1>2, <1>4

LEMMA DrawnSays ==
    ASSUME NEW o \in Outputs, Coherent(o)
    PROVE  /\ Drawn(o) = o \/ Spoken(Drawn(o))
           /\ Drawn(o).mode = o.guest.width
           /\ Drawn(o).guest = o.guest
           /\ "NEED_CONFIGURE_ACK" \in Drawn(o).flags => "NEED_CONFIGURE_ACK" \in o.flags
<1>1. o.guest.width \in 0 .. Max
    BY DEF Outputs, Sized, Fits
<1> QED  BY <1>1, ModesetSays DEF Drawn

LEMMA CommitSizeSays ==
    ASSUME NEW o \in Outputs, NEW width, Fits(width)
    PROVE  /\ Spoken(CommitSize(o, width))
           /\ CommitSize(o, width).mode = o.mode
           /\ CommitSize(o, width).guest.width = width
<1> DEFINE g == [x |-> KeptLeft(o, width), width |-> width]
           f == (o.flags \ {"NEED_CONFIGURE_ACK"}) \cup {"WIDTH_CHANGED"}
           c == [o EXCEPT !.guest = g, !.flags = f]
<1>1. /\ o.host \in Boxes /\ o.guest \in Boxes /\ o.flags \subseteq Flags
      /\ o.host.x \in Int /\ o.host.width \in Int /\ o.guest.x \in Int /\ width \in Int
    BY DEF Outputs, Sized, Boxes, Fits
<1>2. KeptLeft(o, width) \in Int
    BY <1>1 DEF KeptLeft
<1>3. g \in Sized /\ g.width = width /\ f \subseteq Flags /\ "WIDTH_CHANGED" \in f
    BY <1>1, <1>2 DEF Sized, Boxes, Flags, Changed, Fits
<1> HIDE DEF g, f
<1>4. c \in Outputs /\ c.guest = g /\ c.flags = f /\ c.mode = o.mode
    BY <1>3 DEF Outputs
<1>5. CommitSize(o, width) = SendConfigure(c)
    BY DEF CommitSize, g, f
<1> HIDE DEF c
<1>6. Coherent(c)
    BY <1>3, <1>4 DEF Coherent, Owing
<1>7. Spoken(SendConfigure(c)) /\ SendConfigure(c).guest = c.guest
      /\ SendConfigure(c).mode = c.mode
    BY <1>4, <1>6, SendConfigureSays, SendConfigureType
<1> QED  BY <1>3, <1>4, <1>5, <1>7

\* Telling the daemon settles everything but the acknowledgement.
LEMMA SpokenTold ==
    ASSUME Spoken(output'), Awaited', PopupShown'
    PROVE  Told'
BY DEF Told, Spoken, Coherent, SaidRight, Owed, Right

LEMMA HandleConfigureTold ==
    ASSUME IInv, Told, HandleConfigure
    PROVE  Told'
<1> SUFFICES ASSUME kind # "xwayland" PROVE Told'
    BY DEF HandleConfigure, Told
<1> DEFINE box == Head(toAgent)
<1>1. /\ toAgent # <<>> /\ UNCHANGED <<kind, acked, daemon, queued>>
      /\ \/ Refused(box)
         \/ Valid(box) /\ (\/ Moved(box) \/ ResizedToplevel(box) \/ ResizedPopup(box))
    BY DEF HandleConfigure, ConfigureXwayland
<1>2. /\ output \in Outputs /\ toAgent \in Seq(Boxes) /\ configures \in Configures
      /\ wanted \in 0 .. Max
    BY DEF IInv, Typed
<1>3. box \in Boxes
    BY <1>1, <1>2, FirstBox
<1>4. Coherent(output) /\ SaidRight /\ Owed /\ Awaited /\ PopupShown
    BY DEF Told
<1> HIDE DEF box
<1>5. Valid(box) => box \in Sized /\ box.x \in Int /\ box.width \in 1 .. Max
                    /\ box.width \in 0 .. Max
    BY <1>3 DEF Valid, Sized, Fits, Boxes
<1>6. ASSUME Valid(box)
      PROVE  /\ Recorded(box) \in Outputs /\ Recorded(box).guest = output.guest
             /\ Recorded(box).host = box /\ Recorded(box).mode = output.mode
             /\ Owing(Recorded(box)) <=> box.width # output.guest.width
             /\ "NEED_CONFIGURE_ACK" \in Recorded(box).flags
                  <=> "NEED_CONFIGURE_ACK" \in output.flags
    BY <1>2, <1>5, <1>6 DEF Recorded, ChangedBy, Outputs, Flags, Changed, Owing
<1>7. ASSUME Valid(box)
      PROVE  LET m == [Recorded(box) EXCEPT !.guest.x = box.x]
             IN  /\ m \in Outputs /\ m.host = box /\ m.mode = output.mode
                 /\ m.flags = Recorded(box).flags
                 /\ m.guest = [output.guest EXCEPT !.x = box.x]
    <2> DEFINE r == Recorded(box)
               g == [r.guest EXCEPT !.x = box.x]
    <2>1. r \in Outputs /\ r.guest \in Sized /\ r.guest = output.guest /\ r.host = box
          /\ r.mode = output.mode
        BY <1>6, <1>7 DEF Outputs
    <2>2. g \in Sized
        BY <1>5, <1>7, <2>1 DEF Sized, Boxes
    <2>3. [r EXCEPT !.guest.x = box.x] = [r EXCEPT !.guest = g]
        OBVIOUS
    <2>4. g = [output.guest EXCEPT !.x = box.x]
        BY <2>1
    <2> HIDE DEF r, g
    <2>5. LET m == [r EXCEPT !.guest = g]
          IN  m \in Outputs /\ m.host = box /\ m.mode = output.mode
              /\ m.flags = r.flags /\ m.guest = g
        BY <2>1, <2>2 DEF Outputs
    <2> QED  BY <2>3, <2>4, <2>5 DEF r
<1>8. CASE Refused(box)
    <2>1. output' = Say(output, box) /\ ~Valid(box) /\ UNCHANGED <<configures, wanted>>
        BY <1>8 DEF Refused
    <2>2. /\ output'.host = output.host /\ output'.guest = output.guest
          /\ output'.flags = output.flags /\ output'.mode = output.mode
          /\ output'.out # <<>> /\ Latest(output'.out) = box
        BY <1>2, <1>3, <2>1, SayType, SaySays
    <2> QED  BY <1>1, <1>4, <2>1, <2>2
             DEF Told, Coherent, SaidRight, Owed, Awaited, PopupShown, Owing, Right
<1>9. CASE Valid(box) /\ Moved(box)
    <2> DEFINE m == [Recorded(box) EXCEPT !.guest.x = box.x]
    <2>1. /\ output' = Say(m, box) /\ box.width = output.guest.width
          /\ UNCHANGED <<configures, wanted>>
        BY <1>9 DEF Moved
    <2>2. /\ m \in Outputs /\ m.host = box /\ m.mode = output.mode
          /\ m.flags = Recorded(box).flags
          /\ m.guest = [output.guest EXCEPT !.x = box.x]
        BY <1>7, <1>9
    <2> HIDE DEF m
    <2>3. m.guest = box
        <3>1. output.guest \in Boxes /\ box \in Boxes
            BY <1>2, <1>3 DEF Outputs, Sized
        <3> QED  BY <2>1, <2>2, <3>1 DEF Boxes
    <2>4. /\ output'.host = m.host /\ output'.guest = m.guest
          /\ output'.flags = m.flags /\ output'.mode = m.mode
          /\ output'.out # <<>> /\ Latest(output'.out) = box
        BY <1>3, <2>1, <2>2, SayType, SaySays
    <2>5. Spoken(output')
        BY <1>6, <1>9, <2>1, <2>2, <2>3, <2>4 DEF Spoken, Owing
    <2>6. Awaited'
        BY <1>4, <1>6, <1>9, <2>1, <2>2, <2>4 DEF Awaited
    <2>7. PopupShown'
        BY <1>1, <1>4, <2>1, <2>2, <2>3, <2>4 DEF PopupShown
    <2> QED  BY <2>5, <2>6, <2>7, SpokenTold
<1>10. CASE Valid(box) /\ ResizedToplevel(box)
    <2> DEFINE m == [Recorded(box) EXCEPT !.guest.x = box.x]
               r == [m EXCEPT !.flags = @ \cup {"NEED_CONFIGURE_ACK"}]
               e == [width |-> box.width, tracked |-> TRUE]
    <2>1. [Recorded(box) EXCEPT !.guest.x = box.x,
                                !.flags = @ \cup {"NEED_CONFIGURE_ACK"}] = r
        OBVIOUS
    <2>2. /\ output' = Modeset(r, box.width) /\ wanted' = box.width
          /\ kind = "toplevel" /\ box.width # output.guest.width
          /\ configures' = SetSize(box.width)
        BY <1>10, <2>1 DEF ResizedToplevel
    <2>3. m \in Outputs /\ m.host = box /\ m.flags = Recorded(box).flags
        BY <1>7, <1>10
    <2> HIDE DEF m
    <2>4. r \in Outputs /\ r.host = box /\ Owing(r)
        BY <1>6, <1>10, <2>2, <2>3 DEF Outputs, Flags, Owing
    <2> HIDE DEF r
    <2>5. output' = r \/ Spoken(output')
        BY <1>5, <1>10, <2>2, <2>4, ModesetSays DEF Coherent
    <2>6. configures' # <<>> /\ Latest(configures') = e
          /\ \E i \in DOMAIN configures' : configures'[i].tracked
        <3> DEFINE T == [width : 0 .. Max, tracked : BOOLEAN]
                   s == [i \in DOMAIN configures |-> [configures[i] EXCEPT !.tracked = FALSE]]
        <3>1. /\ DOMAIN configures = 1 .. Len(configures) /\ Len(configures) \in Nat
              /\ \A i \in 1 .. Len(configures) : configures[i] \in T
            BY <1>2, LenProperties, ElementOfSeq DEF Configures
        <3>2. \A i \in 1 .. Len(configures) : [configures[i] EXCEPT !.tracked = FALSE] \in T
            BY <3>1
        <3>3. s \in Seq(T)
            BY <3>1, <3>2
        <3>4. e \in T /\ e.tracked
            BY <1>5, <1>10
        <3>5. configures' = Append(s, e)
            BY <2>2 DEF SetSize
        <3> HIDE DEF T, s, e
        <3>6. Append(s, e) # <<>> /\ Latest(Append(s, e)) = e
              /\ Len(Append(s, e)) \in DOMAIN Append(s, e)
            BY <3>3, <3>4, LatestOfAppend
        <3> QED  BY <3>4, <3>5, <3>6 DEF Latest
    <2>7. Awaited' /\ PopupShown'
        BY <1>1, <2>2, <2>6 DEF Awaited, PopupShown
    <2>8. CASE output' = r
        <3>1. Owing(output') /\ output'.host.width = box.width
            BY <2>4, <2>8
        <3>2. Owed'
            BY <1>1, <2>2, <2>6, <3>1 DEF Owed
        <3> QED  BY <2>7, <3>1, <3>2 DEF Told, Coherent, SaidRight
    <2> QED  BY <2>5, <2>7, <2>8, SpokenTold
<1>11. CASE Valid(box) /\ ResizedPopup(box)
    <2> DEFINE r == [Recorded(box) EXCEPT !.guest = box]
    <2>1. output' = Modeset(r, box.width) /\ kind = "popup"
          /\ box.width # output.guest.width /\ UNCHANGED <<configures, wanted>>
        BY <1>11 DEF ResizedPopup
    <2>2. r \in Outputs /\ r.host = box /\ r.guest = box /\ r.mode = output.mode
          /\ r.flags = Recorded(box).flags
        BY <1>5, <1>6, <1>11 DEF Outputs
    <2> HIDE DEF r
    <2>3. r.mode # box.width
        BY <1>4, <1>5, <1>11, <2>1, <2>2 DEF PopupShown
    <2>4. /\ Spoken(output') /\ output'.mode = box.width /\ output'.guest = box
          /\ "NEED_CONFIGURE_ACK" \in output'.flags => "NEED_CONFIGURE_ACK" \in r.flags
        BY <1>5, <1>11, <2>1, <2>2, <2>3, ModesetSays DEF Coherent
    <2>5. Awaited'
        BY <1>4, <1>6, <1>11, <2>1, <2>2, <2>4 DEF Awaited
    <2>6. PopupShown'
        BY <1>1, <1>4, <2>1, <2>4 DEF PopupShown
    <2> QED  BY <2>4, <2>5, <2>6, SpokenTold
<1> QED  BY <1>1, <1>8, <1>9, <1>10, <1>11

LEMMA OtherConfigureTold ==
    ASSUME IInv, Told, OtherConfigure
    PROVE  Told'
<1> DEFINE T == [width : 0 .. Max, tracked : BOOLEAN]
           e == [width |-> wanted, tracked |-> FALSE]
<1>1. /\ kind = "toplevel" /\ configures' = Append(configures, e)
      /\ UNCHANGED <<kind, output, wanted, acked, toAgent, daemon, queued>>
    BY DEF OtherConfigure
<1>2. e \in T /\ e.width = wanted /\ configures \in Seq(T)
    BY DEF IInv, Typed, Configures
<1> HIDE DEF T, e
<1>3. /\ configures' # <<>> /\ Latest(configures') = e
      /\ DOMAIN configures \subseteq DOMAIN configures'
      /\ \A i \in DOMAIN configures : configures'[i] = configures[i]
    BY <1>1, <1>2, LatestOfAppend
<1>4. Coherent(output) /\ SaidRight /\ Owed /\ Awaited /\ PopupShown
    BY <1>1 DEF Told
<1>5. Owed'
    BY <1>1, <1>2, <1>3, <1>4 DEF Owed
<1>6. Awaited'
    BY <1>1, <1>3, <1>4 DEF Awaited
<1>7. PopupShown' /\ Coherent(output') /\ SaidRight'
    BY <1>1, <1>4 DEF PopupShown, SaidRight
<1> QED  BY <1>5, <1>6, <1>7 DEF Told

\* The client takes the configure events in turn, so that the last one it agrees to
\* is the last one it was sent.
LEMMA AckConfigureTold ==
    ASSUME IInv, Told, Patient, AckConfigure
    PROVE  Told'
<1> SUFFICES ASSUME kind # "xwayland" PROVE Told'
    BY DEF AckConfigure, Told
<1> DEFINE T == [width : 0 .. Max, tracked : BOOLEAN]
           m == [output EXCEPT !.flags = @ \ {"NEED_CONFIGURE_ACK"}]
           awaited == configures[1].tracked /\ "NEED_CONFIGURE_ACK" \in output.flags
<1>1. /\ UNCHANGED <<kind, wanted, toAgent, daemon, queued>>
      /\ configures # <<>>
      /\ output' = IF awaited THEN Modeset(m, output.host.width) ELSE output
      /\ acked' = configures[1].width
      /\ configures' = SubSeq(configures, 2, Len(configures))
    BY DEF AckConfigure
<1>2. output \in Outputs /\ configures \in Seq(T)
    BY DEF IInv, Typed, Configures
<1>3. Coherent(output) /\ SaidRight /\ Owed /\ Awaited /\ PopupShown
    BY DEF Told
<1> HIDE DEF T
<1>4. configures' = Tail(configures) /\ Head(configures) = configures[1]
    BY <1>1, <1>2
<1>5. /\ configures' = <<>> => Latest(configures) = configures[1]
      /\ configures' # <<>> => Latest(configures') = Latest(configures)
      /\ \A i \in DOMAIN configures :
            i # 1 => i - 1 \in DOMAIN configures' /\ configures'[i - 1] = configures[i]
    BY <1>1, <1>2, <1>4, LatestOfTail
<1>6. /\ m \in Outputs /\ m.host = output.host /\ m.guest = output.guest
      /\ m.out = output.out /\ m.mode = output.mode
      /\ m.flags = output.flags \ {"NEED_CONFIGURE_ACK"}
      /\ output.host.width \in 0 .. Max
    BY <1>2 DEF Outputs, Sized, Fits
<1> HIDE DEF m
<1>7. Coherent(m)
    BY <1>3, <1>6 DEF Coherent, Owing
<1>8. /\ output' \in {output, m} \/ Spoken(output')
      /\ "NEED_CONFIGURE_ACK" \in output'.flags => output' = output /\ ~configures[1].tracked
    BY <1>1, <1>6, <1>7, ModesetSays
<1>9. Awaited'
    <2> SUFFICES ASSUME "NEED_CONFIGURE_ACK" \in output'.flags
                 PROVE  \E i \in DOMAIN configures' : configures'[i].tracked
        BY DEF Awaited
    <2>1. PICK i \in DOMAIN configures : configures[i].tracked
        BY <1>3, <1>8 DEF Awaited
    <2> QED  BY <1>5, <1>8, <2>1
<1>10. PopupShown'
    BY <1>1, <1>3 DEF PopupShown
<1>11. CASE output' \in {output, m}
    <2>1. /\ output'.host = output.host /\ output'.guest = output.guest
          /\ output'.out = output.out
          /\ Owing(output') <=> Owing(output)
        BY <1>6, <1>11 DEF Owing
    <2>2. Coherent(output') /\ SaidRight'
        BY <1>1, <1>3, <2>1 DEF Coherent, SaidRight, Right
    <2>3. Owed'
        BY <1>1, <1>3, <1>5, <2>1 DEF Owed
    <2> QED  BY <1>9, <1>10, <2>2, <2>3 DEF Told
<1> QED  BY <1>8, <1>9, <1>10, <1>11, SpokenTold

\* A commit is refused only while the acknowledgement is under way, or for a size
\* that no daemon asked for.
LEMMA CommitTold ==
    ASSUME IInv, Told, CommitAcked \/ CommitOther
    PROVE  Told'
<1>1. /\ UNCHANGED <<kind, configures, wanted, toAgent, daemon, queued>>
      /\ \E width : Commit(width)
    BY DEF CommitAcked, CommitOther, Commit
<1>2. PICK width : Commit(width)
    BY <1>1
<1> DEFINE c == CommitSize(output, width)
<1>3. /\ acked' = IF Fits(width) THEN 0 ELSE acked
      /\ kind # "xwayland"
      /\ \/ RefusesSize(output, width) /\ output' = output
         \/ /\ Fits(width)
            /\ \/ output' = Drawn(c)
               \/ width = output.guest.width /\ output' = c
    BY <1>2 DEF Commit, RefusesSize
<1>4. output \in Outputs
    BY DEF IInv, Typed
<1>5. Coherent(output) /\ SaidRight /\ Owed /\ Awaited /\ PopupShown
    BY <1>3 DEF Told
<1>6. CASE RefusesSize(output, width) /\ output' = output
    <2>1. configures = <<>> => "NEED_CONFIGURE_ACK" \notin output.flags
        BY <1>5 DEF Awaited
    <2>2. configures = <<>> => acked' = acked
        BY <1>3, <1>6, <2>1 DEF RefusesSize
    <2>3. Owed'
        BY <1>1, <1>5, <1>6, <2>2 DEF Owed
    <2> QED  BY <1>1, <1>5, <1>6, <2>3 DEF Told, SaidRight, Awaited, PopupShown
<1>7. CASE /\ Fits(width)
           /\ \/ output' = Drawn(c)
              \/ width = output.guest.width /\ output' = c
    <2>1. /\ Spoken(c) /\ c.mode = output.mode /\ c.guest.width = width
          /\ c \in Outputs /\ "NEED_CONFIGURE_ACK" \notin c.flags
        BY <1>4, <1>7, CommitSizeSays, CommitSizeType
    <2> HIDE DEF c
    <2>2. Coherent(c)
        BY <2>1 DEF Spoken, Coherent
    <2>3. /\ Spoken(output') /\ "NEED_CONFIGURE_ACK" \notin output'.flags
          /\ output'.mode \in {output.mode, output'.guest.width}
          /\ output'.guest.width = width
          /\ width # output.guest.width => output'.mode = output'.guest.width
        BY <1>7, <2>1, <2>2, DrawnSays
    <2>4. PopupShown'
        BY <1>1, <1>5, <2>3 DEF PopupShown
    <2>5. Awaited'
        BY <2>3 DEF Awaited
    <2> QED  BY <2>3, <2>4, <2>5, SpokenTold
<1> QED  BY <1>3, <1>6, <1>7

LEMMA FrameTold ==
    ASSUME IInv, Told, Frame
    PROVE  Told'
<1> SUFFICES ASSUME kind # "xwayland" PROVE Told'
    BY DEF Frame, Told
<1>1. /\ UNCHANGED <<kind, configures, wanted, acked, toAgent, daemon, queued>>
      /\ output' = Drawn(output)
    BY DEF Frame
<1>2. output \in Outputs
    BY DEF IInv, Typed
<1>3. Coherent(output) /\ SaidRight /\ Owed /\ Awaited /\ PopupShown
    BY DEF Told
<1>4. /\ output' = output \/ Spoken(output')
      /\ output'.mode = output'.guest.width
      /\ "NEED_CONFIGURE_ACK" \in output'.flags => "NEED_CONFIGURE_ACK" \in output.flags
    BY <1>1, <1>2, <1>3, DrawnSays
<1>5. Awaited' /\ PopupShown'
    BY <1>1, <1>3, <1>4 DEF Awaited, PopupShown
<1>6. CASE output' = output
    BY <1>1, <1>3, <1>5, <1>6 DEF Told, SaidRight, Owed
<1> QED  BY <1>4, <1>5, <1>6, SpokenTold

\* While the daemon waits, what it waits for is under way; a further move of the
\* user needs no message.
LEMMA UserMovesTold ==
    ASSUME IInv, Told, UserMoves
    PROVE  Told'
<1> SUFFICES ASSUME kind # "xwayland" PROVE Told'
    BY DEF UserMoves, Told
<1>1. /\ UNCHANGED <<kind, output, configures, wanted, acked>> /\ queued' = TRUE
    BY DEF UserMoves
<1>2. PICK box \in DaemonBoxes :
        toAgent' = IF queued THEN toAgent ELSE Append(toAgent, box)
    BY DEF UserMoves
<1>3. Coherent(output) /\ SaidRight /\ Owed /\ Awaited /\ PopupShown
    BY DEF Told
<1>4. ~queued => toAgent' # <<>>
    <2>1. toAgent \in Seq(Boxes) /\ box \in Boxes
        BY DEF IInv, Typed
    <2> QED  BY <1>2, <2>1, LatestOfAppend
<1>5. SaidRight'
    BY <1>1, <1>2, <1>3, <1>4 DEF SaidRight
<1> QED  BY <1>1, <1>3, <1>5 DEF Told, Owed, Awaited, PopupShown

\* The last box that the daemon reads is the one it shows, or it asks once more.
LEMMA DaemonReadsTold ==
    ASSUME IInv, Told, DaemonReads
    PROVE  Told'
<1> SUFFICES ASSUME kind # "xwayland" PROVE Told'
    BY DEF DaemonReads, Told
<1> DEFINE box == Head(output.out)
<1>1. /\ output.out # <<>> /\ output' = [output EXCEPT !.out = Tail(@)]
      /\ UNCHANGED <<kind, configures, wanted, acked>>
      /\ \/ queued' = FALSE /\ box = daemon /\ UNCHANGED <<daemon, toAgent>>
         \/ queued /\ toAgent' = Append(toAgent, daemon) /\ UNCHANGED <<daemon, queued>>
         \/ ~queued /\ daemon' = box /\ UNCHANGED <<toAgent, queued>>
    BY DEF DaemonReads
<1>2. /\ output \in Outputs /\ output.out \in Seq(Boxes) /\ toAgent \in Seq(Boxes)
      /\ daemon \in Boxes
    BY DEF IInv, Typed, Outputs
<1>3. Coherent(output) /\ SaidRight /\ Owed /\ Awaited /\ PopupShown
    BY DEF Told
<1>4. /\ output'.host = output.host /\ output'.guest = output.guest
      /\ output'.flags = output.flags /\ output'.mode = output.mode
      /\ output'.out = Tail(output.out)
    BY <1>1, <1>2 DEF Outputs
<1>5. /\ output'.out = <<>> => Latest(output.out) = box
      /\ output'.out # <<>> => Latest(output'.out) = Latest(output.out)
    BY <1>1, <1>2, <1>4, LatestOfTail
<1> HIDE DEF box
<1>6. Coherent(output') /\ Owed' /\ Awaited' /\ PopupShown'
    BY <1>1, <1>3, <1>4 DEF Coherent, Owed, Awaited, PopupShown, Owing
<1>7. SaidRight'
    <2> SUFFICES ASSUME ~Owing(output') PROVE SaidRight'
        BY DEF SaidRight
    <2>1. Right(output', Latest(output.out))
        BY <1>1, <1>3, <1>4 DEF SaidRight, Owing, Right
    <2>2. queued /\ toAgent' = Append(toAgent, daemon) => toAgent' # <<>>
        BY <1>2, LatestOfAppend
    <2> QED  BY <1>1, <1>5, <2>1, <2>2 DEF SaidRight
<1> QED  BY <1>6, <1>7 DEF Told

-----------------------------------------------------------------------------
(* The theorems.                                                           *)

\* The invariant holds initially and every step keeps it.
THEOREM Invariance == Spec => []IInv
<1>1. IInv /\ [Next]_vars => IInv'
    <2> SUFFICES ASSUME IInv, [Next]_vars
                 PROVE  IInv'
        OBVIOUS
    <2>1. CASE HandleConfigure
        BY <2>1, HandleConfigureInv
    <2>2. CASE OtherConfigure
        BY <2>2, OtherConfigureInv
    <2>3. CASE AckConfigure
        BY <2>3, AckConfigureInv
    <2>4. CASE CommitAcked \/ CommitOther
        BY <2>4, CommitInv
    <2>5. CASE RequestConfigure
        BY <2>5, RequestConfigureInv
    <2>6. CASE Frame
        BY <2>6, FrameInv
    <2>7. CASE UserMoves
        BY <2>7, UserMovesInv
    <2>8. CASE DaemonReads
        BY <2>8, DaemonReadsInv
    <2>9. CASE UNCHANGED vars
        BY <2>9 DEF vars, bounds, IInv, Typed, Unmoved
    <2> QED  BY <2>1, <2>2, <2>3, <2>4, <2>5, <2>6, <2>7, <2>8, <2>9 DEF Next
<1> QED  BY InitInv, <1>1, PTL DEF Spec

\* Every variable keeps its type; in particular both copies always have a size
\* that the protocol allows, whatever daemon and client ask for
\* (qubes_output_ensure_created, qubes_output_commit_size).
THEOREM TypeCorrect == Spec => []TypeOK
<1>1. IInv => TypeOK
    BY DEF IInv, Typed, TypeOK, Outputs, Sized, Configures
<1> QED  BY Invariance, <1>1, PTL

\* The host's copy is the guest's until the daemon first configures the window
\* (STATE_TRACKING.md:11), for windows that are not Xwayland's.
THEOREM HostIsGuest == Spec => []HostAsDocumented
<1>1. IInv => HostAsDocumented
    BY DEF IInv, Unmoved, HostAsDocumented
<1> QED  BY Invariance, <1>1, PTL

\* What the daemon was told last is right or will be corrected, if the client
\* acknowledges every configure event.
THEOREM ToldInvariance == ASSUME Patient PROVE Spec => []Told
<1>1. Init => Told
    BY EmptySeq DEF Init, Told, Coherent, SaidRight, Right, Owed, Awaited, PopupShown, Owing
<1>2. IInv /\ Told /\ [Next]_vars => Told'
    <2> SUFFICES ASSUME IInv, Told, [Next]_vars
                 PROVE  Told'
        OBVIOUS
    <2>1. CASE HandleConfigure
        BY <2>1, HandleConfigureTold
    <2>2. CASE OtherConfigure
        BY <2>2, OtherConfigureTold
    <2>3. CASE AckConfigure
        BY <2>3, AckConfigureTold
    <2>4. CASE CommitAcked \/ CommitOther
        BY <2>4, CommitTold
    <2>5. CASE RequestConfigure
        BY <2>5 DEF RequestConfigure, Told
    <2>6. CASE Frame
        BY <2>6, FrameTold
    <2>7. CASE UserMoves
        BY <2>7, UserMovesTold
    <2>8. CASE DaemonReads
        BY <2>8, DaemonReadsTold
    <2>9. CASE UNCHANGED vars
        BY <2>9 DEF vars, Told, Coherent, SaidRight, Right, Owed, Awaited, PopupShown, Owing
    <2> QED  BY <2>1, <2>2, <2>3, <2>4, <2>5, <2>6, <2>7, <2>8, <2>9 DEF Next
<1> QED  BY Invariance, <1>1, <1>2, PTL DEF Spec

\* When nothing is under way any more, the daemon shows an xdg window where
\* qubes_output::guest says it is, unless it asked for coordinates that
\* qubes_handle_configure refuses; for clients that acknowledge every configure
\* event.  Then nothing is owed, and the daemon has read what it was told last.
THEOREM DaemonAgrees == ASSUME Patient PROVE Spec => []Agreement
<1>1. ASSUME IInv, Told, Quiet, kind # "xwayland"
      PROVE  daemon = output.guest \/ ~Valid(daemon)
    <2>1. ~Owing(output)
        <3>1. output.host.width # 0
            BY <1>1 DEF IInv, Typed, Outputs, Sized, Fits
        <3> QED  BY <1>1, <3>1 DEF Told, Owed, Quiet
    <2> QED  BY <1>1, <2>1 DEF Told, SaidRight, Right, Quiet
<1>2. IInv /\ Told => Agreement
    BY <1>1 DEF Agreement
<1> QED  BY Invariance, ToldInvariance, <1>2, PTL
================================================================================
