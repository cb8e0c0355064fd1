----------------------------- MODULE Scene_proofs -----------------------------
(***************************************************************************)
(* Theorems about Scene, for any set of windows and any parents.           *)
(*                                                                         *)
(* The handlers of Scene are compositions of a few functions on the output *)
(* of one window.  So the invariant is a predicate of each output (Sound), *)
(* another that relates it to the timer (Timed), and the one that relates  *)
(* the flag to the timer; and each function has a lemma that says that it  *)
(* preserves the first two.                                                *)
(***************************************************************************)
EXTENDS Scene, TLAPS

\* What the kind of a window says about its output and its listener.  An xdg
\* window is disabled only with the root of its scene.
KindFits(o) ==
  /\ o.kind = "none" => ~o.live
  /\ o.kind = "xdg" => o.live /\ o.commit = "linked" /\ o.tree # "none"
  /\ o.kind = "xdg" /\ o.root => o.enabled
  /\ o.kind = "xwayland" /\ ~o.live => o.commit # "linked"

Sound(o) ==
  /\ o \in Outputs
  /\ o.mapped => o.surface /\ o.commit = "linked" /\ o.tree = "on"
  /\ o.surface => o.live
  /\ o.commit # "bad"
  /\ KindFits(o)

\* An output that needs the timer has it.
Timed(o, timer) == o.mapped /\ o.enabled /\ o.root /\ ~o.failed => timer

IInv ==
  /\ TypeOK /\ ClockRuns /\ CommitsHeard /\ MappedHasTree
  /\ \A w \in Windows : KindFits(out[w])

USE SceneAssumption

-----------------------------------------------------------------------------
(* The invariant by outputs.                                               *)

LEMMA ByOutputs ==
  IInv <=> /\ running \in BOOLEAN /\ framePending \in BOOLEAN /\ armed \in BOOLEAN
           /\ framePending => armed
           /\ out \in [Windows -> Outputs]
           /\ \A w \in Windows : Sound(out[w]) /\ Timed(out[w], armed)
BY DEF IInv, TypeOK, ClockRuns, CommitsHeard, MappedHasTree, Sound, Timed

\* Of the flag and the timer after a frame, of any number of outputs.
LEMMA ClockTyped ==
  ASSUME framePending \in BOOLEAN, armed \in BOOLEAN, framePending => armed,
         NEW arms \in BOOLEAN, Clock(arms)
  PROVE  /\ framePending' \in BOOLEAN /\ armed' \in BOOLEAN
         /\ framePending' => armed'
         /\ armed \/ arms => armed'
BY DEF Clock

LEMMA QuietClock ==
  ASSUME framePending \in BOOLEAN, armed \in BOOLEAN, Quiet
  PROVE  Clock(FALSE) /\ running' = running
BY DEF Quiet, Clock

\* A step that changes one output and sends frames for it at most.
LEMMA OneOutput ==
  ASSUME IInv, NEW w \in Windows, NEW o, Sound(o),
         NEW arms \in BOOLEAN, Timed(o, armed \/ arms),
         out' = [out EXCEPT ![w] = o], Clock(arms), running' \in BOOLEAN
  PROVE  IInv'
<1>1. /\ framePending' \in BOOLEAN /\ armed' \in BOOLEAN
      /\ framePending' => armed'
      /\ armed \/ arms => armed'
  BY ByOutputs, ClockTyped
<1>2. out' \in [Windows -> Outputs]
  BY ByOutputs DEF Sound
<1>3. ASSUME NEW v \in Windows  PROVE  Sound(out'[v]) /\ Timed(out'[v], armed')
  <2>1. CASE v = w
    BY <2>1, <1>1, ByOutputs DEF Timed
  <2>2. CASE v # w
    <3>1. out'[v] = out[v]
      BY <2>2, ByOutputs
    <3> QED  BY <3>1, <1>1, ByOutputs DEF Timed
  <2> QED  BY <2>1, <2>2
<1>4. /\ running' \in BOOLEAN /\ framePending' \in BOOLEAN /\ armed' \in BOOLEAN
      /\ framePending' => armed'
      /\ out' \in [Windows -> Outputs]
      /\ \A v \in Windows : Sound(out'[v]) /\ Timed(out'[v], armed')
  BY <1>1, <1>2, <1>3
<1> QED
  BY <1>4 DEF IInv, TypeOK, ClockRuns, CommitsHeard, MappedHasTree, Sound, Timed

LEMMA OneOutputQuietly ==
  ASSUME IInv, NEW w \in Windows, NEW o, Sound(o), Timed(o, armed),
         out' = [out EXCEPT ![w] = o], Quiet
  PROVE  IInv'
<1>1. running \in BOOLEAN /\ framePending \in BOOLEAN /\ armed \in BOOLEAN
  BY ByOutputs
<1>2. Clock(FALSE) /\ running' \in BOOLEAN
  BY <1>1, QuietClock
<1>3. Timed(o, armed \/ FALSE)
  BY DEF Timed
<1> QED  BY <1>2, <1>3, OneOutput

-----------------------------------------------------------------------------
(* The functions that the handlers are made of.                            *)

LEMMA AbsentSound == Sound(Absent) /\ \A timer : Timed(Absent, timer)
BY DEF Absent, Sound, Outputs, KindFits, Timed

LEMMA ModesetSound ==
  ASSUME NEW o, Sound(o), NEW timer, Timed(o, timer)
  PROVE  Sound(Modeset(o)) /\ Timed(Modeset(o), timer)
BY DEF Modeset, Sound, Outputs, KindFits, Timed

LEMMA NewContentSound ==
  ASSUME NEW o, Sound(o), NEW asks \in BOOLEAN, NEW timer, Timed(o, timer)
  PROVE  Sound(NewContent(o, asks)) /\ Timed(NewContent(o, asks), timer)
BY DEF NewContent, Schedule, Sound, Outputs, KindFits, Timed

LEMMA ArmsTyped ==
  ASSUME NEW o, Sound(o), NEW ok \in BOOLEAN
  PROVE  Arms(o, ok) \in BOOLEAN
BY DEF Arms, CommitFails, Sound, Outputs

\* p differs from o in nothing that Sound looks at.
Alike(p, o) ==
  /\ p.kind = o.kind /\ p.live = o.live /\ p.surface = o.surface
  /\ p.mapped = o.mapped /\ p.enabled = o.enabled /\ p.root = o.root
  /\ p.tree = o.tree /\ p.commit = o.commit

LEMMA AlikeSound ==
  ASSUME NEW o, Sound(o), NEW p \in Outputs, Alike(p, o)
  PROVE  Sound(p)
BY DEF Alike, Sound, KindFits

\* A frame is followed by another, or it failed or its output is disabled.
LEMMA FramedSound ==
  ASSUME NEW o, Sound(o), NEW ok \in BOOLEAN
  PROVE  /\ Framed(o, ok) \in Outputs /\ Alike(Framed(o, ok), o)
         /\ Sound(Framed(o, ok))
         /\ Timed(Framed(o, ok), Arms(o, ok))
<1> DEFINE f == Framed(o, ok)
<1>o. o \in Outputs
  BY DEF Sound
<1>1. CASE Arms(o, ok)
  <2>1. f = [o EXCEPT !.pending = TRUE,
                      !.damage = @ /\ ~o.mapped,
                      !.dirty = @ /\ ~(o.mapped /\ Visible(o)),
                      !.failed = FALSE]
    BY <1>1 DEF Framed
  <2>2. f \in Outputs /\ Alike(f, o)
    BY <1>o, <2>1 DEF Outputs, Alike
  <2> QED  BY <1>1, <2>2, AlikeSound DEF Timed
<1>2. CASE ~Arms(o, ok)
  <2>1. f = [o EXCEPT !.pending = FALSE, !.failed = @ \/ CommitFails(o, ok)]
    BY <1>2 DEF Framed
  <2>2. CommitFails(o, ok) \in BOOLEAN
    BY <1>o DEF CommitFails, Outputs
  <2>3. f \in Outputs /\ Alike(f, o) /\ f.failed = (o.failed \/ CommitFails(o, ok))
    BY <1>o, <2>1, <2>2 DEF Outputs, Alike
  <2>4. Timed(f, Arms(o, ok))
    BY <1>2, <2>3 DEF Timed, Arms, Alike
  <2> QED  BY <2>3, <2>4, AlikeSound
<1> QED  BY <1>1, <1>2

\* The frame that ends a handler, if its size is not refused.
LEMMA SendFrameSound ==
  ASSUME NEW o, Sound(o), NEW outcome \in Outcomes,
         NEW timer \in BOOLEAN, Timed(o, timer)
  PROVE  /\ Sound(SendFrame(o, outcome)) /\ Alike(SendFrame(o, outcome), o)
         /\ SendArms(o, outcome) \in BOOLEAN
         /\ Timed(SendFrame(o, outcome), timer \/ SendArms(o, outcome))
<1>1. CASE outcome = "refused"
  BY <1>1 DEF SendFrame, SendArms, Alike, Timed
<1>2. CASE outcome # "refused"
  <2>1. SendFrame(o, outcome) = Framed(o, outcome = "ok")
        /\ SendArms(o, outcome) = Arms(o, outcome = "ok")
    BY <1>2, ArmsTyped DEF SendFrame, SendArms
  <2>2. (outcome = "ok") \in BOOLEAN
    OBVIOUS
  <2> QED  BY <2>1, <2>2, FramedSound, ArmsTyped DEF Timed
<1> QED  BY <1>1, <1>2

\* A frame that is sent sets the timer if its output needs it.
LEMMA SentTimed ==
  ASSUME NEW o, Sound(o), NEW outcome \in Outcomes, outcome # "refused"
  PROVE  /\ Sound(SendFrame(o, outcome)) /\ SendArms(o, outcome) \in BOOLEAN
         /\ Timed(SendFrame(o, outcome), SendArms(o, outcome))
<1>1. SendFrame(o, outcome) = Framed(o, outcome = "ok")
      /\ SendArms(o, outcome) = Arms(o, outcome = "ok")
  BY ArmsTyped DEF SendFrame, SendArms
<1> DEFINE ok == outcome = "ok"
<1>2. ok \in BOOLEAN
  OBVIOUS
<1> HIDE DEF ok
<1>3. Sound(Framed(o, ok)) /\ Timed(Framed(o, ok), Arms(o, ok)) /\ Arms(o, ok) \in BOOLEAN
  BY <1>2, FramedSound, ArmsTyped
<1> QED  BY <1>1, <1>3 DEF ok

\* The first frame of an output that is not mapped yet cannot fail.
LEMMA UnmappedArms ==
  ASSUME NEW o, Sound(o), ~o.mapped, NEW outcome \in Outcomes, outcome # "refused"
  PROVE  o.enabled => SendArms(o, outcome)
BY DEF SendArms, Arms, CommitFails

\* An output is mapped when it has a surface, a tree and a listener.  What it
\* commits sets no timer: that is there if the root of its scene is enabled.
LEMMA OutputMapSound ==
  ASSUME NEW o, Sound(o), NEW ok \in BOOLEAN,
         o.surface, o.commit = "linked", o.tree # "none"
  PROVE  /\ Sound(OutputMap(o, ok)) /\ OutputMap(o, ok).root = o.root
         /\ \A timer : (o.root => timer) => Timed(OutputMap(o, ok), timer)
<1>o. o \in Outputs
  BY DEF Sound
<1>1. CASE o.mapped
  BY <1>1 DEF OutputMap, Timed
<1>2. CASE ~o.mapped
  <2> DEFINE n == [o EXCEPT !.mapped = TRUE, !.tree = "on"]
             e == [o EXCEPT !.mapped = TRUE, !.tree = "on", !.enabled = TRUE,
                            !.pending = TRUE, !.damage = TRUE]
  <2>1. OutputMap(o, ok) = IF ok THEN e ELSE n
    BY <1>o, <1>2 DEF OutputMap, Modeset, Outputs
  <2>2. Sound(n) /\ n.root = o.root
    BY DEF Sound, Outputs, KindFits
  <2>3. Sound(e) /\ e.root = o.root
    BY DEF Sound, Outputs, KindFits
  <2> HIDE DEF n, e
  <2> QED  BY <2>1, <2>2, <2>3 DEF Timed
<1> QED  BY <1>1, <1>2

LEMMA SetSurfaceSound ==
  ASSUME NEW o, Sound(o), NEW timer, Timed(o, timer)
  PROVE  LET n == SetSurface(o) IN
         /\ Sound(n) /\ n.tree # "none" /\ Timed(n, timer)
         /\ n.surface = o.surface /\ n.commit = o.commit
         /\ n.root = o.root
<1> DEFINE n == SetSurface(o)
<1>1. CASE o.tree = "none"
  <2>1. n = [o EXCEPT !.tree = "on"]
    BY <1>1 DEF SetSurface, Sound, Outputs
  <2> QED  BY <2>1, <1>1 DEF Sound, Outputs, KindFits, Timed
<1>2. CASE o.tree # "none"
  <2>1. n = o
    BY <1>2 DEF SetSurface, Sound, Outputs
  <2> QED  BY <2>1, <1>2
<1> QED  BY <1>1, <1>2

LEMMA RelinkedSound ==
  ASSUME NEW o, Sound(o), o.live, NEW timer, Timed(o, timer)
  PROVE  LET r == [o EXCEPT !.commit = Relinked(@)] IN
         /\ Sound(r) /\ r.commit = "linked" /\ Timed(r, timer)
         /\ r.surface = o.surface
<1> DEFINE r == [o EXCEPT !.commit = Relinked(@)]
<1>1. Relinked(o.commit) = "linked"
  BY DEF Relinked, Linked, Unlinked, Sound
<1>2. r = [o EXCEPT !.commit = "linked"]
  BY <1>1
<1> HIDE DEF r
<1>3. r \in Outputs /\ r.commit = "linked" /\ r.tree = o.tree /\ r.kind = o.kind
      /\ r.live = o.live /\ r.surface = o.surface
      /\ r.enabled = o.enabled /\ r.root = o.root
      /\ r.mapped = o.mapped /\ r.failed = o.failed
  BY <1>2 DEF Sound, Outputs
<1>4. Sound(r) /\ Timed(r, timer)
  BY <1>3 DEF Sound, KindFits, Timed
<1> QED  BY <1>3, <1>4 DEF r

-----------------------------------------------------------------------------
(* The actions.                                                            *)

\* What each lemma on an action starts from.
LEMMA Facts ==
  ASSUME IInv, NEW w \in Windows
  PROVE  /\ Sound(out[w]) /\ Timed(out[w], armed) /\ out[w] \in Outputs
         /\ armed \in BOOLEAN /\ framePending \in BOOLEAN /\ running \in BOOLEAN
BY ByOutputs

LEMMA NewXdgSurfaceKeeps ==
  ASSUME IInv, NEW w \in Windows, NewXdgSurface(w)
  PROVE  IInv'
<1> DEFINE o == [NewOutput("xdg") EXCEPT !.commit = "linked"]
<1>1. Sound(o) /\ Timed(o, armed)
  BY DEF NewOutput, Absent, Sound, Outputs, KindFits, Timed
<1>2. PICK sized \in BOOLEAN :
        out' = [out EXCEPT ![w] = IF sized THEN Modeset(o) ELSE o]
  BY DEF NewXdgSurface
<1> HIDE DEF o
<1>3. LET n == IF sized THEN Modeset(o) ELSE o IN Sound(n) /\ Timed(n, armed)
  BY <1>1, Facts, ModesetSound
<1>4. Quiet
  BY DEF NewXdgSurface
<1> QED  BY <1>2, <1>3, <1>4, OneOutputQuietly

LEMMA NewXwaylandSurfaceKeeps ==
  ASSUME IInv, NEW w \in Windows, NewXwaylandSurface(w)
  PROVE  IInv'
<1> DEFINE o == [Absent EXCEPT !.kind = "xwayland", !.commit = "self"]
<1>1. Sound(o) /\ Timed(o, armed)
  BY DEF Absent, Sound, Outputs, KindFits, Timed
<1>2. out' = [out EXCEPT ![w] = o] /\ Quiet
  BY DEF NewXwaylandSurface
<1> HIDE DEF o
<1> QED  BY <1>1, <1>2, OneOutputQuietly

LEMMA AssociateKeeps ==
  ASSUME IInv, NEW w \in Windows, Associate(w)
  PROVE  IInv'
<1> DEFINE o == [NewOutput("xwayland") EXCEPT !.commit = "linked"]
<1>1. Sound(o) /\ Timed(o, armed)
  BY DEF NewOutput, Absent, Sound, Outputs, KindFits, Timed
<1>2. Linked(out[w].commit) = "linked"
  BY Facts DEF Associate, Sound, KindFits, Linked
<1>3. out' = [out EXCEPT ![w] = o] /\ Quiet
  BY <1>2 DEF Associate
<1> HIDE DEF o
<1> QED  BY <1>1, <1>3, OneOutputQuietly

LEMMA DissociateKeeps ==
  ASSUME IInv, NEW w \in Windows, Dissociate(w)
  PROVE  IInv'
<1> DEFINE o == [Absent EXCEPT !.kind = "xwayland", !.commit = "self"]
<1>1. Sound(o) /\ Timed(o, armed)
  BY DEF Absent, Sound, Outputs, KindFits, Timed
<1>2. out' = [out EXCEPT ![w] = o] /\ Quiet
  BY DEF Dissociate
<1> HIDE DEF o
<1> QED  BY <1>1, <1>2, OneOutputQuietly

LEMMA DestroyWindowKeeps ==
  ASSUME IInv, NEW w \in Windows, DestroyWindow(w)
  PROVE  IInv'
<1>1. out' = [out EXCEPT ![w] = Absent] /\ Quiet
  BY DEF DestroyWindow
<1> QED  BY <1>1, AbsentSound, OneOutputQuietly

LEMMA MapXdgKeeps ==
  ASSUME IInv, NEW w \in Windows, MapXdg(w)
  PROVE  IInv'
<1>1. PICK configured \in Outcomes, committed \in Outcomes,
           modeset \in BOOLEAN, asks \in BOOLEAN :
        LET o1 == [out[w] EXCEPT !.surface = TRUE]
            o2 == SendFrame(o1, configured)
            o3 == IF configured = "refused" THEN o2 ELSE OutputMap(o2, modeset)
            o4 == NewContent(o3, asks)
        IN  /\ out' = [out EXCEPT ![w] = SendFrame(o4, committed)]
            /\ Clock(SendArms(o1, configured) \/ SendArms(o4, committed))
  BY DEF MapXdg
<1> DEFINE o1 == [out[w] EXCEPT !.surface = TRUE]
           o2 == SendFrame(o1, configured)
           o3 == IF configured = "refused" THEN o2 ELSE OutputMap(o2, modeset)
           o4 == NewContent(o3, asks)
           a1 == SendArms(o1, configured)
           a4 == SendArms(o4, committed)
<1>2. /\ out' = [out EXCEPT ![w] = SendFrame(o4, committed)]
      /\ Clock(a1 \/ a4) /\ running' \in BOOLEAN
  BY <1>1, Facts DEF MapXdg
<1>3. /\ Sound(o1) /\ Timed(o1, armed) /\ ~o1.mapped
      /\ o1.surface /\ o1.kind = "xdg"
  BY Facts DEF MapXdg, Sound, Outputs, KindFits, Timed
<1>b. armed \in BOOLEAN
  BY Facts
<1> HIDE DEF o1
<1>4. /\ Sound(o2) /\ Alike(o2, o1) /\ a1 \in BOOLEAN /\ Timed(o2, armed \/ a1)
      /\ configured # "refused" => (o1.enabled => a1)
  BY <1>3, <1>b, SendFrameSound, UnmappedArms
<1> HIDE DEF o2, a1
<1>5. Sound(o3) /\ Timed(o3, armed \/ a1)
  <2>1. CASE configured = "refused"
    BY <2>1, <1>4
  <2>2. CASE configured # "refused"
    <3>1. o2.surface /\ o2.commit = "linked" /\ o2.tree # "none"
      BY <1>3, <1>4 DEF Alike, Sound, KindFits
    <3>2. o2.root => armed \/ a1
      BY <2>2, <1>3, <1>4 DEF Alike, Sound, KindFits
    <3> QED  BY <2>2, <3>1, <3>2, <1>4, OutputMapSound
  <2> QED  BY <2>1, <2>2
<1> HIDE DEF o3
<1>6. Sound(o4) /\ Timed(o4, armed \/ a1)
  BY <1>5, NewContentSound
<1> HIDE DEF o4
<1>7. /\ Sound(SendFrame(o4, committed)) /\ a4 \in BOOLEAN
      /\ Timed(SendFrame(o4, committed), (armed \/ a1) \/ a4)
  <2>1. (armed \/ a1) \in BOOLEAN
    BY <1>4, <1>b
  <2> QED  BY <2>1, <1>6, SendFrameSound
<1> HIDE DEF a4
<1>8. (a1 \/ a4) \in BOOLEAN /\ Timed(SendFrame(o4, committed), armed \/ (a1 \/ a4))
  BY <1>4, <1>7 DEF Timed
<1> QED  BY <1>2, <1>7, <1>8, OneOutput

\* A step that changes no output and stops the compositor.
LEMMA StopKeeps ==
  ASSUME IInv, running' = FALSE, UNCHANGED <<out, framePending, armed>>
  PROVE  IInv'
BY DEF IInv, TypeOK, ClockRuns, CommitsHeard, MappedHasTree, KindFits

LEMMA MapXwaylandKeeps ==
  ASSUME IInv, NEW w \in Windows, MapXwayland(w)
  PROVE  IInv'
<1>1. PICK configured \in Outcomes, modeset \in BOOLEAN,
           transient \in BOOLEAN, asks \in BOOLEAN :
        LET o1 == [out[w] EXCEPT !.surface = TRUE]
            o2 == SetSurface([SendFrame(o1, configured) EXCEPT !.commit = Relinked(@)])
            o3 == OutputMap(o2, modeset)
            o4 == IF out[w].tree = "none" THEN o3 ELSE NewContent(o3, asks)
            o5 == SendFrame(o4, configured)
        IN  \/ /\ configured = "refused"
               /\ out' = [out EXCEPT ![w] = NewContent(o1, asks)]
               /\ Quiet
            \/ /\ configured # "refused"
               /\ transient /\ ParentWithoutOutput(w)
               /\ running' = FALSE
               /\ UNCHANGED <<out, framePending, armed>>
            \/ /\ configured # "refused"
               /\ ~(transient /\ ParentWithoutOutput(w))
               /\ out' = [out EXCEPT ![w] =
                             IF out[w].tree = "none" THEN NewContent(o5, asks) ELSE o5]
               /\ Clock(SendArms(o1, configured) \/ SendArms(o4, configured))
               /\ UNCHANGED running
  BY DEF MapXwayland
<1> DEFINE o1 == [out[w] EXCEPT !.surface = TRUE]
           f1 == SendFrame(o1, configured)
           r1 == [f1 EXCEPT !.commit = Relinked(@)]
           o2 == SetSurface(r1)
           o3 == OutputMap(o2, modeset)
           o4 == IF out[w].tree = "none" THEN o3 ELSE NewContent(o3, asks)
           o5 == SendFrame(o4, configured)
           o6 == IF out[w].tree = "none" THEN NewContent(o5, asks) ELSE o5
           a1 == SendArms(o1, configured)
           a4 == SendArms(o4, configured)
<1>2. /\ Sound(o1) /\ Timed(o1, armed) /\ ~o1.mapped /\ o1.surface /\ o1.live
  BY Facts DEF MapXwayland, Sound, Outputs, KindFits, Timed
<1>b. armed \in BOOLEAN /\ running \in BOOLEAN
  BY Facts
<1>3. CASE configured = "refused"
  <2>1. out' = [out EXCEPT ![w] = NewContent(o1, asks)] /\ Quiet
    BY <1>1, <1>3
  <2> HIDE DEF o1
  <2>2. Sound(NewContent(o1, asks)) /\ Timed(NewContent(o1, asks), armed)
    BY <1>2, NewContentSound
  <2> QED  BY <2>1, <2>2, OneOutputQuietly
<1>4. CASE configured # "refused" /\ transient /\ ParentWithoutOutput(w)
  BY <1>1, <1>4, StopKeeps
<1>5. CASE configured # "refused" /\ ~(transient /\ ParentWithoutOutput(w))
  <2>1. out' = [out EXCEPT ![w] = o6] /\ Clock(a1 \/ a4) /\ running' \in BOOLEAN
    BY <1>1, <1>5, <1>b
  <2> HIDE DEF o1
  <2>2. /\ Sound(f1) /\ Alike(f1, o1) /\ a1 \in BOOLEAN /\ Timed(f1, armed \/ a1)
    BY <1>2, <1>b, SendFrameSound
  <2>3. f1.live /\ f1.surface
    BY <1>2, <2>2 DEF Alike
  <2> HIDE DEF f1, a1
  <2>4. /\ Sound(r1) /\ r1.commit = "linked" /\ Timed(r1, armed \/ a1)
        /\ r1.surface = f1.surface
    BY <2>2, <2>3, RelinkedSound
  <2> HIDE DEF r1
  <2>5. /\ Sound(o2) /\ o2.tree # "none"
        /\ o2.surface = r1.surface /\ o2.commit = r1.commit
    BY <2>4, SetSurfaceSound
  <2> HIDE DEF o2
  <2>6. Sound(o3) /\ Timed(o3, TRUE)
    BY <2>3, <2>4, <2>5, OutputMapSound
  <2> HIDE DEF o3
  <2>7. Sound(o4)
    BY <2>6, NewContentSound
  <2> HIDE DEF o4
  <2>8. Sound(o5) /\ a4 \in BOOLEAN /\ Timed(o5, a4)
    BY <1>5, <2>7, SentTimed
  <2> HIDE DEF o5, a4
  <2>9. Sound(o6) /\ Timed(o6, a4)
    BY <2>8, NewContentSound
  <2> HIDE DEF o6
  <2>10. (a1 \/ a4) \in BOOLEAN /\ Timed(o6, armed \/ (a1 \/ a4))
    BY <2>2, <2>8, <2>9 DEF Timed
  <2> QED  BY <2>1, <2>9, <2>10, OneOutput
<1> QED  BY <1>3, <1>4, <1>5

LEMMA UnmapXdgKeeps ==
  ASSUME IInv, NEW w \in Windows, UnmapXdg(w)
  PROVE  IInv'
<1> DEFINE g == [out[w] EXCEPT !.root = FALSE, !.tree = "off",
                               !.surface = FALSE, !.dirty = FALSE, !.asked = FALSE]
           o == OutputUnmap(g)
<1>1. PICK committed \in Outcomes : out' = [out EXCEPT ![w] = SendFrame(o, committed)]
  BY DEF UnmapXdg
<1>2. g \in Outputs /\ ~g.surface /\ g.tree = "off" /\ g.kind = "xdg" /\ ~g.root
      /\ g.live = out[w].live /\ g.commit = out[w].commit
  BY Facts DEF UnmapXdg, Outputs
<1>3. o = [g EXCEPT !.mapped = FALSE, !.enabled = FALSE]
  BY DEF OutputUnmap
<1>4. out[w].kind = "xdg" /\ Sound(out[w]) /\ armed \in BOOLEAN
  BY Facts DEF UnmapXdg
<1> HIDE DEF g, o
<1>5. o \in Outputs /\ ~o.mapped /\ ~o.enabled /\ ~o.surface
      /\ o.tree = "off" /\ o.kind = "xdg" /\ ~o.root
      /\ o.live = out[w].live /\ o.commit = out[w].commit
  BY <1>2, <1>3 DEF Outputs
<1>6. Sound(o) /\ Timed(o, armed)
  BY <1>4, <1>5 DEF Sound, KindFits, Timed
<1>7. Sound(SendFrame(o, committed)) /\ Alike(SendFrame(o, committed), o)
  BY <1>4, <1>6, SendFrameSound
<1>8. Timed(SendFrame(o, committed), armed)
  BY <1>5, <1>7 DEF Alike, Timed
<1>9. Quiet
  BY DEF UnmapXdg
<1> QED  BY <1>1, <1>7, <1>8, <1>9, OneOutputQuietly

LEMMA UnmapXwaylandKeeps ==
  ASSUME IInv, NEW w \in Windows, UnmapXwayland(w)
  PROVE  IInv'
<1> DEFINE g == [out[w] EXCEPT !.tree = "none", !.commit = Unlinked(@),
                               !.surface = FALSE, !.dirty = FALSE, !.asked = FALSE]
           o == OutputUnmap(g)
<1>1. out' = [out EXCEPT ![w] = o] /\ Quiet
  BY Facts, ByOutputs DEF UnmapXwayland
<1>2. out[w].kind = "xwayland" /\ Sound(out[w]) /\ out[w].live
  BY Facts DEF UnmapXwayland, Sound
<1>3. Unlinked(out[w].commit) = "null"
  BY <1>2 DEF Unlinked, Sound
<1>4. g \in Outputs /\ ~g.surface /\ g.tree = "none" /\ g.kind = "xwayland"
      /\ g.live /\ g.commit = "null"
  BY <1>2, <1>3 DEF Sound, Outputs
<1>5. o = [g EXCEPT !.mapped = FALSE, !.enabled = FALSE]
  BY DEF OutputUnmap
<1> HIDE DEF g, o
<1>6. o \in Outputs /\ ~o.mapped /\ ~o.surface /\ o.kind = "xwayland"
      /\ o.live /\ o.commit = "null"
  BY <1>4, <1>5 DEF Outputs
<1>7. Sound(o) /\ Timed(o, armed)
  BY <1>6 DEF Sound, KindFits, Timed
<1> QED  BY <1>1, <1>7, OneOutputQuietly

LEMMA ClientCommitKeeps ==
  ASSUME IInv, NEW w \in Windows, ClientCommit(w)
  PROVE  IInv'
<1>1. PICK committed \in Outcomes, asks \in BOOLEAN :
        LET o == NewContent(out[w], asks)
            outcome == IF o.commit = "linked" THEN committed ELSE "refused"
        IN  /\ out' = [out EXCEPT ![w] = SendFrame(o, outcome)]
            /\ Clock(SendArms(o, outcome))
  BY DEF ClientCommit
<1> DEFINE o == NewContent(out[w], asks)
           outcome == IF o.commit = "linked" THEN committed ELSE "refused"
<1>2. Sound(o) /\ Timed(o, armed) /\ armed \in BOOLEAN
  BY Facts, NewContentSound
<1>3. outcome \in Outcomes
  BY DEF Outcomes
<1>4. /\ out' = [out EXCEPT ![w] = SendFrame(o, outcome)]
      /\ Clock(SendArms(o, outcome)) /\ running' \in BOOLEAN
  BY <1>1, Facts DEF ClientCommit
<1> HIDE DEF o, outcome
<1>5. /\ Sound(SendFrame(o, outcome)) /\ SendArms(o, outcome) \in BOOLEAN
      /\ Timed(SendFrame(o, outcome), armed \/ SendArms(o, outcome))
  BY <1>2, <1>3, SendFrameSound
<1> QED  BY <1>4, <1>5, OneOutput

\* A frame of one output, with or without its wait before.
LEMMA FrameKeeps ==
  ASSUME IInv, NEW w \in Windows, NEW o, Sound(o), NEW ok \in BOOLEAN,
         out' = [out EXCEPT ![w] = Framed(o, ok)], Clock(Arms(o, ok)), UNCHANGED running
  PROVE  IInv'
<1>1. /\ Sound(Framed(o, ok)) /\ Timed(Framed(o, ok), Arms(o, ok))
      /\ Arms(o, ok) \in BOOLEAN
  BY FramedSound, ArmsTyped
<1>2. Timed(Framed(o, ok), armed \/ Arms(o, ok)) /\ running' \in BOOLEAN
  BY <1>1, ByOutputs DEF Timed
<1> QED  BY <1>1, <1>2, OneOutput

LEMMA XwaylandConfigureKeeps ==
  ASSUME IInv, NEW w \in Windows, XwaylandConfigure(w)
  PROVE  IInv'
<1>1. PICK ok \in BOOLEAN : /\ out' = [out EXCEPT ![w] = Framed(out[w], ok)]
                            /\ Clock(Arms(out[w], ok))
  BY ByOutputs DEF XwaylandConfigure
<1>2. UNCHANGED running
  BY DEF XwaylandConfigure
<1> QED  BY <1>1, <1>2, Facts, FrameKeeps

LEMMA IdleFrameKeeps ==
  ASSUME IInv, NEW w \in Windows, IdleFrame(w)
  PROVE  IInv'
<1> DEFINE o == [out[w] EXCEPT !.idle = FALSE]
<1>1. PICK ok \in BOOLEAN :
        IF o.pending
        THEN out' = [out EXCEPT ![w] = o] /\ UNCHANGED <<framePending, armed>>
        ELSE out' = [out EXCEPT ![w] = Framed(o, ok)] /\ Clock(Arms(o, ok))
  BY DEF IdleFrame
<1>2. Sound(o) /\ Timed(o, armed)
  BY Facts DEF Sound, Outputs, KindFits, Timed
<1>3. UNCHANGED running
  BY DEF IdleFrame
<1> HIDE DEF o
<1>4. CASE o.pending
  BY <1>1, <1>2, <1>3, <1>4, OneOutputQuietly DEF Quiet
<1>5. CASE ~o.pending
  BY <1>1, <1>2, <1>3, <1>5, FrameKeeps
<1> QED  BY <1>4, <1>5

LEMMA HostResizesKeeps ==
  ASSUME IInv, NEW w \in Windows, HostResizes(w)
  PROVE  IInv'
<1> DEFINE o == [out[w] EXCEPT !.enabled = TRUE]
<1>1. out' = [out EXCEPT ![w] = Modeset(o)] /\ Quiet
  BY ByOutputs DEF HostResizes
<1>2. Sound(o)
  BY Facts DEF Sound, Outputs, KindFits
<1>3. Timed(o, armed)
  BY Facts DEF HostResizes, Sound, Outputs, KindFits, Timed
<1> HIDE DEF o
<1> QED  BY <1>1, <1>2, <1>3, ModesetSound, OneOutputQuietly

LEMMA AckConfigureKeeps ==
  ASSUME IInv, NEW w \in Windows, AckConfigure(w)
  PROVE  IInv'
<1>1. out' = [out EXCEPT ![w] = Modeset(out[w])] /\ Quiet
  BY ByOutputs DEF AckConfigure
<1> QED  BY <1>1, Facts, ModesetSound, OneOutputQuietly

\* What the steps of all outputs at once leave.
LEMMA AllOutputs ==
  ASSUME IInv, running' \in BOOLEAN, framePending' \in BOOLEAN, armed' \in BOOLEAN,
         framePending' => armed',
         NEW n, out' = [w \in Windows |-> n[w]],
         \A w \in Windows : Sound(n[w]) /\ Timed(n[w], armed')
  PROVE  IInv'
<1>1. out' \in [Windows -> Outputs]
  BY DEF Sound
<1>2. \A w \in Windows : Sound(out'[w]) /\ Timed(out'[w], armed')
  OBVIOUS
<1> QED
  BY <1>1, <1>2 DEF IInv, TypeOK, ClockRuns, CommitsHeard, MappedHasTree, Sound, Timed

LEMMA TickKeeps ==
  ASSUME IInv, Tick
  PROVE  IInv'
<1>1. PICK ok \in [Windows -> BOOLEAN] :
        /\ out' = [w \in Windows |->
             IF out[w].live
             THEN [Framed([out[w] EXCEPT !.pending = FALSE], ok[w])
                     EXCEPT !.asked = @ /\ ~Visible(out[w])]
             ELSE out[w]]
        /\ Ticked(\E w \in Windows : out[w].live /\ Arms(out[w], ok[w]))
  BY DEF Tick
<1> DEFINE arms == \E w \in Windows : out[w].live /\ Arms(out[w], ok[w])
           n == [w \in Windows |->
                   IF out[w].live
                   THEN [Framed([out[w] EXCEPT !.pending = FALSE], ok[w])
                           EXCEPT !.asked = @ /\ ~Visible(out[w])]
                   ELSE out[w]]
<1>2. armed' = arms /\ framePending' = arms /\ arms \in BOOLEAN
  BY <1>1 DEF Ticked
<1>3. ASSUME NEW w \in Windows  PROVE  Sound(n[w]) /\ Timed(n[w], armed')
  <2>1. CASE ~out[w].live
    <3>1. ~out[w].mapped
      BY <2>1, Facts DEF Sound
    <3> QED  BY <2>1, <3>1, Facts DEF Timed
  <2>2. CASE out[w].live
    <3> DEFINE o == [out[w] EXCEPT !.pending = FALSE]
               f == Framed(o, ok[w])
    <3>1. Sound(o) /\ (Arms(o, ok[w]) = Arms(out[w], ok[w]))
      BY Facts DEF Sound, Outputs, KindFits, Arms, CommitFails
    <3>2. n[w] = [f EXCEPT !.asked = @ /\ ~Visible(out[w])]
      BY <2>2
    <3> HIDE DEF o, n
    <3>3. Sound(f) /\ Timed(f, Arms(out[w], ok[w]))
      BY <3>1, FramedSound
    <3> HIDE DEF f
    <3>4. Sound(n[w]) /\ Timed(n[w], Arms(out[w], ok[w]))
      BY <3>2, <3>3 DEF Sound, Outputs, KindFits, Timed
    <3>5. Arms(out[w], ok[w]) => armed'
      BY <2>2, <1>2
    <3> QED  BY <3>4, <3>5 DEF Timed
  <2> QED  BY <2>1, <2>2
<1>4. out' = [w \in Windows |-> n[w]]
  BY <1>1
<1>5. running' \in BOOLEAN
  BY ByOutputs DEF Tick
<1> HIDE DEF n, arms
<1> QED  BY <1>2, <1>3, <1>4, <1>5, AllOutputs

LEMMA RecreatedSound ==
  ASSUME NEW o, Sound(o), NEW outcome \in Outcomes,
         NEW timer \in BOOLEAN, Timed(o, timer)
  PROVE  /\ Sound(Recreated(o, outcome))
         /\ SendArms(o, outcome) \in BOOLEAN
         /\ Timed(Recreated(o, outcome),
                  timer \/ (o.mapped /\ SendArms(o, outcome)))
<1> DEFINE f == SendFrame(o, outcome)
<1>1. /\ Sound(f) /\ Alike(f, o) /\ SendArms(o, outcome) \in BOOLEAN
      /\ Timed(f, timer \/ SendArms(o, outcome))
  BY SendFrameSound
<1> HIDE DEF f
<1>2. CASE ~o.mapped
  BY <1>1, <1>2 DEF Recreated, Timed
<1>3. CASE o.mapped /\ o.kind = "xwayland" /\ outcome # "refused"
  <2>1. f.live
    BY <1>1, <1>3 DEF Alike, Sound
  <2> DEFINE r == [f EXCEPT !.commit = Relinked(@)]
  <2>2. Recreated(o, outcome) = r
    BY <1>3 DEF Recreated, f
  <2>3. Sound(r) /\ Timed(r, timer \/ SendArms(o, outcome))
    BY <1>1, <2>1, RelinkedSound
  <2> HIDE DEF r
  <2> QED  BY <1>1, <1>3, <2>2, <2>3 DEF Timed
<1>4. CASE o.mapped /\ ~(o.kind = "xwayland" /\ outcome # "refused")
  <2>1. Recreated(o, outcome) = f
    BY <1>4 DEF Recreated, f
  <2> QED  BY <1>1, <1>4, <2>1 DEF Timed
<1> QED  BY <1>2, <1>3, <1>4

LEMMA ReconnectedKeeps ==
  ASSUME IInv, Reconnected
  PROVE  IInv'
<1>1. PICK outcome \in [Windows -> Outcomes], transient \in BOOLEAN :
        \/ /\ transient
           /\ running' = FALSE
           /\ UNCHANGED <<out, framePending, armed>>
        \/ /\ ~transient
           /\ out' = [w \in Windows |-> Recreated(out[w], outcome[w])]
           /\ Clock(\E w \in Windows : out[w].mapped /\ SendArms(out[w], outcome[w]))
           /\ UNCHANGED running
  BY DEF Reconnected
<1>2. CASE transient
  BY <1>1, <1>2, StopKeeps
<1>3. CASE ~transient
  <2> DEFINE arms == \E w \in Windows : out[w].mapped /\ SendArms(out[w], outcome[w])
             n == [w \in Windows |-> Recreated(out[w], outcome[w])]
  <2>1. out' = n /\ Clock(arms) /\ arms \in BOOLEAN /\ running' \in BOOLEAN
    BY <1>1, <1>3, ByOutputs
  <2>2. /\ framePending' \in BOOLEAN /\ armed' \in BOOLEAN
        /\ framePending' => armed'
        /\ armed \/ arms => armed'
    <3> HIDE DEF arms
    <3> QED  BY <2>1, ByOutputs, ClockTyped
  <2>3. ASSUME NEW w \in Windows  PROVE  Sound(n[w]) /\ Timed(n[w], armed')
    <3> DEFINE sends == out[w].mapped /\ SendArms(out[w], outcome[w])
    <3>1. Sound(n[w]) /\ Timed(n[w], armed \/ sends)
      BY Facts, RecreatedSound
    <3>2. sends => arms
      OBVIOUS
    <3> HIDE DEF n, sends, arms
    <3> QED  BY <2>2, <3>1, <3>2 DEF Timed
  <2>4. out' = [w \in Windows |-> n[w]]
    BY <2>1
  <2> HIDE DEF n, arms
  <2> QED  BY <2>1, <2>2, <2>3, <2>4, AllOutputs
<1> QED  BY <1>2, <1>3

-----------------------------------------------------------------------------
(* Theorems.                                                               *)

LEMMA InitSound == Init => IInv
<1> SUFFICES ASSUME Init  PROVE  IInv
  OBVIOUS
<1>1. out \in [Windows -> Outputs]
  BY AbsentSound DEF Init, Sound
<1>2. \A w \in Windows : Sound(out[w]) /\ Timed(out[w], armed)
  BY AbsentSound DEF Init
<1> QED  BY <1>1, <1>2, ByOutputs DEF Init

LEMMA NextKeeps == IInv /\ [Next]_vars => IInv'
<1> SUFFICES ASSUME IInv, [Next]_vars  PROVE  IInv'
  OBVIOUS
<1>1. CASE UNCHANGED vars
  BY <1>1 DEF vars, IInv, TypeOK, ClockRuns, CommitsHeard, MappedHasTree, KindFits
<1>2. CASE Tick
  BY <1>2, TickKeeps
<1>3. CASE Reconnected
  BY <1>3, ReconnectedKeeps
<1>4. ASSUME NEW w \in Windows, IdleFrame(w) \/ HostResizes(w)  PROVE  IInv'
  BY <1>4, IdleFrameKeeps, HostResizesKeeps
<1>5. ASSUME NEW w \in Windows, Client(w)  PROVE  IInv'
  BY <1>5, NewXdgSurfaceKeeps, NewXwaylandSurfaceKeeps, AssociateKeeps,
     DissociateKeeps, DestroyWindowKeeps, MapXdgKeeps, MapXwaylandKeeps,
     UnmapXdgKeeps, UnmapXwaylandKeeps, ClientCommitKeeps,
     XwaylandConfigureKeeps, AckConfigureKeeps DEF Client
<1> QED  BY <1>1, <1>2, <1>3, <1>4, <1>5 DEF Next

\* Sound outputs, timed frames and kinds that fit hold in every reachable state.
THEOREM Invariance == Spec => []IInv
BY InitSound, NextKeeps, PTL DEF Spec

\* Every variable keeps its type; QUBES_OUTPUT_MAPPED implies a mapped surface
\* and that an output, through any order of the handlers that set them.
THEOREM TypeCorrect == Spec => []TypeOK
<1>1. IInv => TypeOK
  BY DEF IInv
<1> QED  BY Invariance, <1>1, PTL

\* While a window is mapped and enabled, the root of its scene is enabled (it
\* was never unmapped, or is an X11 window) and its last frame did not fail,
\* the one timer is set: no commit of a mode, made with the timer set or not,
\* leaves such a window waiting for a frame that nothing brings, whatever the
\* handlers of other windows did with the timer.
THEOREM TimerRuns == Spec => []ClockRuns
<1>1. IInv => ClockRuns
  BY DEF IInv
<1> QED  BY Invariance, <1>1, PTL

\* The commit listener of a view is never added twice and hears every mapped
\* window.
THEOREM ListenersHear == Spec => []CommitsHeard
<1>1. IInv => CommitsHeard
  BY DEF IInv
<1> QED  BY Invariance, <1>1, PTL

\* qubes_output_map finds the tree that it enables.
THEOREM TreesExist == Spec => []MappedHasTree
<1>1. IInv => MappedHasTree
  BY DEF IInv
<1> QED  BY Invariance, <1>1, PTL
=============================================================================
