--------------------------- MODULE MainLoop_proofs ---------------------------
(***************************************************************************)
(* Theorems about MainLoop, for any layouts and any number of changes of   *)
(* QubesDB: types, and that no change of the layout is missed.             *)
(***************************************************************************)
EXTENDS MainLoop, TLAPS

\* What main or a handler has read is up to date unless a watch event says otherwise,
\* and so is the layout in force from the first read to the end of the next handler.
UpToDate ==
  alive /\ ~LayoutEvent =>
    /\ at = "set" => got = entry
    /\ at \in {"handlers", "run", "loop"} /\ entry \in Layouts => keymap = entry

IInv == TypeOK /\ UpToDate

-----------------------------------------------------------------------------
\* A watch event is one of the layout or of the rest.
LEMMA AppendEvent ==
  ASSUME NEW s \in Seq({"layout", "domain"}), NEW w \in {"layout", "domain"}
  PROVE  /\ Append(s, w) \in Seq({"layout", "domain"})
         /\ (\E k \in DOMAIN Append(s, w) : Append(s, w)[k] = "layout")
              <=> w = "layout" \/ \E k \in DOMAIN s : s[k] = "layout"
<1> DEFINE t == Append(s, w)
<1>1. t \in Seq({"layout", "domain"}) /\ Len(t) = Len(s) + 1
  OBVIOUS
<1>2. t[Len(s) + 1] = w /\ Len(s) + 1 \in DOMAIN t
  OBVIOUS
<1>3. \A k \in DOMAIN s : t[k] = s[k] /\ k \in DOMAIN t
  OBVIOUS
<1>4. \A k \in DOMAIN t : k \in DOMAIN s \/ k = Len(s) + 1
  OBVIOUS
<1> QED  BY <1>1, <1>2, <1>3, <1>4

\* Reading an event of the rest loses none of the layout.
LEMMA TailEvent ==
  ASSUME NEW s \in Seq({"layout", "domain"}), s # <<>>
  PROVE  /\ Tail(s) \in Seq({"layout", "domain"})
         /\ Head(s) \in {"layout", "domain"}
         /\ Head(s) = "domain" /\ (\E k \in DOMAIN s : s[k] = "layout")
              => \E k \in DOMAIN Tail(s) : Tail(s)[k] = "layout"
<1>1. Tail(s) \in Seq({"layout", "domain"}) /\ Head(s) \in {"layout", "domain"} /\ Head(s) = s[1]
  OBVIOUS
<1>2. ASSUME NEW k \in DOMAIN s, s[k] = "layout", Head(s) = "domain"
      PROVE  k - 1 \in DOMAIN Tail(s) /\ Tail(s)[k - 1] = "layout"
  BY <1>1, <1>2
<1> QED  BY <1>1, <1>2

-----------------------------------------------------------------------------
LEMMA InitInv == Init => IInv
<1> SUFFICES ASSUME Init PROVE IInv
  OBVIOUS
<1>1. <<>> \in Seq({"layout", "domain"}) /\ 0 \in 0 .. MaxSets
  BY BoundAssumption
<1>2. TypeOK
  BY <1>1 DEF Init, TypeOK, Entries, Steps
<1>3. UpToDate
  BY DEF Init, UpToDate
<1> QED  BY <1>2, <1>3 DEF IInv

LEMMA OpenInv == ASSUME IInv, OpenQubesDB PROVE IInv'
BY DEF OpenQubesDB, IInv, TypeOK, UpToDate, Steps, Sources, LayoutEvent, options, loop, ending, database

LEMMA StartInv == ASSUME IInv, StartBackend PROVE IInv'
BY LayoutsAssumption
DEF StartBackend, IInv, TypeOK, UpToDate, Steps, LayoutEvent, options, loop, ending, database

LEMMA HandlersInv == ASSUME IInv, AddSignalHandlers PROVE IInv'
BY DEF AddSignalHandlers, IInv, TypeOK, UpToDate, Steps, LayoutEvent, options, loop, database

LEMMA RunInv == ASSUME IInv, Run PROVE IInv'
BY DEF Run, IInv, TypeOK, UpToDate, Steps, LayoutEvent, options, ending, database

LEMMA ReadInv == ASSUME IInv, ReadLayout PROVE IInv'
BY DEF ReadLayout, IInv, TypeOK, UpToDate, Steps, LayoutEvent, options, loop, ending, database

\* The one step that changes the layout in force.
LEMMA SetInv == ASSUME IInv, SetLayout PROVE IInv'
<1>0. /\ fatal' \in BOOLEAN /\ sigint' \in BOOLEAN /\ run' \in BOOLEAN /\ alive' \in BOOLEAN
      /\ handling' \in BOOLEAN /\ signalled' \in BOOLEAN /\ stopping' \in BOOLEAN
  BY Zenon DEF SetLayout, StopWith, GoOn, IInv, TypeOK, options, database
<1>1. TypeOK'
  BY <1>0 DEF SetLayout, StopWith, GoOn, IInv, TypeOK, Steps, options, database
<1>2. UpToDate'
  BY LayoutsAssumption DEF SetLayout, IInv, TypeOK, UpToDate, LayoutEvent, options, database
<1> QED  BY <1>1, <1>2 DEF IInv

LEMMA DispatchInv == ASSUME IInv, Dispatch PROVE IInv'
BY DEF Dispatch, IInv, TypeOK, UpToDate, Steps, LayoutEvent, options, ending, database

\* An event of the layout is followed by a read.
LEMMA ReapInv == ASSUME IInv, ReapWatches PROVE IInv'
<1>1. events \in Seq({"layout", "domain"})
  BY DEF IInv, TypeOK
<1>2. TypeOK'
  BY <1>1, TailEvent
  DEF ReapWatches, Serve, IInv, TypeOK, Steps, options, ending, database
<1>3. UpToDate'
  <2>1. CASE events = <<>>
    BY <2>1 DEF ReapWatches, Serve, IInv, UpToDate, LayoutEvent, options, database
  <2>2. CASE events # <<>> /\ Head(events) = "layout"
    BY <2>2 DEF ReapWatches, Serve, UpToDate
  <2>3. CASE events # <<>> /\ Head(events) = "domain"
    <3>1. LayoutEvent => LayoutEvent'
      BY <1>1, <2>3, TailEvent DEF ReapWatches, LayoutEvent
    <3> QED  BY <2>3, <3>1 DEF ReapWatches, Serve, IInv, UpToDate, options, database
  <2> QED  BY <1>1, <2>1, <2>2, <2>3, TailEvent
<1> QED  BY <1>2, <1>3 DEF IInv

LEMMA CleanExitInv == ASSUME IInv, CleanExit PROVE IInv'
<1>1. TypeOK'
  BY DEF CleanExit, Serve, IInv, TypeOK, options, database
<1>2. UpToDate'
  BY DEF CleanExit, Serve, IInv, UpToDate, LayoutEvent, options, database
<1> QED  BY <1>1, <1>2 DEF IInv

LEMMA BackendInv == ASSUME IInv, ServeBackend PROVE IInv'
<1>0. /\ fatal' \in BOOLEAN /\ sigint' \in BOOLEAN /\ run' \in BOOLEAN /\ alive' \in BOOLEAN
      /\ handling' \in BOOLEAN /\ signalled' \in BOOLEAN /\ stopping' \in BOOLEAN
  BY Zenon DEF ServeBackend, IInv, TypeOK, options, database
<1>1. TypeOK'
  BY <1>0 DEF ServeBackend, Serve, IInv, TypeOK, options, database
<1>2. UpToDate'
  BY DEF ServeBackend, Serve, IInv, UpToDate, LayoutEvent, options, database
<1> QED  BY <1>1, <1>2 DEF IInv

LEMMA ExitInv == ASSUME IInv, Exit PROVE IInv'
<1>0. /\ fatal' \in BOOLEAN /\ sigint' \in BOOLEAN /\ run' \in BOOLEAN /\ alive' \in BOOLEAN
      /\ handling' \in BOOLEAN /\ signalled' \in BOOLEAN /\ stopping' \in BOOLEAN
  BY Zenon DEF Exit, IInv, TypeOK, options, loop, ending, database
<1>1. TypeOK'
  BY <1>0 DEF Exit, IInv, TypeOK, Steps, loop, ending, database
<1>2. UpToDate'
  BY DEF Exit, UpToDate
<1> QED  BY <1>1, <1>2 DEF IInv

LEMMA SignalInv == ASSUME IInv, NEW sig, Signal(sig) PROVE IInv'
<1>0. /\ fatal' \in BOOLEAN /\ sigint' \in BOOLEAN /\ run' \in BOOLEAN /\ alive' \in BOOLEAN
      /\ handling' \in BOOLEAN /\ signalled' \in BOOLEAN /\ stopping' \in BOOLEAN
  BY Zenon DEF Signal, IInv, TypeOK, options, loop, database
<1>1. TypeOK'
  BY <1>0 DEF Signal, IInv, TypeOK, Steps, options, loop, database
<1>2. UpToDate'
  BY DEF Signal, IInv, UpToDate, LayoutEvent, database
<1> QED  BY <1>1, <1>2 DEF IInv

\* A change of QubesDB is followed by its event once main watches the layout, and
\* before that nothing was read.
LEMMA WrittenEvents ==
  ASSUME IInv, NEW w \in {"layout", "domain"}, Written(w)
  PROVE  /\ sets' \in 0 .. MaxSets
         /\ events' \in Seq({"layout", "domain"})
         /\ LayoutEvent => LayoutEvent'
         /\ w = "layout" /\ at # "open" => LayoutEvent'
<1>1. events \in Seq({"layout", "domain"})
  BY DEF IInv, TypeOK
<1>2. CASE at = "open"
  BY <1>1, <1>2, BoundAssumption DEF Written, Watching, IInv, TypeOK, LayoutEvent
<1>3. CASE at # "open"
  BY <1>1, <1>3, AppendEvent, BoundAssumption DEF Written, Watching, IInv, TypeOK, LayoutEvent
<1> QED  BY <1>2, <1>3

LEMMA LayoutSetInv == ASSUME IInv, NEW e \in Entries, LayoutSet(e) PROVE IInv'
<1>1. /\ sets' \in 0 .. MaxSets /\ events' \in Seq({"layout", "domain"})
      /\ at # "open" => LayoutEvent'
  BY WrittenEvents DEF LayoutSet
<1> QED
  BY <1>1 DEF LayoutSet, IInv, TypeOK, UpToDate, options, loop, ending

LEMMA DomainSetInv == ASSUME IInv, DomainSet PROVE IInv'
<1>1. /\ sets' \in 0 .. MaxSets /\ events' \in Seq({"layout", "domain"})
      /\ LayoutEvent => LayoutEvent'
  BY WrittenEvents DEF DomainSet
<1> QED
  BY <1>1 DEF DomainSet, IInv, TypeOK, UpToDate, options, loop, ending

LEMMA DiesInv == ASSUME IInv, QubesDBDies PROVE IInv'
BY DEF QubesDBDies, IInv, TypeOK, UpToDate, options, loop, ending

LEMMA StutterInv == ASSUME IInv, UNCHANGED vars PROVE IInv'
BY DEF vars, IInv, TypeOK, UpToDate, LayoutEvent, options, loop, ending, database

\* The invariant holds in every state.
THEOREM Invariance == Spec => []IInv
<1>1. IInv /\ [Next]_vars => IInv'
  <2> SUFFICES ASSUME IInv, [Next]_vars PROVE IInv'
    OBVIOUS
  <2>1. CASE Process
    BY <2>1, OpenInv, StartInv, HandlersInv, RunInv, ReadInv, SetInv, DispatchInv,
       ReapInv, CleanExitInv, BackendInv, ExitInv DEF Process
  <2>2. ASSUME NEW sig, Signal(sig) PROVE IInv'
    BY <2>2, SignalInv
  <2>3. ASSUME NEW e \in Entries, LayoutSet(e) PROVE IInv'
    BY <2>3, LayoutSetInv
  <2>4. CASE DomainSet
    BY <2>4, DomainSetInv
  <2>5. CASE QubesDBDies
    BY <2>5, DiesInv
  <2>6. CASE UNCHANGED vars
    BY <2>6, StutterInv
  <2> QED  BY <2>1, <2>2, <2>3, <2>4, <2>5, <2>6 DEF Next
<1> QED  BY InitInv, <1>1, PTL DEF Spec

\* Every variable keeps its type: the layout in force is one that compiles.
THEOREM TypeCorrect == Spec => []TypeOK
BY Invariance, PTL DEF IInv

\* A change of the layout is never missed, though the watch, the reads of main and
\* those of its handlers are steps between which QubesDB may be written.
THEOREM NoChangeMissed == Spec => []LayoutFollows
<1>1. IInv => LayoutFollows
  BY DEF IInv, UpToDate, LayoutFollows
<1> QED  BY Invariance, <1>1, PTL
=============================================================================
