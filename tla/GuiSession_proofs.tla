-------------------------- MODULE GuiSession_proofs --------------------------
(***************************************************************************)
(* Theorems about GuiSession, for any set of windows, any kinds, parents   *)
(* and sizes, with or without early clients, and for every value of the    *)
(* bounds.                                                                 *)
(*                                                                         *)
(* TypeOK is not inductive: that a message names an id in range rests on   *)
(* every created output having one (Owners), that its creation overwrites  *)
(* nothing on the counter being above every id in use (Counter), and that  *)
(* an id is struck out of the map once only on the acknowledgements under  *)
(* way being one per id (Struck).  IInv is the conjunction.                *)
(***************************************************************************)
EXTENDS GuiSession, SequenceTheorems, TLAPS

\* Ids from the counter on have never been used.
Counter == nextId >= 1 /\ \A i \in Ids : i >= nextId => map[i] = NoEntry

\* An id belongs to the output the map has for it; a freed output has none.
Owners ==
  /\ \A w \in live : wid[w] # 0 => map[wid[w]] = w
  /\ \A w \in live : created[w] => wid[w] # 0
  /\ \A w \in Windows \ live : wid[w] = 0 /\ ~created[w]

\* A destruction under way, to the daemon or back, is the only one of its id,
\* and the id is reserved by a null pointer.
IsDestroy(seq, k) == seq[k].op = "DESTROY"

StruckToDaemon ==
  /\ \A k \in DOMAIN toDaemon : IsDestroy(toDaemon, k) => map[toDaemon[k].win] = NullPtr
  /\ \A k, l \in DOMAIN toDaemon :
       IsDestroy(toDaemon, k) /\ IsDestroy(toDaemon, l)
         /\ toDaemon[k].win = toDaemon[l].win => k = l

StruckToAgent ==
  /\ \A k \in DOMAIN toAgent : IsDestroy(toAgent, k) => map[toAgent[k].win] = NullPtr
  /\ \A k, l \in DOMAIN toAgent :
       IsDestroy(toAgent, k) /\ IsDestroy(toAgent, l)
         /\ toAgent[k].win = toAgent[l].win => k = l

StruckOneWay ==
  \A k \in DOMAIN toDaemon, l \in DOMAIN toAgent :
    IsDestroy(toDaemon, k) /\ IsDestroy(toAgent, l) => toDaemon[k].win # toAgent[l].win

Struck == StruckToDaemon /\ StruckToAgent /\ StruckOneWay

IInv == TypeOK /\ Counter /\ Owners /\ Struck

USE BoundAssumption DEF Ids

-----------------------------------------------------------------------------
(* Sequences.                                                              *)

LEMMA ConcatElements ==
  ASSUME NEW S, NEW s \in Seq(S), NEW t \in Seq(S)
  PROVE  /\ s \o t \in Seq(S)
         /\ \A k \in DOMAIN (s \o t) :
              \/ k \in DOMAIN s /\ (s \o t)[k] = s[k]
              \/ k - Len(s) \in DOMAIN t /\ (s \o t)[k] = t[k - Len(s)]
OBVIOUS

LEMMA AppendElements ==
  ASSUME NEW S, NEW s \in Seq(S), NEW e \in S
  PROVE  /\ Append(s, e) \in Seq(S)
         /\ \A k \in DOMAIN Append(s, e) :
              \/ k \in DOMAIN s /\ Append(s, e)[k] = s[k]
              \/ k = Len(s) + 1 /\ Append(s, e)[k] = e
OBVIOUS

LEMMA TailElements ==
  ASSUME NEW S, NEW s \in Seq(S), s # <<>>
  PROVE  /\ Tail(s) \in Seq(S)
         /\ Head(s) \in S /\ 1 \in DOMAIN s /\ Head(s) = s[1]
         /\ \A k \in DOMAIN Tail(s) : k + 1 \in DOMAIN s /\ k # 0 /\ Tail(s)[k] = s[k + 1]
         /\ DOMAIN Tail(s) \subseteq Nat /\ DOMAIN s \subseteq Nat
OBVIOUS

LEMMA MessagesTyped ==
  ASSUME TypeOK
  PROVE  /\ \A k \in DOMAIN toDaemon : toDaemon[k] \in AgentMessages /\ toDaemon[k].win \in Ids
         /\ \A k \in DOMAIN toAgent : toAgent[k] \in DaemonMessages /\ toAgent[k].win \in Ids
<1>1. toDaemon \in Seq(AgentMessages) /\ toAgent \in Seq(DaemonMessages)
  BY DEF TypeOK
<1>2. /\ \A k \in DOMAIN toDaemon : toDaemon[k] \in AgentMessages
      /\ \A k \in DOMAIN toAgent : toAgent[k] \in DaemonMessages
  BY <1>1
<1>3. QED
  BY <1>2 DEF AgentMessages, DaemonMessages

-----------------------------------------------------------------------------
(* The two ways a handler changes the ids and the queue to the daemon.     *)

\* What may be said: messages that type check and destroy nothing.
Harmless(msgs) ==
  msgs \in Seq(AgentMessages) /\ \A k \in DOMAIN msgs : ~IsDestroy(msgs, k)

LEMMA OneHarmless ==
  ASSUME NEW m \in AgentMessages, m.op # "DESTROY"
  PROVE  Harmless(<<m>>)
<1>1. <<m>> \in Seq(AgentMessages) /\ DOMAIN <<m>> = {1} /\ <<m>>[1] = m
  OBVIOUS
<1>2. QED
  BY <1>1 DEF Harmless, IsDestroy

LEMMA HarmlessConcat ==
  ASSUME NEW s, NEW t, Harmless(s), Harmless(t)
  PROVE  Harmless(s \o t)
<1>1. s \in Seq(AgentMessages) /\ t \in Seq(AgentMessages)
  BY DEF Harmless
<1>2. s \o t \in Seq(AgentMessages)
  BY <1>1, ConcatElements
<1>3. ASSUME NEW k \in DOMAIN (s \o t) PROVE (s \o t)[k].op # "DESTROY"
  <2>1. \/ k \in DOMAIN s /\ (s \o t)[k] = s[k]
        \/ k - Len(s) \in DOMAIN t /\ (s \o t)[k] = t[k - Len(s)]
    BY <1>1, ConcatElements
  <2>2. QED
    BY <2>1 DEF Harmless, IsDestroy
<1>4. QED
  BY <1>2, <1>3 DEF Harmless, IsDestroy

\* Sending such messages leaves the destructions under way as they were.
LEMMA SendKeeps ==
  ASSUME TypeOK, NEW msgs, Harmless(msgs), Send(msgs)
  PROVE  /\ toDaemon' \in Seq(AgentMessages)
         /\ \A k \in DOMAIN toDaemon' : IsDestroy(toDaemon', k) =>
              k \in DOMAIN toDaemon /\ toDaemon'[k] = toDaemon[k]
<1>1. toDaemon \in Seq(AgentMessages) /\ msgs \in Seq(AgentMessages)
  BY DEF TypeOK, Harmless
<1>2. CASE toDaemon' = toDaemon \o msgs
  <2>1. toDaemon' \in Seq(AgentMessages)
    BY <1>1, <1>2, ConcatElements
  <2>2. ASSUME NEW k \in DOMAIN toDaemon', IsDestroy(toDaemon', k)
        PROVE  k \in DOMAIN toDaemon /\ toDaemon'[k] = toDaemon[k]
    <3>1. \/ k \in DOMAIN toDaemon /\ toDaemon'[k] = toDaemon[k]
          \/ k - Len(toDaemon) \in DOMAIN msgs /\ toDaemon'[k] = msgs[k - Len(toDaemon)]
      BY <1>1, <1>2, ConcatElements
    <3>2. QED
      BY <3>1, <2>2 DEF Harmless, IsDestroy
  <2>3. QED
    BY <2>1, <2>2
<1>3. CASE toDaemon' = toDaemon
  BY <1>1, <1>3
<1>4. QED
  BY <1>2, <1>3 DEF Send

\* qubes_output_ensure_created keeps ids and owners in order, whether or not
\* it creates, and makes no null pointer of the map disappear.
LEMMA EnsureCreatedKeeps ==
  ASSUME IInv, NEW w \in Windows, NEW fit \in BOOLEAN,
         EnsureCreated(w, fit), live' = live \cup {w}
  PROVE  /\ nextId' \in Nat
         /\ map' \in [Ids -> Windows \cup {NullPtr, NoEntry}]
         /\ wid' \in [Windows -> 0 .. MaxWid]
         /\ created' \in [Windows -> BOOLEAN]
         /\ Counter' /\ Owners'
         /\ \A i \in Ids : map[i] = NullPtr => map'[i] = NullPtr
<1> USE DEF IInv, TypeOK, Counter, Owners
<1>1. CASE ~Creates(w, fit)
  <2>1. UNCHANGED <<created, nextId, wid, map>>
    BY <1>1 DEF EnsureCreated
  <2>2. QED
    BY <2>1
<1>2. CASE Creates(w, fit) /\ wid[w] # 0
  <2>1. created' = [created EXCEPT ![w] = TRUE] /\ UNCHANGED <<nextId, wid, map>>
    BY <1>2 DEF EnsureCreated
  <2>2. QED
    BY <2>1, <1>2
<1>3. CASE Creates(w, fit) /\ wid[w] = 0
  <2>1. /\ created' = [created EXCEPT ![w] = TRUE]
        /\ nextId < MaxWid /\ nextId' = nextId + 1
        /\ wid' = [wid EXCEPT ![w] = nextId]
        /\ map' = [map EXCEPT ![nextId] = w]
    BY <1>3 DEF EnsureCreated
  <2>2. nextId \in Ids /\ map[nextId] = NoEntry
    BY <2>1
  <2>3. Counter'
    BY <2>1, <2>2
  <2>4. \A v \in live : wid[v] # 0 => wid[v] # nextId
    BY <2>2, PointerAssumption
  <2>5. \A v \in live' : wid'[v] # 0 => map'[wid'[v]] = v
    BY <2>1, <2>2, <2>4
  <2>6. Owners'
    BY <2>1, <2>2, <2>5
  <2>7. \A i \in Ids : map[i] = NullPtr => map'[i] = NullPtr
    BY <2>1, <2>2, PointerAssumption
  <2>8. QED
    BY <2>1, <2>2, <2>3, <2>6, <2>7
<1>4. QED
  BY <1>1, <1>2, <1>3

\* What qubes_output_ensure_created has to say type checks.
LEMMA CreationHarmless ==
  ASSUME IInv, NEW w \in Windows, NEW fit \in BOOLEAN, EnsureCreated(w, fit)
  PROVE  /\ Harmless(Creation(w, fit)) /\ Harmless(<<>>)
         /\ (w \in live /\ created[w]) \/ fit => IdAfter(w) \in Ids
         /\ fit => Harmless(News(w))
<1> USE DEF IInv, TypeOK, Counter, Owners
<1>1. (w \in live /\ created[w]) \/ fit => IdAfter(w) \in Ids
  BY DEF IdAfter, EnsureCreated, Creates
<1>2. \A i \in Ids : Msg("CREATE", i) \in AgentMessages /\ Msg("UPDATE", i) \in AgentMessages
  BY DEF AgentMessages, Msg
<1>3. \A op \in {"CREATE", "UPDATE"}, i \in Ids : Harmless(<<Msg(op, i)>>)
  <2>1. \A op \in {"CREATE", "UPDATE"}, i \in Ids :
          Msg(op, i) \in AgentMessages /\ Msg(op, i).op # "DESTROY"
    BY <1>2 DEF Msg
  <2>2. QED
    BY <2>1, OneHarmless
<1>4. Harmless(<<>>)
  BY DEF Harmless
<1>5. Harmless(Creation(w, fit))
  BY <1>1, <1>3, <1>4 DEF Creation, Creates
<1>6. ASSUME fit PROVE Harmless(News(w))
  <2>1. CASE created[w]
    BY <2>1, <1>3 DEF News
  <2>2. CASE ~created[w]
    BY <2>2, <1>1, <1>3, <1>6 DEF News, Creation, Creates
  <2>3. QED
    BY <2>1, <2>2
<1>7. QED
  BY <1>1, <1>4, <1>5, <1>6

\* A step of the agent leaves its inbox alone or takes the first message.
Takes == toAgent' = toAgent \/ (toAgent # <<>> /\ toAgent' = Tail(toAgent))

LEMMA TakesShifts ==
  ASSUME TypeOK, Takes
  PROVE  /\ toAgent' \in Seq(DaemonMessages)
         /\ \E d \in {0, 1} : \A k \in DOMAIN toAgent' :
              k \in Nat /\ k + d \in DOMAIN toAgent /\ toAgent'[k] = toAgent[k + d]
<1>1. toAgent \in Seq(DaemonMessages)
  BY DEF TypeOK
<1>2. CASE toAgent' = toAgent
  <2>1. \A k \in DOMAIN toAgent' :
          k \in Nat /\ k + 0 \in DOMAIN toAgent /\ toAgent'[k] = toAgent[k + 0]
    BY <1>1, <1>2
  <2>2. QED
    BY <2>1, <1>1, <1>2
<1>3. CASE toAgent # <<>> /\ toAgent' = Tail(toAgent)
  <2>1. /\ toAgent' \in Seq(DaemonMessages)
        /\ \A k \in DOMAIN toAgent' :
             k \in Nat /\ k + 1 \in DOMAIN toAgent /\ toAgent'[k] = toAgent[k + 1]
    BY <1>1, <1>3, TailElements
  <2>2. QED
    BY <2>1
<1>4. QED
  BY <1>2, <1>3 DEF Takes

\* The destructions under way stay in order when no new one is sent and no
\* null pointer disappears.
LEMMA StruckKept ==
  ASSUME IInv, Takes,
         \A k \in DOMAIN toDaemon' : IsDestroy(toDaemon', k) =>
            k \in DOMAIN toDaemon /\ toDaemon'[k] = toDaemon[k],
         \A i \in Ids : map[i] = NullPtr => map'[i] = NullPtr
  PROVE  Struck'
<1> USE DEF IInv, Struck, IsDestroy
<1>1. \A k \in DOMAIN toDaemon : toDaemon[k].win \in Ids
  BY MessagesTyped
<1>2. \A k \in DOMAIN toAgent : toAgent[k].win \in Ids
  BY MessagesTyped
<1>3. PICK d \in {0, 1} : \A k \in DOMAIN toAgent' :
        k \in Nat /\ k + d \in DOMAIN toAgent /\ toAgent'[k] = toAgent[k + d]
  BY TakesShifts
<1>4. StruckToDaemon'
  BY <1>1 DEF StruckToDaemon
<1>5. StruckToAgent'
  BY <1>2, <1>3 DEF StruckToAgent
<1>6. StruckOneWay'
  BY <1>3 DEF StruckOneWay
<1>7. QED
  BY <1>4, <1>5, <1>6

-----------------------------------------------------------------------------
(* Each action keeps IInv.                                                 *)

\* The handlers built on qubes_output_ensure_created and harmless messages.
LEMMA EnsuringStep ==
  ASSUME IInv, NEW w \in Windows, NEW fit \in BOOLEAN, NEW msgs,
         EnsureCreated(w, fit), live' = live \cup {w},
         Harmless(msgs), Send(msgs),
         mapped' \in [Windows -> BOOLEAN], fits' \in [Windows -> BOOLEAN],
         todo' \subseteq todo,
         UNCHANGED <<enabled, running, conn, session, toAgent, daemonVars>>
  PROVE  IInv'
<1>1. /\ nextId' \in Nat
      /\ map' \in [Ids -> Windows \cup {NullPtr, NoEntry}]
      /\ wid' \in [Windows -> 0 .. MaxWid]
      /\ created' \in [Windows -> BOOLEAN]
      /\ Counter' /\ Owners'
      /\ \A i \in Ids : map[i] = NullPtr => map'[i] = NullPtr
  BY EnsureCreatedKeeps
<1>2. /\ toDaemon' \in Seq(AgentMessages)
      /\ \A k \in DOMAIN toDaemon' : IsDestroy(toDaemon', k) =>
           k \in DOMAIN toDaemon /\ toDaemon'[k] = toDaemon[k]
  BY SendKeeps DEF IInv
<1>3. Struck'
  BY <1>1, <1>2, StruckKept DEF Takes
<1>4. TypeOK'
  BY <1>1, <1>2 DEF IInv, TypeOK, daemonVars
<1>5. QED
  BY <1>1, <1>3, <1>4 DEF IInv

LEMMA NewViewStep ==
  ASSUME IInv, NEW w \in Windows, NEW fit \in BOOLEAN, NewView(w, fit)
  PROVE  IInv'
<1>1. Harmless(IF fit THEN News(w) ELSE <<>>)
  BY CreationHarmless DEF NewView
<1>2. fits' \in [Windows -> BOOLEAN] /\ mapped' \in [Windows -> BOOLEAN] /\ todo' = todo
  BY DEF NewView, Resized, IInv, TypeOK
<1>3. QED
  BY <1>1, <1>2, EnsuringStep DEF NewView

LEMMA XdgCommitStep ==
  ASSUME IInv, NEW w \in Windows, XdgCommit(w)
  PROVE  IInv'
<1>1. Harmless(News(w)) /\ live' = live \cup {w}
  BY CreationHarmless DEF XdgCommit, ClientTurn
<1>2. fits' \in [Windows -> BOOLEAN] /\ mapped' \in [Windows -> BOOLEAN] /\ todo' = todo
  BY DEF XdgCommit, Resized, IInv, TypeOK
<1>3. QED
  BY <1>1, <1>2, EnsuringStep DEF XdgCommit

LEMMA XwaylandConfigureStep ==
  ASSUME IInv, NEW w \in Windows, NEW fit \in BOOLEAN, XwaylandConfigure(w, fit)
  PROVE  IInv'
<1>1. Harmless(IF fit THEN News(w) ELSE <<>>) /\ live' = live \cup {w}
  BY CreationHarmless DEF XwaylandConfigure, ClientTurn
<1>2. fits' \in [Windows -> BOOLEAN] /\ mapped' \in [Windows -> BOOLEAN] /\ todo' = todo
  BY DEF XwaylandConfigure, Resized, IInv, TypeOK
<1>3. QED
  BY <1>1, <1>2, EnsuringStep DEF XwaylandConfigure

\* A MSG_MAP names an id in range, and its parent's id or none.
LEMMA MappingHarmless ==
  ASSUME IInv, NEW w \in Windows, NEW fit \in BOOLEAN, fit => IdAfter(w) \in Ids
  PROVE  Harmless(Mapping(w, fit))
<1>1. TransientFor(w) \in 0 .. MaxWid
  BY ParentAssumption DEF TransientFor, IInv, TypeOK
<1>2. CASE fit
  <2>1. MapMsg(w, IdAfter(w)) \in AgentMessages /\ MapMsg(w, IdAfter(w)).op # "DESTROY"
    BY <1>1, <1>2 DEF MapMsg, AgentMessages
  <2>2. QED
    BY <2>1, <1>2, OneHarmless DEF Mapping
<1>3. CASE ~fit
  BY <1>3 DEF Mapping, Harmless
<1>4. QED
  BY <1>2, <1>3

LEMMA MapWindowStep ==
  ASSUME IInv, NEW w \in Windows, NEW fit \in BOOLEAN, MapWindow(w, fit)
  PROVE  IInv'
<1>1. Harmless(Creation(w, fit)) /\ (fit => IdAfter(w) \in Ids) /\ live' = live \cup {w}
  BY CreationHarmless DEF MapWindow, ClientTurn
<1>2. Harmless(Creation(w, fit) \o Mapping(w, fit))
  BY <1>1, MappingHarmless, HarmlessConcat
<1>3. fits' \in [Windows -> BOOLEAN] /\ mapped' \in [Windows -> BOOLEAN] /\ todo' = todo
  BY DEF MapWindow, MapView, Resized, IInv, TypeOK
<1>4. QED
  BY <1>1, <1>2, <1>3, EnsuringStep DEF MapWindow

LEMMA UnmapWindowStep ==
  ASSUME IInv, NEW w \in Windows, UnmapWindow(w)
  PROVE  IInv'
<1> DEFINE said == IF created[w] \/ fits[w]
                   THEN Creation(w, fits[w]) \o <<Msg("UNMAP", IdAfter(w))>> ELSE <<>>
<1>1. /\ Harmless(Creation(w, fits[w])) /\ Harmless(<<>>)
      /\ created[w] \/ fits[w] => IdAfter(w) \in Ids
      /\ fits[w] \in BOOLEAN /\ live' = live \cup {w}
  BY CreationHarmless DEF UnmapWindow, ClientTurn, IInv, TypeOK
<1>2. Harmless(said)
  <2>1. CASE created[w] \/ fits[w]
    <3>1. /\ Msg("UNMAP", IdAfter(w)) \in AgentMessages
          /\ Msg("UNMAP", IdAfter(w)).op # "DESTROY"
      BY <1>1, <2>1 DEF Msg, AgentMessages
    <3>2. QED
      BY <3>1, <1>1, <2>1, OneHarmless, HarmlessConcat
  <2>2. QED
    BY <2>1, <1>1
<1>3. fits' \in [Windows -> BOOLEAN] /\ mapped' \in [Windows -> BOOLEAN] /\ todo' = todo
  BY DEF UnmapWindow, IInv, TypeOK
<1>4. QED
  BY <1>1, <1>2, <1>3, EnsuringStep DEF UnmapWindow

LEMMA RecreateWindowStep ==
  ASSUME IInv, NEW w \in Windows, NEW fit \in BOOLEAN, RecreateWindow(w, fit)
  PROVE  IInv'
<1>1. /\ Harmless(Creation(w, fits[w])) /\ (fits[w] => IdAfter(w) \in Ids)
      /\ fits[w] \in BOOLEAN /\ live' = live \cup {w}
  BY CreationHarmless DEF RecreateWindow, IInv, TypeOK
<1>2. fits' \in [Windows -> BOOLEAN] /\ mapped' \in [Windows -> BOOLEAN] /\ todo' \subseteq todo
  BY DEF RecreateWindow, MapView, Resized, IInv, TypeOK
<1>3. CASE fits[w] /\ mapped[w]
  <2>1. Harmless(Creation(w, TRUE) \o Mapping(w, fit))
    BY <1>1, <1>3, MappingHarmless, HarmlessConcat
  <2>2. QED
    BY <2>1, <1>1, <1>2, <1>3, EnsuringStep DEF RecreateWindow
<1>4. CASE ~(fits[w] /\ mapped[w])
  BY <1>1, <1>2, <1>4, EnsuringStep DEF RecreateWindow
<1>5. QED
  BY <1>3, <1>4

\* A window that exists may be spoken of without touching the ids.
LEMMA SayingKeeps ==
  ASSUME IInv, NEW id \in Ids, Send(<<Msg("UPDATE", id)>>), Takes,
         UNCHANGED map
  PROVE  toDaemon' \in Seq(AgentMessages) /\ Struck'
<1>1. Msg("UPDATE", id) \in AgentMessages /\ Msg("UPDATE", id).op # "DESTROY"
  BY DEF Msg, AgentMessages
<1>2. Harmless(<<Msg("UPDATE", id)>>)
  BY <1>1, OneHarmless
<1>3. /\ toDaemon' \in Seq(AgentMessages)
      /\ \A k \in DOMAIN toDaemon' : IsDestroy(toDaemon', k) =>
           k \in DOMAIN toDaemon /\ toDaemon'[k] = toDaemon[k]
  BY <1>2, SendKeeps DEF IInv
<1>4. Struck'
  BY <1>3, StruckKept
<1>5. QED
  BY <1>3, <1>4

LEMMA DescribeStep ==
  ASSUME IInv, NEW w \in Windows, Describe(w)
  PROVE  IInv'
<1>1. wid[w] \in Ids
  BY DEF Describe, ClientTurn, IInv, Owners, TypeOK
<1>2. toDaemon' \in Seq(AgentMessages) /\ Struck'
  BY <1>1, SayingKeeps DEF Describe, idVars, Takes
<1>3. TypeOK' /\ Counter' /\ Owners'
  BY <1>2 DEF Describe, IInv, TypeOK, Counter, Owners, idVars, windowVars, daemonVars
<1>4. QED
  BY <1>2, <1>3 DEF IInv

\* qubes_output_deinit: the id it strikes out is its own and in use, so no
\* other destruction of it can be under way.
LEMMA DeinitKeeps ==
  ASSUME IInv, NEW w \in Windows, w \in live, todo = {}, Deinit(w),
         UNCHANGED <<enabled, nextId, conn>>, Takes
  PROVE  /\ live' \subseteq Windows
         /\ map' \in [Ids -> Windows \cup {NullPtr, NoEntry}]
         /\ wid' \in [Windows -> 0 .. MaxWid]
         /\ created' \in [Windows -> BOOLEAN]
         /\ mapped' \in [Windows -> BOOLEAN]
         /\ fits' \in [Windows -> BOOLEAN]
         /\ toDaemon' \in Seq(AgentMessages)
         /\ Counter' /\ Owners' /\ Struck'
<1> USE DEF IInv
<1>1. /\ live' \subseteq Windows
      /\ wid' \in [Windows -> 0 .. MaxWid]
      /\ created' \in [Windows -> BOOLEAN]
      /\ mapped' \in [Windows -> BOOLEAN]
      /\ fits' \in [Windows -> BOOLEAN]
  BY DEF Deinit, Freed, TypeOK
<1>2. CASE ~created[w]
  <2>1. UNCHANGED <<toDaemon, map>>
    BY <1>2 DEF Deinit
  <2>2. Counter' /\ Owners'
    BY <2>1, <1>2 DEF Deinit, Freed, Counter, Owners, TypeOK
  <2>3. Struck'
    BY <2>1, StruckKept
  <2>4. QED
    BY <1>1, <2>1, <2>2, <2>3 DEF TypeOK
<1>3. CASE created[w]
  <2> DEFINE i == wid[w]
             gone == Msg("DESTROY", i)
  <2>1. i \in Ids /\ map[i] = w /\ i < nextId
    BY <1>3, PointerAssumption DEF Owners, Counter, TypeOK
  <2>2. /\ Send(<<gone>>)
        /\ map' = IF enabled THEN [map EXCEPT ![i] = NullPtr] ELSE map
    BY <1>3 DEF Deinit, DestroyId
  <2>3. map' \in [Ids -> Windows \cup {NullPtr, NoEntry}]
    BY <2>1, <2>2 DEF TypeOK
  <2>4. Counter'
    BY <2>1, <2>2 DEF Counter, TypeOK
  <2>5. \A v \in live \ {w} : wid[v] # i
    BY <2>1 DEF Owners
  <2>6. Owners'
    BY <2>1, <2>2, <2>5 DEF Deinit, Freed, Owners, TypeOK
  <2>7. gone \in AgentMessages /\ gone.op = "DESTROY" /\ gone.win = i
    BY <2>1 DEF Msg, AgentMessages
  <2>8. /\ \A k \in DOMAIN toDaemon : IsDestroy(toDaemon, k) => toDaemon[k].win # i
        /\ \A k \in DOMAIN toAgent : IsDestroy(toAgent, k) => toAgent[k].win # i
    BY <2>1, PointerAssumption DEF Struck, StruckToDaemon, StruckToAgent
  <2>9. /\ \A k \in DOMAIN toDaemon : toDaemon[k].win \in Ids
        /\ \A k \in DOMAIN toAgent : toAgent[k].win \in Ids
        /\ toAgent' \in Seq(DaemonMessages)
        /\ \E d \in {0, 1} : \A k \in DOMAIN toAgent' :
             k \in Nat /\ k + d \in DOMAIN toAgent /\ toAgent'[k] = toAgent[k + d]
    BY MessagesTyped, TakesShifts
  <2>10. CASE toDaemon' = toDaemon
    <3>1. Struck'
      BY <2>2, <2>10, <2>1, StruckKept DEF TypeOK
    <3>2. QED
      BY <1>1, <2>3, <2>4, <2>6, <2>10, <3>1 DEF TypeOK
  <2>11. CASE enabled /\ toDaemon' = toDaemon \o <<gone>>
    <3>1. toDaemon \o <<gone>> = Append(toDaemon, gone)
      BY <2>7 DEF TypeOK
    <3>2. /\ toDaemon' \in Seq(AgentMessages)
          /\ \A k \in DOMAIN toDaemon' :
               \/ k \in DOMAIN toDaemon /\ toDaemon'[k] = toDaemon[k]
               \/ k = Len(toDaemon) + 1 /\ toDaemon'[k] = gone
      BY <2>11, <3>1, <2>7, AppendElements DEF TypeOK
    <3>3. map' = [map EXCEPT ![i] = NullPtr]
      BY <2>2, <2>11
    <3>4. StruckToDaemon'
      <4>1. \A id \in Ids : map'[id] = IF id = i THEN NullPtr ELSE map[id]
        BY <3>3, <2>1 DEF TypeOK
      <4>2. \A k \in DOMAIN toDaemon' : IsDestroy(toDaemon', k) =>
              map'[toDaemon'[k].win] = NullPtr
        BY <4>1, <3>2, <2>1, <2>7, <2>9 DEF StruckToDaemon, Struck, IsDestroy
      <4>3. \A k, l \in DOMAIN toDaemon' :
              IsDestroy(toDaemon', k) /\ IsDestroy(toDaemon', l)
                /\ toDaemon'[k].win = toDaemon'[l].win => k = l
        BY <3>2, <2>7, <2>8 DEF StruckToDaemon, Struck, IsDestroy
      <4>4. QED
        BY <4>2, <4>3 DEF StruckToDaemon
    <3>5. StruckToAgent'
      <4>1. PICK d \in {0, 1} : \A k \in DOMAIN toAgent' :
              k \in Nat /\ k + d \in DOMAIN toAgent /\ toAgent'[k] = toAgent[k + d]
        BY <2>9
      <4>2. \A id \in Ids \ {i} : map'[id] = map[id]
        BY <3>3, <2>1 DEF TypeOK
      <4>3. \A k \in DOMAIN toAgent' : IsDestroy(toAgent', k) =>
              map'[toAgent'[k].win] = NullPtr
        BY <4>1, <4>2, <2>8, <2>9 DEF StruckToAgent, Struck, IsDestroy
      <4>4. \A k, l \in DOMAIN toAgent' :
              IsDestroy(toAgent', k) /\ IsDestroy(toAgent', l)
                /\ toAgent'[k].win = toAgent'[l].win => k = l
        BY <4>1 DEF StruckToAgent, Struck, IsDestroy
      <4>5. QED
        BY <4>3, <4>4 DEF StruckToAgent
    <3>6. StruckOneWay'
      BY <3>2, <2>7, <2>8, <2>9 DEF StruckOneWay, Struck, IsDestroy
    <3>7. QED
      BY <1>1, <2>3, <2>4, <2>6, <3>2, <3>4, <3>5, <3>6 DEF Struck
  <2>12. QED
    BY <2>2, <2>10, <2>11 DEF Send
<1>4. QED
  BY <1>2, <1>3 DEF TypeOK

LEMMA DestroyWindowStep ==
  ASSUME IInv, NEW w \in Windows, DestroyWindow(w)
  PROVE  IInv'
<1>1. /\ w \in live /\ todo = {} /\ Deinit(w) /\ toAgent' = toAgent
      /\ UNCHANGED <<enabled, nextId, conn, todo, running, session, known, shown>>
  BY DEF DestroyWindow, ClientTurn, daemonVars
<1>2. /\ live' \subseteq Windows
      /\ map' \in [Ids -> Windows \cup {NullPtr, NoEntry}]
      /\ wid' \in [Windows -> 0 .. MaxWid]
      /\ created' \in [Windows -> BOOLEAN]
      /\ mapped' \in [Windows -> BOOLEAN]
      /\ fits' \in [Windows -> BOOLEAN]
      /\ toDaemon' \in Seq(AgentMessages)
      /\ Counter' /\ Owners' /\ Struck'
  BY <1>1, DeinitKeeps DEF Takes
<1>3. TypeOK'
  BY <1>1, <1>2 DEF IInv, TypeOK
<1>4. QED
  BY <1>2, <1>3 DEF IInv

LEMMA ReadEventStep ==
  ASSUME IInv, ReadEvent
  PROVE  IInv'
<1> DEFINE m == Head(toAgent)
           w == map[m.win]
<1>1. /\ todo = {} /\ Takes /\ toAgent' \in Seq(DaemonMessages)
      /\ UNCHANGED <<enabled, todo, conn, session, known, shown>>
      /\ running' \in BOOLEAN
  BY TakesShifts DEF ReadEvent, AgentTurn, Takes, daemonVars, IInv, TypeOK
<1>2. m.win \in Ids
  BY TailElements, MessagesTyped DEF ReadEvent, IInv, TypeOK
<1>3. CASE UNCHANGED <<idVars, windowVars, toDaemon>>
  <2>1. Struck'
    BY <1>1, <1>3, StruckKept DEF idVars
  <2>2. TypeOK' /\ Counter' /\ Owners'
    BY <1>1, <1>3 DEF IInv, TypeOK, Counter, Owners, idVars, windowVars
  <2>3. QED
    BY <2>1, <2>2 DEF IInv
<1>4. CASE Delivered(m) /\ Reaches(w, m.win) /\ HandleConfigure(w)
  <2>1. w \in Windows /\ wid[w] = m.win /\ w \in live
    BY <1>4 DEF Delivered, Reaches
  <2>2. toDaemon' \in Seq(AgentMessages) /\ Struck'
    BY <1>1, <1>2, <1>4, <2>1, SayingKeeps DEF HandleConfigure, idVars
  <2>3. fits' \in [Windows -> BOOLEAN]
    BY <1>4, <2>1 DEF HandleConfigure, Resized, IInv, TypeOK
  <2>4. TypeOK' /\ Counter' /\ Owners'
    BY <1>1, <1>4, <2>2, <2>3
       DEF IInv, TypeOK, Counter, Owners, HandleConfigure, idVars
  <2>5. QED
    BY <2>2, <2>4 DEF IInv
<1>5. CASE Delivered(m) /\ Reaches(w, m.win) /\ Deinit(w) /\ UNCHANGED nextId
  <2>1. w \in Windows /\ w \in live
    BY <1>5 DEF Delivered, Reaches
  <2>2. /\ live' \subseteq Windows
        /\ map' \in [Ids -> Windows \cup {NullPtr, NoEntry}]
        /\ wid' \in [Windows -> 0 .. MaxWid]
        /\ created' \in [Windows -> BOOLEAN]
        /\ mapped' \in [Windows -> BOOLEAN]
        /\ fits' \in [Windows -> BOOLEAN]
        /\ toDaemon' \in Seq(AgentMessages)
        /\ Counter' /\ Owners' /\ Struck'
    BY <1>1, <1>5, <2>1, DeinitKeeps
  <2>3. TypeOK'
    BY <1>1, <1>5, <2>2 DEF IInv, TypeOK
  <2>4. QED
    BY <2>2, <2>3 DEF IInv
<1>6. QED
  BY <1>3, <1>4, <1>5 DEF ReadEvent, HandleClose

\* The acknowledgement read is the only one of its id, so the null pointers
\* the others rely on stay.
LEMMA ReadDestroyStep ==
  ASSUME IInv, ReadDestroy
  PROVE  IInv'
<1> DEFINE i == Head(toAgent).win
<1>1. /\ toAgent # <<>> /\ toAgent' = Tail(toAgent)
      /\ Head(toAgent).op = "DESTROY" /\ todo' = todo
      /\ map' = [map EXCEPT ![i] = NoEntry]
      /\ enabled' \in BOOLEAN /\ running' \in BOOLEAN
      /\ UNCHANGED <<nextId, live, wid, created, mapped, fits, conn, session,
                     toDaemon, known, shown>>
  BY DEF ReadDestroy, windowVars, daemonVars, IInv, TypeOK
<1>2. /\ toAgent' \in Seq(DaemonMessages)
      /\ 1 \in DOMAIN toAgent /\ Head(toAgent) = toAgent[1]
      /\ \A k \in DOMAIN toAgent' :
           k \in Nat /\ k # 0 /\ k + 1 \in DOMAIN toAgent /\ toAgent'[k] = toAgent[k + 1]
  BY <1>1, TailElements DEF IInv, TypeOK
<1>3. /\ \A k \in DOMAIN toDaemon : toDaemon[k].win \in Ids
      /\ \A k \in DOMAIN toAgent : toAgent[k].win \in Ids
  BY MessagesTyped DEF IInv
<1>4. i \in Ids /\ map[i] = NullPtr
  BY <1>1, <1>2, <1>3 DEF IInv, Struck, StruckToAgent, IsDestroy
<1>5. TypeOK'
  BY <1>1, <1>2, <1>4 DEF IInv, TypeOK
<1>6. Counter'
  BY <1>1, <1>4 DEF IInv, Counter, TypeOK
<1>7. Owners'
  BY <1>1, <1>4, PointerAssumption DEF IInv, Owners, TypeOK
<1>8. StruckToAgent'
  <2>1. ASSUME NEW k \in DOMAIN toAgent', IsDestroy(toAgent', k)
        PROVE  map'[toAgent'[k].win] = NullPtr
    <3>1. /\ k + 1 \in DOMAIN toAgent /\ k + 1 # 1
          /\ toAgent'[k] = toAgent[k + 1] /\ IsDestroy(toAgent, k + 1)
      BY <1>2, <2>1 DEF IsDestroy
    <3>2. toAgent[k + 1].win # i /\ map[toAgent[k + 1].win] = NullPtr
      BY <1>1, <1>2, <3>1 DEF IInv, Struck, StruckToAgent, IsDestroy
    <3>3. toAgent[k + 1].win \in Ids
      BY <1>3, <3>1
    <3>4. QED
      BY <1>1, <3>1, <3>2, <3>3 DEF IInv, TypeOK
  <2>2. ASSUME NEW k \in DOMAIN toAgent', NEW l \in DOMAIN toAgent',
               IsDestroy(toAgent', k), IsDestroy(toAgent', l),
               toAgent'[k].win = toAgent'[l].win
        PROVE  k = l
    <3>1. /\ k \in Nat /\ k + 1 \in DOMAIN toAgent /\ toAgent'[k] = toAgent[k + 1]
          /\ l \in Nat /\ l + 1 \in DOMAIN toAgent /\ toAgent'[l] = toAgent[l + 1]
      BY <1>2
    <3>2. k + 1 = l + 1
      BY <2>2, <3>1 DEF IInv, Struck, StruckToAgent, IsDestroy
    <3>3. QED
      BY <3>1, <3>2
  <2>3. QED
    BY <2>1, <2>2 DEF StruckToAgent
<1>9. StruckToDaemon'
  BY <1>1, <1>2, <1>3, <1>4
     DEF IInv, Struck, StruckToDaemon, StruckOneWay, IsDestroy, TypeOK
<1>10. StruckOneWay'
  BY <1>1, <1>2 DEF IInv, Struck, StruckOneWay, IsDestroy
<1>11. QED
  BY <1>5, <1>6, <1>7, <1>8, <1>9, <1>10 DEF IInv, Struck

\* Steps that empty the queues or leave them alone, and touch no id.
LEMMA QuietStep ==
  ASSUME IInv, TypeOK', UNCHANGED <<nextId, map, live, wid>>,
         \A w \in Windows : created'[w] => created[w],
         toDaemon' = toDaemon \/ toDaemon' = <<>>,
         toAgent' = toAgent \/ toAgent' = <<>>
  PROVE  IInv'
<1> USE DEF IInv
<1>1. Counter' /\ Owners'
  BY DEF Counter, Owners, TypeOK
<1>2. \A k \in DOMAIN toDaemon' : toDaemon' = toDaemon
  OBVIOUS
<1>3. \A k \in DOMAIN toAgent' : toAgent' = toAgent
  OBVIOUS
<1>4. StruckToDaemon' /\ StruckToAgent' /\ StruckOneWay'
  BY <1>2, <1>3 DEF Struck, StruckToDaemon, StruckToAgent, StruckOneWay, IsDestroy
<1>5. QED
  BY <1>1, <1>4 DEF Struck

LEMMA ReconnectSteps ==
  ASSUME IInv, Reconnect \/ ReconnectFails \/ Reconnected \/ DaemonConnects \/ Disconnect
  PROVE  IInv'
<1>1. /\ UNCHANGED <<nextId, map, live, wid>>
      /\ toDaemon' = toDaemon \/ toDaemon' = <<>>
      /\ toAgent' = toAgent \/ toAgent' = <<>>
  BY DEF Reconnect, ReconnectFails, Reconnected, DaemonConnects, Disconnect, Breaks,
         idVars, windowVars
<1>2. created' = created \/ created' = [w \in Windows |-> FALSE]
  BY DEF Reconnect, ReconnectFails, Reconnected, DaemonConnects, Disconnect, windowVars
<1>3. /\ created' \in [Windows -> BOOLEAN]
      /\ toDaemon' \in Seq(AgentMessages) /\ toAgent' \in Seq(DaemonMessages)
  <2>1. <<>> \in Seq(AgentMessages) /\ <<>> \in Seq(DaemonMessages)
    OBVIOUS
  <2>2. QED
    BY <1>1, <1>2, <2>1 DEF IInv, TypeOK
<1>4. /\ enabled' \in BOOLEAN /\ running' \in BOOLEAN
      /\ conn' \in ConnStates /\ session' \in Nat
  <2>1. CASE Reconnect
    BY <2>1 DEF Reconnect, ConnStates, IInv, TypeOK
  <2>2. CASE ReconnectFails
    BY <2>2 DEF ReconnectFails, IInv, TypeOK
  <2>3. CASE Reconnected
    BY <2>3 DEF Reconnected, ConnStates, IInv, TypeOK
  <2>4. CASE DaemonConnects
    BY <2>4 DEF DaemonConnects, ConnStates, IInv, TypeOK
  <2>5. CASE Disconnect
    BY <2>5 DEF Disconnect, Breaks, ConnStates, IInv, TypeOK
  <2>6. QED
    BY <2>1, <2>2, <2>3, <2>4, <2>5
<1>5. /\ UNCHANGED <<mapped, fits>> /\ todo' \in {todo, live}
      /\ UNCHANGED <<known, shown>> \/ (known' = {} /\ shown' = {})
  BY DEF Reconnect, ReconnectFails, Reconnected, DaemonConnects, Disconnect, Breaks,
         windowVars, daemonVars
<1>6. TypeOK'
  BY <1>1, <1>3, <1>4, <1>5 DEF IInv, TypeOK
<1>7. QED
  BY <1>1, <1>2, <1>6, QuietStep

\* The daemon invents nothing: its events are no destructions.
LEMMA DaemonSendsStep ==
  ASSUME IInv, NEW op \in {"CONFIGURE", "CLOSE"}, NEW id \in Ids, DaemonSends(op, id)
  PROVE  IInv'
<1> DEFINE m == Event(op, id)
<1>1. /\ m \in DaemonMessages /\ m.op # "DESTROY" /\ toAgent' = Append(toAgent, m)
      /\ UNCHANGED <<enabled, nextId, map, live, wid, created, mapped, fits, todo,
                     running, conn, session, toDaemon, known, shown>>
  BY DEF DaemonSends, Event, DaemonMessages, idVars, windowVars, daemonVars
<1>2. /\ toAgent' \in Seq(DaemonMessages)
      /\ \A k \in DOMAIN toAgent' :
           \/ k \in DOMAIN toAgent /\ toAgent'[k] = toAgent[k]
           \/ toAgent'[k] = m
  BY <1>1, AppendElements DEF IInv, TypeOK
<1>3. \A k \in DOMAIN toAgent' : IsDestroy(toAgent', k) =>
        k \in DOMAIN toAgent /\ toAgent'[k] = toAgent[k]
  BY <1>1, <1>2 DEF IsDestroy
<1>4. TypeOK' /\ Counter' /\ Owners'
  BY <1>1, <1>2 DEF IInv, TypeOK, Counter, Owners
<1>5. StruckToDaemon' /\ StruckToAgent' /\ StruckOneWay'
  BY <1>1, <1>3
     DEF IInv, Struck, StruckToDaemon, StruckToAgent, StruckOneWay, IsDestroy
<1>6. QED
  BY <1>4, <1>5 DEF IInv, Struck

\* A destruction the daemon reads turns into its acknowledgement.
LEMMA DaemonReadsStep ==
  ASSUME IInv, DaemonReads
  PROVE  IInv'
<1> DEFINE m == Head(toDaemon)
<1>1. /\ toDaemon # <<>>
      /\ UNCHANGED <<enabled, nextId, map, live, wid, created, mapped, fits, todo,
                     running, session>>
  BY DEF DaemonReads, idVars, windowVars
<1>2. CASE Breaks
  BY <1>1, <1>2, QuietStep DEF IInv, TypeOK, Breaks, ConnStates
<1>3. CASE ~Breaks
  <2>1. /\ toDaemon' = Tail(toDaemon) /\ conn' = conn
        /\ known' = CASE m.op = "CREATE"  -> known \cup {m.win}
                      [] m.op = "DESTROY" -> known \ {m.win}
                      [] OTHER            -> known
        /\ shown' = CASE m.op = "MAP" -> shown \cup {m.win}
                      [] m.op \in {"UNMAP", "DESTROY"} -> shown \ {m.win}
                      [] OTHER -> shown
        /\ toAgent' = IF m.op = "DESTROY"
                      THEN Append(toAgent, Event("DESTROY", m.win)) ELSE toAgent
        /\ Legal(m)
    BY <1>3 DEF DaemonReads
  <2>2. /\ toDaemon' \in Seq(AgentMessages)
        /\ 1 \in DOMAIN toDaemon /\ m = toDaemon[1]
        /\ \A k \in DOMAIN toDaemon' :
             k \in Nat /\ k # 0 /\ k + 1 \in DOMAIN toDaemon /\ toDaemon'[k] = toDaemon[k + 1]
    BY <1>1, <2>1, TailElements DEF IInv, TypeOK
  <2>3. /\ \A k \in DOMAIN toDaemon : toDaemon[k].win \in Ids
        /\ \A k \in DOMAIN toAgent : toAgent[k].win \in Ids
    BY MessagesTyped DEF IInv
  <2>4. known' \subseteq Ids /\ shown' \subseteq known'
    <3>1. m.win \in Ids /\ known \subseteq Ids /\ shown \subseteq known
      BY <2>2, <2>3 DEF IInv, TypeOK
    <3>2. CASE m.op = "CREATE"
      BY <3>1, <3>2, <2>1
    <3>3. CASE m.op = "DESTROY"
      BY <3>1, <3>3, <2>1
    <3>4. CASE m.op \notin {"CREATE", "DESTROY"}
      BY <3>1, <3>4, <2>1 DEF Legal
    <3>5. QED
      BY <3>2, <3>3, <3>4
  <2>5. Counter' /\ Owners'
    BY <1>1 DEF IInv, Counter, Owners
  <2>6. StruckToDaemon'
    BY <1>1, <2>2 DEF IInv, Struck, StruckToDaemon, IsDestroy
  <2>7. CASE m.op # "DESTROY"
    <3>1. toAgent' = toAgent
      BY <2>1, <2>7
    <3>2. StruckToAgent' /\ StruckOneWay'
      BY <1>1, <2>2, <3>1 DEF IInv, Struck, StruckToAgent, StruckOneWay, IsDestroy
    <3>3. TypeOK'
      BY <1>1, <2>1, <2>2, <2>4, <3>1 DEF IInv, TypeOK
    <3>4. QED
      BY <2>5, <2>6, <3>2, <3>3 DEF IInv, Struck
  <2>8. CASE m.op = "DESTROY"
    <3> DEFINE ack == Event("DESTROY", m.win)
    <3>1. ack \in DaemonMessages /\ ack.win = m.win /\ toAgent' = Append(toAgent, ack)
      BY <2>1, <2>2, <2>3, <2>8 DEF Event, DaemonMessages
    <3>2. /\ toAgent' \in Seq(DaemonMessages)
          /\ \A k \in DOMAIN toAgent' :
               \/ k \in DOMAIN toAgent /\ toAgent'[k] = toAgent[k]
               \/ k = Len(toAgent) + 1 /\ toAgent'[k] = ack
      BY <3>1, AppendElements DEF IInv, TypeOK
    <3>3. /\ map[m.win] = NullPtr
          /\ \A l \in DOMAIN toAgent : IsDestroy(toAgent, l) => toAgent[l].win # m.win
      BY <2>2, <2>8 DEF IInv, Struck, StruckToDaemon, StruckOneWay, IsDestroy
    <3>4. StruckToAgent'
      BY <1>1, <3>1, <3>2, <3>3 DEF IInv, Struck, StruckToAgent, IsDestroy
    <3>5. \A k \in DOMAIN toDaemon' : IsDestroy(toDaemon', k) => toDaemon'[k].win # m.win
      BY <2>2, <2>8 DEF IInv, Struck, StruckToDaemon, IsDestroy
    <3>6. StruckOneWay'
      BY <2>2, <3>1, <3>2, <3>5 DEF IInv, Struck, StruckOneWay, IsDestroy
    <3>7. TypeOK'
      BY <1>1, <2>1, <2>2, <2>4, <3>2 DEF IInv, TypeOK
    <3>8. QED
      BY <2>5, <2>6, <3>4, <3>6, <3>7 DEF IInv, Struck
  <2>9. QED
    BY <2>7, <2>8
<1>4. QED
  BY <1>2, <1>3

-----------------------------------------------------------------------------
(* The invariant and what follows from it.                                 *)

LEMMA InitIInv ==
  ASSUME Init PROVE IInv
<1> USE DEF Init
<1>1. TypeOK
  BY DEF TypeOK, ConnStates
<1>2. Counter /\ Owners
  BY DEF Counter, Owners
<1>3. Struck
  BY DEF Struck, StruckToDaemon, StruckToAgent, StruckOneWay
<1>4. QED
  BY <1>1, <1>2, <1>3 DEF IInv

LEMMA SizesBoolean ==
  \A w \in Windows : Sizes(w) \subseteq BOOLEAN /\ InitialSizes(w) \subseteq BOOLEAN
BY DEF Sizes, InitialSizes

LEMMA NextIInv ==
  ASSUME IInv, [Next]_vars PROVE IInv'
<1>1. CASE UNCHANGED vars
  BY <1>1, QuietStep DEF vars, idVars, windowVars, daemonVars, IInv, TypeOK
<1>2. CASE Client
  <2>1. PICK w \in Windows :
          \/ \E fit \in InitialSizes(w) : NewView(w, fit)
          \/ XdgCommit(w)
          \/ \E fit \in Sizes(w) : XwaylandConfigure(w, fit) \/ MapWindow(w, fit)
          \/ UnmapWindow(w)
          \/ Describe(w)
          \/ DestroyWindow(w)
    BY <1>2 DEF Client
  <2>2. QED
    BY <2>1, SizesBoolean, NewViewStep, XdgCommitStep, XwaylandConfigureStep,
       MapWindowStep, UnmapWindowStep, DescribeStep, DestroyWindowStep
<1>3. CASE ReadEvent \/ ReadDestroy
  BY <1>3, ReadEventStep, ReadDestroyStep
<1>4. CASE Reconnect \/ ReconnectFails \/ Reconnected
  BY <1>4, ReconnectSteps
<1>5. CASE Recreation
  BY <1>5, SizesBoolean, RecreateWindowStep DEF Recreation
<1>6. CASE Daemon
  BY <1>6, ReconnectSteps, DaemonReadsStep, DaemonSendsStep DEF Daemon
<1>7. QED
  BY <1>1, <1>2, <1>3, <1>4, <1>5, <1>6 DEF Next

\* IInv is an invariant of the agent and the daemon.
THEOREM Invariance == Spec => []IInv
<1>1. Init => IInv
  BY InitIInv
<1>2. IInv /\ [Next]_vars => IInv'
  BY NextIInv
<1>3. QED
  BY <1>1, <1>2, PTL DEF Spec

\* Every variable keeps its type: in particular no message names id 0, which
\* the daemon reserves (qubes.rs:40-50).
THEOREM TypeCorrect == Spec => []TypeOK
<1>1. IInv => TypeOK
  BY DEF IInv
<1>2. QED
  BY <1>1, Invariance, PTL

\* on_fd_ready never takes an acknowledgement of the daemon for a protocol
\* error, whatever disconnects and restarts there were (qubes.rs:112-121).
THEOREM DestroyAwaited == Spec => []DestroyIsAwaited
<1>1. ASSUME IInv PROVE DestroyIsAwaited
  <2>1. SUFFICES ASSUME toAgent # <<>>, Head(toAgent).op = "DESTROY"
                 PROVE  map[Head(toAgent).win] = NullPtr
    BY DEF DestroyIsAwaited
  <2>2. 1 \in DOMAIN toAgent /\ Head(toAgent) = toAgent[1]
    BY <2>1, <1>1, TailElements DEF IInv, TypeOK
  <2>3. QED
    BY <1>1, <2>1, <2>2 DEF IInv, Struck, StruckToAgent, IsDestroy
<1>2. QED
  BY <1>1, Invariance, PTL

\* destroy_id never panics: the id of a created window is in the map, for that
\* window (qubes.rs:52-61).
THEOREM DestroyFinds == Spec => []DestroyFindsId
<1>1. IInv => DestroyFindsId
  BY DEF IInv, TypeOK, Owners, DestroyFindsId
<1>2. QED
  BY <1>1, Invariance, PTL

-----------------------------------------------------------------------------
(* GuiSession implements WindowIds.                                        *)

\* What each of the two id variables' steps is to WindowIds.
LEMMA IdsUntouched ==
  ASSUME UNCHANGED <<nextId, map>>
  PROVE  idStates' = idStates
BY DEF idStates

LEMMA OneIdMoves ==
  ASSUME NEW i \in Ids, NEW new, idStates'[i] = new,
         \A j \in Ids \ {i} : idStates'[j] = idStates[j]
  PROVE  idStates' = [idStates EXCEPT ![i] = new]
<1>1. idStates = [j \in Ids |-> idStates[j]]
  BY DEF idStates
<1>2. idStates' = [j \in Ids |-> idStates'[j]]
  BY DEF idStates
<1>3. [idStates EXCEPT ![i] = new] = [j \in Ids |-> IF j = i THEN new ELSE idStates[j]]
  BY <1>1
<1>4. QED
  BY <1>2, <1>3

LEMMA AllocationImplemented ==
  ASSUME IInv, NEW w \in Windows, NEW fit \in BOOLEAN, EnsureCreated(w, fit)
  PROVE  [WI!idNext]_idStates
<1>1. CASE UNCHANGED <<nextId, map>>
  BY <1>1, IdsUntouched
<1>2. CASE ~UNCHANGED <<nextId, map>>
  <2>1. /\ nextId \in Ids /\ nextId' = nextId + 1
        /\ map' = [map EXCEPT ![nextId] = w] /\ w \in Windows
    BY <1>2 DEF EnsureCreated, IInv, TypeOK, Counter
  <2>2. \A i \in Ids : i < nextId => idStates[i] # "free"
    BY <2>1 DEF idStates
  <2>3. idStates[nextId] = "free"
    BY <2>1 DEF idStates
  <2>4. idStates' = [idStates EXCEPT ![nextId] = "held"]
    <3>1. idStates'[nextId] = "held"
      BY <2>1, PointerAssumption DEF idStates, IInv, TypeOK, Counter
    <3>2. \A j \in Ids \ {nextId} : idStates'[j] = idStates[j]
      BY <2>1 DEF idStates, IInv, TypeOK, Counter
    <3>3. QED
      BY <2>1, <3>1, <3>2, OneIdMoves
  <2>5. \A j \in 1 .. (nextId - 1) : j \in Ids /\ j < nextId
    BY <2>1
  <2>6. WI!Allocate(nextId)
    BY <2>2, <2>3, <2>4, <2>5 DEF WI!Allocate, WI!Becomes
  <2>7. QED
    BY <2>1, <2>6 DEF WI!idNext
<1>3. QED
  BY <1>1, <1>2

LEMMA ReleaseImplemented ==
  ASSUME IInv, NEW w \in Windows, w \in live, Deinit(w), UNCHANGED nextId
  PROVE  [WI!idNext]_idStates
<1>1. CASE UNCHANGED map
  BY <1>1, IdsUntouched
<1>2. CASE ~UNCHANGED map
  <2> DEFINE i == wid[w]
  <2>1. created[w] /\ map' = [map EXCEPT ![i] = NullPtr]
    BY <1>2 DEF Deinit, DestroyId
  <2>2. i \in Ids /\ map[i] = w /\ i < nextId
    BY <2>1, PointerAssumption DEF IInv, TypeOK, Owners, Counter
  <2>3. idStates[i] = "held"
    BY <2>2, PointerAssumption DEF idStates, IInv, TypeOK
  <2>4. idStates' = [idStates EXCEPT ![i] = "released"]
    <3>1. idStates'[i] = "released"
      BY <2>1, <2>2, PointerAssumption DEF idStates, IInv, TypeOK, Counter
    <3>2. \A j \in Ids \ {i} : idStates'[j] = idStates[j]
      BY <2>1, <2>2 DEF idStates, IInv, TypeOK, Counter
    <3>3. QED
      BY <2>1, <2>2, <3>1, <3>2, OneIdMoves
  <2>5. WI!Release(i)
    BY <2>3, <2>4 DEF WI!Release, WI!Becomes
  <2>6. QED
    BY <2>2, <2>5 DEF WI!idNext
<1>3. QED
  BY <1>1, <1>2

LEMMA AcknowledgementImplemented ==
  ASSUME IInv, ReadDestroy
  PROVE  [WI!idNext]_idStates
<1> DEFINE i == Head(toAgent).win
<1>1. /\ toAgent # <<>> /\ Head(toAgent).op = "DESTROY"
      /\ map' = [map EXCEPT ![i] = NoEntry] /\ nextId' = nextId
  BY DEF ReadDestroy
<1>2. 1 \in DOMAIN toAgent /\ Head(toAgent) = toAgent[1]
  BY <1>1, TailElements DEF IInv, TypeOK
<1>3. i \in Ids /\ map[i] = NullPtr
  BY <1>1, <1>2, MessagesTyped DEF IInv, Struck, StruckToAgent, IsDestroy
<1>4. i < nextId
  BY <1>3, PointerAssumption DEF IInv, Counter, TypeOK
<1>5. idStates[i] = "released"
  BY <1>3, <1>4 DEF idStates, IInv, TypeOK
<1>6. idStates' = [idStates EXCEPT ![i] = "gone"]
  <2>1. idStates'[i] = "gone"
    BY <1>1, <1>3, <1>4, PointerAssumption DEF idStates, IInv, TypeOK, Counter
  <2>2. \A j \in Ids \ {i} : idStates'[j] = idStates[j]
    BY <1>1, <1>3, <1>4 DEF idStates, IInv, TypeOK, Counter
  <2>3. QED
    BY <1>1, <1>3, <1>4, <2>1, <2>2, OneIdMoves
<1>7. WI!Acknowledge(i)
  BY <1>5, <1>6 DEF WI!Acknowledge, WI!Becomes
<1>8. QED
  BY <1>3, <1>7 DEF WI!idNext

LEMMA StepImplemented ==
  ASSUME IInv, [Next]_vars
  PROVE  [WI!idNext]_idStates
<1>1. CASE UNCHANGED <<nextId, map>>
  BY <1>1, IdsUntouched
<1>2. ASSUME NEW w \in Windows, NEW fit \in BOOLEAN,
             \/ NewView(w, fit) \/ XdgCommit(w) \/ XwaylandConfigure(w, fit)
             \/ MapWindow(w, fit) \/ UnmapWindow(w) \/ RecreateWindow(w, fit)
      PROVE  [WI!idNext]_idStates
  <2>1. EnsureCreated(w, fit) \/ EnsureCreated(w, TRUE) \/ EnsureCreated(w, fits[w])
    BY <1>2, Zenon DEF NewView, XdgCommit, XwaylandConfigure, MapWindow, UnmapWindow,
                       RecreateWindow
  <2>2. fits[w] \in BOOLEAN
    BY DEF IInv, TypeOK
  <2>3. QED
    BY <2>1, <2>2, AllocationImplemented
<1>3. ASSUME NEW w \in Windows, DestroyWindow(w)
      PROVE  [WI!idNext]_idStates
  BY <1>3, ReleaseImplemented DEF DestroyWindow, ClientTurn
<1>4. CASE ReadEvent
  <2>1. \/ UNCHANGED <<nextId, map>>
        \/ \E w \in Windows : w \in live /\ Deinit(w) /\ UNCHANGED nextId
    BY <1>4 DEF ReadEvent, HandleConfigure, HandleClose, Delivered, Reaches, idVars
  <2>2. QED
    BY <2>1, <1>1, ReleaseImplemented
<1>5. CASE ReadDestroy
  BY <1>5, AcknowledgementImplemented
<1>6. CASE Client
  <2>1. \/ UNCHANGED <<nextId, map>>
        \/ \E w \in Windows : DestroyWindow(w)
        \/ \E w \in Windows, fit \in BOOLEAN :
             NewView(w, fit) \/ XdgCommit(w) \/ XwaylandConfigure(w, fit)
               \/ MapWindow(w, fit) \/ UnmapWindow(w)
    <3>1. \A w \in Windows : Describe(w) => UNCHANGED <<nextId, map>>
      BY DEF Describe, idVars
    <3>2. QED
      BY <1>6, <3>1, SizesBoolean, Zenon DEF Client
  <2>2. QED
    BY <2>1, <1>1, <1>2, <1>3
<1>7. CASE Recreation
  BY <1>7, <1>2, SizesBoolean DEF Recreation
<1>8. CASE Reconnect \/ ReconnectFails \/ Reconnected
  BY <1>8, <1>1 DEF Reconnect, ReconnectFails, Reconnected, idVars
<1>9. CASE Daemon
  BY <1>9, <1>1 DEF Daemon, DaemonConnects, DaemonReads, DaemonSends, Disconnect, idVars
<1>10. CASE UNCHANGED vars
  BY <1>10, <1>1 DEF vars, idVars
<1>11. QED
  BY <1>4, <1>5, <1>6, <1>7, <1>8, <1>9, <1>10 DEF Next

\* Window ids are handed out in order and once, and stay reserved until the
\* daemon acknowledges the destruction, across every reconnection
\* (qubes.rs:40-61 and 112-121).
THEOREM IdsRefined == Spec => IdsImplemented
<1>1. ASSUME Init PROVE WI!idInit
  <2>1. \A i \in Ids : i >= nextId
    BY <1>1 DEF Init
  <2>2. QED
    BY <2>1 DEF WI!idInit, idStates
<1>2. IInv /\ [Next]_vars => [WI!idNext]_idStates
  BY StepImplemented
<1>3. QED
  BY <1>1, <1>2, Invariance, PTL DEF Spec, IdsImplemented, WI!idSpec

=============================================================================
