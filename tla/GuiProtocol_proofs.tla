------------------------- MODULE GuiProtocol_proofs --------------------------
(***************************************************************************)
(* Theorems about what the daemon of GuiSession is told, for any windows,  *)
(* kinds, parents, sizes and bounds: that no message precedes the creation *)
(* of its window is proved with or without early clients; that a window is *)
(* announced once, that none is left over, and that events reach their     *)
(* window, for clients that start after the handshake (early ones break    *)
(* the first of these, as the run session_second_create shows).            *)
(*                                                                         *)
(* TInv says of each id what the daemon will have been told of it by the   *)
(* time that it has read what is on the way; LInv that, with late clients, *)
(* this is what the agent believes.  Both rest on IInv.                    *)
(***************************************************************************)
EXTENDS GuiSession_proofs

-----------------------------------------------------------------------------
(* With any clients.                                                       *)

\* The daemon has a window with this id, or reads of its creation on the way.
Announces(k, i) == toDaemon[k].op = "CREATE" /\ toDaemon[k].win = i
Told(i) == i \in known \/ \E k \in DOMAIN toDaemon : Announces(k, i)

\* The same of the next state, of an id of this one.
ToldNext(i) ==
  i \in known' \/ \E k \in DOMAIN toDaemon' : toDaemon'[k].op = "CREATE" /\ toDaemon'[k].win = i

\* Each message comes after the creation of its window and before its end.
InOrder ==
  \A k \in DOMAIN toDaemon :
    /\ \/ toDaemon[k].op = "CREATE"
       \/ toDaemon[k].win \in known
       \/ \E l \in 1 .. (k - 1) : Announces(l, toDaemon[k].win)
    /\ \A l \in 1 .. (k - 1) : IsDestroy(toDaemon, l) => toDaemon[l].win # toDaemon[k].win

\* What the agent may speak of has been announced: created outputs, and those
\* whose events it has yet to answer.
CreatedTold == \A w \in live : created[w] => Told(wid[w])
AskersTold ==
  \A k \in DOMAIN toAgent :
    ~IsDestroy(toAgent, k) /\ map[toAgent[k].win] \in Windows => Told(toAgent[k].win)

Heard == enabled /\ conn # "broken"
TInv == InOrder /\ (Heard => CreatedTold /\ AskersTold)

-----------------------------------------------------------------------------
(* With late clients.                                                      *)

\* Nothing is said outside a session, and nothing unsaid in one.
Quiet ==
  /\ conn # "up" => toDaemon = <<>> /\ known = {}
  /\ conn \in {"waiting", "handshaken"} => toAgent = <<>> /\ (session = 0 \/ ~enabled)
  /\ session = 0 => live = {} /\ conn # "up"
  /\ running /\ (conn = "up" \/ toAgent # <<>>) => enabled

\* A creation is the first thing the daemon hears of its window.
CreatedFirst ==
  \A k \in DOMAIN toDaemon :
    toDaemon[k].op = "CREATE" =>
      /\ toDaemon[k].win \notin known
      /\ \A l \in 1 .. (k - 1) : toDaemon[l].win # toDaemon[k].win

\* What the daemon was told of is created, or its end is on the way.
Owned(i)  == \E w \in live : created[w] /\ wid[w] = i
Ending(i) == \E k \in DOMAIN toDaemon : IsDestroy(toDaemon, k) /\ toDaemon[k].win = i
Accounted == \A i \in Ids : Told(i) => Owned(i) \/ Ending(i)

\* An event that will be passed on names a created window by its id.
Arrives(i) == created[map[i]] /\ Reaches(map[i], i)
Addressed ==
  \A k \in DOMAIN toAgent :
    ~IsDestroy(toAgent, k) /\ map[toAgent[k].win] \in Windows => Arrives(toAgent[k].win)

LInv == Quiet /\ CreatedFirst /\ Accounted /\ Addressed

USE BoundAssumption DEF Ids

-----------------------------------------------------------------------------
(* What a handler says, and what it leaves of TInv.                        *)

LEMMA ConcatPositions ==
  ASSUME NEW S, NEW s \in Seq(S), NEW t \in Seq(S)
  PROVE  /\ s \o t \in Seq(S) /\ Len(s) \in Nat
         /\ \A k \in DOMAIN s : k \in DOMAIN (s \o t) /\ (s \o t)[k] = s[k]
         /\ \A k \in DOMAIN t : Len(s) + k \in DOMAIN (s \o t) /\ (s \o t)[Len(s) + k] = t[k]
         /\ \A k \in DOMAIN (s \o t) :
              k \in DOMAIN s \/ \E j \in DOMAIN t : k = Len(s) + j
         /\ DOMAIN s = 1 .. Len(s) /\ DOMAIN t = 1 .. Len(t)
<1>1. \A k \in DOMAIN (s \o t) : k \in DOMAIN s \/ k - Len(s) \in DOMAIN t
  OBVIOUS
<1>2. \A k \in DOMAIN (s \o t) : k = Len(s) + (k - Len(s))
  OBVIOUS
<1> QED  BY <1>1, <1>2

\* Messages of one handler about one window; a destruction is the last one.
Speech(msgs, id) ==
  /\ msgs \in Seq(AgentMessages)
  /\ \A k \in DOMAIN msgs :
       msgs[k].win = id /\ \A l \in 1 .. (k - 1) : ~IsDestroy(msgs, l)

\* The speech either begins with a creation, or is about what has been told.
Introduced(msgs, id) == msgs # <<>> => msgs[1].op = "CREATE" \/ Told(id)

LEMMA Says ==
  ASSUME TypeOK, NEW msgs, Send(msgs), msgs \in Seq(AgentMessages), known' = known
  PROVE  /\ \A i : Told(i) => ToldNext(i)
         /\ \A k \in DOMAIN toDaemon : k \in DOMAIN toDaemon' /\ toDaemon'[k] = toDaemon[k]
         /\ \/ toDaemon' = toDaemon
            \/ enabled /\ conn # "broken" /\ toDaemon' = toDaemon \o msgs
         /\ enabled /\ conn # "broken" => toDaemon' = toDaemon \o msgs
<1>1. toDaemon \in Seq(AgentMessages)
  BY DEF TypeOK
<1>2. \A k \in DOMAIN toDaemon : k \in DOMAIN toDaemon' /\ toDaemon'[k] = toDaemon[k]
  BY <1>1, ConcatPositions DEF Send
<1>3. ASSUME NEW i, Told(i) PROVE ToldNext(i)
  BY <1>2, <1>3 DEF Told, ToldNext, Announces
<1> QED  BY <1>2, <1>3 DEF Send

LEMMA SpeechInOrder ==
  ASSUME TypeOK, InOrder, NEW id \in Ids, NEW msgs, Speech(msgs, id), Send(msgs),
         known' = known, Heard => Introduced(msgs, id),
         \A k \in DOMAIN toDaemon : IsDestroy(toDaemon, k) => toDaemon[k].win # id
  PROVE  /\ InOrder'
         /\ Heard /\ msgs # <<>> => ToldNext(id)
<1> DEFINE n == Len(toDaemon)
<1>1. toDaemon \in Seq(AgentMessages) /\ msgs \in Seq(AgentMessages)
  BY DEF TypeOK, Speech
<1>2. /\ \A i : Told(i) => ToldNext(i)
      /\ \A k \in DOMAIN toDaemon : k \in DOMAIN toDaemon' /\ toDaemon'[k] = toDaemon[k]
  BY <1>1, Says
<1>3. CASE toDaemon' = toDaemon /\ ~(Heard /\ msgs # <<>>)
  BY <1>3 DEF InOrder, Announces, IsDestroy
<1>4. CASE Heard /\ toDaemon' = toDaemon \o msgs
  <2>1. /\ n \in Nat /\ DOMAIN toDaemon = 1 .. n /\ DOMAIN msgs = 1 .. Len(msgs)
        /\ \A k \in DOMAIN msgs : n + k \in DOMAIN toDaemon' /\ toDaemon'[n + k] = msgs[k]
        /\ \A k \in DOMAIN toDaemon' : k \in 1 .. n \/ \E j \in DOMAIN msgs : k = n + j
    <3> HIDE DEF n
    <3>1. /\ toDaemon \o msgs \in Seq(AgentMessages) /\ Len(toDaemon) \in Nat
          /\ \A k \in DOMAIN msgs : Len(toDaemon) + k \in DOMAIN (toDaemon \o msgs)
                /\ (toDaemon \o msgs)[Len(toDaemon) + k] = msgs[k]
          /\ \A k \in DOMAIN (toDaemon \o msgs) :
               k \in DOMAIN toDaemon \/ \E j \in DOMAIN msgs : k = Len(toDaemon) + j
          /\ DOMAIN toDaemon = 1 .. Len(toDaemon) /\ DOMAIN msgs = 1 .. Len(msgs)
      BY <1>1, ConcatPositions
    <3> QED  BY <3>1, <1>4 DEF n
  <2>2. msgs # <<>> => 1 \in DOMAIN msgs /\ msgs[1].win = id
    BY <1>1 DEF Speech
  <2>3. msgs # <<>> => Told(id) \/ (toDaemon'[n + 1].op = "CREATE" /\ toDaemon'[n + 1].win = id)
    BY <1>4, <2>1, <2>2 DEF Introduced
  <2>4. Heard /\ msgs # <<>> => ToldNext(id)
    <3>1. CASE msgs # <<>> /\ Told(id)
      BY <3>1, <1>2
    <3>2. CASE msgs # <<>> /\ toDaemon'[n + 1].op = "CREATE" /\ toDaemon'[n + 1].win = id
      BY <3>2, <2>1, <2>2 DEF ToldNext
    <3> QED  BY <3>1, <3>2, <2>3
  <2>5. ASSUME NEW k \in DOMAIN toDaemon'
        PROVE  /\ \/ toDaemon'[k].op = "CREATE"
                  \/ toDaemon'[k].win \in known'
                  \/ \E l \in 1 .. (k - 1) :
                       toDaemon'[l].op = "CREATE" /\ toDaemon'[l].win = toDaemon'[k].win
               /\ \A l \in 1 .. (k - 1) :
                    toDaemon'[l].op = "DESTROY" => toDaemon'[l].win # toDaemon'[k].win
    <3>1. CASE k \in 1 .. n
      <4>1. \A l \in 1 .. (k - 1) : l \in 1 .. n /\ toDaemon'[l] = toDaemon[l]
        BY <3>1, <2>1, <1>2
      <4>2. toDaemon'[k] = toDaemon[k]
        BY <3>1, <2>1, <1>2
      <4> QED  BY <3>1, <4>1, <4>2, <2>1 DEF InOrder, Announces, IsDestroy
    <3>2. ASSUME NEW j \in DOMAIN msgs, k = n + j
          PROVE  /\ \/ toDaemon'[k].op = "CREATE"
                    \/ toDaemon'[k].win \in known'
                    \/ \E l \in 1 .. (k - 1) :
                         toDaemon'[l].op = "CREATE" /\ toDaemon'[l].win = toDaemon'[k].win
                 /\ \A l \in 1 .. (k - 1) :
                      toDaemon'[l].op = "DESTROY" => toDaemon'[l].win # toDaemon'[k].win
      <4>1. toDaemon'[k] = msgs[j] /\ msgs[j].win = id /\ j >= 1 /\ j \in Nat
        BY <3>2, <2>1 DEF Speech
      <4>2. msgs # <<>>
        BY <3>2, <2>1
      <4>3. \/ toDaemon'[k].op = "CREATE"
            \/ toDaemon'[k].win \in known'
            \/ \E l \in 1 .. (k - 1) :
                 toDaemon'[l].op = "CREATE" /\ toDaemon'[l].win = toDaemon'[k].win
        <5>1. CASE Told(id)
          <6>1. \A l \in DOMAIN toDaemon : l \in 1 .. (k - 1)
            BY <2>1, <3>2, <4>1
          <6> QED  BY <5>1, <6>1, <4>1, <1>2 DEF Told, Announces
        <5>2. CASE toDaemon'[n + 1].op = "CREATE" /\ toDaemon'[n + 1].win = id
          <6>1. CASE j = 1
            BY <5>2, <6>1, <3>2
          <6>2. CASE j # 1
            <7>1. n + 1 \in 1 .. (k - 1)
              BY <6>2, <4>1, <3>2, <2>1
            <7> QED  BY <7>1, <5>2, <4>1
          <6> QED  BY <6>1, <6>2
        <5> QED  BY <5>1, <5>2, <2>3, <4>2
      <4>4. ASSUME NEW l \in 1 .. (k - 1), toDaemon'[l].op = "DESTROY"
            PROVE  toDaemon'[l].win # toDaemon'[k].win
        <5>1. CASE l \in 1 .. n
          BY <5>1, <4>1, <4>4, <2>1, <1>2 DEF IsDestroy
        <5>2. CASE l \notin 1 .. n
          <6>1. l - n \in 1 .. (j - 1) /\ l - n \in DOMAIN msgs /\ l = n + (l - n)
            BY <5>2, <3>2, <4>1, <2>1
          <6>2. toDaemon'[l] = msgs[l - n]
            BY <6>1, <2>1
          <6> QED  BY <6>1, <6>2, <4>4 DEF Speech, IsDestroy
        <5> QED  BY <5>1, <5>2
      <4> QED  BY <4>3, <4>4
    <3> QED  BY <3>1, <3>2, <2>1
  <2>6. InOrder'
    BY <2>5 DEF InOrder, Announces, IsDestroy
  <2> QED  BY <2>4, <2>6
<1>5. ASSUME Heard, msgs = <<>>, toDaemon' = toDaemon \o msgs PROVE toDaemon' = toDaemon
  BY <1>1, <1>5
<1> QED  BY <1>3, <1>4, <1>1, Says DEF Heard

\* A handler that ensures that w is created, and speaks of w only.
SpeaksOf(w, fit, msgs) ==
  /\ Speech(msgs, IdAfter(w))
  /\ \A k \in DOMAIN msgs :
       ~IsDestroy(msgs, k) /\ (msgs[k].op = "CREATE" => k = 1 /\ Creates(w, fit))
  /\ Creates(w, fit) => msgs # <<>> /\ msgs[1].op = "CREATE"
  /\ msgs # <<>> => created[w] \/ Creates(w, fit)

\* The id it speaks of is its own: no destruction of it is under way.
LEMMA IdIsOwn ==
  ASSUME IInv, NEW w \in Windows, NEW fit \in BOOLEAN, EnsureCreated(w, fit),
         created[w] \/ Creates(w, fit)
  PROVE  /\ IdAfter(w) \in Ids /\ wid'[w] = IdAfter(w) /\ created'[w]
         /\ map[IdAfter(w)] = IF wid[w] = 0 THEN NoEntry ELSE w
         /\ wid[w] # 0 => w \in live
         /\ \A k \in DOMAIN toDaemon : IsDestroy(toDaemon, k) => toDaemon[k].win # IdAfter(w)
         /\ map'[IdAfter(w)] = w
         /\ \A i \in Ids : i # IdAfter(w) => map'[i] = map[i]
<1>1. /\ created[w] => w \in live /\ wid[w] # 0
      /\ wid[w] # 0 => w \in live
  BY DEF IInv, Owners
<1>2. \A k \in DOMAIN toDaemon : IsDestroy(toDaemon, k) => map[toDaemon[k].win] = NullPtr
  BY DEF IInv, Struck, StruckToDaemon
<1>3. CASE wid[w] # 0
  <2>1. IdAfter(w) = wid[w] /\ UNCHANGED <<wid, map>> /\ created'[w]
    BY <1>3 DEF IdAfter, EnsureCreated, Creates, IInv, TypeOK
  <2>2. wid[w] \in Ids /\ map[wid[w]] = w
    BY <1>3, <1>1 DEF IInv, Owners, TypeOK
  <2>4. w # NullPtr
    BY PointerAssumption
  <2>5. \A k \in DOMAIN toDaemon : IsDestroy(toDaemon, k) => toDaemon[k].win # wid[w]
    BY <2>2, <1>2, <2>4
  <2> QED  BY <2>1, <2>2, <2>5, <1>1, <1>3
<1>4. CASE wid[w] = 0
  <2>1. /\ IdAfter(w) = nextId /\ nextId < MaxWid
        /\ wid' = [wid EXCEPT ![w] = nextId] /\ map' = [map EXCEPT ![nextId] = w]
        /\ created' = [created EXCEPT ![w] = TRUE]
    BY <1>4, <1>1 DEF IdAfter, EnsureCreated, Creates
  <2>2. nextId \in Ids /\ map[nextId] = NoEntry
    BY <2>1 DEF IInv, TypeOK, Counter
  <2>3. \A k \in DOMAIN toDaemon : IsDestroy(toDaemon, k) => toDaemon[k].win # nextId
    BY <2>2, <1>2, PointerAssumption
  <2>4. /\ wid'[w] = nextId /\ created'[w] /\ map'[nextId] = w
        /\ \A i \in Ids : i # nextId => map'[i] = map[i]
    BY <2>1, <2>2 DEF IInv, TypeOK
  <2> QED  BY <2>1, <2>2, <2>3, <2>4, <1>4
<1> QED  BY <1>3, <1>4

\* What qubes_output_ensure_created changes beside.
LEMMA OthersKept ==
  ASSUME IInv, NEW w \in Windows, NEW fit \in BOOLEAN, EnsureCreated(w, fit)
  PROVE  /\ \A v \in Windows : v # w => wid'[v] = wid[v] /\ created'[v] = created[v]
         /\ created[w] => created'[w] /\ wid'[w] = wid[w]
         /\ ~Creates(w, fit) => UNCHANGED <<created, wid, map, nextId>>
BY DEF EnsureCreated, Creates, IInv, TypeOK

LEMMA EnsuringTold ==
  ASSUME IInv, TInv, NEW w \in Windows, NEW fit \in BOOLEAN, NEW msgs,
         EnsureCreated(w, fit), live' = live \cup {w},
         SpeaksOf(w, fit, msgs), Send(msgs),
         UNCHANGED <<enabled, conn, toAgent, known>>
  PROVE  TInv'
<1>1. TypeOK /\ InOrder /\ msgs \in Seq(AgentMessages)
  BY DEF IInv, TInv, SpeaksOf, Speech
<1>2. \A i : Told(i) => ToldNext(i)
  BY <1>1, Says
<1>3. Heard' = Heard
  BY DEF Heard
<1>4. CASE msgs = <<>>
  <2>1. ~Creates(w, fit) /\ UNCHANGED <<created, wid, map>>
    BY <1>4, OthersKept DEF SpeaksOf
  <2>2. toDaemon' = toDaemon
    BY <1>1, <1>4 DEF Send, TypeOK
  <2>3. InOrder'
    BY <2>2, <1>1 DEF InOrder, Announces, IsDestroy
  <2>4. ASSUME Heard PROVE CreatedTold' /\ AskersTold'
    <3>1. created[w] => w \in live
      BY DEF IInv, Owners
    <3>2. CreatedTold /\ AskersTold
      BY <2>4 DEF TInv
    <3>3. \A v \in live' : created'[v] => Told(wid[v])
      BY <3>1, <3>2, <2>1 DEF CreatedTold
    <3>4. CreatedTold'
      BY <3>3, <2>1, <2>2 DEF CreatedTold, Told, Announces
    <3>5. AskersTold'
      BY <3>2, <2>1, <2>2 DEF AskersTold, Told, Announces, IsDestroy
    <3> QED  BY <3>4, <3>5
  <2> QED  BY <2>3, <2>4, <1>3 DEF TInv
<1>5. CASE msgs # <<>>
  <2> DEFINE id == IdAfter(w)
  <2>1. created[w] \/ Creates(w, fit)
    BY <1>5 DEF SpeaksOf
  <2>2. /\ id \in Ids /\ wid'[w] = id /\ created'[w] /\ map'[id] = w
        /\ \A k \in DOMAIN toDaemon : IsDestroy(toDaemon, k) => toDaemon[k].win # id
        /\ \A i \in Ids : i # id => map'[i] = map[i]
    BY <2>1, IdIsOwn
  <2>3. Heard => Introduced(msgs, id)
    <3>1. Heard /\ created[w] => Told(wid[w]) /\ wid[w] = id
      BY <2>2, OthersKept DEF TInv, CreatedTold, IInv, Owners
    <3> QED  BY <3>1, <2>1 DEF Introduced, SpeaksOf
  <2> HIDE DEF id
  <2>4. InOrder' /\ (Heard => ToldNext(id))
    <3>1. Speech(msgs, id)
      BY DEF SpeaksOf, id
    <3> QED  BY <3>1, <2>2, <2>3, <1>1, <1>5, SpeechInOrder
  <2>5. ASSUME Heard PROVE CreatedTold'
    <3>1. ASSUME NEW v \in live', created'[v] PROVE ToldNext(wid'[v])
      <4>1. CASE v = w
        BY <4>1, <2>2, <2>4, <2>5
      <4>2. CASE v # w
        <5>1. v \in live /\ wid'[v] = wid[v] /\ created[v]
          BY <4>2, <3>1, OthersKept DEF IInv, TypeOK
        <5>2. Told(wid[v])
          BY <5>1, <2>5 DEF TInv, CreatedTold
        <5> QED  BY <5>1, <5>2, <1>2
      <4> QED  BY <4>1, <4>2
    <3> QED  BY <3>1 DEF CreatedTold, Told, Announces, ToldNext
  <2>6. ASSUME Heard PROVE AskersTold'
    <3>1. ASSUME NEW k \in DOMAIN toAgent, ~IsDestroy(toAgent, k),
                 map'[toAgent[k].win] \in Windows
          PROVE  ToldNext(toAgent[k].win)
      <4>1. toAgent[k].win \in Ids
        BY <1>1, MessagesTyped
      <4>2. CASE toAgent[k].win = id
        BY <4>2, <2>4, <2>6
      <4>3. CASE toAgent[k].win # id
        <5>1. Told(toAgent[k].win)
          BY <4>1, <4>3, <3>1, <2>2, <2>6 DEF TInv, AskersTold
        <5> QED  BY <5>1, <1>2
      <4> QED  BY <4>2, <4>3
    <3> QED  BY <3>1 DEF AskersTold, IsDestroy, Told, Announces, ToldNext
  <2> QED  BY <2>4, <2>5, <2>6, <1>3 DEF TInv
<1> QED  BY <1>4, <1>5

-----------------------------------------------------------------------------
(* The handlers are of that kind.                                          *)

LEMMA NothingSpoken ==
  ASSUME NEW w \in Windows, NEW fit \in BOOLEAN, ~Creates(w, fit)
  PROVE  SpeaksOf(w, fit, <<>>)
BY DEF SpeaksOf, Speech

LEMMA OneSpoken ==
  ASSUME NEW w \in Windows, NEW fit \in BOOLEAN, created[w] \/ Creates(w, fit),
         NEW m \in AgentMessages, m.win = IdAfter(w), m.op # "DESTROY",
         m.op = "CREATE" <=> Creates(w, fit)
  PROVE  SpeaksOf(w, fit, <<m>>)
<1>1. /\ <<m>> \in Seq(AgentMessages) /\ DOMAIN <<m>> = {1} /\ <<m>>[1] = m
      /\ <<m>> # <<>> /\ 1 .. (1 - 1) = {}
  OBVIOUS
<1> QED  BY <1>1 DEF SpeaksOf, Speech, IsDestroy

LEMMA TwoSpoken ==
  ASSUME NEW w \in Windows, NEW fit \in BOOLEAN, Creates(w, fit),
         NEW m \in AgentMessages, m.win = IdAfter(w), m.op = "CREATE",
         NEW n \in AgentMessages, n.win = IdAfter(w), n.op \notin {"CREATE", "DESTROY"}
  PROVE  SpeaksOf(w, fit, <<m>> \o <<n>>)
<1>1. /\ <<m>> \o <<n>> \in Seq(AgentMessages) /\ DOMAIN (<<m>> \o <<n>>) = {1, 2}
      /\ (<<m>> \o <<n>>)[1] = m /\ (<<m>> \o <<n>>)[2] = n /\ <<m>> \o <<n>> # <<>>
  OBVIOUS
<1>2. 1 .. (1 - 1) = {} /\ 1 .. (2 - 1) = {1}
  OBVIOUS
<1> QED  BY <1>1, <1>2 DEF SpeaksOf, Speech, IsDestroy

\* A creation where needed, alone, or with one more message, or an update.
LEMMA CreationSpoken ==
  ASSUME IInv, NEW w \in Windows, NEW fit \in BOOLEAN, EnsureCreated(w, fit)
  PROVE  /\ SpeaksOf(w, fit, Creation(w, fit))
         /\ \A m \in AgentMessages :
              (created[w] \/ fit) /\ m.win = IdAfter(w) /\ m.op \notin {"CREATE", "DESTROY"}
              => SpeaksOf(w, fit, Creation(w, fit) \o <<m>>)
         /\ fit => SpeaksOf(w, fit, News(w))
<1>1. created[w] \/ Creates(w, fit) => IdAfter(w) \in Ids
  BY IdIsOwn
<1>2. created[w] => IdAfter(w) = wid[w]
  BY DEF IdAfter, IInv, Owners
<1>3. CASE Creates(w, fit)
  <2> DEFINE m == Msg("CREATE", IdAfter(w))
  <2>1. m \in AgentMessages /\ m.win = IdAfter(w) /\ m.op = "CREATE"
    BY <1>1, <1>3 DEF AgentMessages, Msg
  <2>2. Creation(w, fit) = <<m>> /\ (fit => News(w) = <<m>>)
    BY <1>3 DEF Creation, News, Creates
  <2>3. SpeaksOf(w, fit, <<m>>)
    BY <2>1, <1>3, OneSpoken
  <2>4. ASSUME NEW n \in AgentMessages, n.win = IdAfter(w), n.op \notin {"CREATE", "DESTROY"}
        PROVE  SpeaksOf(w, fit, <<m>> \o <<n>>)
    BY <2>1, <2>4, <1>3, TwoSpoken
  <2> QED  BY <2>2, <2>3, <2>4
<1>4. CASE ~Creates(w, fit)
  <2>1. Creation(w, fit) = <<>> /\ SpeaksOf(w, fit, <<>>)
    BY <1>4, NothingSpoken DEF Creation
  <2>2. fit => created[w]
    BY <1>4 DEF Creates, IInv, TypeOK
  <2>3. ASSUME NEW n \in AgentMessages, created[w], n.win = IdAfter(w),
               n.op \notin {"CREATE", "DESTROY"}
        PROVE  SpeaksOf(w, fit, <<n>>) /\ <<>> \o <<n>> = <<n>>
    BY <1>4, <2>3, OneSpoken
  <2>4. ASSUME fit PROVE SpeaksOf(w, fit, News(w))
    <3> DEFINE n == Msg("UPDATE", wid[w])
    <3>1. News(w) = <<n>> /\ created[w]
      BY <2>2, <2>4 DEF News
    <3>2. wid[w] \in Ids /\ IdAfter(w) = wid[w]
      BY <1>1, <1>2, <3>1
    <3>3. n \in AgentMessages /\ n.win = IdAfter(w) /\ n.op \notin {"CREATE", "DESTROY"}
      BY <3>2 DEF AgentMessages, Msg
    <3> HIDE DEF n
    <3>4. SpeaksOf(w, fit, <<n>>)
      BY <3>1, <3>3, <2>3
    <3> QED  BY <3>1, <3>4
  <2> QED  BY <2>1, <2>2, <2>3, <2>4
<1> QED  BY <1>3, <1>4

\* What the handlers of a client's requests, and a recreation, have in common.
Ensuring(w, fit, msgs) ==
  /\ EnsureCreated(w, fit) /\ live' = live \cup {w}
  /\ SpeaksOf(w, fit, msgs) /\ Send(msgs)
  /\ UNCHANGED <<enabled, running, conn, session, toAgent, known>>

LEMMA HandlersSpeak ==
  ASSUME IInv, NEW w \in Windows, NEW fit \in BOOLEAN,
         \/ NewView(w, fit) \/ XdgCommit(w) \/ XwaylandConfigure(w, fit)
         \/ MapWindow(w, fit) \/ UnmapWindow(w) \/ Describe(w) \/ RecreateWindow(w, fit)
  PROVE  \E f \in BOOLEAN : \E msgs : Ensuring(w, f, msgs)
<1>1. fits[w] \in BOOLEAN /\ (w \in live => live \cup {w} = live)
  BY DEF IInv, TypeOK
<1>2. CASE NewView(w, fit)
  <2>1. EnsureCreated(w, fit)
    BY <1>2 DEF NewView
  <2>2. SpeaksOf(w, fit, IF fit THEN News(w) ELSE <<>>)
    BY <2>1, CreationSpoken, NothingSpoken DEF Creates
  <2> QED  BY <2>1, <2>2, <1>2 DEF NewView, Ensuring, daemonVars
<1>3. CASE XdgCommit(w)
  <2>1. EnsureCreated(w, TRUE) /\ w \in live
    BY <1>3 DEF XdgCommit, ClientTurn
  <2>2. SpeaksOf(w, TRUE, News(w))
    BY <2>1, CreationSpoken
  <2> QED  BY <2>1, <2>2, <1>1, <1>3 DEF XdgCommit, Ensuring, daemonVars
<1>4. CASE XwaylandConfigure(w, fit)
  <2>1. EnsureCreated(w, fit) /\ w \in live
    BY <1>4 DEF XwaylandConfigure, ClientTurn
  <2>2. SpeaksOf(w, fit, IF fit THEN News(w) ELSE <<>>)
    BY <2>1, CreationSpoken, NothingSpoken DEF Creates
  <2> QED  BY <2>1, <2>2, <1>1, <1>4 DEF XwaylandConfigure, Ensuring, daemonVars
<1>5. ASSUME NEW f \in BOOLEAN, f, EnsureCreated(w, f)
      PROVE  SpeaksOf(w, f, Creation(w, f) \o <<MapMsg(w, IdAfter(w))>>)
  <2>1. created[w] \/ Creates(w, f)
    BY <1>5 DEF Creates, IInv, TypeOK
  <2>2. IdAfter(w) \in Ids
    BY <2>1, <1>5, IdIsOwn
  <2>3. TransientFor(w) \in 0 .. MaxWid
    BY ParentAssumption DEF TransientFor, IInv, TypeOK
  <2>4. /\ MapMsg(w, IdAfter(w)) \in AgentMessages
        /\ MapMsg(w, IdAfter(w)).win = IdAfter(w) /\ MapMsg(w, IdAfter(w)).op = "MAP"
    BY <2>2, <2>3 DEF MapMsg, AgentMessages
  <2> QED  BY <2>4, <1>5, CreationSpoken
<1>6. ASSUME NEW f \in BOOLEAN, EnsureCreated(w, f)
      PROVE  Creation(w, f) \o <<>> = Creation(w, f) /\ SpeaksOf(w, f, Creation(w, f))
  <2>1. SpeaksOf(w, f, Creation(w, f))
    BY <1>6, CreationSpoken
  <2> QED  BY <2>1 DEF SpeaksOf, Speech
<1>7. CASE MapWindow(w, fit)
  <2>1. EnsureCreated(w, fit) /\ w \in live
    BY <1>7 DEF MapWindow, ClientTurn
  <2>2. SpeaksOf(w, fit, Creation(w, fit) \o Mapping(w, fit))
    BY <2>1, <1>5, <1>6 DEF Mapping
  <2> QED  BY <2>1, <2>2, <1>1, <1>7 DEF MapWindow, Ensuring, daemonVars
<1>8. CASE UnmapWindow(w)
  <2> DEFINE m == Msg("UNMAP", IdAfter(w))
             said == IF created[w] \/ fits[w] THEN Creation(w, fits[w]) \o <<m>> ELSE <<>>
  <2>1. EnsureCreated(w, fits[w]) /\ w \in live
    BY <1>8 DEF UnmapWindow, ClientTurn
  <2>2. CASE created[w] \/ fits[w]
    <3>1. IdAfter(w) \in Ids
      BY <2>1, <2>2, <1>1, IdIsOwn DEF Creates
    <3>2. m \in AgentMessages /\ m.win = IdAfter(w) /\ m.op = "UNMAP"
      BY <3>1 DEF Msg, AgentMessages
    <3>3. SpeaksOf(w, fits[w], said)
      BY <3>2, <2>1, <2>2, <1>1, CreationSpoken
    <3> QED  BY <3>3, <2>1, <1>1, <1>8 DEF UnmapWindow, Ensuring, daemonVars
  <2>3. CASE ~(created[w] \/ fits[w])
    <3>1. SpeaksOf(w, fits[w], said)
      BY <2>3, <1>1, NothingSpoken DEF Creates
    <3> QED  BY <3>1, <2>1, <1>1, <1>8 DEF UnmapWindow, Ensuring, daemonVars
  <2> QED  BY <2>2, <2>3
<1>9. CASE Describe(w)
  <2>1. /\ EnsureCreated(w, FALSE) /\ ~Creates(w, FALSE) /\ w \in live /\ created[w]
        /\ IdAfter(w) = wid[w]
    BY <1>9 DEF Describe, ClientTurn, EnsureCreated, Creates, IdAfter, idVars, windowVars,
                IInv, Owners
  <2>2. wid[w] \in Ids
    BY <2>1, IdIsOwn
  <2>3. /\ Msg("UPDATE", wid[w]) \in AgentMessages
        /\ Msg("UPDATE", wid[w]).win = IdAfter(w) /\ Msg("UPDATE", wid[w]).op = "UPDATE"
    BY <2>1, <2>2 DEF Msg, AgentMessages
  <2>4. SpeaksOf(w, FALSE, <<Msg("UPDATE", wid[w])>>)
    BY <2>1, <2>3, OneSpoken
  <2> QED  BY <2>1, <2>4, <1>1, <1>9 DEF Describe, Ensuring, windowVars, daemonVars
<1>10. CASE RecreateWindow(w, fit)
  <2>1. EnsureCreated(w, fits[w]) /\ w \in live
    BY <1>10 DEF RecreateWindow, IInv, TypeOK
  <2>2. CASE fits[w] /\ mapped[w]
    <3>1. SpeaksOf(w, fits[w], Creation(w, fits[w]) \o Mapping(w, fit))
      BY <2>1, <2>2, <1>1, <1>5, <1>6 DEF Mapping
    <3>2. fits[w] = TRUE
      BY <1>1, <2>2
    <3> QED  BY <3>1, <3>2, <2>1, <2>2, <1>1, <1>10 DEF RecreateWindow, Ensuring, daemonVars
  <2>3. CASE ~(fits[w] /\ mapped[w])
    BY <2>1, <2>3, <1>1, <1>6, <1>10 DEF RecreateWindow, Ensuring, daemonVars
  <2> QED  BY <2>2, <2>3
<1> QED  BY <1>2, <1>3, <1>4, <1>7, <1>8, <1>9, <1>10

-----------------------------------------------------------------------------
(* Each action keeps TInv.                                                 *)

\* Taking a message leaves the others as they are.
LEMMA AskersKept ==
  ASSUME TypeOK, Takes, AskersTold, \A i : Told(i) => ToldNext(i),
         \A i \in Ids : map'[i] \in Windows => map[i] \in Windows
  PROVE  AskersTold'
<1>1. PICK d \in {0, 1} : \A k \in DOMAIN toAgent' :
        k \in Nat /\ k + d \in DOMAIN toAgent /\ toAgent'[k] = toAgent[k + d]
  BY TakesShifts
<1>2. \A k \in DOMAIN toAgent : toAgent[k].win \in Ids
  BY MessagesTyped
<1>3. ASSUME NEW k \in DOMAIN toAgent', toAgent'[k].op # "DESTROY",
             map'[toAgent'[k].win] \in Windows
      PROVE  ToldNext(toAgent'[k].win)
  <2>1. k + d \in DOMAIN toAgent /\ toAgent'[k] = toAgent[k + d]
    BY <1>1
  <2>2. map[toAgent[k + d].win] \in Windows
    BY <2>1, <1>2, <1>3
  <2> QED  BY <2>1, <2>2, <1>3 DEF AskersTold, IsDestroy
<1> QED  BY <1>3 DEF AskersTold, IsDestroy, Told, Announces, ToldNext

\* Where nothing is said, all stays as it was told.
LEMMA SilenceKeeps ==
  ASSUME UNCHANGED <<toDaemon, known>>
  PROVE  (\A i : Told(i) => ToldNext(i)) /\ (InOrder => InOrder')
BY DEF Told, Announces, ToldNext, InOrder, IsDestroy

LEMMA SilentStep ==
  ASSUME IInv, TInv, Takes, UNCHANGED <<toDaemon, known, conn, enabled>>,
         \A i \in Ids : map'[i] \in Windows => map[i] \in Windows,
         live' \subseteq live, \A w \in live' : created'[w] => created[w] /\ wid'[w] = wid[w]
  PROVE  TInv'
<1>1. (\A i : Told(i) => ToldNext(i)) /\ InOrder'
  BY SilenceKeeps DEF TInv
<1>2. ASSUME Heard PROVE AskersTold' /\ CreatedTold'
  <2>1. AskersTold /\ CreatedTold
    BY <1>2 DEF TInv
  <2>2. AskersTold'
    BY <2>1, <1>1, AskersKept DEF IInv
  <2>3. \A w \in live' : created'[w] => ToldNext(wid'[w])
    BY <2>1, <1>1 DEF CreatedTold
  <2> QED  BY <2>2, <2>3 DEF CreatedTold, Told, Announces, ToldNext
<1> QED  BY <1>1, <1>2 DEF TInv, Heard

LEMMA DeinitTold ==
  ASSUME IInv, TInv, NEW w \in Windows, w \in live, Deinit(w), Takes,
         UNCHANGED <<enabled, conn, known>>
  PROVE  TInv'
<1>1. /\ live' \subseteq live
      /\ \A v \in live' : v # w /\ created'[v] = created[v] /\ wid'[v] = wid[v]
  BY DEF Deinit, Freed, IInv, TypeOK
<1>2. CASE ~created[w]
  BY <1>1, <1>2, SilentStep DEF Deinit
<1>3. CASE created[w]
  <2> DEFINE m == Msg("DESTROY", wid[w])
  <2>1. wid[w] \in Ids /\ map[wid[w]] = w
    BY <1>3 DEF IInv, Owners, TypeOK
  <2>2. Send(<<m>>) /\ (map' = map \/ map' = [map EXCEPT ![wid[w]] = NullPtr])
    BY <1>3 DEF Deinit, DestroyId
  <2>3. m \in AgentMessages /\ m.win = wid[w]
    BY <2>1 DEF Msg, AgentMessages
  <2>4. Speech(<<m>>, wid[w]) /\ <<m>> # <<>> /\ <<m>> \in Seq(AgentMessages)
    <3>1. /\ <<m>> \in Seq(AgentMessages) /\ DOMAIN <<m>> = {1} /\ <<m>>[1] = m
          /\ <<m>> # <<>> /\ 1 .. (1 - 1) = {}
      BY <2>3
    <3> QED  BY <3>1, <2>3 DEF Speech
  <2>5. \A k \in DOMAIN toDaemon : IsDestroy(toDaemon, k) => toDaemon[k].win # wid[w]
    <3>1. \A k \in DOMAIN toDaemon : IsDestroy(toDaemon, k) => map[toDaemon[k].win] = NullPtr
      BY DEF IInv, Struck, StruckToDaemon
    <3> QED  BY <3>1, <2>1, PointerAssumption
  <2>6. Heard => Introduced(<<m>>, wid[w])
    BY <1>3 DEF TInv, CreatedTold, Introduced
  <2>7. InOrder' /\ \A i : Told(i) => ToldNext(i)
    BY <2>1, <2>2, <2>4, <2>5, <2>6, SpeechInOrder, Says DEF IInv, TInv
  <2>8. \A i \in Ids : map'[i] \in Windows => map[i] \in Windows
    BY <2>1, <2>2, PointerAssumption DEF IInv, TypeOK
  <2>9. ASSUME Heard PROVE AskersTold' /\ CreatedTold'
    <3>1. AskersTold'
      BY <2>7, <2>8, <2>9, AskersKept DEF TInv, IInv
    <3>2. \A v \in live' : created'[v] => ToldNext(wid'[v])
      BY <1>1, <2>7, <2>9 DEF TInv, CreatedTold
    <3> QED  BY <3>1, <3>2 DEF CreatedTold, Told, Announces, ToldNext
  <2> QED  BY <2>7, <2>9 DEF TInv, Heard
<1> QED  BY <1>2, <1>3 DEF IInv, TypeOK

LEMMA ReadEventTold ==
  ASSUME IInv, TInv, ReadEvent
  PROVE  TInv'
<1> DEFINE m == Head(toAgent)
           w == map[m.win]
<1>1. Takes /\ UNCHANGED <<enabled, conn, known>>
  BY DEF ReadEvent, Takes, daemonVars
<1>2. m.win \in Ids /\ 1 \in DOMAIN toAgent /\ m = toAgent[1] /\ m.op # "DESTROY"
  BY TailElements, MessagesTyped DEF ReadEvent, IInv, TypeOK
<1>3. CASE UNCHANGED <<idVars, windowVars, toDaemon>>
  BY <1>1, <1>3, SilentStep DEF idVars, windowVars
<1>4. CASE Delivered(m) /\ Reaches(w, m.win) /\ HandleConfigure(w)
  <2> DEFINE said == Msg("UPDATE", wid[w])
  <2>1. /\ w \in Windows /\ wid[w] = m.win /\ Send(<<said>>)
        /\ UNCHANGED <<map, live, wid, created>>
    BY <1>4 DEF Delivered, Reaches, HandleConfigure, idVars
  <2>2. said \in AgentMessages /\ said.win = m.win
    BY <2>1, <1>2 DEF Msg, AgentMessages
  <2> HIDE DEF said, m, w
  <2>3. Speech(<<said>>, m.win) /\ <<said>> # <<>> /\ <<said>> \in Seq(AgentMessages)
    <3>1. /\ <<said>> \in Seq(AgentMessages) /\ DOMAIN <<said>> = {1} /\ <<said>>[1] = said
          /\ <<said>> # <<>> /\ 1 .. (1 - 1) = {}
      BY <2>2
    <3> QED  BY <3>1, <2>2 DEF Speech
  <2>4. \A k \in DOMAIN toDaemon : IsDestroy(toDaemon, k) => toDaemon[k].win # m.win
    <3>1. \A k \in DOMAIN toDaemon : IsDestroy(toDaemon, k) => map[toDaemon[k].win] = NullPtr
      BY DEF IInv, Struck, StruckToDaemon
    <3>2. map[m.win] # NullPtr
      BY <2>1, PointerAssumption DEF w
    <3> QED  BY <3>1, <3>2
  <2>5. Heard => Introduced(<<said>>, m.win)
    <3>1. ~IsDestroy(toAgent, 1) /\ map[toAgent[1].win] \in Windows
      BY <1>2, <2>1 DEF IsDestroy, w
    <3>2. Heard => Told(m.win)
      BY <3>1, <1>2 DEF TInv, AskersTold
    <3> QED  BY <3>2 DEF Introduced
  <2>6. InOrder' /\ \A i : Told(i) => ToldNext(i)
    BY <1>1, <1>2, <2>1, <2>3, <2>4, <2>5, SpeechInOrder, Says DEF IInv, TInv
  <2>7. ASSUME Heard PROVE AskersTold' /\ CreatedTold'
    <3>1. AskersTold'
      BY <1>1, <2>1, <2>6, <2>7, AskersKept DEF TInv, IInv
    <3>2. \A v \in live' : created'[v] => ToldNext(wid'[v])
      BY <2>1, <2>6, <2>7 DEF TInv, CreatedTold
    <3> QED  BY <3>1, <3>2 DEF CreatedTold, Told, Announces, ToldNext
  <2> QED  BY <1>1, <2>6, <2>7 DEF TInv, Heard
<1>5. CASE Delivered(m) /\ Reaches(w, m.win) /\ Deinit(w)
  BY <1>1, <1>5, DeinitTold DEF Delivered, Reaches
<1> QED  BY <1>3, <1>4, <1>5 DEF ReadEvent, HandleClose

\* Steps that say nothing, and empty both queues or leave them alone.
LEMMA SessionStepsTold ==
  ASSUME IInv, TInv,
         ReadDestroy \/ Reconnect \/ ReconnectFails \/ Reconnected
           \/ DaemonConnects \/ Disconnect \/ UNCHANGED vars
  PROVE  TInv'
<1>1. CASE ReadDestroy
  <2>1. /\ Takes /\ UNCHANGED <<toDaemon, known, conn, live, created, wid>>
        /\ map' = [map EXCEPT ![Head(toAgent).win] = NoEntry]
        /\ enabled' = enabled \/ ~enabled'
    BY <1>1 DEF ReadDestroy, Takes, windowVars, daemonVars
  <2>2. \A i \in Ids : map'[i] \in Windows => map[i] \in Windows
    BY <2>1, PointerAssumption DEF IInv, TypeOK
  <2>3. CASE enabled' = enabled
    BY <2>1, <2>2, <2>3, SilentStep
  <2>4. CASE ~enabled'
    BY <2>1, <2>4, SilenceKeeps DEF TInv, Heard
  <2> QED  BY <2>1, <2>3, <2>4
<1>2. CASE Reconnect
  BY <1>2 DEF Reconnect, TInv, InOrder, Heard
<1>3. CASE ReconnectFails
  BY <1>3, SilenceKeeps DEF ReconnectFails, TInv, Heard, daemonVars
<1>4. CASE Reconnected
  <2>1. UNCHANGED <<toDaemon, known, live>> /\ toAgent' = <<>> /\ \A w \in live : ~created'[w]
    BY <1>4 DEF Reconnected, daemonVars, IInv, TypeOK
  <2> QED  BY <2>1, SilenceKeeps DEF TInv, CreatedTold, AskersTold
<1>5. CASE DaemonConnects
  <2>1. /\ Takes /\ UNCHANGED <<toDaemon, known, map, live, created, wid, enabled>>
        /\ conn = "waiting" /\ conn' = "handshaken"
    BY <1>5 DEF DaemonConnects, Takes, idVars, windowVars, daemonVars
  <2>2. (\A i : Told(i) => ToldNext(i)) /\ InOrder'
    BY <2>1, SilenceKeeps DEF TInv
  <2>3. ASSUME Heard PROVE CreatedTold' /\ AskersTold'
    <3>1. AskersTold'
      BY <2>1, <2>2, <2>3, AskersKept DEF TInv, IInv
    <3>2. \A v \in live' : created'[v] => ToldNext(wid'[v])
      BY <2>1, <2>2, <2>3 DEF TInv, CreatedTold
    <3> QED  BY <3>1, <3>2 DEF CreatedTold, Told, Announces, ToldNext
  <2> QED  BY <2>1, <2>2, <2>3 DEF TInv, Heard
<1>6. CASE Disconnect
  BY <1>6 DEF Disconnect, Breaks, TInv, InOrder, Heard
<1>7. CASE UNCHANGED vars
  <2>1. Takes /\ UNCHANGED <<toDaemon, known, map, live, created, wid, enabled, conn>>
    BY <1>7 DEF vars, Takes, idVars, windowVars, daemonVars
  <2> QED  BY <2>1, SilentStep
<1> QED  BY <1>1, <1>2, <1>3, <1>4, <1>5, <1>6, <1>7

\* The daemon sends for windows it has.
LEMMA DaemonSendsTold ==
  ASSUME IInv, TInv, NEW op \in {"CONFIGURE", "CLOSE"}, NEW id \in Ids, DaemonSends(op, id)
  PROVE  TInv'
<1> DEFINE m == Event(op, id)
<1>1. /\ UNCHANGED <<toDaemon, known, map, live, created, wid, enabled, conn>>
      /\ toAgent' = Append(toAgent, m) /\ id \in known
  BY DEF DaemonSends, idVars, windowVars, daemonVars
<1>2. m \in DaemonMessages /\ m.win = id
  BY DEF Event, DaemonMessages
<1>3. \A k \in DOMAIN toAgent' :
        (k \in DOMAIN toAgent /\ toAgent'[k] = toAgent[k]) \/ toAgent'[k] = m
  BY <1>1, <1>2, AppendElements DEF IInv, TypeOK
<1>4. (\A i : Told(i) => ToldNext(i)) /\ InOrder' /\ ToldNext(id)
  BY <1>1, SilenceKeeps DEF TInv, ToldNext
<1>5. ASSUME Heard PROVE CreatedTold' /\ AskersTold'
  <2>1. \A v \in live' : created'[v] => ToldNext(wid'[v])
    BY <1>1, <1>4, <1>5 DEF TInv, CreatedTold
  <2>2. \A k \in DOMAIN toAgent' :
          toAgent'[k].op # "DESTROY" /\ map'[toAgent'[k].win] \in Windows
            => ToldNext(toAgent'[k].win)
    BY <1>1, <1>2, <1>3, <1>4, <1>5 DEF TInv, AskersTold, IsDestroy
  <2> QED  BY <2>1, <2>2 DEF CreatedTold, AskersTold, IsDestroy, Told, Announces, ToldNext
<1> QED  BY <1>1, <1>4, <1>5 DEF TInv, Heard

\* The daemon forgets only what the agent has struck out.
LEMMA DaemonReadsTold ==
  ASSUME IInv, TInv, DaemonReads
  PROVE  TInv'
<1> DEFINE m == Head(toDaemon)
<1>1. /\ toDaemon # <<>> /\ UNCHANGED <<enabled, map, live, wid, created>>
  BY DEF DaemonReads, idVars, windowVars
<1>2. CASE Breaks
  BY <1>1, <1>2 DEF Breaks, TInv, InOrder, Heard
<1>3. CASE ~Breaks
  <2>1. /\ toDaemon' = Tail(toDaemon) /\ conn' = conn
        /\ known' = CASE m.op = "CREATE"  -> known \cup {m.win}
                      [] m.op = "DESTROY" -> known \ {m.win}
                      [] OTHER            -> known
        /\ toAgent' = IF m.op = "DESTROY"
                      THEN Append(toAgent, Event("DESTROY", m.win)) ELSE toAgent
    BY <1>3 DEF DaemonReads
  <2>2. /\ 1 \in DOMAIN toDaemon /\ m = toDaemon[1] /\ DOMAIN toDaemon \subseteq Nat
        /\ \A k \in DOMAIN toDaemon' :
             k \in Nat /\ k # 0 /\ k + 1 \in DOMAIN toDaemon /\ toDaemon'[k] = toDaemon[k + 1]
        /\ \A k \in DOMAIN toDaemon : k # 1 =>
             k - 1 \in DOMAIN toDaemon' /\ toDaemon'[k - 1] = toDaemon[k]
    BY <1>1, <2>1, TailElements DEF IInv, TypeOK
  <2>3. /\ m.op = "CREATE" => known' = known \cup {m.win}
        /\ m.op = "DESTROY" => known' = known \ {m.win}
        /\ m.op \notin {"CREATE", "DESTROY"} => known' = known
    BY <2>1
  <2>4. ASSUME NEW i, Told(i), ~(m.op = "DESTROY" /\ m.win = i)
        PROVE  ToldNext(i)
    <3>1. CASE i \in known
      BY <3>1, <2>3, <2>4 DEF ToldNext
    <3>2. ASSUME NEW k \in DOMAIN toDaemon, Announces(k, i) PROVE ToldNext(i)
      <4>1. CASE k = 1
        BY <4>1, <3>2, <2>2, <2>3 DEF ToldNext, Announces
      <4>2. CASE k # 1
        BY <4>2, <3>2, <2>2 DEF ToldNext, Announces
      <4> QED  BY <4>1, <4>2
    <3> QED  BY <3>1, <3>2, <2>4 DEF Told
  <2>5. InOrder'
    <3>1. ASSUME NEW k \in DOMAIN toDaemon'
          PROVE  /\ \/ toDaemon'[k].op = "CREATE"
                    \/ toDaemon'[k].win \in known'
                    \/ \E l \in 1 .. (k - 1) :
                         toDaemon'[l].op = "CREATE" /\ toDaemon'[l].win = toDaemon'[k].win
                 /\ \A l \in 1 .. (k - 1) :
                      toDaemon'[l].op = "DESTROY" => toDaemon'[l].win # toDaemon'[k].win
      <4>1. /\ k \in Nat /\ k # 0 /\ k + 1 \in DOMAIN toDaemon /\ toDaemon'[k] = toDaemon[k + 1]
            /\ 1 \in 1 .. ((k + 1) - 1)
        BY <2>2
      <4>2. \A l \in 1 .. (k - 1) : l + 1 \in 1 .. ((k + 1) - 1) /\ toDaemon'[l] = toDaemon[l + 1]
        <5>1. toDaemon' \in Seq(AgentMessages)
          BY <1>1, <2>1, TailElements DEF IInv, TypeOK
        <5>2. \A l \in 1 .. (k - 1) : l \in DOMAIN toDaemon'
          BY <5>1
        <5> QED  BY <5>2, <4>1, <2>2
      <4>3. m.op = "DESTROY" => m.win # toDaemon[k + 1].win
        BY <4>1, <2>2 DEF TInv, InOrder, IsDestroy
      <4>4. \A l \in 1 .. ((k + 1) - 1) : l = 1 \/ (l - 1 \in 1 .. (k - 1) /\ l = (l - 1) + 1)
        BY <4>1
      <4>5. \/ toDaemon[k + 1].op = "CREATE"
            \/ toDaemon[k + 1].win \in known
            \/ \E l \in 1 .. ((k + 1) - 1) : Announces(l, toDaemon[k + 1].win)
        BY <4>1 DEF TInv, InOrder
      <4>6. ASSUME NEW l \in 1 .. ((k + 1) - 1), Announces(l, toDaemon[k + 1].win)
            PROVE  \/ toDaemon'[k].win \in known'
                   \/ \E j \in 1 .. (k - 1) :
                        toDaemon'[j].op = "CREATE" /\ toDaemon'[j].win = toDaemon'[k].win
        <5>1. CASE l = 1
          BY <5>1, <4>6, <4>1, <2>2, <2>3 DEF Announces
        <5>2. CASE l # 1
          BY <5>2, <4>6, <4>1, <4>2, <4>4 DEF Announces
        <5> QED  BY <5>1, <5>2
      <4>7. toDaemon[k + 1].win \in known => toDaemon'[k].win \in known'
        BY <4>1, <4>3, <2>3
      <4>8. ASSUME NEW l \in 1 .. (k - 1), toDaemon'[l].op = "DESTROY"
            PROVE  toDaemon'[l].win # toDaemon'[k].win
        BY <4>1, <4>2, <4>8 DEF TInv, InOrder, IsDestroy
      <4> QED  BY <4>1, <4>5, <4>6, <4>7, <4>8
    <3> QED  BY <3>1 DEF InOrder, Announces, IsDestroy
  <2>6. m.op = "DESTROY" => map[m.win] = NullPtr
    BY <2>2 DEF IInv, Struck, StruckToDaemon, IsDestroy
  <2>7. \A k \in DOMAIN toAgent' :
          toAgent'[k].op # "DESTROY" => k \in DOMAIN toAgent /\ toAgent'[k] = toAgent[k]
    <3>1. CASE m.op # "DESTROY"
      BY <3>1, <2>1
    <3>2. CASE m.op = "DESTROY"
      <4> DEFINE ack == Event("DESTROY", m.win)
      <4>1. m.win \in Ids
        BY <2>2, MessagesTyped DEF IInv
      <4>2. ack \in DaemonMessages /\ ack.op = "DESTROY" /\ toAgent' = Append(toAgent, ack)
        BY <4>1, <3>2, <2>1 DEF Event, DaemonMessages
      <4>3. \A k \in DOMAIN toAgent' :
              (k \in DOMAIN toAgent /\ toAgent'[k] = toAgent[k]) \/ toAgent'[k] = ack
        BY <4>2, AppendElements DEF IInv, TypeOK
      <4> QED  BY <4>2, <4>3
    <3> QED  BY <3>1, <3>2
  <2>8. ASSUME Heard PROVE CreatedTold' /\ AskersTold'
    <3>1. ASSUME NEW v \in live, created[v] PROVE ToldNext(wid[v])
      <4>1. Told(wid[v]) /\ map[wid[v]] = v /\ v \in Windows
        BY <3>1, <2>8 DEF TInv, CreatedTold, IInv, Owners, TypeOK
      <4> QED  BY <4>1, <2>4, <2>6, PointerAssumption
    <3>2. ASSUME NEW k \in DOMAIN toAgent', toAgent'[k].op # "DESTROY",
                 map[toAgent'[k].win] \in Windows
          PROVE  ToldNext(toAgent'[k].win)
      <4>1. Told(toAgent'[k].win)
        BY <3>2, <2>7, <2>8 DEF TInv, AskersTold, IsDestroy
      <4> QED  BY <4>1, <3>2, <2>4, <2>6, PointerAssumption
    <3> QED  BY <3>1, <3>2, <1>1 DEF CreatedTold, AskersTold, IsDestroy, Told, Announces, ToldNext
  <2> QED  BY <1>1, <2>1, <2>5, <2>8 DEF TInv, Heard
<1> QED  BY <1>2, <1>3

LEMMA NextTold ==
  ASSUME IInv, TInv, [Next]_vars
  PROVE  TInv'
<1>1. ASSUME NEW w \in Windows, NEW fit \in BOOLEAN,
             \/ NewView(w, fit) \/ XdgCommit(w) \/ XwaylandConfigure(w, fit)
             \/ MapWindow(w, fit) \/ UnmapWindow(w) \/ Describe(w) \/ RecreateWindow(w, fit)
      PROVE  TInv'
  <2>1. PICK f \in BOOLEAN : \E msgs : Ensuring(w, f, msgs)
    BY <1>1, HandlersSpeak
  <2> QED  BY <2>1, EnsuringTold DEF Ensuring
<1>2. ASSUME NEW w \in Windows, DestroyWindow(w)
      PROVE  TInv'
  BY <1>2, DeinitTold DEF DestroyWindow, ClientTurn, Takes, daemonVars
<1>3. CASE Client
  <2>1. PICK w \in Windows :
          \/ \E fit \in InitialSizes(w) : NewView(w, fit)
          \/ XdgCommit(w)
          \/ \E fit \in Sizes(w) : XwaylandConfigure(w, fit) \/ MapWindow(w, fit)
          \/ UnmapWindow(w)
          \/ Describe(w)
          \/ DestroyWindow(w)
    BY <1>3 DEF Client
  <2> QED  BY <2>1, <1>1, <1>2, SizesBoolean
<1>4. CASE Recreation
  BY <1>4, <1>1, SizesBoolean DEF Recreation
<1> QED  BY <1>3, <1>4, ReadEventTold, SessionStepsTold, DaemonSendsTold, DaemonReadsTold
         DEF Next, Daemon

-----------------------------------------------------------------------------
(* Each action keeps LInv, when clients start after the handshake.         *)

LEMMA MentionedTold ==
  ASSUME TypeOK, InOrder, NEW l \in DOMAIN toDaemon
  PROVE  Told(toDaemon[l].win)
<1>1. \A k \in 1 .. (l - 1) : k \in DOMAIN toDaemon
  BY DEF TypeOK
<1> QED  BY <1>1 DEF InOrder, Told, Announces

\* An id about to be announced has not been spoken of.
LEMMA CreationNews ==
  ASSUME IInv, TInv, LInv, NEW w \in Windows, NEW fit \in BOOLEAN,
         EnsureCreated(w, fit), Creates(w, fit)
  PROVE  /\ IdAfter(w) \notin known
         /\ \A l \in DOMAIN toDaemon : toDaemon[l].win # IdAfter(w)
<1> DEFINE id == IdAfter(w)
<1>1. /\ id \in Ids /\ map[id] = (IF wid[w] = 0 THEN NoEntry ELSE w)
      /\ \A k \in DOMAIN toDaemon : IsDestroy(toDaemon, k) => toDaemon[k].win # id
  BY IdIsOwn
<1>2. ~Ending(id)
  BY <1>1 DEF Ending
<1>3. ~created[w]
  BY DEF Creates
<1>4. ~Owned(id)
  <2>1. \A v \in live : created[v] /\ wid[v] = id => map[id] = v /\ v \in Windows
    BY <1>1 DEF IInv, Owners, TypeOK
  <2> QED  BY <2>1, <1>1, <1>3, PointerAssumption DEF Owned
<1>5. ~Told(id)
  BY <1>1, <1>2, <1>4 DEF LInv, Accounted
<1> QED  BY <1>5, MentionedTold DEF Told, IInv, TInv

LEMMA EnsuringLate ==
  ASSUME IInv, TInv, LInv, NEW w \in Windows, NEW fit \in BOOLEAN, NEW msgs,
         Ensuring(w, fit, msgs), running, session # 0
  PROVE  LInv'
<1> DEFINE id == IdAfter(w)
           n  == Len(toDaemon)
<1>1. /\ UNCHANGED <<enabled, running, conn, session, toAgent, known>>
      /\ EnsureCreated(w, fit) /\ live' = live \cup {w} /\ SpeaksOf(w, fit, msgs) /\ Send(msgs)
      /\ toDaemon \in Seq(AgentMessages) /\ msgs \in Seq(AgentMessages) /\ TypeOK
  BY DEF Ensuring, SpeaksOf, Speech, IInv, TypeOK
<1>2. /\ \A k \in DOMAIN toDaemon : k \in DOMAIN toDaemon' /\ toDaemon'[k] = toDaemon[k]
      /\ \A i : Told(i) => ToldNext(i)
      /\ toDaemon' = toDaemon \/ (enabled /\ conn # "broken" /\ toDaemon' = toDaemon \o msgs)
  BY <1>1, Says
<1>3. conn # "up" => toDaemon' = toDaemon
  BY <1>2, <1>1 DEF LInv, Quiet, TypeOK, ConnStates
<1>4. Quiet'
  BY <1>1, <1>3 DEF LInv, Quiet
<1>5. created[w] => w \in live
  BY DEF IInv, Owners
<1>6. ASSUME NEW k \in DOMAIN toDaemon'
      PROVE  \/ k \in 1 .. n /\ k \in DOMAIN toDaemon /\ toDaemon'[k] = toDaemon[k]
             \/ k \in Nat /\ k > n /\ toDaemon'[k].win = id /\ toDaemon'[k].op # "DESTROY"
                /\ (toDaemon'[k].op = "CREATE" => k = n + 1 /\ Creates(w, fit))
  <2>1. CASE toDaemon' = toDaemon
    BY <2>1, <1>1
  <2>2. CASE toDaemon' = toDaemon \o msgs
    <3>1. /\ n \in Nat /\ DOMAIN toDaemon = 1 .. n /\ DOMAIN msgs = 1 .. Len(msgs)
          /\ k \in DOMAIN toDaemon \/ \E j \in DOMAIN msgs : k = n + j
          /\ \A j \in DOMAIN msgs : (toDaemon \o msgs)[n + j] = msgs[j]
      <4> HIDE DEF n
      <4>1. /\ Len(toDaemon) \in Nat
            /\ DOMAIN toDaemon = 1 .. Len(toDaemon) /\ DOMAIN msgs = 1 .. Len(msgs)
            /\ \A j \in DOMAIN msgs : (toDaemon \o msgs)[Len(toDaemon) + j] = msgs[j]
            /\ \A i \in DOMAIN (toDaemon \o msgs) :
                 i \in DOMAIN toDaemon \/ \E j \in DOMAIN msgs : i = Len(toDaemon) + j
        BY <1>1, ConcatPositions
      <4> QED  BY <4>1, <2>2 DEF n
    <3>2. CASE k \in DOMAIN toDaemon
      BY <3>1, <3>2, <1>2
    <3>3. ASSUME NEW j \in DOMAIN msgs, k = n + j
          PROVE  /\ k \in Nat /\ k > n /\ toDaemon'[k].win = id /\ toDaemon'[k].op # "DESTROY"
                 /\ (toDaemon'[k].op = "CREATE" => k = n + 1 /\ Creates(w, fit))
      <4>1. toDaemon'[k] = msgs[j] /\ j >= 1 /\ j \in Nat
        BY <3>1, <3>3, <2>2
      <4> HIDE DEF n
      <4> QED  BY <4>1, <3>1, <3>3, <1>1 DEF SpeaksOf, Speech, IsDestroy
    <3> QED  BY <3>1, <3>2, <3>3
  <2> QED  BY <2>1, <2>2, <1>2
<1>7. Creates(w, fit) =>
        /\ id \notin known /\ id \in Ids /\ wid'[w] = id /\ created'[w]
        /\ \A l \in DOMAIN toDaemon : toDaemon[l].win # id
        /\ map'[id] = w /\ \A i \in Ids : i # id => map'[i] = map[i]
  BY <1>1, CreationNews, IdIsOwn
<1>8. /\ \A v \in Windows : v # w => wid'[v] = wid[v] /\ created'[v] = created[v]
      /\ created[w] => created'[w] /\ wid'[w] = wid[w]
      /\ ~Creates(w, fit) => map' = map
  BY <1>1, OthersKept
<1> HIDE DEF id
<1>9. CreatedFirst'
  <2>1. ASSUME NEW k \in DOMAIN toDaemon', toDaemon'[k].op = "CREATE"
        PROVE  /\ toDaemon'[k].win \notin known
               /\ \A l \in 1 .. (k - 1) : toDaemon'[l].win # toDaemon'[k].win
    <3>1. n \in Nat /\ DOMAIN toDaemon = 1 .. n
      BY <1>1
    <3> HIDE DEF n
    <3>2. CASE k \in 1 .. n /\ toDaemon'[k] = toDaemon[k]
      <4>1. \A l \in 1 .. (k - 1) : l \in DOMAIN toDaemon /\ toDaemon'[l] = toDaemon[l]
        BY <3>1, <3>2, <1>2
      <4> QED  BY <4>1, <3>1, <3>2, <2>1 DEF LInv, CreatedFirst
    <3>3. CASE k = n + 1 /\ toDaemon'[k].win = id /\ Creates(w, fit)
      <4>1. \A l \in 1 .. (k - 1) : l \in DOMAIN toDaemon /\ toDaemon'[l] = toDaemon[l]
        BY <3>1, <3>3, <1>2
      <4> QED  BY <4>1, <3>3, <1>7
    <3> QED  BY <3>2, <3>3, <1>6, <2>1
  <2> QED  BY <2>1, <1>1 DEF CreatedFirst
<1>10. Accounted'
  <2>1. ASSUME NEW i \in Ids, ToldNext(i)
        PROVE  \/ \E v \in live' : created'[v] /\ wid'[v] = i
               \/ \E k \in DOMAIN toDaemon' :
                    toDaemon'[k].op = "DESTROY" /\ toDaemon'[k].win = i
    <3>1. CASE Creates(w, fit) /\ i = id
      BY <3>1, <1>1, <1>7
    <3>2. CASE ~(Creates(w, fit) /\ i = id)
      <4>1. Told(i)
        BY <3>2, <2>1, <1>1, <1>6 DEF Told, ToldNext, Announces
      <4>2. Owned(i) \/ Ending(i)
        BY <4>1 DEF LInv, Accounted
      <4>3. CASE Ending(i)
        BY <4>3, <1>2 DEF Ending, IsDestroy
      <4>4. CASE Owned(i)
        <5>1. PICK v \in live : created[v] /\ wid[v] = i
          BY <4>4 DEF Owned
        <5>2. v \in Windows
          BY <1>1 DEF TypeOK
        <5>3. created'[v] /\ wid'[v] = i
          BY <5>1, <5>2, <1>8
        <5> QED  BY <5>1, <5>3, <1>1
      <4> QED  BY <4>2, <4>3, <4>4
    <3> QED  BY <3>1, <3>2
  <2> QED  BY <2>1 DEF Accounted, Told, Announces, ToldNext, Owned, Ending, IsDestroy
<1>11. Addressed'
  <2>1. ASSUME NEW k \in DOMAIN toAgent, toAgent[k].op # "DESTROY", NEW i, i = toAgent[k].win,
               map'[i] \in Windows
        PROVE  created'[map'[i]] /\ map'[i] \in live' /\ wid'[map'[i]] = i
    <3>1. i \in Ids
      BY <1>1, <2>1, MessagesTyped
    <3>2. CASE Creates(w, fit) /\ i = id
      BY <3>2, <1>1, <1>7
    <3>3. CASE ~(Creates(w, fit) /\ i = id)
      <4>1. map'[i] = map[i]
        BY <3>1, <3>3, <1>7, <1>8
      <4>2. created[map[i]] /\ map[i] \in live /\ wid[map[i]] = i
        BY <4>1, <2>1 DEF LInv, Addressed, Arrives, Reaches, IsDestroy
      <4> QED  BY <4>1, <4>2, <2>1, <1>1, <1>8
    <3> QED  BY <3>2, <3>3
  <2> QED  BY <2>1, <1>1 DEF Addressed, Arrives, Reaches, IsDestroy
<1> QED  BY <1>4, <1>9, <1>10, <1>11 DEF LInv

\* One more message that creates nothing.
LEMMA OneSaid ==
  ASSUME IInv, LInv, NEW m \in AgentMessages, m.op # "CREATE", Send(<<m>>), known' = known
  PROVE  /\ CreatedFirst'
         /\ \A i : ToldNext(i) => Told(i)
         /\ \A k \in DOMAIN toDaemon : k \in DOMAIN toDaemon' /\ toDaemon'[k] = toDaemon[k]
         /\ conn = "up" /\ enabled => \E k \in DOMAIN toDaemon' : toDaemon'[k] = m
<1>1. toDaemon \in Seq(AgentMessages) /\ <<m>> \in Seq(AgentMessages)
  BY DEF IInv, TypeOK
<1>2. \A k \in DOMAIN toDaemon : k \in DOMAIN toDaemon' /\ toDaemon'[k] = toDaemon[k]
  BY <1>1, Says DEF IInv
<1>3. CASE toDaemon' = toDaemon /\ ~(conn = "up" /\ enabled)
  BY <1>2, <1>3 DEF LInv, CreatedFirst, Told, Announces, ToldNext
<1>4. CASE toDaemon' = toDaemon \o <<m>>
  <2>1. toDaemon \o <<m>> = Append(toDaemon, m)
    BY <1>1
  <2>2. \A k \in DOMAIN toDaemon' :
          \/ k \in DOMAIN toDaemon /\ toDaemon'[k] = toDaemon[k]
          \/ toDaemon'[k] = m
    BY <1>1, <1>4, <2>1, AppendElements
  <2>3. \A k \in DOMAIN toDaemon : \A l \in 1 .. (k - 1) : l \in DOMAIN toDaemon
    BY <1>1
  <2>4. CreatedFirst'
    BY <1>2, <2>2, <2>3 DEF LInv, CreatedFirst
  <2>5. \A i : ToldNext(i) => Told(i)
    BY <2>2 DEF Told, ToldNext, Announces
  <2>6. \E k \in DOMAIN toDaemon' : toDaemon'[k] = m
    <3>1. Len(toDaemon) + 1 \in DOMAIN toDaemon' /\ toDaemon'[Len(toDaemon) + 1] = m
      BY <1>1, <1>4, <2>1
    <3> QED  BY <3>1
  <2> QED  BY <1>2, <2>4, <2>5, <2>6
<1> QED  BY <1>3, <1>4 DEF Send

ArrivesNext(i) == created'[map'[i]] /\ map'[i] \in live' /\ wid'[map'[i]] = i

LEMMA AddressedKept ==
  ASSUME TypeOK, Takes, Addressed,
         \A i \in Ids : toAgent # <<>> /\ (map[i] \in Windows => Arrives(i))
                        /\ map'[i] \in Windows => ArrivesNext(i)
  PROVE  Addressed'
<1>1. PICK d \in {0, 1} : \A k \in DOMAIN toAgent' :
        k \in Nat /\ k + d \in DOMAIN toAgent /\ toAgent'[k] = toAgent[k + d]
  BY TakesShifts
<1>2. \A k \in DOMAIN toAgent : toAgent[k].win \in Ids
  BY MessagesTyped
<1>3. ASSUME NEW k \in DOMAIN toAgent', toAgent'[k].op # "DESTROY",
             map'[toAgent'[k].win] \in Windows
      PROVE  ArrivesNext(toAgent'[k].win)
  <2>1. k + d \in DOMAIN toAgent /\ toAgent'[k] = toAgent[k + d]
    BY <1>1
  <2>2. map[toAgent[k + d].win] \in Windows => Arrives(toAgent[k + d].win)
    BY <2>1, <1>3 DEF Addressed, IsDestroy
  <2>3. toAgent # <<>>
    BY <2>1
  <2> QED  BY <2>1, <2>2, <2>3, <1>2, <1>3
<1> QED  BY <1>3 DEF Addressed, IsDestroy, Arrives, Reaches, ArrivesNext

\* Taking a message and saying nothing between sessions keeps Quiet.
LEMMA QuietKept ==
  ASSUME LInv, Takes, UNCHANGED <<enabled, conn, session, known>>, live' \subseteq live,
         running' => running, conn # "up" => toDaemon' = toDaemon
  PROVE  Quiet'
BY DEF LInv, Quiet, Takes

LEMMA DeinitLate ==
  ASSUME IInv, LInv, NEW w \in Windows, w \in live, Deinit(w), Takes, running,
         UNCHANGED <<enabled, running, conn, session, known>>
  PROVE  LInv'
<1>1. /\ live' = live \ {w}
      /\ \A v \in Windows : v # w => created'[v] = created[v] /\ wid'[v] = wid[v]
      /\ \A v \in live : v \in Windows
      /\ TypeOK
  BY DEF Deinit, Freed, IInv, TypeOK
<1>2. Quiet /\ CreatedFirst /\ Accounted /\ Addressed
  BY DEF LInv
<1>3. /\ (conn = "up" \/ toAgent # <<>>) => enabled
      /\ conn # "up" => toDaemon = <<>> /\ known = {}
      /\ conn # "up" => conn = "broken" \/ ~enabled
  BY <1>1, <1>2 DEF Quiet, TypeOK, ConnStates
<1>4. CASE ~created[w]
  <2>1. UNCHANGED <<toDaemon, map, known>>
    BY <1>4 DEF Deinit
  <2>2. Quiet'
    BY <2>1, <1>1, QuietKept
  <2>3. CreatedFirst'
    BY <2>1, <1>2 DEF CreatedFirst
  <2>4. Accounted'
    <3>1. ASSUME NEW i \in Ids, Told(i)
          PROVE  \/ \E v \in live' : created'[v] /\ wid'[v] = i
                 \/ Ending(i)
      BY <3>1, <1>1, <1>2, <1>4 DEF Accounted, Owned
    <3> QED  BY <3>1, <2>1 DEF Accounted, Told, Announces, Owned, Ending, IsDestroy
  <2>5. Addressed'
    <3>1. \A i \in Ids : Arrives(i) /\ map'[i] \in Windows => ArrivesNext(i)
      BY <2>1, <1>1, <1>4 DEF Arrives, Reaches, ArrivesNext
    <3> QED  BY <3>1, <2>1, <1>1, <1>2, AddressedKept
  <2> QED  BY <2>2, <2>3, <2>4, <2>5 DEF LInv
<1>5. CASE created[w]
  <2> DEFINE m == Msg("DESTROY", wid[w])
  <2>1. wid[w] \in Ids /\ map[wid[w]] = w
    BY <1>5 DEF IInv, Owners, TypeOK
  <2>2. Send(<<m>>) /\ map' = IF enabled THEN [map EXCEPT ![wid[w]] = NullPtr] ELSE map
    BY <1>5 DEF Deinit, DestroyId
  <2>3. m \in AgentMessages /\ m.win = wid[w] /\ m.op = "DESTROY"
    BY <2>1 DEF Msg, AgentMessages
  <2> HIDE DEF m
  <2>4. /\ CreatedFirst' /\ \A i : ToldNext(i) => Told(i)
        /\ \A k \in DOMAIN toDaemon : k \in DOMAIN toDaemon' /\ toDaemon'[k] = toDaemon[k]
        /\ conn = "up" /\ enabled => \E k \in DOMAIN toDaemon' : toDaemon'[k] = m
    BY <2>2, <2>3, OneSaid
  <2>5. Quiet'
    BY <2>2, <1>1, <1>3, QuietKept DEF Send
  <2>6. Accounted'
    <3>1. ASSUME NEW i \in Ids, ToldNext(i)
          PROVE  \/ \E v \in live' : created'[v] /\ wid'[v] = i
                 \/ \E k \in DOMAIN toDaemon' :
                      toDaemon'[k].op = "DESTROY" /\ toDaemon'[k].win = i
      <4>1. Told(i)
        BY <3>1, <2>4
      <4>2. conn = "up" /\ enabled
        BY <4>1, <1>3 DEF Told
      <4>3. CASE Ending(i)
        BY <4>3, <2>4 DEF Ending, IsDestroy
      <4>4. ASSUME NEW v \in live, created[v], wid[v] = i, v # w
            PROVE  v \in live' /\ created'[v] /\ wid'[v] = i
        BY <4>4, <1>1
      <4>5. CASE i = wid[w]
        BY <4>5, <4>2, <2>3, <2>4
      <4> QED  BY <4>1, <4>3, <4>4, <4>5, <1>2 DEF Accounted, Owned
    <3> QED  BY <3>1 DEF Accounted, Told, Announces, ToldNext, Owned, Ending, IsDestroy
  <2>7. Addressed'
    <3>1. ASSUME NEW i \in Ids, toAgent # <<>>, map[i] \in Windows => Arrives(i),
                 map'[i] \in Windows
          PROVE  ArrivesNext(i)
      <4>1. map' = [map EXCEPT ![wid[w]] = NullPtr]
        BY <3>1, <2>2, <1>3
      <4>2. i # wid[w] /\ map'[i] = map[i]
        BY <3>1, <4>1, <2>1, PointerAssumption, <1>1 DEF TypeOK
      <4>3. created[map[i]] /\ map[i] \in live /\ wid[map[i]] = i
        BY <3>1, <4>2 DEF Arrives, Reaches
      <4>4. map[i] # w
        BY <4>2, <4>3
      <4> QED  BY <4>2, <4>3, <4>4, <1>1 DEF ArrivesNext
    <3> QED  BY <3>1, <1>1, <1>2, AddressedKept
  <2> QED  BY <2>4, <2>5, <2>6, <2>7 DEF LInv
<1> QED  BY <1>4, <1>5, <1>1 DEF TypeOK

LEMMA SilentLate ==
  ASSUME IInv, LInv, Takes, running' => running,
         UNCHANGED <<toDaemon, map, live, created, wid, known, conn, session, enabled>>
  PROVE  LInv'
<1>1. Quiet'
  BY QuietKept
<1>2. CreatedFirst' /\ Accounted'
  BY DEF LInv, CreatedFirst, Accounted, Told, Announces, Owned, Ending, IsDestroy
<1>3. \A i \in Ids : Arrives(i) => ArrivesNext(i)
  BY DEF Arrives, Reaches, ArrivesNext
<1>4. Addressed'
  BY <1>3, AddressedKept DEF LInv, IInv
<1> QED  BY <1>1, <1>2, <1>4 DEF LInv

LEMMA ReadEventLate ==
  ASSUME IInv, LInv, ReadEvent
  PROVE  LInv'
<1> DEFINE m == Head(toAgent)
           w == map[m.win]
<1>1. /\ Takes /\ UNCHANGED <<enabled, conn, session, known>>
      /\ running /\ conn # "waiting" /\ toAgent # <<>>
  BY DEF ReadEvent, AgentTurn, Takes, daemonVars
<1>2. m.win \in Ids
  BY TailElements, MessagesTyped DEF ReadEvent, IInv, TypeOK
<1>3. CASE UNCHANGED <<idVars, windowVars, toDaemon>>
  BY <1>1, <1>3, SilentLate DEF idVars, windowVars
<1>4. CASE Delivered(m) /\ Reaches(w, m.win) /\ HandleConfigure(w) /\ UNCHANGED running
  <2> DEFINE said == Msg("UPDATE", wid[w])
  <2>1. wid[w] = m.win /\ Send(<<said>>) /\ UNCHANGED <<map, live, wid, created, running>>
    BY <1>4 DEF Reaches, HandleConfigure, idVars
  <2>2. said \in AgentMessages /\ said.op # "CREATE"
    BY <2>1, <1>2 DEF Msg, AgentMessages
  <2> HIDE DEF said, w, m
  <2>3. /\ CreatedFirst' /\ \A i : ToldNext(i) => Told(i)
        /\ \A k \in DOMAIN toDaemon : k \in DOMAIN toDaemon' /\ toDaemon'[k] = toDaemon[k]
    BY <1>1, <2>1, <2>2, OneSaid
  <2>4. Quiet'
    <3>1. conn = "broken" \/ (conn = "handshaken" /\ toAgent = <<>>) \/ conn = "up"
      BY <1>1 DEF LInv, Quiet, IInv, TypeOK, ConnStates
    <3> QED  BY <3>1, <1>1, <2>1, QuietKept DEF Send
  <2>5. Accounted'
    <3>1. \A i \in Ids : ToldNext(i) => Owned(i) \/ Ending(i)
      BY <2>3 DEF LInv, Accounted
    <3>2. \A i : Ending(i) => \E k \in DOMAIN toDaemon' :
                                toDaemon'[k].op = "DESTROY" /\ toDaemon'[k].win = i
      BY <2>3 DEF Ending, IsDestroy
    <3> QED  BY <3>1, <3>2, <2>1
             DEF Accounted, Told, Announces, ToldNext, Owned, Ending, IsDestroy
  <2>6. Addressed'
    <3>1. \A i \in Ids : Arrives(i) => ArrivesNext(i)
      BY <2>1 DEF Arrives, Reaches, ArrivesNext
    <3> QED  BY <3>1, <2>1, <1>1, AddressedKept DEF LInv, IInv
  <2> QED  BY <2>3, <2>4, <2>5, <2>6 DEF LInv
<1>5. CASE Delivered(m) /\ Reaches(w, m.win) /\ Deinit(w) /\ UNCHANGED running
  BY <1>1, <1>5, DeinitLate DEF Delivered, Reaches
<1> QED  BY <1>1, <1>3, <1>4, <1>5 DEF ReadEvent, HandleClose

\* Where nothing was told, nothing is to account for.
LEMMA NothingTold ==
  ASSUME toDaemon' = <<>>, known' = {}
  PROVE  CreatedFirst' /\ Accounted'
BY DEF CreatedFirst, Accounted, Told, Announces

LEMMA BreaksLate ==
  ASSUME IInv, LInv, Breaks, conn # "waiting",
         UNCHANGED <<enabled, map, live, wid, created, running, session>>
  PROVE  LInv'
<1>1. Quiet' /\ CreatedFirst' /\ Accounted'
  BY NothingTold DEF Breaks, LInv, Quiet
<1>2. Addressed'
  BY DEF Breaks, LInv, Addressed, Arrives, Reaches, IsDestroy
<1> QED  BY <1>1, <1>2 DEF LInv

LEMMA SessionStepsLate ==
  ASSUME IInv, LInv,
         ReadDestroy \/ Reconnect \/ ReconnectFails \/ Reconnected
           \/ DaemonConnects \/ Disconnect \/ UNCHANGED vars
  PROVE  LInv'
<1>1. CASE ReadDestroy
  <2>1. /\ Takes /\ UNCHANGED <<toDaemon, known, conn, session, live, created, wid>>
        /\ map' = [map EXCEPT ![Head(toAgent).win] = NoEntry] /\ running
        /\ (enabled' = enabled /\ running' = running) \/ (~enabled' /\ ~running')
    BY <1>1 DEF ReadDestroy, AgentTurn, Takes, windowVars, daemonVars
  <2>2. Quiet'
    <3>1. toAgent' # <<>> => toAgent # <<>>
      BY <2>1 DEF Takes
    <3>2. CASE enabled' = enabled /\ running' = running
      BY <2>1, <3>1, <3>2 DEF LInv, Quiet
    <3>3. CASE ~enabled' /\ ~running'
      BY <2>1, <3>1, <3>3 DEF LInv, Quiet
    <3> QED  BY <2>1, <3>2, <3>3
  <2>3. CreatedFirst' /\ Accounted'
    BY <2>1 DEF LInv, CreatedFirst, Accounted, Told, Announces, Owned, Ending, IsDestroy
  <2>4. ASSUME NEW i \in Ids, map[i] \in Windows => Arrives(i), map'[i] \in Windows
        PROVE  ArrivesNext(i)
    <3>1. map'[i] = map[i]
      BY <2>1, <2>4, PointerAssumption DEF IInv, TypeOK
    <3> QED  BY <2>1, <2>4, <3>1 DEF Arrives, Reaches, ArrivesNext
  <2>5. Addressed'
    BY <2>1, <2>4, AddressedKept DEF LInv, IInv
  <2> QED  BY <2>2, <2>3, <2>5 DEF LInv
<1>2. CASE Reconnect
  <2>1. /\ toDaemon' = <<>> /\ toAgent' = <<>> /\ conn = "broken" /\ conn' = "waiting"
        /\ enabled' = FALSE /\ UNCHANGED <<known, session, live>>
    BY <1>2 DEF Reconnect, daemonVars, windowVars
  <2>2. Quiet' /\ known' = {}
    BY <2>1 DEF LInv, Quiet
  <2>3. Addressed'
    BY <2>1 DEF Addressed
  <2> QED  BY <2>1, <2>2, <2>3, NothingTold DEF LInv
<1>3. CASE ReconnectFails
  <2>1. /\ enabled' = FALSE /\ running' = FALSE
        /\ UNCHANGED <<map, live, created, wid, conn, session, toDaemon, toAgent, known>>
    BY <1>3 DEF ReconnectFails, idVars, windowVars, daemonVars
  <2>2. Quiet'
    BY <2>1 DEF LInv, Quiet
  <2> QED  BY <2>1, <2>2 DEF LInv, CreatedFirst, Accounted, Addressed, Arrives, Reaches,
                             Told, Announces, Owned, Ending, IsDestroy
<1>4. CASE Reconnected
  <2>1. /\ conn = "handshaken" /\ conn' = "up" /\ toAgent' = <<>> /\ enabled' = TRUE
        /\ session' = session + 1 /\ session \in Nat
        /\ UNCHANGED <<toDaemon, known>>
    BY <1>4 DEF Reconnected, daemonVars, IInv, TypeOK
  <2>2. toDaemon' = <<>> /\ known' = {}
    BY <2>1 DEF LInv, Quiet
  <2>3. Quiet'
    BY <2>1, <2>2 DEF Quiet
  <2>4. Addressed'
    BY <2>1 DEF Addressed
  <2> QED  BY <2>2, <2>3, <2>4, NothingTold DEF LInv
<1>5. CASE DaemonConnects
  <2>1. /\ conn = "waiting" /\ conn' = "handshaken"
        /\ UNCHANGED <<enabled, map, live, created, wid, running, session, toDaemon,
                       toAgent, known>>
    BY <1>5 DEF DaemonConnects, idVars, windowVars, daemonVars
  <2>2. Quiet'
    BY <2>1 DEF LInv, Quiet
  <2> QED  BY <2>1, <2>2 DEF LInv, CreatedFirst, Accounted, Addressed, Arrives, Reaches,
                             Told, Announces, Owned, Ending, IsDestroy
<1>6. CASE Disconnect
  BY <1>6, BreaksLate DEF Disconnect, Connected, idVars, windowVars
<1>7. CASE UNCHANGED vars
  BY <1>7, SilentLate DEF vars, idVars, windowVars, daemonVars, Takes
<1> QED  BY <1>1, <1>2, <1>3, <1>4, <1>5, <1>6, <1>7

\* The daemon has no window but what the agent has, or is about to strike out.
LEMMA DaemonSendsLate ==
  ASSUME IInv, LInv, NEW op \in {"CONFIGURE", "CLOSE"}, NEW id \in Ids, DaemonSends(op, id)
  PROVE  LInv'
<1> DEFINE m == Event(op, id)
<1>1. /\ UNCHANGED <<toDaemon, known, map, live, created, wid, enabled, conn, session, running>>
      /\ toAgent' = Append(toAgent, m) /\ id \in known
  BY DEF DaemonSends, idVars, windowVars, daemonVars
<1>2. m \in DaemonMessages /\ m.win = id
  BY DEF Event, DaemonMessages
<1>3. \A k \in DOMAIN toAgent' :
        (k \in DOMAIN toAgent /\ toAgent'[k] = toAgent[k]) \/ toAgent'[k] = m
  BY <1>1, <1>2, AppendElements DEF IInv, TypeOK
<1>4. Quiet' /\ CreatedFirst' /\ Accounted'
  BY <1>1 DEF LInv, Quiet, CreatedFirst, Accounted, Told, Announces, Owned, Ending, IsDestroy
<1>5. map[id] \in Windows => Arrives(id)
  <2>1. Owned(id) \/ Ending(id)
    BY <1>1 DEF LInv, Accounted, Told
  <2>2. Ending(id) => map[id] = NullPtr
    BY DEF Ending, IInv, Struck, StruckToDaemon
  <2>3. ASSUME NEW v \in live, created[v], wid[v] = id PROVE map[id] = v
    BY <2>3 DEF IInv, Owners
  <2> QED  BY <2>1, <2>2, <2>3, PointerAssumption DEF Owned, Arrives, Reaches
<1>6. \A k \in DOMAIN toAgent' :
        toAgent'[k].op # "DESTROY" /\ map[toAgent'[k].win] \in Windows
          => Arrives(toAgent'[k].win)
  BY <1>2, <1>3, <1>5 DEF LInv, Addressed, IsDestroy
<1>7. Addressed'
  BY <1>1, <1>6 DEF Addressed, Arrives, Reaches, IsDestroy
<1> QED  BY <1>4, <1>7 DEF LInv

LEMMA DaemonReadsLate ==
  ASSUME IInv, TInv, LInv, DaemonReads
  PROVE  LInv'
<1> DEFINE m == Head(toDaemon)
<1>1. /\ toDaemon # <<>> /\ conn = "up"
      /\ UNCHANGED <<enabled, map, live, wid, created, running, session>>
  BY DEF DaemonReads, idVars, windowVars, LInv, Quiet
<1>2. CASE Breaks
  BY <1>1, <1>2, BreaksLate
<1>3. CASE ~Breaks
  <2>1. /\ toDaemon' = Tail(toDaemon) /\ conn' = conn
        /\ known' = CASE m.op = "CREATE"  -> known \cup {m.win}
                      [] m.op = "DESTROY" -> known \ {m.win}
                      [] OTHER            -> known
        /\ toAgent' = IF m.op = "DESTROY"
                      THEN Append(toAgent, Event("DESTROY", m.win)) ELSE toAgent
    BY <1>3 DEF DaemonReads
  <2>2. /\ 1 \in DOMAIN toDaemon /\ m = toDaemon[1] /\ DOMAIN toDaemon \subseteq Nat
        /\ \A k \in DOMAIN toDaemon' :
             k \in Nat /\ k # 0 /\ k + 1 \in DOMAIN toDaemon /\ toDaemon'[k] = toDaemon[k + 1]
        /\ \A k \in DOMAIN toDaemon : k # 1 =>
             k - 1 \in DOMAIN toDaemon' /\ toDaemon'[k - 1] = toDaemon[k]
    BY <1>1, <2>1, TailElements DEF IInv, TypeOK
  <2>3. /\ m.op = "CREATE" => known' = known \cup {m.win}
        /\ m.op = "DESTROY" => known' = known \ {m.win}
        /\ m.op \notin {"CREATE", "DESTROY"} => known' = known
    BY <2>1
  <2>4. \A k \in DOMAIN toDaemon' :
          /\ 1 \in 1 .. ((k + 1) - 1)
          /\ \A l \in 1 .. (k - 1) : l + 1 \in 1 .. ((k + 1) - 1) /\ toDaemon'[l] = toDaemon[l + 1]
    <3>1. toDaemon' \in Seq(AgentMessages)
      BY <1>1, <2>1, TailElements DEF IInv, TypeOK
    <3>2. \A k \in DOMAIN toDaemon' : \A l \in 1 .. (k - 1) : l \in DOMAIN toDaemon'
      BY <3>1
    <3> QED  BY <3>2, <2>2
  <2>5. Quiet'
    <3>1. conn' = "up" /\ session # 0 /\ (running' => enabled')
      BY <1>1, <2>1 DEF LInv, Quiet
    <3> QED  BY <3>1, <1>1 DEF LInv, Quiet
  <2>6. CreatedFirst'
    <3>1. ASSUME NEW k \in DOMAIN toDaemon', toDaemon'[k].op = "CREATE"
          PROVE  /\ toDaemon'[k].win \notin known'
                 /\ \A l \in 1 .. (k - 1) : toDaemon'[l].win # toDaemon'[k].win
      <4>1. /\ toDaemon[k + 1].win \notin known
            /\ \A l \in 1 .. ((k + 1) - 1) : toDaemon[l].win # toDaemon[k + 1].win
        BY <3>1, <2>2 DEF LInv, CreatedFirst
      <4>2. m.win # toDaemon[k + 1].win
        BY <4>1, <2>2, <2>4
      <4> QED  BY <4>1, <4>2, <2>2, <2>3, <2>4
    <3> QED  BY <3>1 DEF CreatedFirst
  <2>7. ASSUME NEW i, ToldNext(i)
        PROVE  Told(i) /\ ~(m.op = "DESTROY" /\ m.win = i)
    <3>1. CASE i \in known'
      BY <3>1, <2>2, <2>3 DEF Told, Announces
    <3>2. ASSUME NEW k \in DOMAIN toDaemon', toDaemon'[k].op = "CREATE", toDaemon'[k].win = i
          PROVE  Told(i) /\ ~(m.op = "DESTROY" /\ m.win = i)
      <4>1. k + 1 \in DOMAIN toDaemon /\ Announces(k + 1, i)
        BY <3>2, <2>2 DEF Announces
      <4>2. m.op = "DESTROY" => m.win # i
        BY <4>1, <3>2, <2>2, <2>4 DEF TInv, InOrder, IsDestroy, Announces
      <4> QED  BY <4>1, <4>2 DEF Told
    <3> QED  BY <3>1, <3>2, <2>7 DEF ToldNext
  <2>8. Accounted'
    <3>1. ASSUME NEW i \in Ids, ToldNext(i)
          PROVE  \/ Owned(i)
                 \/ \E k \in DOMAIN toDaemon' :
                      toDaemon'[k].op = "DESTROY" /\ toDaemon'[k].win = i
      <4>1. (Owned(i) \/ Ending(i)) /\ ~(m.op = "DESTROY" /\ m.win = i)
        BY <3>1, <2>7 DEF LInv, Accounted
      <4>2. ASSUME NEW k \in DOMAIN toDaemon, toDaemon[k].op = "DESTROY", toDaemon[k].win = i
            PROVE  k - 1 \in DOMAIN toDaemon' /\ toDaemon'[k - 1] = toDaemon[k]
        BY <4>1, <4>2, <2>2
      <4> QED  BY <4>1, <4>2 DEF Ending, IsDestroy
    <3> QED  BY <3>1, <1>1 DEF Accounted, Told, Announces, ToldNext, Owned, Ending, IsDestroy
  <2>9. Addressed'
    <3>1. \A k \in DOMAIN toAgent' :
            toAgent'[k].op # "DESTROY" => k \in DOMAIN toAgent /\ toAgent'[k] = toAgent[k]
      <4>1. CASE m.op # "DESTROY"
        BY <4>1, <2>1
      <4>2. CASE m.op = "DESTROY"
        <5> DEFINE ack == Event("DESTROY", m.win)
        <5>1. m.win \in Ids
          BY <2>2, MessagesTyped DEF IInv
        <5>2. ack \in DaemonMessages /\ ack.op = "DESTROY" /\ toAgent' = Append(toAgent, ack)
          BY <5>1, <4>2, <2>1 DEF Event, DaemonMessages
        <5>3. \A k \in DOMAIN toAgent' :
                (k \in DOMAIN toAgent /\ toAgent'[k] = toAgent[k]) \/ toAgent'[k] = ack
          BY <5>2, AppendElements DEF IInv, TypeOK
        <5> QED  BY <5>2, <5>3
      <4> QED  BY <4>1, <4>2
    <3>2. \A k \in DOMAIN toAgent' :
            toAgent'[k].op # "DESTROY" /\ map[toAgent'[k].win] \in Windows
              => Arrives(toAgent'[k].win)
      BY <3>1 DEF LInv, Addressed, IsDestroy
    <3> QED  BY <3>2, <1>1 DEF Addressed, Arrives, Reaches, IsDestroy
  <2> QED  BY <2>5, <2>6, <2>8, <2>9 DEF LInv
<1> QED  BY <1>2, <1>3

LEMMA NextLate ==
  ASSUME ~EarlyClients, IInv, TInv, LInv, [Next]_vars
  PROVE  LInv'
<1>1. ASSUME NEW w \in Windows, NEW fit \in BOOLEAN,
             \/ NewView(w, fit) \/ XdgCommit(w) \/ XwaylandConfigure(w, fit)
             \/ MapWindow(w, fit) \/ UnmapWindow(w) \/ Describe(w) \/ RecreateWindow(w, fit)
      PROVE  LInv'
  <2>1. PICK f \in BOOLEAN : \E msgs : Ensuring(w, f, msgs)
    BY <1>1, HandlersSpeak
  <2>2. running /\ (w \in live \/ session > 0)
    BY <1>1 DEF NewView, XdgCommit, XwaylandConfigure, MapWindow, UnmapWindow, Describe,
                RecreateWindow, ClientTurn, IInv, TypeOK
  <2>3. session # 0
    BY <2>2 DEF LInv, Quiet
  <2> QED  BY <2>1, <2>2, <2>3, EnsuringLate
<1>2. ASSUME NEW w \in Windows, DestroyWindow(w)
      PROVE  LInv'
  BY <1>2, DeinitLate DEF DestroyWindow, ClientTurn, Takes, daemonVars
<1>3. CASE Client
  <2>1. PICK w \in Windows :
          \/ \E fit \in InitialSizes(w) : NewView(w, fit)
          \/ XdgCommit(w)
          \/ \E fit \in Sizes(w) : XwaylandConfigure(w, fit) \/ MapWindow(w, fit)
          \/ UnmapWindow(w)
          \/ Describe(w)
          \/ DestroyWindow(w)
    BY <1>3 DEF Client
  <2> QED  BY <2>1, <1>1, <1>2, SizesBoolean
<1>4. CASE Recreation
  BY <1>4, <1>1, SizesBoolean DEF Recreation
<1> QED  BY <1>3, <1>4, ReadEventLate, SessionStepsLate, DaemonSendsLate, DaemonReadsLate
         DEF Next, Daemon

-----------------------------------------------------------------------------
(* The theorems.                                                           *)

\* With any clients, messages are under way between the creation and the end
\* of their window, and the agent speaks of no window it has not announced.
THEOREM MessagesInOrder == Spec => []TInv
<1>1. ASSUME Init PROVE TInv
  BY <1>1 DEF Init, TInv, InOrder, CreatedTold, AskersTold
<1>2. IInv /\ TInv /\ [Next]_vars => TInv'
  BY NextTold
<1> QED  BY <1>1, <1>2, Invariance, PTL DEF Spec

\* The daemon never meets a message for a window it was not told of in this
\* session (the NOTE at qubes.rs:14-29), with or without early clients.
THEOREM CreatedBeforeUse == Spec => []NoMessageWithoutCreate
<1>1. ASSUME IInv, TInv PROVE NoMessageWithoutCreate
  <2>1. SUFFICES ASSUME toDaemon # <<>>, Head(toDaemon).op # "CREATE"
                 PROVE  Head(toDaemon).win \in known
    BY DEF NoMessageWithoutCreate
  <2>2. 1 \in DOMAIN toDaemon /\ Head(toDaemon) = toDaemon[1] /\ 1 .. (1 - 1) = {}
    BY <2>1, <1>1, TailElements DEF IInv, TypeOK
  <2> QED  BY <2>1, <2>2, <1>1 DEF TInv, InOrder
<1> QED  BY <1>1, Invariance, MessagesInOrder, PTL

\* With late clients, what the daemon will know is what the agent believes.
THEOREM LateInvariance == ASSUME ~EarlyClients PROVE Spec => []LInv
<1>1. ASSUME Init PROVE LInv
  BY <1>1 DEF Init, LInv, Quiet, CreatedFirst, Accounted, Addressed, Told, Announces
<1>2. IInv /\ TInv /\ LInv /\ [Next]_vars => LInv'
  BY NextLate
<1> QED  BY <1>1, <1>2, Invariance, MessagesInOrder, PTL DEF Spec

\* Nor is it told twice of a window in one session, which is what dropping
\* messages until the windows are recreated is for (qubes.rs:25-29).
THEOREM CreatedOnce == ASSUME ~EarlyClients PROVE Spec => []NoSecondCreate
<1>1. ASSUME IInv, LInv PROVE NoSecondCreate
  <2>1. SUFFICES ASSUME toDaemon # <<>>, Head(toDaemon).op = "CREATE"
                 PROVE  Head(toDaemon).win \notin known
    BY DEF NoSecondCreate
  <2>2. 1 \in DOMAIN toDaemon /\ Head(toDaemon) = toDaemon[1]
    BY <2>1, <1>1, TailElements DEF IInv, TypeOK
  <2> QED  BY <2>1, <2>2, <1>1 DEF LInv, CreatedFirst
<1> QED  BY <1>1, Invariance, LateInvariance, PTL

\* The daemon has no window whose id the agent has struck out for good
\* (destroy_id, qubes.rs:52-61, and the acknowledgement, qubes.rs:112-121).
THEOREM NoWindowLeftOver == ASSUME ~EarlyClients PROVE Spec => []NoGhostWindow
<1>1. ASSUME IInv, LInv PROVE NoGhostWindow
  <2>1. SUFFICES ASSUME NEW id \in known PROVE map[id] # NoEntry
    BY DEF NoGhostWindow
  <2>2. id \in Ids /\ (Owned(id) \/ Ending(id))
    BY <1>1 DEF LInv, Accounted, Told, IInv, TypeOK
  <2>3. Ending(id) => map[id] = NullPtr
    BY <1>1 DEF Ending, IInv, Struck, StruckToDaemon
  <2>4. Owned(id) => map[id] \in Windows
    BY <1>1 DEF Owned, IInv, Owners, TypeOK
  <2> QED  BY <2>2, <2>3, <2>4, PointerAssumption
<1> QED  BY <1>1, Invariance, LateInvariance, PTL

\* A message that qubes.rs passes on reaches a live output with the id it was
\* sent for: the pointer is not that of a freed one (qubes_input.c:582).
THEOREM DispatchAlive == ASSUME ~EarlyClients PROVE Spec => []DispatchReachesWindow
<1>1. ASSUME IInv, LInv PROVE DispatchReachesWindow
  <2>1. SUFFICES ASSUME toAgent # <<>>, Delivered(Head(toAgent))
                 PROVE  Reaches(map[Head(toAgent).win], Head(toAgent).win)
    BY DEF DispatchReachesWindow
  <2>2. 1 \in DOMAIN toAgent /\ Head(toAgent) = toAgent[1]
    BY <2>1, <1>1, TailElements DEF IInv, TypeOK
  <2> QED  BY <2>1, <2>2, <1>1 DEF LInv, Addressed, Arrives, Delivered, IsDestroy
<1> QED  BY <1>1, Invariance, LateInvariance, PTL

=============================================================================
