----------------------------- MODULE Seat_proofs -----------------------------
(***************************************************************************)
(* Theorems about Seat, for any finite sets of windows and keys, any       *)
(* nesting of popups and any capacity of the keyboard's array.             *)
(*                                                                         *)
(* That the focus is never given to a window that is gone (FocusIsAlive)   *)
(* is not inductive: it rests on the messages that wait for the agent      *)
(* being for windows that live (AddresseesLive), which rests on what the   *)
(* daemon may still address: a window that it shows and that is gone has   *)
(* its MSG_DESTROY on the way (DestroyAnnounced), also one whose MSG_MAP   *)
(* it has not read yet (MapsAnnounced).  IInv is the conjunction.          *)
(*                                                                         *)
(* That keys and focus are in step when nothing is under way (InSync)      *)
(* rests on what the waiting messages will make of them (FocusFollows,     *)
(* KeysFollow): for each key, the last message about it that is not        *)
(* dropped gives it the state it has on the host.                          *)
(***************************************************************************)
EXTENDS Seat, FiniteSetTheorems, SequenceTheorems, TLAPS

\* A message that waits for the agent and names a window names a live one.
Live(q) == \A i \in DOMAIN q : q[i].win \in Windows => state[q[i].win] # "absent"

AddresseesLive == Live(toAgent)

\* The destruction of w comes in the queue to the daemon after position i.
DestroyAfter(w, i) ==
  \E j \in DOMAIN toDaemon : j > i /\ toDaemon[j] = [type |-> "DESTROY", win |-> w]

\* What the daemon shows and is gone will be destroyed there ...
DestroyAnnounced ==
  \A w \in known : state[w] = "absent" => DestroyAfter(w, 0)

\* ... and so will what it is still to show.
MapsAnnounced ==
  \A w \in Windows, i \in DOMAIN toDaemon :
    toDaemon[i] = [type |-> "MAP", win |-> w] /\ state[w] = "absent"
      => DestroyAfter(w, i)

\* The host gives its focus to a window that it shows.
HostFocusShown == hostFocus # NoWindow => hostFocus \in known

\* No session, nothing shown and nothing under way.
CutOff == ~connected => known = {} /\ toDaemon = <<>>

Announced == DestroyAnnounced /\ MapsAnnounced /\ HostFocusShown /\ CutOff

IInv ==
  TypeOK /\ HeldIsTracked /\ ActiveIsFocused /\ FocusIsAlive
    /\ AddresseesLive /\ Announced

USE SeatAssumption

DaemonMessages == [type : {"MAP", "UNMAP", "DESTROY"}, win : Windows]

-----------------------------------------------------------------------------
(* Sequences.                                                              *)

LEMMA AppendElements ==
  ASSUME NEW S, NEW s \in Seq(S), NEW e \in S
  PROVE  /\ Append(s, e) \in Seq(S)
         /\ Len(Append(s, e)) = Len(s) + 1
         /\ DOMAIN s \subseteq DOMAIN Append(s, e)
         /\ Len(s) + 1 \in DOMAIN Append(s, e) /\ Append(s, e)[Len(s) + 1] = e
         /\ \A k \in DOMAIN s : Append(s, e)[k] = s[k] /\ k < Len(s) + 1
         /\ \A k \in DOMAIN Append(s, e) : k \in DOMAIN s \/ k = Len(s) + 1
OBVIOUS

LEMMA ConcatElements ==
  ASSUME NEW S, NEW s \in Seq(S), NEW t \in Seq(S)
  PROVE  /\ s \o t \in Seq(S)
         /\ \A k \in DOMAIN (s \o t) :
              \/ k \in DOMAIN s /\ (s \o t)[k] = s[k]
              \/ k - Len(s) \in DOMAIN t /\ (s \o t)[k] = t[k - Len(s)]
OBVIOUS

LEMMA TailElements ==
  ASSUME NEW S, NEW s \in Seq(S), s # <<>>
  PROVE  /\ Tail(s) \in Seq(S)
         /\ Head(s) \in S /\ 1 \in DOMAIN s /\ Head(s) = s[1]
         /\ \A k \in DOMAIN Tail(s) : k + 1 \in DOMAIN s /\ Tail(s)[k] = s[k + 1]
         /\ \A k \in DOMAIN s : k # 1 => k - 1 \in DOMAIN Tail(s) /\ Tail(s)[k - 1] = s[k]
         /\ DOMAIN Tail(s) \subseteq Nat \ {0} /\ DOMAIN s \subseteq Nat \ {0}
OBVIOUS

LEMMA EmptyQueue == ASSUME NEW S PROVE <<>> \in Seq(S)
OBVIOUS

LEMMA QueueOf ==
  ASSUME NEW S, NEW n \in Nat, NEW q \in [1 .. n -> S]
  PROVE  q \in Seq(S)
OBVIOUS

\* Striking a window out of a queue changes no other message.
LEMMA StruckElements ==
  ASSUME NEW q \in Seq(AgentMessages), NEW w \in Windows
  PROVE  /\ Struck(q, w) \in Seq(AgentMessages)
         /\ DOMAIN Struck(q, w) = DOMAIN q
         /\ \A i \in DOMAIN q : /\ Struck(q, w)[i].win # w
                                /\ \/ Struck(q, w)[i].win = Gone
                                   \/ Struck(q, w)[i].win = q[i].win
<1> DEFINE s == Struck(q, w)
<1>1. s = [i \in 1 .. Len(q) |->
             IF q[i].win = w THEN [q[i] EXCEPT !.win = Gone] ELSE q[i]]
  BY DEF Struck
<1>2. ASSUME NEW m \in AgentMessages, m.win = w
      PROVE  [m EXCEPT !.win = Gone] \in AgentMessages /\ [m EXCEPT !.win = Gone].win = Gone
  BY <1>2 DEF AgentMessages
<1>3. ASSUME NEW i \in 1 .. Len(q)
      PROVE  /\ s[i] \in AgentMessages /\ s[i].win # w
             /\ s[i].win = Gone \/ s[i].win = q[i].win
  <2>1. q[i] \in AgentMessages
    OBVIOUS
  <2>2. s[i] = IF q[i].win = w THEN [q[i] EXCEPT !.win = Gone] ELSE q[i]
    BY <1>1
  <2> HIDE DEF s
  <2>3. QED
    BY <1>2, <2>1, <2>2
<1>4. Len(q) \in Nat /\ DOMAIN q = 1 .. Len(q) /\ DOMAIN s = 1 .. Len(q)
  BY <1>1
<1> HIDE DEF s
<1>5. s \in Seq(AgentMessages)
  <2>1. s = [i \in 1 .. Len(q) |-> s[i]]
    BY <1>1
  <2>2. QED
    BY <1>3, <1>4, <2>1
<1>6. QED
  BY <1>3, <1>4, <1>5 DEF s

-----------------------------------------------------------------------------
(* Types.                                                                  *)

LEMMA HeadTyped ==
  ASSUME TypeOK, toAgent # <<>>
  PROVE  /\ Head(toAgent) \in AgentMessages /\ Tail(toAgent) \in Seq(AgentMessages)
         /\ Head(toAgent).win \in Windows \cup {NoWindow, Gone}
         /\ Head(toAgent).type \in {"FOCUS_IN", "FOCUS_OUT", "KEYPRESS", "WINDOW_FLAGS"}
              /\ Head(toAgent).win # Gone => Head(toAgent).win \in Windows
         /\ Head(toAgent).type = "KEYPRESS" =>
              Head(toAgent).key \in Keys /\ Head(toAgent).pressed \in BOOLEAN
         /\ Head(toAgent).type = "KEYMAP_NOTIFY" => Head(toAgent).keys \subseteq Bits(Keys)
         /\ Head(toAgent).type = "WINDOW_FLAGS" => Head(toAgent).minimize \in BOOLEAN
<1>1. Head(toAgent) \in AgentMessages /\ Tail(toAgent) \in Seq(AgentMessages)
  BY TailElements DEF TypeOK
<1>2. QED
  BY <1>1 DEF AgentMessages

\* The array of the wlr_keyboard stays within its capacity.
LEMMA PressedFits ==
  ASSUME NEW codes \in SUBSET Keys, Cardinality(codes) <= KeysCap, NEW k \in Keys
  PROVE  /\ PressedSet(codes, k) \subseteq codes \cup {k}
         /\ Cardinality(PressedSet(codes, k)) <= KeysCap
<1>1. IsFiniteSet(codes)
  BY FS_Subset
<1>2. Cardinality(codes) \in Nat
  BY <1>1, FS_CardinalityType
<1>3. CASE Cardinality(codes) < KeysCap
  <2>1. Cardinality(codes \cup {k}) =
          IF k \in codes THEN Cardinality(codes) ELSE Cardinality(codes) + 1
    BY <1>1, FS_AddElement
  <2>2. Cardinality(codes \cup {k}) <= KeysCap
    BY <1>2, <1>3, <2>1
  <2>3. QED
    BY <1>2, <1>3, <2>1, <2>2 DEF PressedSet
<1>4. CASE ~(Cardinality(codes) < KeysCap)
  BY <1>4 DEF PressedSet
<1>5. QED
  BY <1>3, <1>4

LEMMA ReleasedFits ==
  ASSUME NEW codes \in SUBSET Keys, Cardinality(codes) <= KeysCap, NEW ks
  PROVE  Cardinality(codes \ ks) <= KeysCap
<1>1. IsFiniteSet(codes) /\ codes \ ks \in SUBSET codes
  BY FS_Subset
<1>2. Cardinality(codes) \in Nat /\ Cardinality(codes \ ks) \in Nat
        /\ Cardinality(codes \ ks) <= Cardinality(codes)
  BY <1>1, FS_Subset, FS_CardinalityType
<1>3. QED
  BY <1>2

KeysTyped ==
  /\ keymap \subseteq Keys \cup Bits(Keys) /\ clientKeys \subseteq Keys
  /\ keycodes \subseteq Keys \cap keymap /\ Cardinality(keycodes) <= KeysCap

LEMMA KeypressTyped ==
  ASSUME TypeOK, NEW k \in Keys, NEW pressed \in BOOLEAN, Keypress(k, pressed)
  PROVE  KeysTyped'
<1> USE DEF KeysTyped
<1>0. /\ keymap \subseteq Keys \cup Bits(Keys) /\ clientKeys \subseteq Keys
      /\ keycodes \subseteq Keys \cap keymap /\ Cardinality(keycodes) <= KeysCap
      /\ keycodes \in SUBSET Keys
      /\ keymap' = IF pressed THEN keymap \cup {k} ELSE keymap \ {k}
  BY DEF TypeOK, Keypress
<1>1. CASE pressed /\ k \notin keymap
  <2>1. keycodes' = PressedSet(keycodes, k) /\ clientKeys' \subseteq clientKeys \cup {k}
    BY <1>1 DEF Keypress, NotifyPressed
  <2>2. QED
    BY <1>0, <1>1, <2>1, PressedFits
<1>2. CASE ~pressed /\ k \in keymap
  <2>1. keycodes' = keycodes \ {k} /\ clientKeys' = clientKeys \ {k}
    BY <1>2 DEF Keypress, NotifyReleased
  <2>2. QED
    BY <1>0, <1>2, <2>1, ReleasedFits
<1>3. CASE (k \in keymap) = pressed
  <2>1. UNCHANGED <<keycodes, clientKeys>>
    BY <1>3 DEF Keypress
  <2>2. QED
    BY <1>0, <1>3, <2>1
<1>4. QED
  BY <1>1, <1>2, <1>3

LEMMA KeymapTyped ==
  ASSUME TypeOK, NEW down \in SUBSET Bits(Keys), KeymapNotify(down)
  PROVE  KeysTyped'
<1>1. keymap' = down /\ keycodes' = keycodes \ (keymap \ down)
        /\ clientKeys' = clientKeys \ (keymap \ down)
  BY DEF KeymapNotify, NotifyReleased
<1>2. /\ clientKeys \subseteq Keys /\ keycodes \subseteq Keys \cap keymap
      /\ Cardinality(keycodes) <= KeysCap
  BY DEF TypeOK
<1>3. QED
  BY <1>1, <1>2, ReleasedFits DEF KeysTyped

FocusTyped ==
  /\ focus \in Windows \cup {NoWindow, Gone}
  /\ active \subseteq Toplevels /\ lent \subseteq Toplevels
  /\ clientKeys \subseteq Keys

LEMMA GiveFocusTyped ==
  ASSUME TypeOK, NEW w \in Windows, GiveFocus(w)
  PROVE  FocusTyped'
<1>1. FocusTyped /\ keycodes \subseteq Keys
  BY DEF TypeOK, FocusTyped
<1>2. QED
  BY <1>1 DEF GiveFocus, FocusTyped, Deactivated

LEMMA HeadToDaemonTyped ==
  ASSUME TypeOK, toDaemon # <<>>
  PROVE  /\ Head(toDaemon) \in DaemonMessages /\ Tail(toDaemon) \in Seq(DaemonMessages)
         /\ Head(toDaemon).win \in Windows
<1>1. toDaemon \in Seq(DaemonMessages)
  BY DEF TypeOK, DaemonMessages
<1>2. Head(toDaemon) \in DaemonMessages /\ Tail(toDaemon) \in Seq(DaemonMessages)
  BY <1>1, TailElements
<1>3. QED
  BY <1>2 DEF DaemonMessages

LEMMA SendTyped ==
  ASSUME TypeOK, NEW m \in DaemonMessages, Send(m)
  PROVE  toDaemon' \in Seq(DaemonMessages)
<1>1. toDaemon \in Seq(DaemonMessages)
  BY DEF TypeOK, DaemonMessages
<1>2. QED
  BY <1>1, AppendElements DEF Send

LEMMA FreedTyped ==
  ASSUME TypeOK, NEW w \in Windows, NEW q \in Seq(AgentMessages), Freed(w, q)
  PROVE  /\ state' \in [Windows -> {"absent", "hidden", "shown"}]
         /\ active' \subseteq Toplevels /\ lent' \subseteq Toplevels
         /\ toDaemon' \in Seq(DaemonMessages) /\ toAgent' \in Seq(AgentMessages)
<1>1. [type |-> "DESTROY", win |-> w] \in DaemonMessages
  BY DEF DaemonMessages
<1>2. toDaemon' \in Seq(DaemonMessages)
  BY <1>1, SendTyped DEF Freed
<1>3. toAgent' \in Seq(AgentMessages)
  BY StruckElements DEF Freed
<1>4. QED
  BY <1>2, <1>3 DEF Freed, TypeOK

LEMMA AddresseeTyped ==
  ASSUME NEW w \in Windows
  PROVE  Addressee(w) \in Windows \cup {Gone}
BY DEF Addressee

LEMMA TellTyped ==
  ASSUME TypeOK, NEW ms \in Seq(AgentMessages), Tell(ms)
  PROVE  toAgent' \in Seq(AgentMessages)
<1>1. toAgent \in Seq(AgentMessages)
  BY DEF TypeOK
<1>2. QED
  BY <1>1, ConcatElements DEF Tell

LEMMA TellTwoTyped ==
  ASSUME TypeOK, NEW m \in AgentMessages, NEW n \in AgentMessages, Tell(<<m, n>>)
  PROVE  toAgent' \in Seq(AgentMessages)
<1>1. <<m, n>> \in Seq(AgentMessages)
  OBVIOUS
<1>2. QED
  BY <1>1, TellTyped

LEMMA TellOneTyped ==
  ASSUME TypeOK, NEW m \in AgentMessages, Tell(<<m>>)
  PROVE  toAgent' \in Seq(AgentMessages)
<1>1. <<m>> \in Seq(AgentMessages)
  OBVIOUS
<1>2. QED
  BY <1>1, TellTyped

-----------------------------------------------------------------------------
(* Every step keeps the types: one step of the proof per action.           *)

LEMMA TypeInit == Init => TypeOK
<1> SUFFICES ASSUME Init PROVE TypeOK
  OBVIOUS
<1>1. Cardinality({}) <= KeysCap
  BY FS_EmptySet
<1>2. toDaemon \in Seq(DaemonMessages) /\ toAgent \in Seq(AgentMessages)
  BY EmptyQueue DEF Init
<1>3. QED
  BY <1>1, <1>2 DEF Init, TypeOK, DaemonMessages

LEMMA TypeStep == TypeOK /\ [Next]_vars => TypeOK'
<1> SUFFICES ASSUME TypeOK, [Next]_vars PROVE TypeOK'
  OBVIOUS
<1> USE DEF TypeOK, CanSend, CanTell, agentVars, daemonVars, DaemonMessages
<1>1. CASE UNCHANGED vars
  BY <1>1 DEF vars
<1>2. CASE ReadForGone
  BY <1>2, HeadTyped DEF ReadForGone
<1>3. CASE ReadKeypress
  <2>1. KeysTyped'
    BY <1>3, HeadTyped, KeypressTyped DEF ReadKeypress, Received, Addressed
  <2>2. QED
    BY <1>3, <2>1, HeadTyped DEF ReadKeypress, Received, KeysTyped
<1>4. CASE ReadKeymapNotify
  <2>1. KeysTyped'
    BY <1>4, HeadTyped, KeymapTyped DEF ReadKeymapNotify, Received
  <2>2. QED
    BY <1>4, <2>1, HeadTyped DEF ReadKeymapNotify, Received, KeysTyped
<1>5. CASE ReadFocusIn
  <2>1. FocusTyped'
    BY <1>5, HeadTyped, GiveFocusTyped DEF ReadFocusIn, Received, Addressed
  <2>2. QED
    BY <1>5, <2>1, HeadTyped DEF ReadFocusIn, Received, FocusTyped
<1>6. CASE ReadFocusOut
  BY <1>6, HeadTyped DEF ReadFocusOut, Received, ClearFocus
<1>7. CASE ReadFocusOutOfPopup
  <2>1. focus \in Windows /\ Tail(toAgent) \in Seq(AgentMessages)
    BY <1>7, HeadTyped DEF ReadFocusOutOfPopup, Received, Popups
  <2>2. CASE Freed(focus, Tail(toAgent)) /\ ClearFocus /\ UNCHANGED running
    BY <1>7, <2>1, <2>2, FreedTyped DEF ReadFocusOutOfPopup, ClearFocus
  <2>3. CASE /\ running' = FALSE
             /\ toAgent' = Tail(toAgent)
             /\ UNCHANGED <<state, focus, active, lent, clientKeys, toDaemon>>
    BY <1>7, <2>1, <2>3 DEF ReadFocusOutOfPopup
  <2>4. QED
    BY <1>7, <2>2, <2>3 DEF ReadFocusOutOfPopup
<1>8. CASE ReadFlags
  BY <1>8, HeadTyped DEF ReadFlags, Received
<1>9. CASE Disconnect
  <2>1. toDaemon' \in Seq(DaemonMessages) /\ toAgent' \in Seq(AgentMessages)
    BY <1>9, EmptyQueue DEF Disconnect
  <2>2. QED
    BY <1>9, <2>1 DEF Disconnect
<1>10. CASE Reconnect
  <2> DEFINE mapped == {w \in Windows : state[w] = "shown"}
  <2>1. Cardinality(mapped) \in Nat
    BY FS_Subset, FS_CardinalityType
  <2>2. PICK order \in [1 .. Cardinality(mapped) -> mapped] :
          toDaemon' = [i \in DOMAIN order |-> [type |-> "MAP", win |-> order[i]]]
    BY <1>10 DEF Reconnect
  <2> HIDE DEF mapped, DaemonMessages
  <2>3. toDaemon' = [i \in 1 .. Cardinality(mapped) |-> [type |-> "MAP", win |-> order[i]]]
    BY <2>2
  <2> DEFINE mapOf(i) == [type |-> "MAP", win |-> order[i]]
  <2>4. \A i \in 1 .. Cardinality(mapped) : mapOf(i) \in DaemonMessages
    BY <2>2 DEF mapped, DaemonMessages
  <2>5. toDaemon' \in Seq(DaemonMessages)
    <3> DEFINE q == toDaemon'
    <3>1. q = [i \in 1 .. Cardinality(mapped) |-> mapOf(i)]
      BY <2>3
    <3> HIDE DEF mapOf, q
    <3>2. q \in [1 .. Cardinality(mapped) -> DaemonMessages]
      BY <2>4, <3>1
    <3>3. q \in Seq(DaemonMessages)
      BY <2>1, <3>2, QueueOf
    <3>4. QED
      BY <3>3 DEF q
  <2>6. QED
    BY <1>10, <2>5 DEF Reconnect, DaemonMessages
<1>11. CASE DaemonMaps
  BY <1>11, HeadToDaemonTyped DEF DaemonMaps
<1>12. CASE DaemonHides
  <2>1. Head(toDaemon) \in DaemonMessages /\ Tail(toDaemon) \in Seq(DaemonMessages)
    BY <1>12, HeadToDaemonTyped DEF DaemonHides
  <2>2. [type |-> "FOCUS_OUT", win |-> Addressee(Head(toDaemon).win)] \in AgentMessages
    BY <2>1, AddresseeTyped DEF AgentMessages
  <2>3. toAgent' \in Seq(AgentMessages)
    BY <1>12, <2>2, TellOneTyped DEF DaemonHides
  <2>4. QED
    BY <1>12, <2>1, <2>3 DEF DaemonHides
<1>13. CASE HostFocusOut
  <2>1. [type |-> "FOCUS_OUT", win |-> Addressee(hostFocus)] \in AgentMessages
    BY <1>13, AddresseeTyped DEF AgentMessages, HostFocusOut
  <2>2. toAgent' \in Seq(AgentMessages)
    BY <1>13, <2>1, TellOneTyped DEF HostFocusOut
  <2>3. QED
    BY <1>13, <2>2 DEF HostFocusOut
<1>14. ASSUME NEW w \in Windows, HostFocusIn(w) PROVE TypeOK'
  <2>1. /\ [type |-> "FOCUS_IN", win |-> Addressee(w)] \in AgentMessages
        /\ [type |-> "KEYMAP_NOTIFY", win |-> NoWindow, keys |-> Bits(held)]
             \in AgentMessages
    BY AddresseeTyped DEF AgentMessages, Bits
  <2>2. toAgent' \in Seq(AgentMessages)
    BY <1>14, <2>1, TellTwoTyped DEF HostFocusIn
  <2>3. QED
    BY <1>14, <2>2 DEF HostFocusIn
<1>15. ASSUME NEW k \in Keys, HostKey(k) PROVE TypeOK'
  <2>1. CASE UNCHANGED toAgent
    BY <1>15, <2>1 DEF HostKey
  <2>2. CASE /\ hostFocus # NoWindow
             /\ Tell(<<[type |-> "KEYPRESS", win |-> Addressee(hostFocus),
                        key |-> k, pressed |-> k \notin held]>>)
    <3>1. (k \notin held) \in BOOLEAN
      OBVIOUS
    <3>2. [type |-> "KEYPRESS", win |-> Addressee(hostFocus),
           key |-> k, pressed |-> k \notin held] \in AgentMessages
      BY <2>2, <3>1, AddresseeTyped DEF AgentMessages
    <3>3. toAgent' \in Seq(AgentMessages)
      BY <2>2, <3>2, TellOneTyped
    <3>4. QED
      BY <1>15, <3>3 DEF HostKey
  <2>3. QED
    BY <1>15, <2>1, <2>2 DEF HostKey
<1>16. ASSUME NEW w \in Windows, NEW minimize \in BOOLEAN, HostMinimize(w, minimize)
       PROVE  TypeOK'
  <2>1. [type |-> "WINDOW_FLAGS", win |-> Addressee(w), minimize |-> minimize]
          \in AgentMessages
    BY AddresseeTyped DEF AgentMessages
  <2>2. toAgent' \in Seq(AgentMessages)
    BY <1>16, <2>1, TellOneTyped DEF HostMinimize
  <2>3. QED
    BY <1>16, <2>2 DEF HostMinimize
<1>17. ASSUME NEW w \in Windows, NewWindow(w) PROVE TypeOK'
  BY <1>17 DEF NewWindow
<1>18. ASSUME NEW w \in Windows, MapWindow(w) PROVE TypeOK'
  <2>1. toDaemon' \in Seq(DaemonMessages)
    BY <1>18, SendTyped DEF MapWindow
  <2>2. QED
    BY <1>18, <2>1 DEF MapWindow
<1>19. ASSUME NEW w \in Windows, UnmapWindow(w) PROVE TypeOK'
  <2>1. toDaemon' \in Seq(DaemonMessages)
    BY <1>19, SendTyped DEF UnmapWindow
  <2>2. QED
    BY <1>19, <2>1 DEF UnmapWindow
<1>20. ASSUME NEW w \in Windows, DestroyWindow(w) PROVE TypeOK'
  BY <1>20, FreedTyped DEF DestroyWindow, DropFocusOf, ClearFocus
<1>22. CASE DestroySurface
  BY <1>22 DEF DestroySurface, ClearFocus
<1> HIDE DEF TypeOK, CanSend, CanTell, agentVars, daemonVars, DaemonMessages
<1>21. QED
  BY <1>1, <1>2, <1>3, <1>4, <1>5, <1>6, <1>7, <1>8, <1>9, <1>10, <1>11, <1>12,
     <1>13, <1>14, <1>15, <1>16, <1>17, <1>18, <1>19, <1>20, <1>22
  DEF Next, Agent, Host, Client

-----------------------------------------------------------------------------
(* What the client is told of keys, and which toplevel looks active.       *)

LEMMA KeysStep == TypeOK /\ HeldIsTracked /\ [Next]_vars => HeldIsTracked'
<1> SUFFICES ASSUME TypeOK, HeldIsTracked, [Next]_vars PROVE HeldIsTracked'
  OBVIOUS
<1> USE DEF HeldIsTracked
<1>0. keycodes \subseteq keymap
  BY DEF TypeOK
<1>1. CASE UNCHANGED <<keymap, clientKeys>>
  BY <1>1
<1>2. CASE ReadKeypress
  <2>1. ASSUME NEW k, NEW pressed, pressed \in BOOLEAN, Keypress(k, pressed)
        PROVE  clientKeys' \subseteq keymap'
    BY <2>1 DEF Keypress, NotifyPressed, NotifyReleased
  <2>2. QED
    BY <1>2, <2>1, HeadTyped DEF ReadKeypress, Received, Addressed
<1>3. CASE ReadKeymapNotify
  BY <1>3 DEF ReadKeymapNotify, KeymapNotify, NotifyReleased
<1>4. CASE ReadFocusIn
  BY <1>0, <1>4 DEF ReadFocusIn, GiveFocus
<1>5. CASE ReadFocusOut
  BY <1>5 DEF ReadFocusOut, ClearFocus
<1>6. CASE ReadFocusOutOfPopup
  BY <1>6 DEF ReadFocusOutOfPopup, ClearFocus
<1>7. ASSUME NEW w \in Windows, DestroyWindow(w) PROVE HeldIsTracked'
  BY <1>7 DEF DestroyWindow, DropFocusOf, ClearFocus
<1>9. CASE DestroySurface
  BY <1>9 DEF DestroySurface, ClearFocus
<1>8. QED
  BY <1>1, <1>2, <1>3, <1>4, <1>5, <1>6, <1>7, <1>9
  DEF Next, vars, agentVars, Agent, Host, Client, ReadForGone, ReadFlags, Disconnect,
      Reconnect, DaemonMaps, DaemonHides, HostFocusIn, HostFocusOut, HostKey,
      HostMinimize, NewWindow, MapWindow, UnmapWindow

LEMMA GiveFocusActive ==
  ASSUME TypeOK, ActiveIsFocused, NEW w \in Windows, GiveFocus(w)
  PROVE  ActiveIsFocused'
<1>0. /\ active \subseteq Toplevels /\ lent \subseteq Toplevels
      /\ w \in Toplevels => Root(w) = w
  BY DEF TypeOK, Toplevels, Popups, Root
<1>1. CASE /\ focus = w
           /\ active' = active \cup ({w} \cap Toplevels)
           /\ lent' = lent \ {w}
           /\ UNCHANGED <<focus, clientKeys>>
  BY <1>0, <1>1 DEF ActiveIsFocused
<1>2. CASE /\ active' = (active \ Deactivated) \cup ({Root(w)} \cap Toplevels)
           /\ lent' = (lent \ (Deactivated \cup {w}))
                        \cup (({Root(w)} \ {w}) \cap Toplevels)
           /\ focus' = w
  <2>1. ASSUME NEW a \in active \ Deactivated PROVE a \in {focus'} \cup lent'
    <3>1. a \in lent
      BY <1>0, <2>1 DEF ActiveIsFocused, Deactivated
    <3>2. QED
      BY <1>0, <1>2, <2>1, <3>1
  <2>2. ASSUME Root(w) \in Toplevels PROVE Root(w) \in {focus'} \cup lent'
    BY <1>0, <1>2, <2>2
  <2>3. QED
    BY <1>2, <2>1, <2>2 DEF ActiveIsFocused
<1>3. QED
  BY <1>1, <1>2 DEF GiveFocus

LEMMA ActiveStep == TypeOK /\ ActiveIsFocused /\ [Next]_vars => ActiveIsFocused'
<1> SUFFICES ASSUME TypeOK, ActiveIsFocused, [Next]_vars PROVE ActiveIsFocused'
  OBVIOUS
<1> USE DEF ActiveIsFocused
<1>0. active \subseteq Toplevels
  BY DEF TypeOK
<1>1. CASE UNCHANGED <<active, lent, focus>>
  BY <1>1
<1>2. CASE ReadFocusIn
  BY <1>2, HeadTyped, GiveFocusActive DEF ReadFocusIn, Received, Addressed
<1>3. CASE ReadFocusOut
  BY <1>0, <1>3 DEF ReadFocusOut, Deactivated, ClearFocus
<1>4. CASE ReadFocusOutOfPopup
  BY <1>0, <1>4 DEF ReadFocusOutOfPopup, Freed, ClearFocus, Popups, Toplevels
<1>5. CASE ReadFlags
  BY <1>5 DEF ReadFlags
<1>6. CASE DestroySurface
  <2>1. Gone \notin active
    BY <1>0 DEF Toplevels
  <2>2. QED
    BY <1>6, <2>1 DEF DestroySurface, ClearFocus
<1>7. ASSUME NEW w \in Windows, DestroyWindow(w) PROVE ActiveIsFocused'
  BY <1>7 DEF DestroyWindow, DropFocusOf, Freed, ClearFocus
<1>8. QED
  BY <1>1, <1>2, <1>3, <1>4, <1>5, <1>6, <1>7
  DEF Next, vars, agentVars, Agent, Host, Client, ReadForGone, ReadKeypress,
      ReadKeymapNotify, Disconnect, Reconnect, DaemonMaps, DaemonHides, HostFocusIn,
      HostFocusOut, HostKey, HostMinimize, NewWindow, MapWindow, UnmapWindow

-----------------------------------------------------------------------------
(* The window that has the focus lives, if those that messages name do.    *)

LEMMA KeysOfNobody ==
  ASSUME NEW k, NEW pressed, FocusIsAlive, Keypress(k, pressed), UNCHANGED <<focus, state>>
  PROVE  FocusIsAlive'
BY DEF FocusIsAlive, Keypress, NotifyPressed, NotifyReleased

LEMMA FocusStep ==
  TypeOK /\ FocusIsAlive /\ AddresseesLive /\ [Next]_vars => FocusIsAlive'
<1> SUFFICES ASSUME TypeOK, FocusIsAlive, AddresseesLive, [Next]_vars PROVE FocusIsAlive'
  OBVIOUS
<1>0. /\ state \in [Windows -> {"absent", "hidden", "shown"}]
      /\ focus \in Windows \cup {NoWindow, Gone}
  BY DEF TypeOK
<1>1. CASE UNCHANGED <<state, focus, clientKeys>>
  BY <1>1 DEF FocusIsAlive
<1>2. CASE ReadKeypress
  BY <1>2, KeysOfNobody DEF ReadKeypress
<1>3. CASE ReadKeymapNotify
  BY <1>3 DEF ReadKeymapNotify, KeymapNotify, NotifyReleased, FocusIsAlive
<1>4. CASE ReadFocusIn
  <2> DEFINE w == Head(toAgent).win
  <2>1. w \in Windows /\ state[w] # "absent"
    <3>1. toAgent # <<>> /\ Head(toAgent).type = "FOCUS_IN" /\ w # Gone
      BY <1>4 DEF ReadFocusIn, Received, Addressed
    <3>2. w \in Windows
      BY <3>1, HeadTyped
    <3>3. 1 \in DOMAIN toAgent /\ toAgent[1] = Head(toAgent)
      BY <3>1, TailElements DEF TypeOK
    <3>4. QED
      BY <3>2, <3>3 DEF AddresseesLive, Live
  <2>2. GiveFocus(w) /\ UNCHANGED state
    BY <1>4 DEF ReadFocusIn
  <2> HIDE DEF w
  <2>3. QED
    BY <2>1, <2>2 DEF GiveFocus, FocusIsAlive
<1>5. CASE ReadFocusOut
  BY <1>5 DEF ReadFocusOut, FocusIsAlive, ClearFocus
<1>6. CASE ReadFocusOutOfPopup
  BY <1>6 DEF ReadFocusOutOfPopup, FocusIsAlive, ClearFocus
<1>7. ASSUME NEW w \in Windows, NewWindow(w) PROVE FocusIsAlive'
  BY <1>0, <1>7 DEF NewWindow, FocusIsAlive
<1>8. ASSUME NEW w \in Windows, MapWindow(w) PROVE FocusIsAlive'
  BY <1>0, <1>8 DEF MapWindow, FocusIsAlive
<1>9. ASSUME NEW w \in Windows, UnmapWindow(w) PROVE FocusIsAlive'
  BY <1>0, <1>9 DEF UnmapWindow, FocusIsAlive
<1>10. ASSUME NEW w \in Windows, DestroyWindow(w) PROVE FocusIsAlive'
  BY <1>0, <1>10 DEF DestroyWindow, Freed, DropFocusOf, FocusIsAlive, ClearFocus
<1>12. CASE DestroySurface
  BY <1>12 DEF DestroySurface, FocusIsAlive, ClearFocus
<1>11. QED
  BY <1>1, <1>2, <1>3, <1>4, <1>5, <1>6, <1>7, <1>8, <1>9, <1>10, <1>12
  DEF Next, vars, agentVars, Agent, Host, Client, ReadForGone, ReadFlags, Disconnect,
      Reconnect, DaemonMaps, DaemonHides, HostFocusIn, HostFocusOut, HostKey,
      HostMinimize

-----------------------------------------------------------------------------
(* What the daemon may still address.                                      *)

\* No window goes by this step.
NobodyGoes == \A w \in Windows : state'[w] = "absent" => state[w] = "absent"

LEMMA SendElements ==
  ASSUME TypeOK, NEW m \in DaemonMessages, Send(m)
  PROVE  /\ \A i \in DOMAIN toDaemon : i \in DOMAIN toDaemon' /\ toDaemon'[i] = toDaemon[i]
         /\ \A i \in DOMAIN toDaemon' : \/ i \in DOMAIN toDaemon /\ toDaemon'[i] = toDaemon[i]
                                        \/ toDaemon'[i] = m
         /\ connected => \E n \in DOMAIN toDaemon' :
              n \in Nat /\ n > 0 /\ toDaemon'[n] = m /\ \A i \in DOMAIN toDaemon : n > i
<1>1. toDaemon \in Seq(DaemonMessages)
  BY DEF TypeOK, DaemonMessages
<1>2. CASE connected
  <2>1. toDaemon' = Append(toDaemon, m)
    BY <1>2 DEF Send
  <2>2. Len(toDaemon) + 1 \in Nat /\ Len(toDaemon) + 1 > 0
          /\ \A i \in DOMAIN toDaemon : Len(toDaemon) + 1 > i
    BY <1>1
  <2>3. QED
    BY <1>1, <2>1, <2>2, AppendElements
<1>3. CASE ~connected
  BY <1>3 DEF Send
<1>4. QED
  BY <1>2, <1>3

LEMMA QueueKeepsAnnounced ==
  ASSUME TypeOK, Announced, NobodyGoes, UNCHANGED <<connected, toDaemon, known>>,
         hostFocus' \in known \cup {NoWindow}
  PROVE  Announced'
<1>1. known \subseteq Windows
  BY DEF TypeOK
<1>2. DestroyAnnounced' /\ MapsAnnounced'
  BY <1>1 DEF NobodyGoes, Announced, DestroyAnnounced, MapsAnnounced, DestroyAfter
<1>3. HostFocusShown' /\ CutOff'
  BY DEF Announced, HostFocusShown, CutOff
<1>4. QED
  BY <1>2, <1>3 DEF Announced

\* MSG_MAP and MSG_UNMAP are sent for a window that lives.
LEMMA SendKeepsAnnounced ==
  ASSUME TypeOK, Announced, NobodyGoes, NEW m \in DaemonMessages, Send(m),
         m.type # "DESTROY", state'[m.win] # "absent",
         UNCHANGED <<connected, known, hostFocus>>
  PROVE  Announced'
<1>0. known \subseteq Windows
  BY DEF TypeOK
<1>1. ASSUME NEW w, NEW i, DestroyAfter(w, i) PROVE DestroyAfter(w, i)'
  BY <1>1, SendElements DEF DestroyAfter
<1>2. DestroyAnnounced'
  BY <1>0, <1>1 DEF Announced, DestroyAnnounced, NobodyGoes
<1>3. MapsAnnounced'
  <2>1. ASSUME NEW w \in Windows, NEW i \in DOMAIN toDaemon',
               toDaemon'[i] = [type |-> "MAP", win |-> w], state'[w] = "absent"
        PROVE  DestroyAfter(w, i)'
    <3>1. i \in DOMAIN toDaemon /\ toDaemon'[i] = toDaemon[i]
      BY <2>1, SendElements
    <3>2. DestroyAfter(w, i)
      BY <2>1, <3>1 DEF Announced, MapsAnnounced, NobodyGoes
    <3>3. QED
      BY <1>1, <3>2
  <2>2. QED
    BY <2>1 DEF MapsAnnounced
<1>4. HostFocusShown' /\ CutOff'
  BY DEF Announced, HostFocusShown, CutOff, Send
<1>5. QED
  BY <1>2, <1>3, <1>4 DEF Announced

LEMMA FreedKeepsAnnounced ==
  ASSUME TypeOK, Announced, NEW v \in Windows, NEW q, Freed(v, q),
         UNCHANGED <<connected, known, hostFocus>>
  PROVE  Announced'
<1> DEFINE m == [type |-> "DESTROY", win |-> v]
<1>0. /\ m \in DaemonMessages /\ Send(m) /\ known \subseteq Windows
      /\ \A w \in Windows : w # v => state'[w] = state[w]
  BY DEF Freed, DaemonMessages, TypeOK
<1>1. ASSUME NEW w, NEW i, DestroyAfter(w, i) PROVE DestroyAfter(w, i)'
  BY <1>0, <1>1, SendElements DEF DestroyAfter
<1>2. ASSUME connected PROVE DestroyAfter(v, 0)' /\ \A i \in DOMAIN toDaemon : DestroyAfter(v, i)'
  BY <1>0, <1>2, SendElements DEF DestroyAfter
<1>3. CASE ~connected
  BY <1>3 DEF Announced, DestroyAnnounced, MapsAnnounced, HostFocusShown, CutOff, Freed, Send
<1>4. CASE connected
  <2>1. DestroyAnnounced'
    BY <1>0, <1>1, <1>2, <1>4 DEF Announced, DestroyAnnounced
  <2>2. ASSUME NEW w \in Windows, NEW i \in DOMAIN toDaemon',
               toDaemon'[i] = [type |-> "MAP", win |-> w], state'[w] = "absent"
        PROVE  DestroyAfter(w, i)'
    <3>1. i \in DOMAIN toDaemon /\ toDaemon'[i] = toDaemon[i]
      BY <1>0, <2>2, SendElements
    <3>2. CASE w = v
      BY <1>2, <1>4, <3>1, <3>2
    <3>3. CASE w # v
      <4>1. DestroyAfter(w, i)
        BY <1>0, <2>2, <3>1, <3>3 DEF Announced, MapsAnnounced
      <4>2. QED
        BY <1>1, <4>1
    <3>4. QED
      BY <3>2, <3>3
  <2>3. MapsAnnounced'
    BY <2>2 DEF MapsAnnounced
  <2>4. HostFocusShown' /\ CutOff'
    BY <1>4 DEF Announced, HostFocusShown, CutOff
  <2>5. QED
    BY <2>1, <2>3, <2>4 DEF Announced
<1>5. QED
  BY <1>3, <1>4

\* The daemon reads one message.
LEMMA TailKeepsAnnounced ==
  ASSUME TypeOK, Announced, toDaemon # <<>>, toDaemon' = Tail(toDaemon), NobodyGoes,
         connected, UNCHANGED connected,
         \/ /\ Head(toDaemon).type = "MAP"
            /\ known' = known \cup {Head(toDaemon).win}
         \/ /\ Head(toDaemon).type # "MAP"
            /\ known' = known \ {Head(toDaemon).win},
         hostFocus' \in known' \cup {NoWindow}
  PROVE  Announced'
<1> DEFINE h == Head(toDaemon)
<1>0. /\ toDaemon \in Seq(DaemonMessages) /\ h \in DaemonMessages /\ h = toDaemon[1]
      /\ known \subseteq Windows /\ known' \subseteq Windows /\ h.win \in Windows
      /\ 1 \in DOMAIN toDaemon
  BY HeadToDaemonTyped, TailElements DEF TypeOK, DaemonMessages
<1>1. /\ \A k \in DOMAIN toDaemon' : k + 1 \in DOMAIN toDaemon /\ toDaemon'[k] = toDaemon[k + 1]
      /\ \A k \in DOMAIN toDaemon : k # 1 => /\ k - 1 \in DOMAIN toDaemon'
                                             /\ toDaemon'[k - 1] = toDaemon[k]
      /\ DOMAIN toDaemon' \subseteq Nat \ {0} /\ DOMAIN toDaemon \subseteq Nat \ {0}
  BY <1>0, TailElements
<1>2. ASSUME NEW w, NEW i \in Nat, DestroyAfter(w, i + 1) PROVE DestroyAfter(w, i)'
  <2>1. PICK j \in DOMAIN toDaemon :
          j > i + 1 /\ toDaemon[j] = [type |-> "DESTROY", win |-> w]
    BY <1>2 DEF DestroyAfter
  <2>2. j \in Nat /\ j # 1
    BY <1>1, <2>1
  <2>3. j - 1 \in DOMAIN toDaemon' /\ toDaemon'[j - 1] = toDaemon[j] /\ j - 1 > i
    BY <1>1, <2>1, <2>2
  <2>4. QED
    BY <2>1, <2>3 DEF DestroyAfter
<1>3. ASSUME NEW w \in known', state'[w] = "absent" PROVE DestroyAfter(w, 0)'
  <2>0. w \in Windows /\ state[w] = "absent"
    BY <1>0, <1>3 DEF NobodyGoes
  <2>1. CASE h.type = "MAP" /\ w = h.win
    <3>1. toDaemon[1] = [type |-> "MAP", win |-> w]
      BY <1>0, <2>1 DEF DaemonMessages
    <3>2. DestroyAfter(w, 1)
      BY <1>0, <2>0, <3>1 DEF Announced, MapsAnnounced
    <3>3. QED
      BY <1>2, <3>2
  <2>2. CASE w \in known /\ ~(h.type = "MAP" /\ w = h.win)
    <3>1. PICK j \in DOMAIN toDaemon : toDaemon[j] = [type |-> "DESTROY", win |-> w]
      BY <2>0, <2>2 DEF Announced, DestroyAnnounced, DestroyAfter
    <3>2. j # 1
      BY <1>0, <1>3, <2>2, <3>1
    <3>3. j - 1 \in DOMAIN toDaemon' /\ toDaemon'[j - 1] = toDaemon[j] /\ j - 1 > 0
      BY <1>1, <3>2
    <3>4. QED
      BY <3>1, <3>3 DEF DestroyAfter
  <2>3. QED
    BY <1>3, <2>1, <2>2
<1>4. ASSUME NEW w \in Windows, NEW i \in DOMAIN toDaemon',
             toDaemon'[i] = [type |-> "MAP", win |-> w], state'[w] = "absent"
      PROVE  DestroyAfter(w, i)'
  <2>1. i \in Nat /\ i + 1 \in DOMAIN toDaemon
          /\ toDaemon[i + 1] = [type |-> "MAP", win |-> w] /\ state[w] = "absent"
    BY <1>1, <1>4 DEF NobodyGoes
  <2>2. DestroyAfter(w, i + 1)
    BY <2>1 DEF Announced, MapsAnnounced
  <2>3. QED
    BY <1>2, <2>1, <2>2
<1>5. DestroyAnnounced' /\ MapsAnnounced'
  BY <1>3, <1>4 DEF DestroyAnnounced, MapsAnnounced
<1>6. HostFocusShown' /\ CutOff'
  BY DEF HostFocusShown, CutOff
<1>7. QED
  BY <1>5, <1>6 DEF Announced
LEMMA AnnouncedStep == TypeOK /\ Announced /\ [Next]_vars => Announced'
<1> SUFFICES ASSUME TypeOK, Announced, [Next]_vars PROVE Announced'
  OBVIOUS
<1>0. /\ state \in [Windows -> {"absent", "hidden", "shown"}]
      /\ hostFocus \in known \cup {NoWindow} /\ known \subseteq Windows
  BY DEF TypeOK, Announced, HostFocusShown
<1>1. CASE UNCHANGED <<state, connected, toDaemon, known, hostFocus>>
  BY <1>0, <1>1, QueueKeepsAnnounced DEF NobodyGoes
<1>2. ASSUME NEW w \in Windows, NewWindow(w) PROVE Announced'
  <2>1. NobodyGoes /\ UNCHANGED <<connected, toDaemon, known, hostFocus>>
    BY <1>0, <1>2 DEF NewWindow, NobodyGoes, daemonVars
  <2>2. QED
    BY <1>0, <2>1, QueueKeepsAnnounced
<1>3. ASSUME NEW w \in Windows, MapWindow(w) PROVE Announced'
  <2>1. /\ Send([type |-> "MAP", win |-> w]) /\ NobodyGoes /\ state'[w] # "absent"
        /\ UNCHANGED <<connected, known, hostFocus>>
    BY <1>0, <1>3 DEF MapWindow, NobodyGoes, daemonVars
  <2>2. QED
    BY <2>1, SendKeepsAnnounced DEF DaemonMessages
<1>4. ASSUME NEW w \in Windows, UnmapWindow(w) PROVE Announced'
  <2>1. /\ Send([type |-> "UNMAP", win |-> w]) /\ NobodyGoes /\ state'[w] # "absent"
        /\ UNCHANGED <<connected, known, hostFocus>>
    BY <1>0, <1>4 DEF UnmapWindow, NobodyGoes, daemonVars
  <2>2. QED
    BY <2>1, SendKeepsAnnounced DEF DaemonMessages
<1>5. ASSUME NEW w \in Windows, DestroyWindow(w) PROVE Announced'
  BY <1>5, FreedKeepsAnnounced DEF DestroyWindow, daemonVars
<1>6. CASE ReadFocusOutOfPopup
  <2>1. focus \in Windows /\ UNCHANGED <<connected, known, hostFocus>>
    BY <1>6 DEF ReadFocusOutOfPopup, Popups, daemonVars
  <2>2. CASE Freed(focus, Tail(toAgent))
    BY <2>1, <2>2, FreedKeepsAnnounced
  <2>3. CASE UNCHANGED <<state, toDaemon>>
    BY <1>1, <2>1, <2>3
  <2>4. QED
    BY <1>6, <2>2, <2>3 DEF ReadFocusOutOfPopup
<1>7. CASE Disconnect
  BY <1>7 DEF Disconnect, Announced, DestroyAnnounced, MapsAnnounced, HostFocusShown, CutOff
<1>8. CASE Reconnect
  <2>1. /\ connected' = TRUE /\ UNCHANGED <<state, known, hostFocus>> /\ known = {}
        /\ \A i \in DOMAIN toDaemon', w \in Windows :
             toDaemon'[i] = [type |-> "MAP", win |-> w] => state[w] = "shown"
    BY <1>8 DEF Reconnect, agentVars, daemonVars, Announced, CutOff
  <2>2. QED
    BY <1>0, <2>1
    DEF Announced, DestroyAnnounced, MapsAnnounced, HostFocusShown, CutOff
<1>9. CASE DaemonMaps
  <2>1. /\ toDaemon # <<>> /\ toDaemon' = Tail(toDaemon) /\ NobodyGoes
        /\ connected /\ UNCHANGED <<connected, hostFocus>>
        /\ Head(toDaemon).type = "MAP" /\ known' = known \cup {Head(toDaemon).win}
    BY <1>9 DEF DaemonMaps, agentVars, NobodyGoes
  <2>2. QED
    BY <1>0, <2>1, TailKeepsAnnounced
<1>10. CASE DaemonHides
  <2>1. /\ toDaemon # <<>> /\ toDaemon' = Tail(toDaemon) /\ NobodyGoes
        /\ connected /\ UNCHANGED connected
        /\ Head(toDaemon).type # "MAP" /\ known' = known \ {Head(toDaemon).win}
        /\ hostFocus' = IF hostFocus = Head(toDaemon).win THEN NoWindow ELSE hostFocus
    BY <1>10 DEF DaemonHides, agentVars, NobodyGoes
  <2>2. QED
    BY <1>0, <2>1, TailKeepsAnnounced
<1>11. ASSUME NEW w \in Windows, HostFocusIn(w) PROVE Announced'
  <2>1. NobodyGoes /\ UNCHANGED <<connected, toDaemon, known>> /\ hostFocus' \in known
    BY <1>11 DEF HostFocusIn, NobodyGoes, agentVars
  <2>2. QED
    BY <2>1, QueueKeepsAnnounced
<1>12. CASE HostFocusOut
  <2>1. NobodyGoes /\ UNCHANGED <<connected, toDaemon, known>> /\ hostFocus' = NoWindow
    BY <1>12 DEF HostFocusOut, NobodyGoes, agentVars
  <2>2. QED
    BY <2>1, QueueKeepsAnnounced
<1>13. QED
  BY <1>1, <1>2, <1>3, <1>4, <1>5, <1>6, <1>7, <1>8, <1>9, <1>10, <1>11, <1>12
  DEF Next, vars, agentVars, daemonVars, Agent, Host, Client, ReadForGone, ReadKeypress,
      ReadKeymapNotify, ReadFocusIn, ReadFocusOut, ReadFlags, HostKey, HostMinimize,
      DestroySurface

-----------------------------------------------------------------------------
(* Messages for the agent name windows that live.                          *)

LEMMA AddresseeLives ==
  ASSUME Announced, NEW w \in known
  PROVE  Addressee(w) \in Windows => state[Addressee(w)] # "absent"
BY DEF Addressee, Announced, DestroyAnnounced, DestroyAfter

LEMMA TellLive ==
  ASSUME TypeOK, AddresseesLive, NEW ms \in Seq(AgentMessages), Live(ms), Tell(ms),
         UNCHANGED state
  PROVE  AddresseesLive'
<1>1. toAgent \in Seq(AgentMessages)
  BY DEF TypeOK
<1>2. ASSUME NEW k \in DOMAIN toAgent', toAgent'[k].win \in Windows
      PROVE  state[toAgent'[k].win] # "absent"
  BY <1>1, <1>2, ConcatElements DEF Tell, AddresseesLive, Live
<1>3. QED
  BY <1>2 DEF AddresseesLive, Live

LEMMA TellOneLive ==
  ASSUME TypeOK, AddresseesLive, NEW m \in AgentMessages, Tell(<<m>>), UNCHANGED state,
         m.win \in Windows => state[m.win] # "absent"
  PROVE  AddresseesLive'
<1>1. <<m>> \in Seq(AgentMessages) /\ DOMAIN <<m>> = {1} /\ <<m>>[1] = m
  OBVIOUS
<1>2. QED
  BY <1>1, TellLive DEF Live

LEMMA TailLive ==
  ASSUME TypeOK, AddresseesLive, toAgent # <<>>
  PROVE  Live(Tail(toAgent)) /\ Tail(toAgent) \in Seq(AgentMessages)
<1>1. toAgent \in Seq(AgentMessages)
  BY DEF TypeOK
<1>2. QED
  BY <1>1, TailElements DEF AddresseesLive, Live

LEMMA FreedLive ==
  ASSUME TypeOK, NEW w \in Windows, NEW q \in Seq(AgentMessages), Live(q), Freed(w, q)
  PROVE  AddresseesLive'
<1>1. ASSUME NEW i \in DOMAIN toAgent', toAgent'[i].win \in Windows
      PROVE  state'[toAgent'[i].win] # "absent"
  <2>1. i \in DOMAIN q /\ toAgent'[i].win # w /\ toAgent'[i].win = q[i].win
    <3>1. toAgent' = Struck(q, w)
      BY DEF Freed
    <3>2. /\ i \in DOMAIN q /\ toAgent'[i].win # w
          /\ toAgent'[i].win = Gone \/ toAgent'[i].win = q[i].win
      BY <1>1, <3>1, StruckElements
    <3>3. Gone \notin Windows
      OBVIOUS
    <3>4. QED
      BY <1>1, <3>2, <3>3
  <2>2. state'[q[i].win] = state[q[i].win]
    BY <1>1, <2>1 DEF Freed, TypeOK
  <2>3. QED
    BY <1>1, <2>1, <2>2 DEF Live
<1>2. QED
  BY <1>1 DEF AddresseesLive, Live

LEMMA LiveStep ==
  TypeOK /\ Announced /\ AddresseesLive /\ [Next]_vars => AddresseesLive'
<1> SUFFICES ASSUME TypeOK, Announced, AddresseesLive, [Next]_vars PROVE AddresseesLive'
  OBVIOUS
<1>0. /\ state \in [Windows -> {"absent", "hidden", "shown"}]
      /\ toAgent \in Seq(AgentMessages) /\ known \subseteq Windows
      /\ hostFocus # NoWindow => hostFocus \in known
  BY DEF TypeOK, Announced, HostFocusShown
<1>1. CASE UNCHANGED toAgent /\ NobodyGoes
  BY <1>1 DEF AddresseesLive, Live, NobodyGoes
<1>2. CASE toAgent # <<>> /\ toAgent' = Tail(toAgent) /\ UNCHANGED state
  BY <1>2, TailLive DEF AddresseesLive, Live
<1>3. ASSUME NEW w \in Windows, DestroyWindow(w) PROVE AddresseesLive'
  BY <1>0, <1>3, FreedLive DEF DestroyWindow, AddresseesLive
<1>4. CASE ReadFocusOutOfPopup
  <2>1. focus \in Windows /\ toAgent # <<>>
    BY <1>4 DEF ReadFocusOutOfPopup, Popups, Received
  <2>2. CASE Freed(focus, Tail(toAgent))
    BY <2>1, <2>2, TailLive, FreedLive
  <2>3. CASE toAgent' = Tail(toAgent) /\ UNCHANGED state
    BY <1>2, <2>1, <2>3
  <2>4. QED
    BY <1>4, <2>2, <2>3 DEF ReadFocusOutOfPopup
<1>5. CASE Disconnect
  BY <1>5 DEF Disconnect, AddresseesLive, Live
<1>6. CASE DaemonHides
  <2> DEFINE h == Head(toDaemon).win
             m == [type |-> "FOCUS_OUT", win |-> Addressee(h)]
  <2>1. CASE UNCHANGED toAgent
    BY <1>1, <1>6, <2>1 DEF DaemonHides, agentVars, NobodyGoes
  <2>2. CASE hostFocus = h /\ Tell(<<m>>)
    <3>1. h \in known
      BY <1>0, <1>6, <2>2, HeadToDaemonTyped DEF DaemonHides
    <3>2. Addressee(h) \in Windows \cup {Gone}
      BY <1>0, <3>1, AddresseeTyped
    <3>3. m \in AgentMessages
      BY <3>2 DEF AgentMessages
    <3>4. m.win \in Windows => state[m.win] # "absent"
      BY <3>1, AddresseeLives
    <3>5. UNCHANGED state
      BY <1>6 DEF DaemonHides, agentVars
    <3> HIDE DEF m
    <3>6. QED
      BY <2>2, <3>3, <3>4, <3>5, TellOneLive
  <2>3. QED
    BY <1>6, <2>1, <2>2 DEF DaemonHides
<1>7. ASSUME NEW w \in Windows, HostFocusIn(w) PROVE AddresseesLive'
  <2> DEFINE m == [type |-> "KEYMAP_NOTIFY", win |-> NoWindow, keys |-> Bits(held)]
             n == [type |-> "FOCUS_IN", win |-> Addressee(w)]
  <2>1. m \in AgentMessages /\ n \in AgentMessages
    BY AddresseeTyped DEF AgentMessages, TypeOK, Bits
  <2>2. /\ m.win \in Windows => state[m.win] # "absent"
        /\ n.win \in Windows => state[n.win] # "absent"
    BY <1>7, AddresseeLives DEF HostFocusIn
  <2>3. Tell(<<m, n>>) /\ UNCHANGED state
    BY <1>7 DEF HostFocusIn, agentVars
  <2> HIDE DEF m, n
  <2>4. <<m, n>> \in Seq(AgentMessages) /\ DOMAIN <<m, n>> = {1, 2}
          /\ <<m, n>>[1] = m /\ <<m, n>>[2] = n
    BY <2>1
  <2>5. Live(<<m, n>>)
    BY <2>2, <2>4 DEF Live
  <2>6. QED
    BY <2>3, <2>4, <2>5, TellLive
<1>8. CASE HostFocusOut
  <2> DEFINE m == [type |-> "FOCUS_OUT", win |-> Addressee(hostFocus)]
  <2>1. hostFocus \in known /\ Tell(<<m>>) /\ UNCHANGED state
    BY <1>0, <1>8 DEF HostFocusOut, agentVars
  <2>2. m \in AgentMessages /\ (m.win \in Windows => state[m.win] # "absent")
    BY <1>0, <2>1, AddresseeTyped, AddresseeLives DEF AgentMessages
  <2> HIDE DEF m
  <2>3. QED
    BY <2>1, <2>2, TellOneLive
<1>9. ASSUME NEW k \in Keys, HostKey(k) PROVE AddresseesLive'
  <2> DEFINE m == [type |-> "KEYPRESS", win |-> Addressee(hostFocus),
                   key |-> k, pressed |-> k \notin held]
  <2>0. UNCHANGED state
    BY <1>9 DEF HostKey, agentVars
  <2>1. CASE UNCHANGED toAgent
    BY <1>1, <2>0, <2>1 DEF NobodyGoes
  <2>2. CASE hostFocus # NoWindow /\ Tell(<<m>>)
    <3>1. hostFocus \in known /\ (k \notin held) \in BOOLEAN
      BY <1>0, <2>2
    <3>2. m \in AgentMessages
      BY <1>0, <3>1, AddresseeTyped DEF AgentMessages
    <3>3. m.win \in Windows => state[m.win] # "absent"
      BY <3>1, AddresseeLives
    <3> HIDE DEF m
    <3>4. QED
      BY <2>0, <2>2, <3>2, <3>3, TellOneLive
  <2>3. QED
    BY <1>9, <2>1, <2>2 DEF HostKey
<1>10. ASSUME NEW w \in Windows, NEW minimize \in BOOLEAN, HostMinimize(w, minimize)
       PROVE  AddresseesLive'
  <2> DEFINE m == [type |-> "WINDOW_FLAGS", win |-> Addressee(w), minimize |-> minimize]
  <2>1. w \in known /\ Tell(<<m>>) /\ UNCHANGED state
    BY <1>10 DEF HostMinimize, agentVars
  <2>2. m \in AgentMessages /\ (m.win \in Windows => state[m.win] # "absent")
    BY <1>0, <2>1, AddresseeTyped, AddresseeLives DEF AgentMessages
  <2> HIDE DEF m
  <2>3. QED
    BY <2>1, <2>2, TellOneLive
<1>11. ASSUME NEW w \in Windows, NewWindow(w) \/ MapWindow(w) \/ UnmapWindow(w)
       PROVE  AddresseesLive'
  <2>1. UNCHANGED toAgent /\ NobodyGoes
    BY <1>0, <1>11 DEF NewWindow, MapWindow, UnmapWindow, NobodyGoes
  <2>2. QED
    BY <1>1, <2>1
<1>12. CASE Agent
  BY <1>2, <1>4, <1>12
  DEF Agent, ReadForGone, ReadKeypress, ReadKeymapNotify, ReadFocusIn, ReadFocusOut,
      ReadFlags, Received, agentVars
<1>13. CASE UNCHANGED vars \/ Reconnect \/ DaemonMaps \/ DestroySurface
  BY <1>1, <1>13 DEF vars, Reconnect, DaemonMaps, DestroySurface, agentVars, NobodyGoes
<1>14. QED
  <2>1. CASE Host
    BY <1>6, <1>7, <1>8, <1>9, <1>10, <1>13, <2>1 DEF Host
  <2>2. ASSUME NEW w \in Windows, Client(w) PROVE AddresseesLive'
    BY <1>3, <1>11, <2>2 DEF Client
  <2>3. QED
    BY <1>5, <1>12, <1>13, <2>1, <2>2 DEF Next

-----------------------------------------------------------------------------
(* What the daemon shows is mapped, unless it is still to hear otherwise.  *)

\* That w is unmapped or destroyed comes in the queue to the daemon after i.
HideAfter(w, i) ==
  \E j \in DOMAIN toDaemon : j > i /\ toDaemon[j].type # "MAP" /\ toDaemon[j].win = w

KnownShown == \A w \in known : state[w] # "shown" => HideAfter(w, 0)

MapsShown ==
  \A w \in Windows, i \in DOMAIN toDaemon :
    toDaemon[i] = [type |-> "MAP", win |-> w] /\ state[w] # "shown" => HideAfter(w, i)

Shown == KnownShown /\ MapsShown

\* No window is unmapped by this step.
NobodyHides == \A w \in Windows : state'[w] # "shown" => state[w] # "shown"

LEMMA QueueKeepsShown ==
  ASSUME TypeOK, Shown, NobodyHides, UNCHANGED <<toDaemon, known>>
  PROVE  Shown'
<1>1. known \subseteq Windows
  BY DEF TypeOK
<1>2. QED
  BY <1>1 DEF NobodyHides, Shown, KnownShown, MapsShown, HideAfter

\* The daemon is told of every window that is mapped, unmapped or destroyed.
LEMMA SendKeepsShown ==
  ASSUME TypeOK, Announced, Shown, NEW m \in DaemonMessages, Send(m),
         UNCHANGED <<connected, known>>,
         \A w \in Windows : state'[w] # "shown" =>
            state[w] # "shown" \/ (m.type # "MAP" /\ m.win = w),
         m.type = "MAP" => state'[m.win] = "shown"
  PROVE  Shown'
<1>0. known \subseteq Windows
  BY DEF TypeOK
<1>1. ASSUME NEW w, NEW i, HideAfter(w, i) PROVE HideAfter(w, i)'
  BY <1>1, SendElements DEF HideAfter
<1>2. ASSUME connected, m.type # "MAP"
      PROVE  HideAfter(m.win, 0)' /\ \A i \in DOMAIN toDaemon : HideAfter(m.win, i)'
  BY <1>2, SendElements DEF HideAfter
<1>3. CASE ~connected
  BY <1>3 DEF Announced, CutOff, Shown, KnownShown, MapsShown, Send
<1>4. CASE connected
  <2>1. KnownShown'
    BY <1>0, <1>1, <1>2, <1>4 DEF Shown, KnownShown
  <2>2. ASSUME NEW w \in Windows, NEW i \in DOMAIN toDaemon',
               toDaemon'[i] = [type |-> "MAP", win |-> w], state'[w] # "shown"
        PROVE  HideAfter(w, i)'
    <3>1. i \in DOMAIN toDaemon /\ toDaemon'[i] = toDaemon[i]
      BY <2>2, SendElements
    <3>2. CASE m.type # "MAP" /\ m.win = w
      BY <1>2, <1>4, <3>1, <3>2
    <3>3. CASE state[w] # "shown"
      <4>1. HideAfter(w, i)
        BY <2>2, <3>1, <3>3 DEF Shown, MapsShown
      <4>2. QED
        BY <1>1, <4>1
    <3>4. QED
      BY <2>2, <3>2, <3>3
  <2>3. QED
    BY <2>1, <2>2 DEF Shown, MapsShown
<1>5. QED
  BY <1>3, <1>4

LEMMA TailKeepsShown ==
  ASSUME TypeOK, Shown, toDaemon # <<>>, toDaemon' = Tail(toDaemon), UNCHANGED state,
         \/ /\ Head(toDaemon).type = "MAP"
            /\ known' = known \cup {Head(toDaemon).win}
         \/ /\ Head(toDaemon).type # "MAP"
            /\ known' = known \ {Head(toDaemon).win}
  PROVE  Shown'
<1> DEFINE h == Head(toDaemon)
<1>0. /\ toDaemon \in Seq(DaemonMessages) /\ h \in DaemonMessages /\ h = toDaemon[1]
      /\ known \subseteq Windows /\ known' \subseteq Windows /\ h.win \in Windows
      /\ 1 \in DOMAIN toDaemon
  BY HeadToDaemonTyped, TailElements DEF TypeOK, DaemonMessages
<1>1. /\ \A k \in DOMAIN toDaemon' : k + 1 \in DOMAIN toDaemon /\ toDaemon'[k] = toDaemon[k + 1]
      /\ \A k \in DOMAIN toDaemon : k # 1 => /\ k - 1 \in DOMAIN toDaemon'
                                             /\ toDaemon'[k - 1] = toDaemon[k]
      /\ DOMAIN toDaemon' \subseteq Nat \ {0} /\ DOMAIN toDaemon \subseteq Nat \ {0}
  BY <1>0, TailElements
<1>2. ASSUME NEW w, NEW i \in Nat, HideAfter(w, i),
             i = 0 => h.type = "MAP" \/ h.win # w
      PROVE  HideAfter(w, IF i = 0 THEN 0 ELSE i - 1)'
  <2>1. PICK j \in DOMAIN toDaemon :
          j > i /\ toDaemon[j].type # "MAP" /\ toDaemon[j].win = w
    BY <1>2 DEF HideAfter
  <2>2. j \in Nat /\ j # 1
    BY <1>0, <1>1, <1>2, <2>1
  <2>3. j - 1 \in DOMAIN toDaemon' /\ toDaemon'[j - 1] = toDaemon[j]
          /\ j - 1 > (IF i = 0 THEN 0 ELSE i - 1)
    BY <1>1, <2>1, <2>2
  <2>4. QED
    BY <2>1, <2>3 DEF HideAfter
<1>3. ASSUME NEW w \in known', state[w] # "shown" PROVE HideAfter(w, 0)'
  <2>0. w \in Windows
    BY <1>0
  <2>1. CASE h.type = "MAP" /\ w = h.win
    <3>1. toDaemon[1] = [type |-> "MAP", win |-> w]
      BY <1>0, <2>1 DEF DaemonMessages
    <3>2. HideAfter(w, 1)
      BY <1>0, <1>3, <2>0, <3>1 DEF Shown, MapsShown
    <3>3. QED
      BY <1>2, <3>2
  <2>2. CASE w \in known /\ ~(h.type = "MAP" /\ w = h.win)
    <3>1. HideAfter(w, 0)
      BY <1>3, <2>2 DEF Shown, KnownShown
    <3>2. h.type = "MAP" \/ h.win # w
      BY <1>3, <2>2
    <3>3. QED
      BY <1>2, <3>1, <3>2
  <2>3. QED
    BY <1>3, <2>1, <2>2
<1>4. ASSUME NEW w \in Windows, NEW i \in DOMAIN toDaemon',
             toDaemon'[i] = [type |-> "MAP", win |-> w], state[w] # "shown"
      PROVE  HideAfter(w, i)'
  <2>1. /\ i \in Nat /\ i + 1 \in Nat /\ i + 1 # 0 /\ (i + 1) - 1 = i
        /\ i + 1 \in DOMAIN toDaemon /\ toDaemon[i + 1] = [type |-> "MAP", win |-> w]
    BY <1>1, <1>4
  <2>2. HideAfter(w, i + 1)
    BY <1>4, <2>1 DEF Shown, MapsShown
  <2>3. HideAfter(w, IF i + 1 = 0 THEN 0 ELSE (i + 1) - 1)'
    BY <1>2, <2>1, <2>2
  <2>4. QED
    BY <2>1, <2>3
<1>5. QED
  BY <1>3, <1>4 DEF Shown, KnownShown, MapsShown

LEMMA ShownStep == TypeOK /\ Announced /\ Shown /\ [Next]_vars => Shown'
<1> SUFFICES ASSUME TypeOK, Announced, Shown, [Next]_vars PROVE Shown'
  OBVIOUS
<1>0. state \in [Windows -> {"absent", "hidden", "shown"}]
  BY DEF TypeOK
<1>1. CASE UNCHANGED <<state, toDaemon, known>>
  BY <1>1, QueueKeepsShown DEF NobodyHides
<1>2. ASSUME NEW w \in Windows, NewWindow(w) PROVE Shown'
  <2>1. NobodyHides /\ UNCHANGED <<toDaemon, known>>
    BY <1>0, <1>2 DEF NewWindow, NobodyHides, daemonVars
  <2>2. QED
    BY <2>1, QueueKeepsShown
<1>3. ASSUME NEW w \in Windows, MapWindow(w) PROVE Shown'
  <2> DEFINE m == [type |-> "MAP", win |-> w]
  <2>1. /\ Send(m) /\ UNCHANGED <<connected, known>> /\ m \in DaemonMessages
        /\ state'[w] = "shown" /\ m.win = w
        /\ \A v \in Windows : state'[v] # "shown" => state[v] # "shown"
    BY <1>0, <1>3 DEF MapWindow, daemonVars, DaemonMessages
  <2> HIDE DEF m
  <2>2. QED
    BY <2>1, SendKeepsShown
<1>4. ASSUME NEW w \in Windows, UnmapWindow(w) PROVE Shown'
  <2> DEFINE m == [type |-> "UNMAP", win |-> w]
  <2>1. /\ Send(m) /\ UNCHANGED <<connected, known>> /\ m \in DaemonMessages
        /\ m.type # "MAP" /\ m.win = w
        /\ \A v \in Windows : state'[v] # "shown" => state[v] # "shown" \/ v = w
    BY <1>0, <1>4 DEF UnmapWindow, daemonVars, DaemonMessages
  <2> HIDE DEF m
  <2>2. QED
    BY <2>1, SendKeepsShown
<1>5. ASSUME NEW w \in Windows, NEW q, Freed(w, q), UNCHANGED <<connected, known>>
      PROVE  Shown'
  <2> DEFINE m == [type |-> "DESTROY", win |-> w]
  <2>1. /\ Send(m) /\ m \in DaemonMessages /\ m.type # "MAP" /\ m.win = w
        /\ \A v \in Windows : state'[v] # "shown" => state[v] # "shown" \/ v = w
    BY <1>0, <1>5 DEF Freed, DaemonMessages
  <2> HIDE DEF m
  <2>2. QED
    BY <1>5, <2>1, SendKeepsShown
<1>6. ASSUME NEW w \in Windows, DestroyWindow(w) PROVE Shown'
  BY <1>5, <1>6 DEF DestroyWindow, daemonVars
<1>7. CASE ReadFocusOutOfPopup
  <2>1. focus \in Windows /\ UNCHANGED <<connected, known>>
    BY <1>7 DEF ReadFocusOutOfPopup, Popups, daemonVars
  <2>2. CASE Freed(focus, Tail(toAgent))
    BY <1>5, <2>1, <2>2
  <2>3. CASE UNCHANGED <<state, toDaemon>>
    BY <1>1, <2>1, <2>3
  <2>4. QED
    BY <1>7, <2>2, <2>3 DEF ReadFocusOutOfPopup
<1>8. CASE Disconnect
  BY <1>8 DEF Disconnect, Shown, KnownShown, MapsShown
<1>9. CASE Reconnect
  <2>1. /\ UNCHANGED <<state, known>> /\ known = {}
        /\ \A i \in DOMAIN toDaemon', w \in Windows :
             toDaemon'[i] = [type |-> "MAP", win |-> w] => state[w] = "shown"
    BY <1>9 DEF Reconnect, agentVars, daemonVars, Announced, CutOff
  <2>2. QED
    BY <2>1 DEF Shown, KnownShown, MapsShown
<1>10. CASE DaemonMaps \/ DaemonHides
  <2>1. /\ toDaemon # <<>> /\ toDaemon' = Tail(toDaemon) /\ UNCHANGED state
        /\ \/ /\ Head(toDaemon).type = "MAP"
              /\ known' = known \cup {Head(toDaemon).win}
           \/ /\ Head(toDaemon).type # "MAP"
              /\ known' = known \ {Head(toDaemon).win}
    BY <1>10 DEF DaemonMaps, DaemonHides, agentVars
  <2>2. QED
    BY <2>1, TailKeepsShown
<1>11. QED
  BY <1>1, <1>2, <1>3, <1>4, <1>6, <1>7, <1>8, <1>9, <1>10
  DEF Next, vars, agentVars, daemonVars, Agent, Host, Client, ReadForGone, ReadKeypress,
      ReadKeymapNotify, ReadFocusIn, ReadFocusOut, ReadFlags, HostKey, HostMinimize,
      DestroySurface, HostFocusIn, HostFocusOut

-----------------------------------------------------------------------------
(* What is said last in a queue.                                           *)

\* A message of good is the last of those of about.
Comes(q, good, about) ==
  \E i \in DOMAIN q : q[i] \in good /\ \A j \in DOMAIN q : j > i => q[j] \notin about

Quiet(q, about) == \A i \in DOMAIN q : q[i] \notin about

LEMMA TwoTold ==
  ASSUME NEW S, NEW q \in Seq(S), NEW m \in S, NEW n \in S
  PROVE  q \o <<m, n>> = (q \o <<m>>) \o <<n>>
<1> DEFINE x == q \o <<m, n>>
           y == (q \o <<m>>) \o <<n>>
<1>1. x \in Seq(S) /\ y \in Seq(S)
  OBVIOUS
<1>2. Len(x) = Len(q) + 2 /\ Len(y) = Len(q) + 2 /\ Len(q) \in Nat
  OBVIOUS
<1>3. ASSUME NEW i \in 1 .. Len(q) + 2 PROVE x[i] = y[i]
  <2>1. CASE i <= Len(q)
    BY <2>1
  <2>2. CASE i = Len(q) + 1
    BY <2>2
  <2>3. CASE i = Len(q) + 2
    BY <2>3
  <2>4. QED
    BY <1>2, <2>1, <2>2, <2>3
<1> HIDE DEF x, y
<1>4. x = y
  BY <1>1, <1>2, <1>3, SeqEqual
<1>5. QED
  BY <1>4 DEF x, y

LEMMA ReadSettles ==
  ASSUME NEW q \in Seq(AgentMessages), q # <<>>, NEW good, NEW about
  PROVE  /\ Comes(q, good, about)
              => \/ Comes(Tail(q), good, about)
                 \/ Head(q) \in good /\ Quiet(Tail(q), about)
         /\ Quiet(q, about) => Head(q) \notin about /\ Quiet(Tail(q), about)
<1>1. /\ 1 \in DOMAIN q /\ Head(q) = q[1]
      /\ \A k \in DOMAIN Tail(q) : k + 1 \in DOMAIN q /\ Tail(q)[k] = q[k + 1]
      /\ \A k \in DOMAIN q : k # 1 => k - 1 \in DOMAIN Tail(q) /\ Tail(q)[k - 1] = q[k]
      /\ DOMAIN Tail(q) \subseteq Nat \ {0} /\ DOMAIN q \subseteq Nat \ {0}
  BY TailElements
<1>2. ASSUME Comes(q, good, about)
      PROVE  \/ Comes(Tail(q), good, about)
             \/ Head(q) \in good /\ Quiet(Tail(q), about)
  <2>1. PICK i \in DOMAIN q : q[i] \in good /\ \A j \in DOMAIN q : j > i => q[j] \notin about
    BY <1>2 DEF Comes
  <2>2. \A j \in DOMAIN Tail(q) : j + 1 > i => Tail(q)[j] \notin about
    BY <1>1, <2>1
  <2>3. CASE i = 1
    BY <1>1, <2>1, <2>2, <2>3 DEF Quiet
  <2>4. CASE i # 1
    <3>1. i - 1 \in DOMAIN Tail(q) /\ Tail(q)[i - 1] \in good
      BY <1>1, <2>1, <2>4
    <3>2. \A j \in DOMAIN Tail(q) : j > i - 1 => Tail(q)[j] \notin about
      BY <1>1, <2>2
    <3>3. QED
      BY <3>1, <3>2 DEF Comes
  <2>5. QED
    BY <2>3, <2>4
<1>3. QED
  BY <1>1, <1>2 DEF Quiet

LEMMA TellSettles ==
  ASSUME NEW q \in Seq(AgentMessages), NEW m \in AgentMessages, NEW good, NEW about
  PROVE  LET p == q \o <<m>>
         IN  /\ p \in Seq(AgentMessages)
             /\ m \in good => Comes(p, good, about)
             /\ m \notin about => /\ Comes(q, good, about) => Comes(p, good, about)
                                  /\ Quiet(q, about) => Quiet(p, about)
<1> DEFINE p == Append(q, m)
<1>1. q \o <<m>> = p
  OBVIOUS
<1>2. /\ p \in Seq(AgentMessages) /\ Len(q) \in Nat /\ DOMAIN q = 1 .. Len(q)
      /\ DOMAIN p = 1 .. (Len(q) + 1) /\ p[Len(q) + 1] = m
      /\ \A k \in DOMAIN q : p[k] = q[k]
  OBVIOUS
<1> HIDE DEF p
<1>3. m \in good => Comes(p, good, about)
  <2>1. Len(q) + 1 \in DOMAIN p /\ \A j \in DOMAIN p : ~(j > Len(q) + 1)
    BY <1>2
  <2>2. QED
    BY <1>2, <2>1 DEF Comes
<1>4. ASSUME m \notin about, Comes(q, good, about) PROVE Comes(p, good, about)
  <2>1. PICK i \in DOMAIN q : q[i] \in good /\ \A j \in DOMAIN q : j > i => q[j] \notin about
    BY <1>4 DEF Comes
  <2>2. i \in DOMAIN p /\ p[i] \in good
    BY <1>2, <2>1
  <2>3. \A j \in DOMAIN p : j \in DOMAIN q \/ j = Len(q) + 1
    BY <1>2
  <2>4. \A j \in DOMAIN p : j > i => p[j] \notin about
    BY <1>2, <1>4, <2>1, <2>3
  <2>5. QED
    BY <2>2, <2>4 DEF Comes
<1>5. ASSUME m \notin about, Quiet(q, about) PROVE Quiet(p, about)
  BY <1>2, <1>5 DEF Quiet
<1>6. QED
  BY <1>1, <1>2, <1>3, <1>4, <1>5

\* Striking out another window than the good messages are for.
LEMMA StruckSettles ==
  ASSUME NEW q \in Seq(AgentMessages), NEW w \in Windows, NEW good, NEW about,
         \A m \in good : m.win # w,
         \A m \in AgentMessages :
            m.win = w /\ [m EXCEPT !.win = Gone] \in about => m \in about
  PROVE  /\ Struck(q, w) \in Seq(AgentMessages)
         /\ Comes(q, good, about) => Comes(Struck(q, w), good, about)
         /\ Quiet(q, about) => Quiet(Struck(q, w), about)
<1> DEFINE s == Struck(q, w)
<1>1. /\ DOMAIN s = DOMAIN q
      /\ \A i \in DOMAIN q : s[i] = IF q[i].win = w THEN [q[i] EXCEPT !.win = Gone] ELSE q[i]
  BY DEF Struck
<1>2. \A i \in DOMAIN q : q[i] \in AgentMessages
  OBVIOUS
<1>3. s \in Seq(AgentMessages)
  BY StruckElements
<1> HIDE DEF s
<1>4. \A i \in DOMAIN q : /\ q[i] \in good => s[i] \in good
                          /\ s[i] \in about => q[i] \in about
  BY <1>1, <1>2
<1>5. Comes(q, good, about) => Comes(s, good, about)
  BY <1>1, <1>4 DEF Comes
<1>6. Quiet(q, about) => Quiet(s, about)
  BY <1>1, <1>4 DEF Quiet
<1>7. QED
  BY <1>3, <1>5, <1>6 DEF s

-----------------------------------------------------------------------------
(* What the agent will make of the messages that wait, as long as the host *)
(* leaves its focus on a window that is not about to go.                   *)

Steady == running /\ hostFocus # NoWindow /\ ~HideAfter(hostFocus, 0)

FocusMessages == {m \in AgentMessages : m.type \in {"FOCUS_IN", "FOCUS_OUT"}}
FocusIn(w) == {[type |-> "FOCUS_IN", win |-> w]}

\* The window with the host's focus has the seat's, or will be given it.
FocusFollows ==
  Steady => \/ Comes(toAgent, FocusIn(hostFocus), FocusMessages)
            \/ focus = hostFocus /\ Quiet(toAgent, FocusMessages)

KeyMessages(k) ==
  {m \in AgentMessages : m.type = "KEYMAP_NOTIFY" \/ (m.type = "KEYPRESS" /\ m.key = k)}

Pressed(m, k) == IF m.type = "KEYMAP_NOTIFY" THEN k \in m.keys ELSE m.pressed

\* The messages that give k its bit of the moment, and are not dropped.
KeyTold(k) ==
  {m \in KeyMessages(k) :
     m.win \in {hostFocus, NoWindow} /\ (Pressed(m, k) <=> k \in held)}

\* The bit of every key is the host's, or will be.
KeysFollow ==
  Steady => \A k \in Keys :
    \/ Comes(toAgent, KeyTold(k), KeyMessages(k))
    \/ (k \in keymap <=> k \in held) /\ Quiet(toAgent, KeyMessages(k))

LEMMA AddresseeSteady ==
  ASSUME TypeOK, NEW w, ~HideAfter(w, 0)
  PROVE  Addressee(w) = w
<1>1. DOMAIN toDaemon \subseteq Nat \ {0}
  BY DEF TypeOK
<1>2. QED
  BY <1>1 DEF Addressee, HideAfter

\* Such a window does not become steady again.
LEMMA SteadyBefore ==
  ASSUME TypeOK, Announced, [Next]_vars, Steady', hostFocus' = hostFocus
  PROVE  Steady
<1>0. /\ hostFocus # NoWindow /\ running'
      /\ \A j \in DOMAIN toDaemon' :
           j > 0 => toDaemon'[j].type = "MAP" \/ toDaemon'[j].win # hostFocus
      /\ known \subseteq Windows /\ hostFocus \in known /\ hostFocus \in Windows
  BY DEF Steady, HideAfter, TypeOK, Announced, HostFocusShown
<1>1. connected
  BY <1>0 DEF Announced, CutOff
<1>2. running
  BY <1>0 DEF Next, vars, agentVars, Agent, Host, Client, CanSend, CanTell, Received,
              ReadForGone, ReadKeypress, ReadKeymapNotify, ReadFocusIn, ReadFocusOut,
              ReadFocusOutOfPopup, ReadFlags, Disconnect, Reconnect, DaemonMaps,
              DaemonHides, HostFocusIn, HostFocusOut, HostKey, HostMinimize,
              NewWindow, MapWindow, UnmapWindow, DestroyWindow, DestroySurface
<1> SUFFICES ~HideAfter(hostFocus, 0)
  BY <1>0, <1>2 DEF Steady
<1>3. ASSUME \A i \in DOMAIN toDaemon : i \in DOMAIN toDaemon' /\ toDaemon'[i] = toDaemon[i]
      PROVE  ~HideAfter(hostFocus, 0)
  BY <1>0, <1>3 DEF HideAfter
<1>4. CASE UNCHANGED toDaemon
  BY <1>3, <1>4
<1>5. ASSUME NEW m \in DaemonMessages, Send(m) PROVE ~HideAfter(hostFocus, 0)
  <2>1. \A i \in DOMAIN toDaemon : i \in DOMAIN toDaemon' /\ toDaemon'[i] = toDaemon[i]
    BY <1>5, SendElements
  <2>2. QED
    BY <1>3, <2>1
<1>6. ASSUME NEW w \in Windows, NEW q, Freed(w, q) PROVE ~HideAfter(hostFocus, 0)
  BY <1>5, <1>6 DEF Freed, DaemonMessages
<1>7. CASE ReadFocusOutOfPopup
  BY <1>4, <1>6, <1>7 DEF ReadFocusOutOfPopup, Popups
<1>8. ASSUME NEW w \in Windows, MapWindow(w) \/ UnmapWindow(w) \/ DestroyWindow(w)
      PROVE  ~HideAfter(hostFocus, 0)
  BY <1>5, <1>6, <1>8 DEF MapWindow, UnmapWindow, DestroyWindow, DaemonMessages
<1>9. CASE DaemonMaps \/ DaemonHides
  <2>1. toDaemon # <<>> /\ toDaemon' = Tail(toDaemon)
    BY <1>9 DEF DaemonMaps, DaemonHides
  <2>2. Head(toDaemon).type = "MAP" \/ Head(toDaemon).win # hostFocus
    BY <1>0, <1>9, <2>1, HeadToDaemonTyped DEF DaemonMaps, DaemonHides
  <2>3. /\ Head(toDaemon) = toDaemon[1] /\ DOMAIN toDaemon \subseteq Nat \ {0}
        /\ \A k \in DOMAIN toDaemon : k # 1 => /\ k - 1 \in DOMAIN toDaemon'
                                               /\ toDaemon'[k - 1] = toDaemon[k]
    BY <2>1, TailElements DEF TypeOK
  <2>4. SUFFICES ASSUME NEW j \in DOMAIN toDaemon, toDaemon[j].type # "MAP",
                        toDaemon[j].win = hostFocus
                 PROVE  FALSE
    BY DEF HideAfter
  <2>5. j # 1 /\ j \in Nat \ {0}
    BY <2>2, <2>3, <2>4
  <2>6. j - 1 \in DOMAIN toDaemon' /\ toDaemon'[j - 1] = toDaemon[j] /\ j - 1 > 0
    BY <2>3, <2>5
  <2>7. QED
    BY <1>0, <2>4, <2>6
<1>10. ~Disconnect /\ ~Reconnect
  BY <1>0, <1>1 DEF Disconnect, Reconnect
<1>11. QED
  BY <1>4, <1>7, <1>8, <1>9, <1>10
  DEF Next, vars, agentVars, daemonVars, Agent, Host, Client, ReadForGone, ReadKeypress,
      ReadKeymapNotify, ReadFocusIn, ReadFocusOut, ReadFlags, HostKey, HostMinimize,
      DestroySurface, HostFocusIn, HostFocusOut, NewWindow

\* Only the host gives its focus.
LEMMA SteadyAfter ==
  ASSUME TypeOK, [Next]_vars, Steady', hostFocus' # hostFocus
  PROVE  \E w \in Windows : HostFocusIn(w)
<1>1. hostFocus' # NoWindow
  BY DEF Steady
<1>2. QED
  BY <1>1
  DEF Next, vars, agentVars, daemonVars, Agent, Host, Client, ReadForGone, ReadKeypress,
      ReadKeymapNotify, ReadFocusIn, ReadFocusOut, ReadFocusOutOfPopup, ReadFlags,
      Disconnect, Reconnect, DaemonMaps, DaemonHides, HostFocusOut, HostKey,
      HostMinimize, NewWindow, MapWindow, UnmapWindow, DestroyWindow,
      DestroySurface

\* A window that is unmapped or destroyed is not steady.
LEMMA SteadyStays ==
  ASSUME TypeOK, Announced, NEW w \in Windows, NEW m \in DaemonMessages, Send(m),
         m.type # "MAP", m.win = w, Steady', UNCHANGED hostFocus
  PROVE  w # hostFocus
<1>1. connected /\ hostFocus # NoWindow
  BY DEF Steady, Announced, HostFocusShown, CutOff
<1>2. PICK n \in DOMAIN toDaemon' : n \in Nat /\ n > 0 /\ toDaemon'[n] = m
  BY <1>1, SendElements
<1>3. HideAfter(w, 0)'
  BY <1>2 DEF HideAfter
<1>4. ~HideAfter(hostFocus, 0)'
  BY DEF Steady, HideAfter
<1>5. QED
  BY <1>3, <1>4 DEF HideAfter

\* The keys of the moment and MSG_FOCUS_IN.
LEMMA HostFocusInTells ==
  ASSUME TypeOK, Steady', NEW w \in Windows, HostFocusIn(w)
  PROVE  LET m == [type |-> "KEYMAP_NOTIFY", win |-> NoWindow, keys |-> Bits(held)]
             n == [type |-> "FOCUS_IN", win |-> w]
         IN  /\ m \in AgentMessages /\ n \in AgentMessages /\ hostFocus' = w
             /\ UNCHANGED <<held, focus, keymap>>
             /\ toAgent \in Seq(AgentMessages)
             /\ toAgent' = (toAgent \o <<m>>) \o <<n>>
<1> DEFINE m == [type |-> "KEYMAP_NOTIFY", win |-> NoWindow, keys |-> Bits(held)]
           n == [type |-> "FOCUS_IN", win |-> w]
<1>1. hostFocus' = w /\ UNCHANGED <<toDaemon, held, focus, keymap>>
  BY DEF HostFocusIn, agentVars
<1>2. ~HideAfter(w, 0)
  BY <1>1 DEF Steady, HideAfter
<1>3. Addressee(w) = w
  BY <1>2, AddresseeSteady
<1>4. toAgent' = toAgent \o <<m, n>>
  BY <1>3 DEF HostFocusIn, Tell
<1>5. m \in AgentMessages /\ n \in AgentMessages /\ toAgent \in Seq(AgentMessages)
  BY DEF AgentMessages, TypeOK, Bits
<1> HIDE DEF m, n
<1>6. toAgent \o <<m, n>> = (toAgent \o <<m>>) \o <<n>>
  BY <1>5, TwoTold
<1>7. QED
  BY <1>1, <1>4, <1>5, <1>6 DEF m, n

LEMMA FocusFollowsStep ==
  TypeOK /\ Announced /\ Shown /\ FocusFollows /\ [Next]_vars => FocusFollows'
<1> SUFFICES ASSUME TypeOK, Announced, Shown, FocusFollows, [Next]_vars, Steady'
             PROVE  \/ Comes(toAgent', FocusIn(hostFocus'), FocusMessages)
                    \/ focus' = hostFocus' /\ Quiet(toAgent', FocusMessages)
  BY DEF FocusFollows
<1> DEFINE good == FocusIn(hostFocus)
           about == FocusMessages
           follows(q, f) == \/ Comes(q, good, about)
                            \/ f = hostFocus /\ Quiet(q, about)
<1>0. /\ toAgent \in Seq(AgentMessages) /\ hostFocus \in Windows \cup {NoWindow}
      /\ state \in [Windows -> {"absent", "hidden", "shown"}]
  BY DEF TypeOK
<1>1. CASE hostFocus' # hostFocus
  <2>1. PICK w \in Windows : HostFocusIn(w)
    BY <1>1, SteadyAfter
  <2> DEFINE m == [type |-> "KEYMAP_NOTIFY", win |-> NoWindow, keys |-> Bits(held)]
             n == [type |-> "FOCUS_IN", win |-> w]
  <2>2. /\ m \in AgentMessages /\ n \in AgentMessages /\ n \in FocusIn(hostFocus')
        /\ toAgent' = (toAgent \o <<m>>) \o <<n>>
    BY <2>1, HostFocusInTells DEF FocusIn
  <2> HIDE DEF m, n
  <2> DEFINE p == toAgent \o <<m>>
  <2>3. p \in Seq(AgentMessages)
    BY <1>0, <2>2, TellSettles
  <2> HIDE DEF p
  <2>4. Comes(p \o <<n>>, FocusIn(hostFocus'), FocusMessages)
    BY <2>2, <2>3, TellSettles
  <2>5. QED
    BY <2>2, <2>4 DEF p
<1>2. CASE hostFocus' = hostFocus
  <2>0. /\ Steady /\ hostFocus # NoWindow /\ hostFocus \in Windows
        /\ follows(toAgent, focus)
    BY <1>0, <1>2, SteadyBefore DEF FocusFollows, Steady
  <2>1. state[hostFocus] = "shown"
    BY <2>0 DEF Steady, Shown, KnownShown, Announced, HostFocusShown
  <2> SUFFICES follows(toAgent', focus')
    BY <1>2
  <2> HIDE DEF good, about
  <2>2. CASE UNCHANGED <<toAgent, focus>>
    BY <2>0, <2>2
  <2>3. ASSUME toAgent # <<>>, Head(toAgent) \notin good
        PROVE  /\ Tail(toAgent) \in Seq(AgentMessages)
               /\ \/ Comes(Tail(toAgent), good, about)
                  \/ /\ focus = hostFocus /\ Quiet(Tail(toAgent), about)
                     /\ Head(toAgent) \notin about
    BY <1>0, <2>0, <2>3, ReadSettles, TailElements
  <2>4. CASE /\ toAgent # <<>> /\ Head(toAgent) \notin good
             /\ toAgent' = Tail(toAgent) /\ focus' = focus
    BY <2>3, <2>4
  <2>5. CASE ReadForGone \/ ReadKeypress \/ ReadKeymapNotify \/ ReadFlags
    <3>1. toAgent # <<>> /\ toAgent' = Tail(toAgent) /\ focus' = focus
      BY <2>5 DEF ReadForGone, ReadKeypress, ReadKeymapNotify, ReadFlags, Received, agentVars
    <3>2. Head(toAgent).win = Gone \/ Head(toAgent).type # "FOCUS_IN"
      BY <2>5 DEF ReadForGone, ReadKeypress, ReadKeymapNotify, ReadFlags, Received, Addressed
    <3>3. Head(toAgent) \notin good
      BY <2>0, <3>2 DEF good, FocusIn
    <3>4. QED
      BY <2>4, <3>1, <3>3
  <2>6. CASE ReadFocusIn
    <3>1. /\ toAgent # <<>> /\ toAgent' = Tail(toAgent)
          /\ Head(toAgent).type = "FOCUS_IN" /\ GiveFocus(Head(toAgent).win)
      BY <2>6 DEF ReadFocusIn, Received
    <3>2. Head(toAgent) \in about
      BY <3>1, HeadTyped DEF about, FocusMessages
    <3>3. \/ Comes(Tail(toAgent), good, about)
          \/ Head(toAgent) \in good /\ Quiet(Tail(toAgent), about)
      BY <1>0, <2>0, <3>1, <3>2, ReadSettles
    <3>4. Head(toAgent) \in good => focus' = hostFocus
      <4>1. Head(toAgent) \in good => GiveFocus(hostFocus)
        BY <3>1 DEF good, FocusIn
      <4>2. GiveFocus(hostFocus) => focus' = hostFocus
        BY <2>0, <2>1 DEF GiveFocus
      <4>3. QED
        BY <4>1, <4>2
    <3>5. QED
      BY <3>1, <3>3, <3>4
  <2>7. CASE ReadFocusOut
    <3>1. /\ toAgent # <<>> /\ toAgent' = Tail(toAgent)
          /\ Head(toAgent).type = "FOCUS_OUT"
      BY <2>7 DEF ReadFocusOut, Received
    <3>2. Head(toAgent) \notin good /\ Head(toAgent) \in about
      BY <3>1, HeadTyped DEF good, about, FocusIn, FocusMessages
    <3>3. QED
      BY <2>3, <3>1, <3>2
  <2>8. ASSUME NEW w \in Windows, w # hostFocus, NEW q \in Seq(AgentMessages)
        PROVE  /\ Comes(q, good, about) => Comes(Struck(q, w), good, about)
               /\ Quiet(q, about) => Quiet(Struck(q, w), about)
    <3>1. \A m \in good : m.win # w
      BY <2>8 DEF good, FocusIn
    <3>2. \A m \in AgentMessages :
            m.win = w /\ [m EXCEPT !.win = Gone] \in about => m \in about
      <4>1. \A m \in AgentMessages : m.win = w => [m EXCEPT !.win = Gone].type = m.type
        BY DEF AgentMessages
      <4>2. QED
        BY <4>1 DEF about, FocusMessages
    <3>3. QED
      BY <2>8, <3>1, <3>2, StruckSettles
  <2>9. CASE ReadFocusOutOfPopup
    <3>1. /\ toAgent # <<>> /\ Head(toAgent).type = "FOCUS_OUT" /\ focus \in Windows
          /\ UNCHANGED <<connected, known, hostFocus>>
      BY <2>9 DEF ReadFocusOutOfPopup, Received, Popups, daemonVars
    <3>2. Head(toAgent) \notin good /\ Head(toAgent) \in about
      BY <3>1, HeadTyped DEF good, about, FocusIn, FocusMessages
    <3>3. Comes(Tail(toAgent), good, about) /\ Tail(toAgent) \in Seq(AgentMessages)
      BY <2>3, <3>1, <3>2
    <3>4. CASE Freed(focus, Tail(toAgent))
      <4> DEFINE m == [type |-> "DESTROY", win |-> focus]
      <4>1. Send(m) /\ m \in DaemonMessages /\ m.type # "MAP" /\ m.win = focus
            /\ toAgent' = Struck(Tail(toAgent), focus)
        BY <3>1, <3>4 DEF Freed, DaemonMessages
      <4> HIDE DEF m
      <4>2. focus # hostFocus
        BY <3>1, <4>1, SteadyStays
      <4>3. QED
        BY <2>8, <3>1, <3>3, <4>1, <4>2
    <3>5. CASE toAgent' = Tail(toAgent)
      BY <3>3, <3>5
    <3>6. QED
      BY <2>9, <3>4, <3>5 DEF ReadFocusOutOfPopup
  <2>10. CASE DestroySurface
    <3>1. focus = Gone /\ toAgent' = toAgent
      BY <2>10 DEF DestroySurface
    <3>2. focus # hostFocus
      BY <2>0, <3>1
    <3>3. QED
      BY <2>0, <3>1, <3>2
  <2>11. ASSUME NEW w \in Windows, DestroyWindow(w) PROVE follows(toAgent', focus')
    <3> DEFINE m == [type |-> "DESTROY", win |-> w]
    <3>1. Send(m) /\ m \in DaemonMessages /\ m.type # "MAP" /\ m.win = w
          /\ UNCHANGED hostFocus /\ (focus # w => focus' = focus)
          /\ toAgent' = Struck(toAgent, w)
      BY <2>11 DEF DestroyWindow, Freed, DropFocusOf, ClearFocus, DaemonMessages, daemonVars
    <3> HIDE DEF m
    <3>2. w # hostFocus
      BY <3>1, SteadyStays
    <3>3. QED
      BY <1>0, <2>0, <2>8, <3>1, <3>2
  <2>12. ASSUME NEW m \in AgentMessages, m.type \in {"KEYPRESS", "WINDOW_FLAGS"},
                Tell(<<m>>), UNCHANGED focus
         PROVE  follows(toAgent', focus')
    <3>1. m \notin about
      BY <2>12 DEF about, FocusMessages
    <3>2. QED
      BY <1>0, <2>0, <2>12, <3>1, TellSettles DEF Tell
  <2>13. ASSUME NEW k \in Keys, HostKey(k) PROVE follows(toAgent', focus')
    <3> DEFINE m == [type |-> "KEYPRESS", win |-> Addressee(hostFocus),
                     key |-> k, pressed |-> k \notin held]
    <3>1. (k \notin held) \in BOOLEAN
      OBVIOUS
    <3>2. m \in AgentMessages /\ m.type = "KEYPRESS"
      BY <2>0, <3>1, AddresseeTyped DEF AgentMessages
    <3>3. Tell(<<m>>) /\ UNCHANGED focus
      BY <2>0, <2>13 DEF HostKey, agentVars
    <3> HIDE DEF m
    <3>4. QED
      BY <2>12, <3>2, <3>3
  <2>14. ASSUME NEW w \in Windows, NEW minimize \in BOOLEAN, HostMinimize(w, minimize)
         PROVE  follows(toAgent', focus')
    <3> DEFINE m == [type |-> "WINDOW_FLAGS", win |-> Addressee(w), minimize |-> minimize]
    <3>1. m \in AgentMessages /\ m.type = "WINDOW_FLAGS"
      BY AddresseeTyped DEF AgentMessages
    <3>2. Tell(<<m>>) /\ UNCHANGED focus
      BY <2>14 DEF HostMinimize, agentVars
    <3> HIDE DEF m
    <3>3. QED
      BY <2>12, <3>1, <3>2
  <2>15. CASE DaemonHides
    <3>1. Head(toDaemon).win # hostFocus
      BY <1>2, <2>0, <2>15 DEF DaemonHides
    <3>2. QED
      BY <2>2, <2>15, <3>1 DEF DaemonHides, agentVars
  <2>16. ~HostFocusOut /\ ~Disconnect /\ \A w \in Windows : ~HostFocusIn(w)
    BY <1>2, <2>0 DEF HostFocusOut, Disconnect, HostFocusIn
  <2>17. CASE UNCHANGED vars \/ Reconnect \/ DaemonMaps
    BY <2>2, <2>17 DEF vars, agentVars, Reconnect, DaemonMaps
  <2>18. ASSUME NEW w \in Windows, NewWindow(w) \/ MapWindow(w) \/ UnmapWindow(w)
         PROVE  follows(toAgent', focus')
    BY <2>2, <2>18 DEF NewWindow, MapWindow, UnmapWindow
  <2>19. QED
    BY <2>5, <2>6, <2>7, <2>9, <2>10, <2>11, <2>13, <2>14, <2>15, <2>16, <2>17, <2>18
    DEF Next, Agent, Host, Client
<1>3. QED
  BY <1>1, <1>2

\* A key's bit follows the host's key, if keymaps and key presses number keys
\* alike.
LEMMA KeysFollowStep ==
  ASSUME Offset = 0
  PROVE  TypeOK /\ Announced /\ KeysFollow /\ [Next]_vars => KeysFollow'
<1> SUFFICES ASSUME TypeOK, Announced, KeysFollow, [Next]_vars, Steady', NEW k \in Keys
             PROVE  \/ Comes(toAgent', KeyTold(k)', KeyMessages(k))
                    \/ (k \in keymap' <=> k \in held') /\ Quiet(toAgent', KeyMessages(k))
  BY DEF KeysFollow
<1> DEFINE good == KeyTold(k)
           about == KeyMessages(k)
           follows(q, map) == \/ Comes(q, good, about)
                              \/ (k \in map <=> k \in held) /\ Quiet(q, about)
<1>0. /\ toAgent \in Seq(AgentMessages) /\ hostFocus \in Windows \cup {NoWindow}
      /\ held \subseteq Keys /\ k \in Nat
  BY DEF TypeOK
<1>1. CASE hostFocus' # hostFocus
  <2>1. PICK w \in Windows : HostFocusIn(w)
    BY <1>1, SteadyAfter
  <2> DEFINE m == [type |-> "KEYMAP_NOTIFY", win |-> NoWindow, keys |-> Bits(held)]
             n == [type |-> "FOCUS_IN", win |-> w]
  <2>2. /\ m \in AgentMessages /\ n \in AgentMessages
        /\ toAgent' = (toAgent \o <<m>>) \o <<n>> /\ held' = held
    BY <2>1, HostFocusInTells
  <2>3. k \in Bits(held) <=> k \in held
    BY <1>0 DEF Bits
  <2>4. m \in KeyTold(k)' /\ n \notin about
    BY <2>2, <2>3 DEF KeyTold, KeyMessages, Pressed
  <2> HIDE DEF m, n, about
  <2> DEFINE p == toAgent \o <<m>>
  <2>5. p \in Seq(AgentMessages) /\ Comes(p, KeyTold(k)', about)
    BY <1>0, <2>2, <2>4, TellSettles
  <2> HIDE DEF p
  <2>6. Comes(p \o <<n>>, KeyTold(k)', about)
    BY <2>2, <2>4, <2>5, TellSettles
  <2>7. QED
    BY <2>2, <2>6 DEF p, about
<1>2. CASE hostFocus' = hostFocus
  <2>0. /\ Steady /\ hostFocus # NoWindow /\ hostFocus \in Windows
        /\ hostFocus # Gone /\ NoWindow # Gone
        /\ follows(toAgent, keymap)
    BY <1>0, <1>2, SteadyBefore DEF KeysFollow, Steady
  <2>1. ASSUME k \in held' <=> k \in held, follows(toAgent', keymap')
        PROVE  \/ Comes(toAgent', KeyTold(k)', KeyMessages(k))
               \/ (k \in keymap' <=> k \in held') /\ Quiet(toAgent', KeyMessages(k))
    <3>1. KeyTold(k)' = KeyTold(k)
      BY <1>2, <2>1 DEF KeyTold
    <3>2. QED
      BY <2>1, <3>1
  <2>2. ASSUME NEW j \in Keys, HostKey(j)
        PROVE  \/ Comes(toAgent', KeyTold(k)', KeyMessages(k))
               \/ (k \in keymap' <=> k \in held') /\ Quiet(toAgent', KeyMessages(k))
    <3> DEFINE m == [type |-> "KEYPRESS", win |-> hostFocus, key |-> j, pressed |-> j \notin held]
    <3>1. Addressee(hostFocus) = hostFocus
      BY <2>0, AddresseeSteady DEF Steady
    <3>2. /\ toAgent' = toAgent \o <<m>> /\ keymap' = keymap
          /\ held' = IF j \in held THEN held \ {j} ELSE held \cup {j}
      BY <2>0, <2>2, <3>1 DEF HostKey, Tell, agentVars
    <3>3. (j \notin held) \in BOOLEAN
      OBVIOUS
    <3>4. m \in AgentMessages /\ m.type = "KEYPRESS" /\ m.win = hostFocus /\ m.key = j
            /\ m.pressed = (j \notin held)
      BY <2>0, <3>3 DEF AgentMessages
    <3> HIDE DEF m
    <3>5. CASE j = k
      <4>1. k \in held' <=> m.pressed
        BY <3>2, <3>4, <3>5
      <4>2. m \in KeyTold(k)'
        BY <1>2, <3>4, <3>5, <4>1 DEF KeyTold, KeyMessages, Pressed
      <4>3. QED
        BY <1>0, <3>2, <3>4, <4>2, TellSettles
    <3>6. CASE j # k
      <4>1. m \notin about
        BY <3>4, <3>6 DEF KeyMessages
      <4> HIDE DEF good, about
      <4>2. follows(toAgent', keymap')
        BY <1>0, <2>0, <3>2, <3>4, <4>1, TellSettles
      <4>3. k \in held' <=> k \in held
        BY <3>2, <3>6
      <4>4. QED
        BY <2>1, <4>2, <4>3 DEF good, about
    <3>7. QED
      BY <3>5, <3>6
  <2>3. ASSUME \A j \in Keys : ~HostKey(j) PROVE UNCHANGED held
    BY <2>3 DEF Next, vars, agentVars, daemonVars, Agent, Host, Client, ReadForGone,
      ReadKeypress, ReadKeymapNotify, ReadFocusIn, ReadFocusOut, ReadFocusOutOfPopup,
      ReadFlags, Disconnect, Reconnect, DaemonMaps, DaemonHides, HostFocusIn,
      HostFocusOut, HostMinimize, NewWindow, MapWindow, UnmapWindow, DestroyWindow,
      DestroySurface
  <2> SUFFICES ASSUME \A j \in Keys : ~HostKey(j) PROVE follows(toAgent', keymap')
    BY <2>1, <2>2, <2>3
  <2> HIDE DEF good, about
  <2>4. CASE UNCHANGED <<toAgent, keymap>>
    BY <2>0, <2>4
  <2>5. ASSUME toAgent # <<>>
        PROVE  /\ Tail(toAgent) \in Seq(AgentMessages)
               /\ \/ Comes(Tail(toAgent), good, about)
                  \/ Head(toAgent) \in good /\ Quiet(Tail(toAgent), about)
                  \/ /\ (k \in keymap <=> k \in held) /\ Quiet(Tail(toAgent), about)
                     /\ Head(toAgent) \notin about
    BY <1>0, <2>0, <2>5, ReadSettles, TailElements
  <2>6. CASE ReadForGone \/ ReadFocusIn \/ ReadFocusOut \/ ReadFlags
    <3>1. toAgent # <<>> /\ toAgent' = Tail(toAgent) /\ keymap' = keymap
      BY <2>6 DEF ReadForGone, ReadFocusIn, ReadFocusOut, ReadFlags, Received, agentVars
    <3>2. Head(toAgent).win = Gone \/ Head(toAgent).type \notin {"KEYMAP_NOTIFY", "KEYPRESS"}
      BY <2>6 DEF ReadForGone, ReadFocusIn, ReadFocusOut, ReadFlags, Received, Addressed
    <3>3. Head(toAgent) \notin good
      BY <2>0, <3>2 DEF good, KeyTold, KeyMessages
    <3>4. QED
      BY <2>5, <3>1, <3>3
  <2>7. CASE ReadKeypress
    <3> DEFINE m == Head(toAgent)
    <3>1. /\ toAgent # <<>> /\ toAgent' = Tail(toAgent) /\ m.type = "KEYPRESS"
          /\ keymap' = IF m.pressed THEN keymap \cup {m.key} ELSE keymap \ {m.key}
      BY <2>7 DEF ReadKeypress, Received, Keypress
    <3>2. m \in AgentMessages
      BY <1>0, <3>1, TailElements
    <3> HIDE DEF m
    <3>3. m \in good => (k \in keymap' <=> k \in held)
      BY <3>1 DEF good, KeyTold, KeyMessages, Pressed
    <3>4. m \notin about => (k \in keymap' <=> k \in keymap)
      BY <3>1, <3>2 DEF about, KeyMessages
    <3>5. QED
      BY <2>5, <3>1, <3>3, <3>4 DEF m
  <2>8. CASE ReadKeymapNotify
    <3> DEFINE m == Head(toAgent)
    <3>1. /\ toAgent # <<>> /\ toAgent' = Tail(toAgent) /\ m.type = "KEYMAP_NOTIFY"
          /\ keymap' = m.keys
      BY <2>8 DEF ReadKeymapNotify, Received, KeymapNotify
    <3>2. m \in AgentMessages
      BY <1>0, <3>1, TailElements
    <3> HIDE DEF m
    <3>3. m \in good => (k \in keymap' <=> k \in held)
      BY <3>1 DEF good, KeyTold, KeyMessages, Pressed
    <3>4. m \in about
      BY <3>1, <3>2 DEF about, KeyMessages
    <3>5. QED
      BY <2>5, <3>1, <3>3, <3>4 DEF m
  <2>9. ASSUME NEW w \in Windows, w # hostFocus, NEW q \in Seq(AgentMessages)
        PROVE  /\ Comes(q, good, about) => Comes(Struck(q, w), good, about)
               /\ Quiet(q, about) => Quiet(Struck(q, w), about)
    <3>1. \A m \in good : m.win # w
      BY <2>9 DEF good, KeyTold
    <3>2. ASSUME NEW m \in AgentMessages, m.win = w, [m EXCEPT !.win = Gone] \in about
          PROVE  m \in about
      BY <3>2 DEF about, KeyMessages, AgentMessages
    <3>3. QED
      BY <2>9, <3>1, <3>2, StruckSettles
  <2>10. CASE ReadFocusOutOfPopup
    <3>1. /\ toAgent # <<>> /\ Head(toAgent).type = "FOCUS_OUT" /\ focus \in Windows
          /\ UNCHANGED <<connected, known, hostFocus, keymap>>
      BY <2>10 DEF ReadFocusOutOfPopup, Received, Popups, daemonVars
    <3>2. Head(toAgent) \notin good
      BY <3>1 DEF good, KeyTold, KeyMessages
    <3>3. follows(Tail(toAgent), keymap) /\ Tail(toAgent) \in Seq(AgentMessages)
      BY <2>5, <3>1, <3>2
    <3>4. CASE Freed(focus, Tail(toAgent))
      <4> DEFINE m == [type |-> "DESTROY", win |-> focus]
      <4>1. Send(m) /\ m \in DaemonMessages /\ m.type # "MAP" /\ m.win = focus
            /\ toAgent' = Struck(Tail(toAgent), focus)
        BY <3>1, <3>4 DEF Freed, DaemonMessages
      <4> HIDE DEF m
      <4>2. focus # hostFocus
        BY <3>1, <4>1, SteadyStays
      <4>3. QED
        BY <2>9, <3>1, <3>3, <4>1, <4>2
    <3>5. CASE toAgent' = Tail(toAgent)
      BY <3>1, <3>3, <3>5
    <3>6. QED
      BY <2>10, <3>4, <3>5 DEF ReadFocusOutOfPopup
  <2>11. ASSUME NEW w \in Windows, DestroyWindow(w) PROVE follows(toAgent', keymap')
    <3> DEFINE m == [type |-> "DESTROY", win |-> w]
    <3>1. Send(m) /\ m \in DaemonMessages /\ m.type # "MAP" /\ m.win = w
          /\ UNCHANGED <<hostFocus, keymap>> /\ toAgent' = Struck(toAgent, w)
      BY <2>11 DEF DestroyWindow, Freed, DaemonMessages, daemonVars
    <3> HIDE DEF m
    <3>2. w # hostFocus
      BY <3>1, SteadyStays
    <3>3. QED
      BY <1>0, <2>0, <2>9, <3>1, <3>2
  <2>12. ASSUME NEW w \in Windows, NEW minimize \in BOOLEAN, HostMinimize(w, minimize)
         PROVE  follows(toAgent', keymap')
    <3> DEFINE m == [type |-> "WINDOW_FLAGS", win |-> Addressee(w), minimize |-> minimize]
    <3>1. m \in AgentMessages /\ m.type = "WINDOW_FLAGS"
      BY AddresseeTyped DEF AgentMessages
    <3>2. Tell(<<m>>) /\ UNCHANGED keymap
      BY <2>12 DEF HostMinimize, agentVars
    <3> HIDE DEF m
    <3>3. m \notin about
      BY <3>1 DEF about, KeyMessages
    <3>4. QED
      BY <1>0, <2>0, <3>1, <3>2, <3>3, TellSettles DEF Tell
  <2>13. CASE DaemonHides
    <3>1. Head(toDaemon).win # hostFocus
      BY <1>2, <2>0, <2>13 DEF DaemonHides
    <3>2. QED
      BY <2>4, <2>13, <3>1 DEF DaemonHides, agentVars
  <2>14. ~HostFocusOut /\ ~Disconnect /\ \A w \in Windows : ~HostFocusIn(w)
    BY <1>2, <2>0 DEF HostFocusOut, Disconnect, HostFocusIn
  <2>15. CASE UNCHANGED vars \/ Reconnect \/ DaemonMaps \/ DestroySurface
    BY <2>4, <2>15 DEF vars, agentVars, Reconnect, DaemonMaps, DestroySurface
  <2>16. ASSUME NEW w \in Windows, NewWindow(w) \/ MapWindow(w) \/ UnmapWindow(w)
         PROVE  follows(toAgent', keymap')
    BY <2>4, <2>16 DEF NewWindow, MapWindow, UnmapWindow
  <2>17. QED
    BY <2>6, <2>7, <2>8, <2>10, <2>11, <2>12, <2>13, <2>14, <2>15, <2>16
    DEF Next, Agent, Host, Client
<1>3. QED
  BY <1>1, <1>2

-----------------------------------------------------------------------------
(* The theorems.                                                           *)

\* The invariant behind the theorems below: types, keys, activation, focus and
\* the windows that messages under way can name.
THEOREM Invariance == Spec => []IInv
<1>1. Init => IInv
  <2> SUFFICES ASSUME Init PROVE IInv
    OBVIOUS
  <2>1. TypeOK
    BY TypeInit
  <2>2. HeldIsTracked /\ ActiveIsFocused /\ FocusIsAlive
    BY DEF Init, HeldIsTracked, ActiveIsFocused, FocusIsAlive
  <2>3. AddresseesLive /\ Announced
    BY DEF Init, AddresseesLive, Live, Announced, DestroyAnnounced, MapsAnnounced,
           HostFocusShown, CutOff
  <2>4. QED
    BY <2>1, <2>2, <2>3 DEF IInv
<1>2. IInv /\ [Next]_vars => IInv'
  BY TypeStep, KeysStep, ActiveStep, FocusStep, LiveStep, AnnouncedStep DEF IInv
<1>3. QED
  BY <1>1, <1>2, PTL DEF Spec

\* The variables of the seat keep their types; the array of the wlr_keyboard is
\* never overrun and holds no key whose bit is clear (handle_keypress and
\* MSG_KEYMAP_NOTIFY, qubes_input.c:46-84 and 575-590).
THEOREM TypeCorrect == Spec => []TypeOK
<1>1. IInv => TypeOK
  BY DEF IInv
<1>2. QED
  BY <1>1, Invariance, PTL

\* A key that a client believes to be pressed has its bit set, so that its
\* release will be passed on (qubes_input.c:46-84 and 575-590).
THEOREM KeysTracked == Spec => []HeldIsTracked
<1>1. IInv => HeldIsTracked
  BY DEF IInv
<1>2. QED
  BY <1>1, Invariance, PTL

\* No toplevel stays activated that lost the focus, unless a popup of it was
\* given the focus or the daemon restored it (qubes_give_view_keyboard_focus and
\* handle_focus, qubes_input.c:214-336).
THEOREM ActivationFollowsFocus == Spec => []ActiveIsFocused
<1>1. IInv => ActiveIsFocused
  BY DEF IInv
<1>2. QED
  BY <1>1, Invariance, PTL

\* The seat's focus is never left on, or given to, a window that is gone, in
\* any order of the daemon's messages and the ends of windows
\* (qubes_give_view_keyboard_focus and handle_focus, qubes_input.c:214-336).
THEOREM FocusLives == Spec => []FocusIsAlive
<1>1. IInv => FocusIsAlive
  BY DEF IInv
<1>2. QED
  BY <1>1, Invariance, PTL

\* What the daemon shows is mapped unless it is still to hear otherwise, and a
\* window that the host's focus stays on has the seat's focus or will be given it
\* by a message on its way that no later one takes back; losses of the connection,
\* dropped messages and popups destroyed by MSG_FOCUS_OUT notwithstanding
\* (handle_focus, qubes_input.c:287-336).
THEOREM FocusArrives == Spec => [](Shown /\ FocusFollows)
<1>1. Init => Shown /\ FocusFollows
  BY DEF Init, Shown, KnownShown, MapsShown, FocusFollows, Steady
<1>2. IInv /\ (Shown /\ FocusFollows) /\ [Next]_vars => (Shown /\ FocusFollows)'
  BY ShownStep, FocusFollowsStep DEF IInv
<1>3. QED
  BY <1>1, <1>2, Invariance, PTL DEF Spec

\* Likewise the bit of every key is the host's, or a message on its way makes it
\* so and none after that undoes it (handle_keypress and MSG_KEYMAP_NOTIFY,
\* qubes_input.c:46-84 and 575-590).
THEOREM KeysArrive == ASSUME Offset = 0 PROVE Spec => []KeysFollow
<1>1. Init => KeysFollow
  BY DEF Init, KeysFollow, Steady
<1>2. IInv /\ KeysFollow /\ [Next]_vars => KeysFollow'
  BY KeysFollowStep DEF IInv
<1>3. QED
  BY <1>1, <1>2, Invariance, PTL DEF Spec

\* When nothing is under way, a mapped window with the host's focus has the
\* seat's, and the keys are the host's, if keymaps and key presses number keys
\* alike (qubes_input.c:69-72).
THEOREM SeatInSync == ASSUME Offset = 0 PROVE Spec => []InSync
<1>1. ASSUME IInv, FocusFollows, KeysFollow, running, toDaemon = <<>>, toAgent = <<>>,
             hostFocus # NoWindow
      PROVE  focus = hostFocus /\ keymap = held /\ clientKeys \subseteq held
  <2>1. Steady
    BY <1>1 DEF Steady, HideAfter
  <2>2. ASSUME NEW good, NEW about PROVE ~Comes(toAgent, good, about)
    BY <1>1 DEF Comes
  <2>3. focus = hostFocus /\ \A k \in Keys : k \in keymap <=> k \in held
    BY <1>1, <2>1, <2>2 DEF FocusFollows, KeysFollow
  <2>4. Bits(Keys) \subseteq Keys
    BY DEF Bits
  <2>5. keymap \subseteq Keys /\ held \subseteq Keys /\ clientKeys \subseteq keymap
    BY <1>1, <2>4 DEF IInv, TypeOK, HeldIsTracked
  <2>6. QED
    BY <2>3, <2>5
<1>2. IInv /\ FocusFollows /\ KeysFollow => InSync
  BY <1>1 DEF InSync
<1>3. QED
  BY <1>2, Invariance, FocusArrives, KeysArrive, PTL
=============================================================================
