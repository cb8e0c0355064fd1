------------------------------ MODULE WindowIds ------------------------------
(***************************************************************************)
(* What the Rust backend promises about window ids (src/src/qubes.rs, id   *)
(* and destroy_id): ids are handed out in order and once only; an id whose *)
(* window was destroyed stays reserved, so that messages under way for it  *)
(* are dropped, until the daemon acknowledges the destruction; and it is   *)
(* never held again.  GuiSession is shown to implement this.               *)
(***************************************************************************)
EXTENDS Integers

CONSTANT MaxWid

VARIABLE idState    \* the life of every id

States == {"free", "held", "released", "gone"}

idTypeOK == idState \in [1 .. MaxWid -> States]

idInit == idState = [i \in 1 .. MaxWid |-> "free"]

Becomes(i, from, to) == idState[i] = from /\ idState' = [idState EXCEPT ![i] = to]

Allocate(i) ==
  /\ \A j \in 1 .. (i - 1) : idState[j] # "free"
  /\ Becomes(i, "free", "held")
Release(i)     == Becomes(i, "held", "released")
Acknowledge(i) == Becomes(i, "released", "gone")

idNext == \E i \in 1 .. MaxWid : Allocate(i) \/ Release(i) \/ Acknowledge(i)

idSpec == idInit /\ [][idNext]_idState
=============================================================================
