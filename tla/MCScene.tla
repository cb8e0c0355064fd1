------------------------------- MODULE MCScene -------------------------------
\* An instance of Scene for TLC: two windows of any kind, the second of which
\* may be transient for the first.
EXTENDS Scene, TLC

CONSTANTS w1, w2

MCWindows == {w1, w2}
MCParent  == w1 :> NoWindow @@ w2 :> w1
=============================================================================
