----------------------------- MODULE MCMainLoop -----------------------------
\* An instance of MainLoop for TLC: two layouts that compile and one that does not.
EXTENDS MainLoop

CONSTANTS us, de, bad

TwoLayouts == {us, de}
OneBroken  == {bad}
=============================================================================
