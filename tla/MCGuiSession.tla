---------------------------- MODULE MCGuiSession ----------------------------
\* Instances of GuiSession for TLC: a toplevel and a popup on it, or a
\* toplevel and an Xwayland window.
EXTENDS GuiSession, TLC

CONSTANTS w1, w2

MCKindPopup    == (w1 :> "toplevel" @@ w2 :> "popup")
MCKindXwayland == w1 :> "toplevel" @@ w2 :> "xwayland"
MCParentPopup    == w1 :> NullPtr @@ w2 :> w1
MCNoParents      == w1 :> NullPtr @@ w2 :> NullPtr
=============================================================================
