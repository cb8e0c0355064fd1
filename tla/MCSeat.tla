------------------------------- MODULE MCSeat -------------------------------
\* An instance of Seat for TLC: a toplevel with a popup, and an X11 window.
EXTENDS Seat, TLC

CONSTANTS t, p, x

MCWindows == {t, p, x}
MCKind == t :> "toplevel" @@ p :> "popup" @@ x :> "xwayland"
MCParent == t :> NoWindow @@ p :> t @@ x :> NoWindow
=============================================================================
