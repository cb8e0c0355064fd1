----------------------------- MODULE MCClipboard -----------------------------
EXTENDS Clipboard

CONSTANTS d1, d2

TwoContents == {d1, d2}
=============================================================================
