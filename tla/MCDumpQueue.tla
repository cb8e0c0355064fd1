----------------------------- MODULE MCDumpQueue -----------------------------
(* Instances of DumpQueue for TLC. *)
EXTENDS DumpQueue, TLC

CONSTANTS o1, o2, b1, b2, b3, b4

\* Buffers are interchangeable; so are outputs.
Symmetry == Permutations(Buffers) \cup Permutations(Outputs)
=============================================================================
