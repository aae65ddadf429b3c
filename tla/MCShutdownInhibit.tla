------------------------- MODULE MCShutdownInhibit -------------------------
(* ShutdownInhibit for TLC: goroutines are interchangeable.                *)
EXTENDS ShutdownInhibit, TLC

Symmetry == Permutations(Watchers)

=============================================================================
