-------------------------- MODULE MCMigrationWatch --------------------------
EXTENDS MigrationWatch, TLC

\* Nodes and goroutines are interchangeable.
Symmetry == Permutations(Loops) \cup Permutations(Nodes)

=============================================================================
