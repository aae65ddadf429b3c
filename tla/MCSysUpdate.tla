---------------------------- MODULE MCSysUpdate ----------------------------
EXTENDS SysUpdate, TLC

Symmetry == Permutations(Versions)
=============================================================================
