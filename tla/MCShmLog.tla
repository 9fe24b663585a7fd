------------------------------ MODULE MCShmLog ------------------------------
EXTENDS ShmLog, TLC

Symmetry == Permutations(Writers)

\* What follows once a reader or a writer was overtaken is not explored.
Explored == ~lapped /\ ~late
=============================================================================
