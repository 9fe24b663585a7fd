--------------------------- MODULE MCHashCritbit ---------------------------
EXTENDS HashCritbit, TLC

\* 00, 01 and 10: nodes at bit 0 and at bit 1, and either may come first.
MCDigests == {[i \in 0..1 |-> 0], [i \in 0..1 |-> i], [i \in 0..1 |-> 1 - i]}

MCSymmetry == Permutations(Threads) \cup Permutations(Heads)
                  \cup Permutations(Ys)
============================================================================
