--------------------------- MODULE MCSessionLife ---------------------------
(* SessionLife for TLC: workers are interchangeable, and so are sessions. *)
EXTENDS SessionLife
Symmetry == Permutations(Workers) \cup Permutations(Sessions)
=============================================================================
