------------------------------- MODULE MCSilo -------------------------------
(***************************************************************************)
(* A small silo: segments of two cells, so that the space is used up and   *)
(* used again, and a body can lie in the segment of its object or in the   *)
(* next.                                                                   *)
(***************************************************************************)
EXTENDS Silo, TLC

Symmetry == Permutations(Objs)

\* Saves are not followed in the last start, which none comes after, nor once the
\* counts are wrong; and in the last start nothing is followed after that.
Explored == (skew => starts < MaxStart) /\ (skew \/ starts = MaxStart => save.pc = 0)
=============================================================================
