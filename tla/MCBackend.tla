------------------------------ MODULE MCBackend ------------------------------
(* Two VCLs share a backend, and one of them declares a probe for it.      *)
EXTENDS Backend, TLC

CONSTANTS v1, v2, b1
MCUses == v1 :> <<b1>> @@ v2 :> <<b1>>
MCHosts == v1 :> {b1} @@ v2 :> {b1}
MCProbes == v1 :> {} @@ v2 :> {b1}
Symmetry == Permutations(Workers)

\* What follows once a reference was lost is not explored.
Explored == lost = {}
=============================================================================
