------------------------- MODULE MC_AccountSession -------------------------
(* Instances of AccountSession for TLC. *)
EXTENDS AccountSession, TLC

CONSTANTS r1, r2

Requests == {r1, r2}
Symmetry == Permutations(Requests)

=============================================================================
