------------------------- MODULE MCRefreshRotation -------------------------
(* Small instances of RefreshRotation for TLC. *)
EXTENDS RefreshRotationInv, TLC

CONSTANTS s1, alice, bob

OneSession == {s1}
OneOwner   == [s \in Sessions |-> alice]

Symmetry == Permutations(Tokens) \cup Permutations(Procs)

=============================================================================
