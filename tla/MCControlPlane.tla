--------------------------- MODULE MCControlPlane ---------------------------
(* Instances of ControlPlane for TLC.                                      *)
EXTENDS ControlPlane, TLC

(* Signed in with a password of the old cost, and with a second factor.    *)
BothStarts == {[enrolled |-> FALSE, behind |-> TRUE], [enrolled |-> TRUE, behind |-> FALSE]}
PlainStart == {[enrolled |-> FALSE, behind |-> FALSE]}

Symmetry == Permutations(Procs) \cup Permutations(Operators)
=============================================================================
