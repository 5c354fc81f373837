----------------------------- MODULE MCSession ------------------------------
(* Small instances of Session for TLC.                                     *)
EXTENDS Prompt, TLC

CONSTANTS q1, q2, q3

Two   == {q1, q2}
Three == {q1, q2, q3}
TwoSymmetry == Permutations(Two)

=============================================================================
