------------------------------ MODULE MCLedger ------------------------------
(* Small instances of Ledger for TLC.                                      *)
EXTENDS Ledger, TLC

CONSTANTS w1, w2, r1

MCWriters == {w1, w2}
MCReaders == {r1}
MCSymmetry == Permutations(MCWriters)

=============================================================================
