---------------------------- MODULE MCApprovals -----------------------------
(* A small instance of Approvals for TLC.                                  *)
EXTENDS Approvals, TLC

CONSTANTS t1, s1, s2, a1, a2

MCTasks     == {t1}
MCSessions  == {s1, s2}
MCApprovers == {a1, a2}

=============================================================================
