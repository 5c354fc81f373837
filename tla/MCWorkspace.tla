---------------------------- MODULE MCWorkspace ----------------------------
(* Small instances of Workspace for TLC.                                   *)
EXTENDS Workspace, TLC

AllFaults == {"shadow", "status", "remove"}

=============================================================================
