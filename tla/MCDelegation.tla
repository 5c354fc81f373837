---------------------------- MODULE MCDelegation ----------------------------
(* Small instances of Delegation. *)
EXTENDS Delegation

AnyRequest == {"message", "steer", "pause", "resume", "interrupt"}
=============================================================================
