---------------------------- MODULE MCSwarmEvents -----------------------------
(* Small instances of SwarmEvents for TLC.                                   *)
EXTENDS SwarmEvents, TLC

=============================================================================
