-------------------------- MODULE MCRefreshSessions --------------------------
(* The instance of RefreshSessions for TLC.  It has no symmetry, which a   *)
(* run that checks liveness does not allow.                                *)
EXTENDS RefreshSessions, TLC

=============================================================================
