---------------------------- MODULE MCSSHSessions ----------------------------
(* The instance of SSHSessions for TLC.  It has no symmetry, which a       *)
(* run that checks liveness does not allow.                                *)
EXTENDS SSHSessions, TLC

=============================================================================
