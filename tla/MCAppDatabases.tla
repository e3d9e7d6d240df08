---------------------------- MODULE MCAppDatabases ----------------------------
(* Instances of AppDatabases for TLC.                                      *)
EXTENDS AppDatabases, TLC

Symmetry == Permutations(Callers) \cup Permutations(Handles)

=============================================================================
