-------------------------------- MODULE MCAccess --------------------------------
(* Instances of Access for TLC.                                            *)
EXTENDS Access, TLC

Symmetry == Permutations(Handlers) \cup Permutations(Users) \cup Permutations(Apps) \cup Permutations(Services)

=============================================================================
