------------------------------- MODULE MCServices -------------------------------
(* Instances of Services for TLC.                                          *)
EXTENDS Services, TLC

Symmetry == Permutations(Handlers) \cup Permutations(Names) \cup Permutations(Gates)

=============================================================================
