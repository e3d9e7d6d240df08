------------------------------ MODULE MCAppSlots ------------------------------
(* Instances of AppSlots for TLC.                                          *)
EXTENDS AppSlots, TLC

Symmetry == Permutations(Jobs)

=============================================================================
