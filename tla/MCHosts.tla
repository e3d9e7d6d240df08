--------------------------------- MODULE MCHosts ---------------------------------
(* Instances of Hosts for TLC. *)
EXTENDS Hosts, TLC

Symmetry == Permutations(Handlers) \cup Permutations(Names) \cup Permutations(Hosts)

=============================================================================
