------------------------------- MODULE MCAccounts -------------------------------
(* Instances of Accounts for TLC.                                          *)
EXTENDS Accounts, TLC

Symmetry == Permutations(Handlers) \cup Permutations(Emails)

=============================================================================
