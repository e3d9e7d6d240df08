------------------------------ MODULE MCLoginFlow ------------------------------
(* Instances of LoginFlow for TLC.                                         *)
EXTENDS LoginFlow, TLC

\* A form gate and a provider gate, each with a leg of the other kind, a
\* gate that names nobody, and two providers.
FormAndProvider == {<<"oidc", "mcp">>, <<"ssh", "oidc">>, <<"oidc", "ssh">>, <<"key", "oidc">>}

Symmetry == Permutations(Handlers) \cup Permutations(Browsers)

=============================================================================
