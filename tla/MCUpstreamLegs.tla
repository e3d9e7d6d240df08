----------------------------- MODULE MCUpstreamLegs -----------------------------
(* An instance of UpstreamLegs for TLC: records of every kind, two of them *)
(* of one provider, and services that want each of them.                   *)
EXTENDS UpstreamLegs, TLC

Kinds == [r \in Records |->
    CASE r = "sso" -> "oidc" [] r = "work" -> "oidc" [] r = "home" -> "oidc" [] r = "wiki" -> "mcp"
      [] OTHER -> r]

SignsInWith == "sso" :> "one" @@ "work" :> "one" @@ "home" :> "two" @@ "wiki" :> "three"

Api(local, actsAs) == [type |-> "api", local |-> local, actsAs |-> actsAs, own |-> NoRecord]
Mcp(own) == [type |-> "mcp", local |-> FALSE, actsAs |-> NoRecord, own |-> own]
Every == {Api(local, r) : local \in BOOLEAN, r \in (Records \ {"wiki"}) \cup {NoRecord}} \cup {Mcp("wiki")}

\* A gate and a service's record: two providers, one provider twice, an mcp
\* server, and gates that name nobody upstream.
TwoLegs == {<<"sso", "home">>, <<"sso", "work">>, <<"sso", "wiki">>, <<"ssh", "home">>, <<"key", "ssh">>}

Symmetry == Permutations(Refreshers)

=============================================================================
