-------------------------- MODULE SessionLifecycle --------------------------
(***************************************************************************)
(* What a session promises, without the table or the requests behind it:   *)
(* it is opened once, moves from one refresh token to a later one while it *)
(* is open, and when it ends it has ended for good.                        *)
(***************************************************************************)
EXTENDS Naturals

CONSTANT Sessions

VARIABLES
    phase,      \* "unopened", "open" or "ended"
    generation  \* which refresh token of the session is the current one

vars == <<phase, generation>>

Init ==
    /\ phase = [s \in Sessions |-> "unopened"]
    /\ generation = [s \in Sessions |-> 0]

Open(s) ==
    /\ phase[s] = "unopened"
    /\ phase' = [phase EXCEPT ![s] = "open"]
    /\ generation'[s] \in Nat \ {0}
    /\ generation' = [generation EXCEPT ![s] = generation'[s]]

Advance(s) ==
    /\ phase[s] = "open"
    /\ generation'[s] \in Nat
    /\ generation'[s] > generation[s]
    /\ generation' = [generation EXCEPT ![s] = generation'[s]]
    /\ UNCHANGED phase

\* Sessions end together when an account's sessions are revoked, when expired
\* ones are swept, and when a restart drops the sign-ins not yet redeemed.
End(S) ==
    /\ phase' = [s \in Sessions |-> IF s \in S THEN "ended" ELSE phase[s]]
    /\ generation' = [s \in Sessions |-> IF s \in S THEN 0 ELSE generation[s]]

Next ==
    \/ \E s \in Sessions : Open(s)
    \/ \E s \in Sessions : Advance(s)
    \/ \E S \in SUBSET Sessions : End(S)

Spec == Init /\ [][Next]_vars

=============================================================================
