------------------------------ MODULE UpstreamLegs ------------------------------
(***************************************************************************)
(* The upstream credentials of one session: which a login collects, how a   *)
(* refresh renews them at their providers before it rotates the session's   *)
(* own token, and which of them goes to a service.                         *)
(*                                                                         *)
(* Refreshes run side by side (tabs share a cookie, clients retry), their   *)
(* legs are visited in any order, a provider may spend a refresh token and  *)
(* issue the next, or let it live, and answers get lost on both sides.      *)
(* The family itself, with more tokens, is in RefreshSessions.              *)
(***************************************************************************)
EXTENDS Naturals, Sequences, SequencesExt

CONSTANTS
    Records, Kind,      \* auth records: "oidc", "mcp", "ssh", "key", "open"
    Providers, Provider,    \* whom a record that has a provider signs in with
    Services,           \* records with type, local, actsAs, own
    Doors,              \* what a login clears: the gate, then a service's record
    NoRecord, NoToken, NoLeg,
    Refreshers,
    MaxRotations, MaxSpent  \* bounds of the model: rotations of a family, of a grant

Interactive == {r \in Records : Kind[r] \in {"oidc", "mcp"}}

ASSUME UpstreamLegsAssumption ==
    /\ Kind \in [Records -> {"oidc", "mcp", "ssh", "key", "open"}]
    /\ Provider \in [Interactive -> Providers]
    /\ Services \subseteq [type: {"api", "mcp"}, local: BOOLEAN,
                           actsAs: Records \cup {NoRecord}, own: Records \cup {NoRecord}]
    /\ \A svc \in Services : svc.type = "mcp" => svc.own \in Interactive
    /\ Doors \subseteq Seq(Records) \ {<<>>} /\ NoRecord \notin Records
    /\ MaxRotations \in Nat /\ MaxSpent \in Nat \ {0}

VARIABLES
    cleared,    \* the legs of the login, in order
    family,     \* its refresh family
    grants,     \* per record, the refresh token that its provider takes
    jar, creds, \* what the client holds: a refresh token, an access token's credentials
    reqs,
    \* history
    forked,     \* records whose next refresh token did not reach the jar
    strayed     \* the family's next token did not reach it

legsVars == <<cleared, family, grants, jar, creds, reqs, forked, strayed>>

-----------------------------------------------------------------------------
(* State                                                                   *)

\* upstreamRefreshLeg: the record, and its refresh token if there is one (0
\* stands for the access token that rides on instead).
Leg == [rec: Interactive, refresh: 0..MaxSpent]
Legs == [Providers -> Leg \cup {NoLeg}]

LegToken == [jti: 0..MaxRotations, legs: Legs]

ASSUME NothingAssumption == NoLeg \notin Leg /\ NoToken \notin LegToken

Refresh == [at: {"idle", "legs", "rotate", "lost", "answer"}, token: LegToken \cup {NoToken}, seen: 0..MaxRotations,
            grace: BOOLEAN, todo: SUBSET Providers, legs: Legs, next: 0..MaxRotations,
            rotated: BOOLEAN, spent: SUBSET Interactive]

NoLegs == [p \in Providers |-> NoLeg]
Idle == [at |-> "idle", token |-> NoToken, seen |-> 0, grace |-> FALSE, todo |-> {}, legs |-> NoLegs, next |-> 0,
         rotated |-> FALSE, spent |-> {}]

LegsTypeOK ==
    /\ cleared \in Doors \cup {<<>>}
    /\ family \in [current: 0..MaxRotations, previous: 0..MaxRotations, recent: BOOLEAN, revoked: BOOLEAN]
    /\ grants \in [Interactive -> 0..MaxSpent]
    /\ jar \in LegToken \cup {NoToken}
    /\ creds \in [Providers -> Interactive \cup {NoRecord}]
    /\ reqs \in [Refreshers -> Refresh]
    /\ forked \subseteq Interactive /\ strayed \in BOOLEAN

LegsInit ==
    /\ cleared = <<>>
    /\ family = [current |-> 0, previous |-> 0, recent |-> FALSE, revoked |-> FALSE]
    /\ grants = [r \in Interactive |-> 0]
    /\ jar = NoToken /\ creds = [p \in Providers |-> NoRecord]
    /\ reqs = [h \in Refreshers |-> Idle]
    /\ forked = {} /\ strayed = FALSE

-----------------------------------------------------------------------------
(* A login's token                                                         *)

\* mintForLegs: one credential and one refresh leg per provider, the later of
\* two legs of one provider.
Collected(legs, issued) ==
    [p \in Providers |->
        LET of == {i \in DOMAIN legs : legs[i] \in Interactive /\ Provider[legs[i]] = p} IN
        IF of = {} THEN NoLeg ELSE [rec |-> legs[Max(of)], refresh |-> issued[legs[Max(of)]]]]

CredsOf(legs) == [p \in Providers |-> IF legs[p] = NoLeg THEN NoRecord ELSE legs[p].rec]

\* A login is completed; a provider may issue no refresh token.
SignIn(door) ==
    /\ cleared = <<>>
    /\ cleared' = door
    /\ \E issued \in [Interactive -> {0, 1}] :
        /\ \A r \in Interactive \ ToSet(door) : issued[r] = 0
        /\ grants' = issued
        /\ jar' = [jti |-> 0, legs |-> Collected(door, issued)]
        /\ creds' = CredsOf(Collected(door, issued))
    /\ UNCHANGED <<family, reqs, forked, strayed>>

-----------------------------------------------------------------------------
(* A refresh                                                               *)

\* A request ends without an answer that the client gets: what it spent at the
\* providers is not in the jar.
Ends(h) ==
    /\ reqs' = [reqs EXCEPT ![h] = Idle]
    /\ forked' = forked \cup reqs[h].spent
    /\ strayed' = (strayed \/ reqs[h].rotated)

\* The client sends what it has, and the family is looked up: a token that is
\* neither the current one nor, within the grace window, the one before ends
\* the session before anything goes upstream.
Ask(h) ==
    LET grace == jar.jti = family.previous /\ family.recent IN
    /\ reqs[h].at = "idle" /\ jar # NoToken /\ ~family.revoked
    /\ IF jar.jti = family.current \/ grace
       THEN /\ reqs' = [reqs EXCEPT ![h] = [Idle EXCEPT !.at = "legs", !.token = jar, !.seen = family.current,
                                                        !.grace = grace,
                                                        !.todo = {p \in Providers : jar.legs[p] # NoLeg}]]
            /\ UNCHANGED family
       ELSE /\ family' = [family EXCEPT !.revoked = TRUE]
            /\ UNCHANGED reqs
    /\ UNCHANGED <<cleared, grants, jar, creds, forked, strayed>>

\* The leg of p is done; the rotation comes once all are.
Done(h, p, leg, spent) ==
    reqs' = [reqs EXCEPT ![h].todo = @ \ {p}, ![h].legs[p] = leg, ![h].spent = @ \cup spent]

\* Nothing to refresh: "the upstream token rides on unchanged".
RideOn(h, p) ==
    /\ reqs[h].at = "legs" /\ p \in reqs[h].todo
    /\ reqs[h].token.legs[p].refresh = 0
    /\ Done(h, p, reqs[h].token.legs[p], {})
    /\ UNCHANGED <<cleared, family, grants, jar, creds, forked, strayed>>

\* The provider of record r takes this refresh token.
Takes(h, p) ==
    LET leg == reqs[h].token.legs[p] IN
    /\ reqs[h].at = "legs" /\ p \in reqs[h].todo
    /\ leg.refresh # 0 /\ leg.refresh = grants[leg.rec]

\* It answers with a new access token alone: the refresh token stays.
Renew(h, p) ==
    /\ Takes(h, p)
    /\ Done(h, p, reqs[h].token.legs[p], {})
    /\ UNCHANGED <<cleared, family, grants, jar, creds, forked, strayed>>

\* Mutant: the refresh token that was sent is kept, whatever came back.
ExchangeKeeping(h, p) ==
    LET leg == reqs[h].token.legs[p] IN
    /\ Takes(h, p) /\ grants[leg.rec] < MaxSpent
    /\ grants' = [grants EXCEPT ![leg.rec] = @ + 1]
    /\ Done(h, p, leg, {leg.rec})
    /\ UNCHANGED <<cleared, family, jar, creds, forked, strayed>>

\* Or with the next refresh token too, and the one sent is spent.
Exchange(h, p) ==
    LET leg == reqs[h].token.legs[p] IN
    /\ Takes(h, p) /\ grants[leg.rec] < MaxSpent
    /\ grants' = [grants EXCEPT ![leg.rec] = @ + 1]
    /\ Done(h, p, [leg EXCEPT !.refresh = @ + 1], {leg.rec})
    /\ UNCHANGED <<cleared, family, jar, creds, forked, strayed>>

\* The provider refuses, the record or the user is gone, or nobody answers:
\* the whole refresh is refused, and the family keeps its token.
Refuse(h, p) ==
    /\ reqs[h].at = "legs" /\ p \in reqs[h].todo
    /\ Ends(h)
    /\ UNCHANGED <<cleared, family, grants, jar, creds>>

\* The provider's answer is lost on its way here.
ExchangeLost(h, p) ==
    LET leg == reqs[h].token.legs[p] IN
    /\ Takes(h, p) /\ grants[leg.rec] < MaxSpent
    /\ grants' = [grants EXCEPT ![leg.rec] = @ + 1]
    /\ reqs' = [reqs EXCEPT ![h] = Idle]
    /\ forked' = forked \cup reqs[h].spent \cup {leg.rec}
    /\ UNCHANGED <<cleared, family, jar, creds, strayed>>

\* Every leg is refreshed: the access token is minted, and a retry within the
\* grace window gets the current pair again.
Mint(h) ==
    /\ reqs[h].at = "legs" /\ reqs[h].todo = {}
    /\ reqs' = [reqs EXCEPT ![h].at = IF reqs[h].grace THEN "answer" ELSE "rotate", ![h].next = reqs[h].seen]
    /\ UNCHANGED <<cleared, family, grants, jar, creds, forked, strayed>>

\* RotateRefreshFamily, if the family is still as it was found.
RotateFamily(h) ==
    /\ reqs[h].at = "rotate"
    /\ IF family.current = reqs[h].seen
       THEN /\ family.current < MaxRotations
            /\ family' = [family EXCEPT !.current = @ + 1, !.previous = family.current, !.recent = TRUE]
            /\ reqs' = [reqs EXCEPT ![h].at = "answer", ![h].next = family.current + 1, ![h].rotated = TRUE]
       ELSE /\ reqs' = [reqs EXCEPT ![h].at = "lost"]
            /\ UNCHANGED family
    /\ UNCHANGED <<cleared, grants, jar, creds, forked, strayed>>

\* "Lost the race": the winner's token, while the one sent is still in grace.
FollowWinner(h) ==
    /\ reqs[h].at = "lost"
    /\ IF reqs[h].token.jti = family.previous /\ family.recent
       THEN /\ reqs' = [reqs EXCEPT ![h].at = "answer", ![h].next = family.current]
            /\ UNCHANGED <<forked, strayed>>
       ELSE Ends(h)
    /\ UNCHANGED <<cleared, family, grants, jar, creds>>

\* The answer reaches the client; one that reaches it after another's takes
\* that one's place.
Deliver(h) ==
    LET over == jar # reqs[h].token IN
    /\ reqs[h].at = "answer"
    /\ jar' = [jti |-> reqs[h].next, legs |-> reqs[h].legs]
    /\ creds' = CredsOf(reqs[h].legs)
    /\ reqs' = [reqs EXCEPT ![h] = Idle]
    /\ forked' = IF over THEN Interactive ELSE forked
    /\ strayed' = (strayed \/ over)
    /\ UNCHANGED <<cleared, family, grants>>

\* Or does not, or the rotation could not be stored.
Lose(h) ==
    /\ reqs[h].at \in {"rotate", "answer"} /\ Ends(h)
    /\ UNCHANGED <<cleared, family, grants, jar, creds>>

\* The grace window closes.
GraceEnds ==
    /\ family.recent
    /\ family' = [family EXCEPT !.recent = FALSE]
    /\ UNCHANGED <<cleared, grants, jar, creds, reqs, forked, strayed>>

\* The process restarts under its requests.
Restart ==
    /\ \E h \in Refreshers : reqs[h].at # "idle"
    /\ reqs' = [h \in Refreshers |-> Idle]
    /\ forked' = forked \cup UNION {reqs[h].spent : h \in Refreshers}
    /\ strayed' = (strayed \/ \E h \in Refreshers : reqs[h].rotated)
    /\ UNCHANGED <<cleared, family, grants, jar, creds>>

LegsNext ==
    \/ \E door \in Doors : SignIn(door)
    \/ \E h \in Refreshers :
        \/ Ask(h) \/ Mint(h) \/ RotateFamily(h) \/ FollowWinner(h) \/ Deliver(h) \/ Lose(h)
        \/ \E p \in Providers : RideOn(h, p) \/ Renew(h, p) \/ Exchange(h, p) \/ Refuse(h, p) \/ ExchangeLost(h, p)
    \/ GraceEnds \/ Restart

LegsSpec == LegsInit /\ [][LegsNext]_legsVars

-----------------------------------------------------------------------------
(* What goes upstream                                                      *)

\* What a caller shows at a door: the session's access token, a provider's
\* token of their own, an api key, or nothing.
Shown == {"session", "bearer", "key", "none"}
Gates == Records \cup {NoRecord}
Open(gate) == gate = NoRecord \/ Kind[gate] = "open"

boundTo(rec) == rec \in ToSet(cleared)

\* verifyGateHeader: who passes, and whether with the token's claims.
Passes(gate, shown) ==
    \/ Open(gate)
    \/ shown = "key" /\ Kind[gate] = "key"
    \/ shown = "session" /\ Kind[gate] # "open" /\ boundTo(gate)
Claims(gate, shown) == shown = "session" /\ ~Open(gate)

Nothing == [what |-> "none", rec |-> NoRecord]
Verbatim == [what |-> "verbatim", rec |-> NoRecord]
Session == [what |-> "session", rec |-> NoRecord]
Key(r) == [what |-> "key", rec |-> r]
Credential(p) == IF creds[p] = NoRecord THEN Nothing ELSE [what |-> "credential", rec |-> creds[p]]
Refused == [what |-> "refused", rec |-> NoRecord]

\* An mcp service: the login's token for that server, or a caller's own.
ServerDecides(svc, gate, claims) ==
    CASE claims -> Credential(Provider[svc.own])
      [] ~claims /\ Open(gate) -> Verbatim
      [] OTHER -> Nothing

\* A service that acts as a record, whose second leg the login may lack.
ActsAs(r, claims, shown) ==
    CASE Kind[r] = "open" -> Nothing
      [] Kind[r] = "key" -> Key(r)
      [] Kind[r] = "ssh" -> IF claims /\ boundTo(r) THEN Session ELSE Refused
      [] r \in Interactive -> IF claims /\ creds[Provider[r]] # NoRecord THEN Credential(Provider[r]) ELSE Refused

\* "Empty slot: the caller's own credential wins."
OwnCredential(gate, claims) ==
    CASE Open(gate) -> Verbatim
      [] ~Open(gate) /\ Kind[gate] = "key" -> Key(gate)
      [] ~Open(gate) /\ gate \in Interactive -> IF claims THEN Credential(Provider[gate]) ELSE Nothing
      [] OTHER -> IF claims THEN Session ELSE Nothing

resolveOutboundCred(svc, gate, claims, shown) ==
    CASE svc.type = "mcp" -> ServerDecides(svc, gate, claims)
      [] svc.type # "mcp" /\ svc.actsAs # NoRecord -> ActsAs(svc.actsAs, claims, shown)
      [] OTHER -> OwnCredential(gate, claims)

\* The app door of an mcp service reads a session token behind an open gate
\* too, and wants one that is bound to the server's own login.
ProxyRefuses(svc, gate, shown) ==
    svc.type = "mcp" /\ shown = "session" /\ Open(gate) /\ ~boundTo(svc.own)
ProxyClaims(svc, gate, shown) ==
    Claims(gate, shown) \/ (svc.type = "mcp" /\ shown = "session" /\ Open(gate))

\* serviceDoProxy: the caller's own header goes on when it may.
Forwarded(svc, shown) ==
    CASE shown = "session" -> IF svc.local THEN Session ELSE Nothing
      [] shown = "none" -> Nothing
      [] OTHER -> [what |-> shown, rec |-> NoRecord]

\* handleServiceProxy: a path on this server gets the session's token, and no
\* other target does.
Proxied(svc, gate, shown) ==
    LET cred == IF ProxyRefuses(svc, gate, shown) THEN Refused
                ELSE resolveOutboundCred(svc, gate, ProxyClaims(svc, gate, shown), shown) IN
    CASE cred # Refused /\ svc.local /\ shown = "session" -> Session
      [] cred = Session /\ ~svc.local -> Nothing
      [] cred = Verbatim /\ ~(svc.local /\ shown = "session") -> Forwarded(svc, shown)
      [] OTHER -> cred

\* The token of a virtual tool, over MCP or from a page: mcpCallerCred and
\* handleServiceCall, then virtualAuth.  (A task's script, which runs here, may
\* get the session.)
ToolToken(svc, gate, shown) ==
    LET cred == resolveOutboundCred(svc, gate, Claims(gate, shown), shown) IN
    CASE cred = Session -> Nothing
      [] cred = Verbatim -> IF shown = "session" THEN Nothing ELSE Forwarded(svc, shown)
      [] OTHER -> cred

-----------------------------------------------------------------------------
(* Properties                                                              *)

Running == {h \in Refreshers : reqs[h].at # "idle"}

\* The client can refresh again: the provider of every leg it holds takes the
\* leg's token, unless an answer that had the next one was lost or came late.
LegsAreCurrent ==
    \A p \in Providers : jar # NoToken /\ jar.legs[p] # NoLeg =>
        LET leg == jar.legs[p] IN
        \/ leg.refresh = 0
        \/ leg.rec \in forked \cup UNION {reqs[h].spent : h \in Running}
        \/ leg.refresh = grants[leg.rec]

\* "A refusing upstream leaves the client holding a still-current token": only
\* an answer that was lost or came late can leave it with another.
TokenIsCurrent ==
    /\ jar # NoToken /\ ~strayed /\ (\A h \in Refreshers : ~reqs[h].rotated)
    => jar.jti = family.current

\* No refresh drops a leg of the login, or trades it for another record's.
LegsStay ==
    jar # NoToken =>
        /\ creds = CredsOf(Collected(cleared, grants))
        /\ CredsOf(jar.legs) = creds

\* The record whose credential a service is after: its own server's, the one
\* it acts as, or the one that guards the door.
Wanted(svc, gate) ==
    IF svc.type = "mcp" THEN svc.own ELSE IF svc.actsAs # NoRecord THEN svc.actsAs ELSE gate

\* Whatever this session is shown for, its token goes to no other server, a
\* provider's credential only to services that are after that provider's, a
\* stored key only where it is named, and a service that acts as nobody gets
\* nothing but, if it is on this server, the session.  (Between refreshes: what
\* a refresh under way has is in the client's hands once it is over.)
CredentialsGoHome ==
    Running = {} => \A svc \in Services, gate \in Gates, shown \in Shown : Passes(gate, shown) =>
        \A cred \in {Proxied(svc, gate, shown), ToolToken(svc, gate, shown)} :
            /\ cred.what = "session" => svc.local
            /\ cred.what = "credential" =>
                   Wanted(svc, gate) \in Interactive /\ Provider[cred.rec] = Provider[Wanted(svc, gate)]
            /\ cred.what = "key" /\ cred.rec # NoRecord => cred.rec = Wanted(svc, gate)
            /\ svc.type = "api" /\ svc.actsAs # NoRecord /\ Kind[svc.actsAs] = "open" =>
                   cred.what \in {"none", "session"}

\* What a session holds for others stays good, and goes where it is meant to.
LegsServeTheSession ==
    /\ LegsTypeOK
    /\ LegsAreCurrent
    /\ TokenIsCurrent
    /\ LegsStay
    /\ CredentialsGoHome

=============================================================================
