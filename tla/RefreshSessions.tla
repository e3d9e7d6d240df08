--------------------------- MODULE RefreshSessions ---------------------------
(***************************************************************************)
(* Refresh-token families: the sessions behind every sign-in.              *)
(*                                                                         *)
(* A family is one row of refresh_families.  Each refresh token carries    *)
(* its family and a jti; the row says which jti is current, which one was  *)
(* current before it, and when the change happened.  Concurrent requests   *)
(* to /oauth/token (handleRefreshTokenGrant) read the row, await the       *)
(* upstream legs, and then rotate the row with a compare-and-swap.  Each   *)
(* action below is one statement against the store, so that requests,      *)
(* sign-outs, account operations and the sweeper interleave as they do in  *)
(* the server.  A read that refuses a request changes nothing and is left  *)
(* out: the request simply does not begin.                                 *)
(***************************************************************************)
EXTENDS Naturals

CONSTANTS
    Users,          \* accounts ("frbr:" subjects)
    Families,       \* family ids; each is opened at most once
    Requests,       \* concurrent refresh requests
    GraceWindow,    \* refreshGraceWindow, in ticks
    FamilyTTL,      \* refreshTokenTTL, in ticks
    NoFamily,       \* no row under this id
    NoRequest,      \* the request slot is free
    MaxTime, MaxJti, MaxKey,   \* bounds of the model
    TroubleEnds     \* until then a store write may fail, or the process be killed

VARIABLES
    users,      \* account rows: status, and which SSH key (passphrase) they hold
    logins,     \* per family id: the cleared login that may open it
    families,   \* the refresh_families table
    tokens,     \* every refresh token decided on: family, jti, and the jti spent for it
    requests,   \* refresh requests in flight
    accountOps, \* account operations that still have to revoke the sessions
    nextJti,    \* newJTI: a value never used before
    now

vars == <<users, logins, families, tokens, requests, accountOps, nextJti, now>>

-----------------------------------------------------------------------------
(* State                                                                   *)

None == 0       \* the empty jti, and the zero time

User == [status: {"Active", "Suspended", "Deleted"}, key: Nat]

\* A login is cleared under the key the user held; its code opens one family.
Login == [state: {"cleared", "spent"}, user: Users, key: Nat]
           \cup [state: {"none"}]

Family == [user: Users, key: Nat, current: Nat, prev: Nat,
           rotatedAt: Nat, expiresAt: Nat, revoked: BOOLEAN]

Token == [fam: Families, jti: Nat, from: Nat]

\* jti is the token presented; current is the row's jti when it was read;
\* next is the jti answered.
Request == [pc: {"reuse", "legs", "rotate", "lost", "answered"},
            fam: Families, jti: Nat, current: Nat, grace: BOOLEAN, next: Nat]

ASSUME ParametersAssumption ==
    /\ GraceWindow \in Nat
    /\ FamilyTTL \in Nat
    /\ MaxTime \in Nat /\ MaxJti \in Nat /\ MaxKey \in Nat
    /\ TroubleEnds \in Nat
    /\ NoFamily \notin Family /\ NoRequest \notin Request

TypeOK ==
    /\ users \in [Users -> User]
    /\ logins \in [Families -> Login]
    /\ families \in [Families -> Family \cup {NoFamily}]
    /\ tokens \subseteq Token
    /\ requests \in [Requests -> Request \cup {NoRequest}]
    /\ accountOps \subseteq Users
    /\ nextJti \in Nat \ {0}
    /\ now \in Nat \ {0}

Init ==
    /\ users = [u \in Users |-> [status |-> "Active", key |-> 0]]
    /\ logins = [f \in Families |-> [state |-> "none"]]
    /\ families = [f \in Families |-> NoFamily]
    /\ tokens = {}
    /\ requests = [r \in Requests |-> NoRequest]
    /\ accountOps = {}
    /\ nextJti = 1
    /\ now = 1

-----------------------------------------------------------------------------
(* Helpers                                                                 *)

Exists(f) == families[f] # NoFamily

Live(f) == Exists(f) /\ ~families[f].revoked /\ families[f].expiresAt >= now

\* The row's previous jti still answers, a grace window after the rotation.
InGrace(f, jti) ==
    /\ families[f].prev = jti
    /\ families[f].rotatedAt # None
    /\ now - families[f].rotatedAt <= GraceWindow

Revoke(ids) ==
    families' = [f \in Families |->
        IF f \in ids /\ Exists(f) THEN [families[f] EXCEPT !.revoked = TRUE]
                                  ELSE families[f]]

FamiliesOf(u) == {f \in Families : Exists(f) /\ families[f].user = u}

At(r, pc) == requests[r] # NoRequest /\ requests[r].pc = pc

Goto(r, pc) == requests' = [requests EXCEPT ![r].pc = pc]

End(r) == requests' = [requests EXCEPT ![r] = NoRequest]

\* The answer: a refresh token for jti, in exchange for the one presented.
Answer(r, jti) ==
    /\ requests' = [requests EXCEPT ![r] =
         [@ EXCEPT !.pc = "answered", !.next = jti]]
    /\ tokens' = tokens \cup
         {[fam |-> requests[r].fam, jti |-> jti, from |-> requests[r].jti]}

-----------------------------------------------------------------------------
(* Signing in                                                              *)

\* A login's last leg clears: the user is active and proved who they are
\* with the key of the moment.  An authorization code now stands for it.
ClearLogin(f, u) ==
    /\ logins[f].state = "none"
    /\ users[u].status = "Active"
    /\ logins' = [logins EXCEPT ![f] =
         [state |-> "cleared", user |-> u, key |-> users[u].key]]
    /\ UNCHANGED <<users, families, tokens, requests, accountOps, nextJti, now>>

\* Mutant: the code is not deleted when it is redeemed.
OpenFamilyKeepingCode(f) ==
    /\ logins[f].state = "cleared"
    /\ ~Exists(f)
    /\ nextJti <= MaxJti
    /\ families' = [families EXCEPT ![f] =
         [user |-> logins[f].user, key |-> logins[f].key,
          current |-> nextJti, prev |-> None, rotatedAt |-> None,
          expiresAt |-> now + FamilyTTL, revoked |-> FALSE]]
    /\ tokens' = tokens \cup {[fam |-> f, jti |-> nextJti, from |-> None]}
    /\ nextJti' = nextJti + 1
    /\ UNCHANGED <<users, logins, requests, accountOps, now>>

\* The code (or the finished browser login) opens its family.
OpenFamily(f) ==
    /\ logins[f].state = "cleared"
    /\ nextJti <= MaxJti
    /\ families' = [families EXCEPT ![f] =
         [user |-> logins[f].user, key |-> logins[f].key,
          current |-> nextJti, prev |-> None, rotatedAt |-> None,
          expiresAt |-> now + FamilyTTL, revoked |-> FALSE]]
    /\ logins' = [logins EXCEPT ![f].state = "spent"]
    /\ tokens' = tokens \cup {[fam |-> f, jti |-> nextJti, from |-> None]}
    /\ nextJti' = nextJti + 1
    /\ UNCHANGED <<users, requests, accountOps, now>>

-----------------------------------------------------------------------------
(* A refresh request, from its read of the row to its answer               *)

Begin(r, t, pc, grace) ==
    /\ requests[r] = NoRequest
    /\ t \in tokens
    /\ Live(t.fam)
    /\ requests' = [requests EXCEPT ![r] =
         [pc |-> pc, fam |-> t.fam, jti |-> t.jti,
          current |-> families[t.fam].current, grace |-> grace, next |-> None]]
    /\ UNCHANGED <<users, logins, families, tokens, accountOps, nextJti, now>>

\* The current token, or the previous one inside the grace window.
BeginRefresh(r, t) ==
    /\ Exists(t.fam)
    /\ families[t.fam].current = t.jti \/ InGrace(t.fam, t.jti)
    /\ Begin(r, t, "legs", InGrace(t.fam, t.jti))

\* Mutant: only the previous token in its grace window is spared.
DetectReuseOfCurrent(r, t) ==
    /\ Exists(t.fam)
    /\ ~InGrace(t.fam, t.jti)
    /\ Begin(r, t, "reuse", FALSE)

\* Any other token is a replay...
DetectReuse(r, t) ==
    /\ Exists(t.fam)
    /\ families[t.fam].current # t.jti
    /\ ~InGrace(t.fam, t.jti)
    /\ Begin(r, t, "reuse", FALSE)

\* Mutant: the replay is refused and the family goes on.
RefuseReused(r) ==
    /\ At(r, "reuse")
    /\ End(r)
    /\ UNCHANGED <<users, logins, families, tokens, accountOps, nextJti, now>>

\* ... and ends the family, in a statement of its own.
RevokeReused(r) ==
    /\ At(r, "reuse")
    /\ Revoke({requests[r].fam})
    /\ End(r)
    /\ UNCHANGED <<users, logins, tokens, accountOps, nextJti, now>>

\* The legs refresh: the user is looked up again, and upstream answers.
RefreshLegs(r) ==
    /\ At(r, "legs")
    /\ users[logins[requests[r].fam].user].status = "Active"
    /\ Goto(r, "rotate")
    /\ UNCHANGED <<users, logins, families, tokens, accountOps, nextJti, now>>

\* Mutant: the row is rotated before the legs are known to refresh.
LegsRefusedRotated(r) ==
    LET f == requests[r].fam IN
    /\ At(r, "legs")
    /\ Exists(f) /\ ~families[f].revoked
    /\ families[f].current = requests[r].jti
    /\ nextJti <= MaxJti
    /\ families' = [families EXCEPT ![f] =
         [@ EXCEPT !.prev = families[f].current, !.current = nextJti,
                   !.rotatedAt = now]]
    /\ nextJti' = nextJti + 1
    /\ End(r)
    /\ UNCHANGED <<users, logins, tokens, accountOps, now>>

\* The user is gone or not active, or an upstream refuses.
LegsRefused(r) ==
    /\ At(r, "legs")
    /\ End(r)
    /\ UNCHANGED <<users, logins, families, tokens, accountOps, nextJti, now>>

\* A grace-window retry answers with the jti its read saw as current.
Reissue(r) ==
    /\ At(r, "rotate")
    /\ requests[r].grace
    /\ Answer(r, requests[r].current)
    /\ UNCHANGED <<users, logins, families, accountOps, nextJti, now>>

\* Mutant: the WHERE clause without current_jti = fromJTI.
NotRevoked(r) == Exists(requests[r].fam) /\ ~families[requests[r].fam].revoked

\* Mutant: the WHERE clause without revoked = 0.
SameCurrent(r) ==
    /\ Exists(requests[r].fam)
    /\ families[requests[r].fam].current = requests[r].current

\* RotateRefreshFamily's WHERE clause.
Unrotated(r) ==
    LET f == requests[r].fam IN
    /\ Exists(f)
    /\ families[f].current = requests[r].current
    /\ ~families[f].revoked

Rotate(r) ==
    LET f == requests[r].fam IN
    /\ At(r, "rotate")
    /\ ~requests[r].grace
    /\ Unrotated(r)
    /\ nextJti <= MaxJti
    /\ families' = [families EXCEPT ![f] =
         [@ EXCEPT !.prev = families[f].current, !.current = nextJti,
                   !.rotatedAt = now]]
    /\ Answer(r, nextJti)
    /\ nextJti' = nextJti + 1
    /\ UNCHANGED <<users, logins, accountOps, now>>

RotateLost(r) ==
    /\ At(r, "rotate")
    /\ ~requests[r].grace
    /\ ~Unrotated(r)
    /\ Goto(r, "lost")
    /\ UNCHANGED <<users, logins, families, tokens, accountOps, nextJti, now>>

\* The loser reads the row again.  If its token has just become the previous
\* one it takes the winner's jti; neither the revoked flag nor the expiry is
\* looked at a second time.
TakeWinners(r) ==
    LET f == requests[r].fam IN
    /\ At(r, "lost")
    /\ Exists(f)
    /\ InGrace(f, requests[r].jti)
    /\ Answer(r, families[f].current)
    /\ UNCHANGED <<users, logins, families, accountOps, nextJti, now>>

RotatedElsewhere(r) ==
    LET f == requests[r].fam IN
    /\ At(r, "lost")
    /\ ~(Exists(f) /\ InGrace(f, requests[r].jti))
    /\ End(r)
    /\ UNCHANGED <<users, logins, families, tokens, accountOps, nextJti, now>>

\* The response is written; whether it arrives is the client's business, and
\* any token ever decided on may be presented at any time, or never.
Respond(r) ==
    /\ At(r, "answered")
    /\ End(r)
    /\ UNCHANGED <<users, logins, families, tokens, accountOps, nextJti, now>>

-----------------------------------------------------------------------------
(* Ending sessions                                                         *)

\* handleLogout and DELETE /api/me/sessions/{id}.
SignOut(f) ==
    /\ Exists(f) /\ ~families[f].revoked
    /\ Revoke({f})
    /\ UNCHANGED <<users, logins, tokens, requests, accountOps, nextJti, now>>

\* DELETE /api/me/sessions.
SignOutAll(u) ==
    /\ users[u].status = "Active"
    /\ \E f \in FamiliesOf(u) : ~families[f].revoked
    /\ Revoke(FamiliesOf(u))
    /\ UNCHANGED <<users, logins, tokens, requests, accountOps, nextJti, now>>

\* Deleting an account and replacing its key (by link, or dropping it) write
\* the user row first; the sessions are revoked by a later statement.
DeleteUser(u) ==
    /\ users[u].status # "Deleted"
    /\ users' = [users EXCEPT ![u].status = "Deleted"]
    /\ accountOps' = accountOps \cup {u}
    /\ UNCHANGED <<logins, families, tokens, requests, nextJti, now>>

ChangeKey(u) ==
    /\ users[u].status # "Deleted"
    /\ users[u].key < MaxKey
    /\ users' = [users EXCEPT ![u].key = @ + 1]
    /\ accountOps' = accountOps \cup {u}
    /\ UNCHANGED <<logins, families, tokens, requests, nextJti, now>>

\* Mutant: the statement takes the sessions a user is shown, and those leave
\* out the one that expires this very moment.
RevokeListedSessions(u) ==
    /\ u \in accountOps
    /\ Revoke({f \in FamiliesOf(u) : families[f].expiresAt > now})
    /\ accountOps' = accountOps \ {u}
    /\ UNCHANGED <<users, logins, tokens, requests, nextJti, now>>

RevokeSessions(u) ==
    /\ u \in accountOps
    /\ Revoke(FamiliesOf(u))
    /\ accountOps' = accountOps \ {u}
    /\ UNCHANGED <<users, logins, tokens, requests, nextJti, now>>

\* Mutant: the status is saved as it was sent.
SetStatusUnchecked(u, status) ==
    /\ users[u].status # "Deleted"
    /\ users' = [users EXCEPT ![u].status = "active"]
    /\ UNCHANGED <<logins, families, tokens, requests, accountOps, nextJti, now>>

\* An admin edits the status; the sessions are left to the next refresh.
SetStatus(u, status) ==
    /\ users[u].status # "Deleted"
    /\ users[u].status # status
    /\ users' = [users EXCEPT ![u].status = status]
    /\ UNCHANGED <<logins, families, tokens, requests, accountOps, nextJti, now>>

-----------------------------------------------------------------------------
(* Time and failures                                                       *)

Tick ==
    /\ now < MaxTime
    /\ now' = now + 1
    /\ UNCHANGED <<users, logins, families, tokens, requests, accountOps, nextJti>>

\* The ticker deletes expired rows.
Sweep ==
    /\ \E f \in Families : Exists(f) /\ families[f].expiresAt < now
    /\ families' = [f \in Families |->
         IF Exists(f) /\ families[f].expiresAt < now THEN NoFamily
                                                     ELSE families[f]]
    /\ UNCHANGED <<users, logins, tokens, requests, accountOps, nextJti, now>>

\* A write to the store fails, and the handler gives up where it is: a code is
\* spent without its family, a detected replay goes unpunished (its error is
\* dropped), a rotation or second read is refused, sessions stay unrevoked.
StoreFails ==
    /\ now < TroubleEnds
    /\ \/ /\ \E f \in Families :
             /\ logins[f].state = "cleared"
             /\ logins' = [logins EXCEPT ![f].state = "spent"]
          /\ UNCHANGED <<requests, accountOps>>
       \/ /\ \E r \in Requests :
             /\ requests[r] # NoRequest
             /\ requests[r].pc \in {"reuse", "rotate", "lost"}
             /\ requests[r].pc = "rotate" => ~requests[r].grace
             /\ End(r)
          /\ UNCHANGED <<logins, accountOps>>
       \/ /\ \E u \in accountOps : accountOps' = accountOps \ {u}
          /\ UNCHANGED <<logins, requests>>
    /\ UNCHANGED <<users, families, tokens, nextJti, now>>

\* The process is killed: requests, codes and half-done operations are gone,
\* the tables stay.
Crash ==
    /\ now < TroubleEnds
    /\ \/ \E r \in Requests : requests[r] # NoRequest
       \/ \E f \in Families : logins[f].state = "cleared"
       \/ accountOps # {}
    /\ requests' = [r \in Requests |-> NoRequest]
    /\ logins' = [f \in Families |->
         IF logins[f].state = "cleared" THEN [logins[f] EXCEPT !.state = "spent"]
                                        ELSE logins[f]]
    /\ accountOps' = {}
    /\ UNCHANGED <<users, families, tokens, nextJti, now>>

-----------------------------------------------------------------------------

RequestStep(r) ==
    \/ RevokeReused(r)
    \/ RefreshLegs(r)
    \/ LegsRefused(r)
    \/ Reissue(r)
    \/ Rotate(r)
    \/ RotateLost(r)
    \/ TakeWinners(r)
    \/ RotatedElsewhere(r)
    \/ Respond(r)

Next ==
    \/ \E f \in Families, u \in Users : ClearLogin(f, u)
    \/ \E f \in Families : OpenFamily(f)
    \/ \E r \in Requests, t \in tokens : BeginRefresh(r, t)
    \/ \E r \in Requests, t \in tokens : DetectReuse(r, t)
    \/ \E r \in Requests : RequestStep(r)
    \/ \E f \in Families : SignOut(f)
    \/ \E u \in Users : SignOutAll(u)
    \/ \E u \in Users : DeleteUser(u)
    \/ \E u \in Users : ChangeKey(u)
    \/ \E u \in Users : RevokeSessions(u)
    \/ \E u \in Users, s \in {"Active", "Suspended"} : SetStatus(u, s)
    \/ Tick
    \/ Sweep
    \/ StoreFails
    \/ Crash

Spec == Init /\ [][Next]_vars

\* Every handler that has started runs on to its end: a request is a
\* goroutine of its own and nothing it awaits is unbounded (the upstream
\* client times out).
Fairness ==
    /\ \A r \in Requests : WF_vars(RequestStep(r))
    /\ \A u \in Users : WF_vars(RevokeSessions(u))

FairSpec == Spec /\ Fairness

-----------------------------------------------------------------------------
(* Properties                                                              *)

\* A session never forks.  Whoever spends a jti, however often and in
\* whatever interleaving, is answered with the same successor, so a family
\* is one chain of tokens and never two live branches (handleRefreshTokenGrant:
\* compare-and-swap, grace reissue and lost race together).
NeverForks ==
    \A t1, t2 \in tokens :
        t1.fam = t2.fam /\ t1.from = t2.from => t1.jti = t2.jti

\* Every token that is no longer the current one was spent: a session moves
\* on only by exchanging the current token, so no holder of the current token
\* finds it replaced behind their back.
OnlySpentTokensRetire ==
    \A t \in tokens :
        Exists(t.fam) /\ families[t.fam].current # t.jti
            => \E s \in tokens : s.fam = t.fam /\ s.from = t.jti

\* Reuse detection is never wrong about the current token: by the time the
\* revoking statement runs, the accused token is still not the current one,
\* whatever happened since the row was read.
NoFalseAccusation ==
    \A r \in Requests :
        At(r, "reuse") /\ Exists(requests[r].fam)
            => families[requests[r].fam].current # requests[r].jti

\* A revoked family is final: it is never revived and its jtis never move,
\* although requests that read it live may still be on their way to rotate it.
RevokedRowsStay ==
    \A f \in Families :
        Exists(f) /\ families[f].revoked
          => \/ families'[f] = NoFamily
             \/ /\ families'[f].revoked
                /\ families'[f].current = families[f].current

RevokedIsFinal == [][RevokedRowsStay]_vars

\* The table and its requests implement the session a user believes in:
\* opened once, advancing only while open, and ended for good, be it by a
\* sign-out, an account operation, the sweeper or a restart.
phaseOf == [f \in Families |->
    IF Exists(f) THEN IF families[f].revoked THEN "ended" ELSE "open"
    ELSE IF logins[f].state = "spent" THEN "ended" ELSE "unopened"]

generationOf == [f \in Families |->
    IF Exists(f) /\ ~families[f].revoked THEN families[f].current ELSE 0]

Lifecycle == INSTANCE SessionLifecycle
    WITH Sessions <- Families, phase <- phaseOf, generation <- generationOf

ImplementsLifecycle == Lifecycle!Spec

\* A detected replay ends the session, whoever else is refreshing it, unless
\* its write fails.
ReuseIsFatal ==
    \A r \in Requests, f \in Families :
        (At(r, "reuse") /\ requests[r].fam = f /\ now >= TroubleEnds) ~> ~Live(f)

\* An account operation that must end the sessions comes to the point where
\* none of the account's families answers, unless its write fails.
AccountOpsEndSessions ==
    \A u \in Users :
        (u \in accountOps /\ now >= TroubleEnds) ~> (\A f \in Families : Live(f) => families[f].user # u)

=============================================================================
