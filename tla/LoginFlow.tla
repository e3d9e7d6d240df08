------------------------------- MODULE LoginFlow -------------------------------
(***************************************************************************)
(* Logins: one pendingAuth walks through the auth records ("legs") a door  *)
(* asks for, gate first.  A leg is a credential form or a trip to a        *)
(* provider; a token of an earlier login may already cover some of them.   *)
(* The last one mints a token, which goes to the page that asked, waits in *)
(* a ticket for an app's own host, or behind a one-shot code for an MCP    *)
(* client.                                                                 *)
(*                                                                         *)
(* Handlers share the pendingAuth with no lock and wait between looking at *)
(* its current leg and moving it on: for the provider's token endpoint, or *)
(* for a passphrase check.                                                 *)
(***************************************************************************)
EXTENDS Naturals, FiniteSets, Sequences, SequencesExt

CONSTANTS
    Logins,         \* pendingAuth values
    Past,           \* one of them, which was over before: an earlier session
    Handlers,       \* requests that advance logins
    Browsers, People,
    Records,        \* auth records: "ssh" and "key" are the forms' kinds, the rest go to a provider
    Doors,          \* the lists of records a door may ask for
    NoLogin, NoRecord, NoOne,
    FailureLimit,   \* loginFailureLimit
    MaxTrips, MaxAllowed   \* bounds of the model: codes of a login on their way; states after
                           \* which its consent is not given again

ASSUME LoginsAssumption ==
    /\ Doors \subseteq Seq(Records) /\ <<>> \notin Doors
    /\ \A door \in Doors : \A i \in 2..Len(door) : door[i] # door[1]
    /\ NoLogin \notin Logins /\ NoRecord \notin Records \cup {"ssh", "key"} /\ NoOne \notin People
    /\ FailureLimit \in Nat \ {0} /\ MaxTrips \in Nat /\ MaxAllowed \in Nat /\ Past \in Logins

VARIABLES
    logins, handlers,
    trips,      \* provider codes that are on their way back to /service/callback
    parcels,    \* tokens waiting in a hand-off ticket or behind a code
    tokens,     \* tokens that were handed out
    booked,     \* loginFailures of the one client address
    \* history
    proofs,     \* who has proved which record, in which login, and whether in its home
    wrong,      \* wrong credentials tried in this window
    late        \* attempts of an earlier window taken back in this one

vars == <<logins, handlers, trips, parcels, tokens, booked, proofs, wrong, late>>

-----------------------------------------------------------------------------
(* State                                                                   *)

Interactive(rec) == rec \notin {"ssh", "key"}

\* A completedLeg.
Leg == [rec: Records, who: People \cup {NoOne}, cred: BOOLEAN, reused: BOOLEAN]

\* What the token says: the record it is minted under and its legs, the
\* credentials it carries, the record that proved its subject, and whether it
\* counts as a fresh sign-in.
Token == [bound: SUBSET Records, creds: SUBSET Records, from: Records,
          who: People \cup {NoOne}, fresh: BOOLEAN, login: Logins]

\* pendingAuth.  begun numbers the states it was kept under, the last one
\* being legState; home is the browser that was shown an MCP client's consent
\* page.  raced and sessions are for the properties: two requests were
\* advancing it at once; sessions it has led to.
Login == [kind: {"none", "app", "page", "host", "mcp", "over"}, live: BOOLEAN, legs: Seq(Records), at: Nat,
          done: Seq(Leg), gate: Records \cup {NoRecord}, primary: Records \cup {NoRecord},
          begun: Nat, bound: SUBSET Browsers, home: SUBSET Browsers, raced: BOOLEAN, sessions: Nat]
NewLogin == [kind |-> "none", live |-> FALSE, legs |-> <<>>, at |-> 1, done |-> <<>>, gate |-> NoRecord,
             primary |-> NoRecord, begun |-> 0, bound |-> {}, home |-> {}, raced |-> FALSE, sessions |-> 0]

Handler == [pc: {"idle", "exchange", "verify", "begin", "finish"}, login: Logins \cup {NoLogin},
            rec: Records \cup {NoRecord}, who: People \cup {NoOne}, home: BOOLEAN, cred: BOOLEAN, old: BOOLEAN]
Idle == [pc |-> "idle", login |-> NoLogin, rec |-> NoRecord, who |-> NoOne, home |-> FALSE, cred |-> FALSE, old |-> FALSE]

TypeOK ==
    /\ logins \in [Logins -> Login] /\ handlers \in [Handlers -> Handler]
    /\ \A t \in trips : t.login \in Logins /\ t.rec \in Records /\ t.begun \in Nat /\ t.who \in People
    /\ \A p \in parcels : p \in Token
    /\ tokens \subseteq Token
    /\ booked \in 0..FailureLimit /\ wrong \in Nat /\ late \in Nat

\* A past login of who through these legs of a door, with nothing in its way.
PastToken(legs, who) ==
    [bound |-> Range(legs), creds |-> {rec \in Range(legs) : Interactive(rec)}, from |-> legs[1], who |-> who,
     fresh |-> TRUE, login |-> Past]
Proved(legs, who) == {[login |-> Past, rec |-> rec, who |-> who, home |-> TRUE] : rec \in Range(legs)}

Init ==
    /\ \E door \in Doors, who \in People : \E legs \in {<<>>, <<door[1]>>, door} :
        /\ logins = [l \in Logins |-> IF l = Past THEN [NewLogin EXCEPT !.kind = "over", !.gate = door[1]] ELSE NewLogin]
        /\ tokens = IF legs = <<>> THEN {} ELSE {PastToken(legs, who)}
        /\ proofs = Proved(legs, who)
    /\ handlers = [h \in Handlers |-> Idle]
    /\ trips = {} /\ parcels = {}
    /\ booked = 0 /\ wrong = 0 /\ late = 0

\* pendingAuth.current: no leg is left once all are done.
Current(l) == IF logins[l].at <= Len(logins[l].legs) THEN logins[l].legs[logins[l].at] ELSE NoRecord

\* Mutant: a gate counts as cleared by any token that is bound to it.
LegCoveredByBinding(t, rec, gate) ==
    /\ rec \in t.bound
    /\ Interactive(rec) => rec \in t.creds

\* legCovered: bound to the record; a gate only by the token whose subject it
\* proved; a provider's record with its credential.
LegCovered(t, rec, gate) ==
    /\ rec \in t.bound
    /\ rec = gate => t.from = rec
    /\ Interactive(rec) => rec \in t.creds

\* legFromClaims: the identity rides along only with the record that proved it.
LegFromClaims(rec, t) ==
    [rec |-> rec, who |-> IF t.from = rec THEN t.who ELSE NoOne, cred |-> rec \in t.creds, reused |-> TRUE]

\* A finite set of positions, in order: the one element.
InOrder(S) == {at \in SetToSeqs(S) : \A m, n \in DOMAIN at : m < n => at[m] < at[n]}

\* A leg that one of the tokens presented covers is done.
LegDone(rec, gate, presented) ==
    LegFromClaims(rec, CHOOSE t \in presented : LegCovered(t, rec, gate))

\* The legs that the tokens presented cover, and the others, in order: the one
\* element.
Covered(legs, gate, presented) ==
    LET reused == {i \in DOMAIN legs : \E t \in presented : LegCovered(t, legs[i], gate)} IN
    {[done |-> [n \in DOMAIN d |-> LegDone(legs[d[n]], gate, presented)],
      todo |-> [n \in DOMAIN u |-> legs[u[n]]]]
        : d \in InOrder(reused), u \in InOrder(DOMAIN legs \ reused)}

Presented == {{}} \cup {{t} : t \in tokens}

\* The browser is the one that saw the consent page; other logins have none.
AtHome(l, b) == logins[l].kind = "mcp" => b \in logins[l].home

\* A handler starts on a login; another one may be at work on it.
Enters(h, l, handler) ==
    /\ handlers' = [handlers EXCEPT ![h] = [handler EXCEPT !.login = l]]
    /\ logins' = [logins EXCEPT ![l].raced = @ \/ \E k \in Handlers : handlers[k].login = l]

\* What is left of a login nobody can reach any more.
Over(p) == [NewLogin EXCEPT !.kind = "over", !.gate = p.gate, !.raced = p.raced, !.sessions = IF p.raced THEN 0 ELSE p.sessions]

-----------------------------------------------------------------------------
(* Starting                                                                *)

\* handleLogin: the caller's bearer may cover some legs; nothing starts when it
\* covers all.  It is a fetch, so no browser is bound yet.
StartApp(l) ==
    /\ logins[l].kind = "none"
    /\ \E door \in Doors, presented \in Presented : \E c \in Covered(door, door[1], presented) :
        /\ c.todo # <<>>
        /\ logins' = [logins EXCEPT ![l] = [NewLogin EXCEPT !.kind = "app", !.live = TRUE, !.legs = c.todo, !.done = c.done,
                                            !.gate = door[1], !.primary = Last(door), !.begun = 1]]
    /\ UNCHANGED <<handlers, trips, parcels, tokens, booked, proofs, wrong, late>>

\* passPageGate: only the gate, on this server's pages or on an app's own host,
\* from where the browser has yet to come over to be bound.
StartPage(l) ==
    /\ logins[l].kind = "none"
    /\ \E door \in Doors, b \in Browsers, kind \in {"page", "host"} :
        logins' = [logins EXCEPT ![l] = [NewLogin EXCEPT !.kind = kind, !.live = TRUE, !.legs = <<door[1]>>, !.begun = 1,
            !.gate = door[1], !.primary = door[1], !.bound = IF kind = "page" THEN {b} ELSE {}]]
    /\ UNCHANGED <<handlers, trips, parcels, tokens, booked, proofs, wrong, late>>

\* handleAuthorizeStart: the consent page, bound to the browser that sees it.
StartMCP(l) ==
    /\ logins[l].kind = "none"
    /\ \E door \in Doors, b \in Browsers :
        logins' = [logins EXCEPT ![l] = [NewLogin EXCEPT !.kind = "mcp", !.live = TRUE, !.legs = door, !.gate = door[1],
                                         !.primary = Last(door), !.bound = {b}, !.home = {b}]]
    /\ UNCHANGED <<handlers, trips, parcels, tokens, booked, proofs, wrong, late>>

\* Mutant: any login is bound to whoever opens its form.
MayBindAny(l) == logins[l].live

\* A form's page, or /service/begin: not for an MCP client's login.
MayBind(l) == logins[l].live /\ logins[l].kind # "mcp"

Bind(l) ==
    /\ MayBind(l)
    /\ \E b \in Browsers : logins' = [logins EXCEPT ![l].bound = @ \cup {b}]
    /\ UNCHANGED <<handlers, trips, parcels, tokens, booked, proofs, wrong, late>>

\* handleAuthorizeContinue, once the user allows it: tokens of that browser
\* cover legs; the others run, or the login is finished already.
Continue(h, l) ==
    /\ handlers[h].pc = "idle"
    /\ logins[l].live /\ logins[l].kind = "mcp" /\ logins[l].at = 1 /\ logins[l].done = <<>>
    /\ logins[l].begun < MaxAllowed
    /\ \E presented \in Presented : \E c \in Covered(logins[l].legs, logins[l].gate, presented) :
        /\ logins' = [logins EXCEPT ![l].legs = c.todo, ![l].done = c.done,
                                    ![l].raced = @ \/ \E k \in Handlers : handlers[k].login = l]
        /\ handlers' = [handlers EXCEPT ![h] = [Idle EXCEPT !.login = l, !.pc = IF c.todo = <<>> THEN "finish" ELSE "begin"]]
    /\ UNCHANGED <<trips, parcels, tokens, booked, proofs, wrong, late>>

-----------------------------------------------------------------------------
(* Provider legs                                                           *)

\* Somebody signs in at the provider the current leg sends them to.
SignIn(l) ==
    /\ logins[l].live /\ logins[l].begun > 0
    /\ Current(l) # NoRecord /\ Interactive(Current(l))
    /\ Cardinality({t \in trips : t.login = l}) < MaxTrips
    /\ \E who \in People :
        trips' = trips \cup {[login |-> l, begun |-> logins[l].begun, rec |-> Current(l), who |-> who,
                              n |-> Cardinality({t \in trips : t.login = l})]}
    /\ UNCHANGED <<logins, handlers, parcels, tokens, booked, proofs, wrong, late>>

\* handleCallback in a bound browser, up to its call of the token endpoint.  The
\* code goes with the verifier of the leg begun last, and to the current leg's
\* provider: another leg's code is refused.
Callback(h, l) ==
    /\ handlers[h].pc = "idle"
    /\ logins[l].live
    /\ Current(l) # NoRecord /\ Interactive(Current(l))
    /\ \E t \in trips :
        /\ t.login = l
        /\ trips' = trips \ {t}
        /\ IF t.begun = logins[l].begun /\ t.rec = Current(l)
           THEN \E b \in logins[l].bound :
                Enters(h, l, [Idle EXCEPT !.pc = "exchange", !.rec = t.rec, !.who = t.who, !.home = AtHome(l, b), !.cred = TRUE])
           ELSE UNCHANGED <<logins, handlers>>
    /\ UNCHANGED <<parcels, tokens, booked, proofs, wrong, late>>

Proof(hd) == [login |-> hd.login, rec |-> hd.rec, who |-> hd.who, home |-> hd.home]

\* completeLeg: the leg goes on the list, the next one runs or none is left.  (A
\* record that requires an account refuses: the callback fails.)
CompleteLeg(h, rec) ==
    LET l == handlers[h].login IN
    /\ logins' = [logins EXCEPT
            ![l].at = @ + 1,
            ![l].done = Append(@, [rec |-> rec, who |-> handlers[h].who, cred |-> handlers[h].cred, reused |-> FALSE])]
    /\ handlers' = [handlers EXCEPT
            ![h] = [Idle EXCEPT !.login = l, !.pc = IF logins[l].at < Len(logins[l].legs) THEN "begin" ELSE "finish"]]

\* The provider answers, or fails to.
Exchange(h) ==
    /\ handlers[h].pc = "exchange"
    /\ \/ CompleteLeg(h, handlers[h].rec) /\ proofs' = proofs \cup {Proof(handlers[h])}
       \/ handlers' = [handlers EXCEPT ![h] = Idle] /\ UNCHANGED <<logins, proofs>>
    /\ UNCHANGED <<trips, parcels, tokens, booked, wrong, late>>

-----------------------------------------------------------------------------
(* Form legs                                                               *)

\* Mutant: the limit itself is let through.
AttemptAtLimit == booked <= FailureLimit /\ booked' = booked + 1

\* loginFailures.attempt books the attempt before the check.
Attempt == booked < FailureLimit /\ booked' = booked + 1

\* handleSSHAuth and handleAPIKeyAuth in a bound browser, up to the check.
Submit(h, l) ==
    /\ handlers[h].pc = "idle"
    /\ logins[l].live
    /\ Current(l) \in {"ssh", "key"}
    /\ logins[l].kind = "mcp" => logins[l].begun > 0
    /\ Attempt
    /\ \E who \in IF Current(l) = "ssh" THEN People ELSE {NoOne}, b \in logins[l].bound :
        Enters(h, l, [Idle EXCEPT !.pc = "verify", !.rec = Current(l), !.who = who, !.home = AtHome(l, b)])
    /\ UNCHANGED <<trips, parcels, tokens, proofs, wrong, late>>

WrongCredential(h) ==
    /\ handlers[h].pc = "verify"
    /\ wrong' = IF handlers[h].old THEN wrong ELSE wrong + 1
    /\ handlers' = [handlers EXCEPT ![h] = Idle]
    /\ UNCHANGED <<logins, trips, parcels, tokens, booked, proofs, late>>

\* succeeded takes the attempt back.  The passphrase form then clears the leg
\* that is current by now; with none left, the handler panics.
RightCredential(h) ==
    LET hd == handlers[h]
        rec == IF hd.rec = "ssh" THEN Current(hd.login) ELSE hd.rec IN
    /\ hd.pc = "verify"
    /\ booked' = IF booked > 0 THEN booked - 1 ELSE 0
    /\ late' = IF hd.old /\ booked > 0 THEN late + 1 ELSE late
    /\ proofs' = proofs \cup {Proof(hd)}
    /\ IF rec = NoRecord THEN handlers' = [handlers EXCEPT ![h] = Idle] /\ UNCHANGED logins ELSE CompleteLeg(h, rec)
    /\ UNCHANGED <<trips, parcels, tokens, wrong>>

\* The counter's window lapses.
RollWindow ==
    /\ booked > 0
    /\ booked' = 0 /\ wrong' = 0 /\ late' = 0
    /\ handlers' = [h \in Handlers |-> [handlers[h] EXCEPT !.old = @ \/ handlers[h].pc = "verify"]]
    /\ UNCHANGED <<logins, trips, parcels, tokens, proofs>>

-----------------------------------------------------------------------------
(* Moving on                                                               *)

\* beginLeg puts the login under a new state, alive for another ten minutes; a
\* provider's metadata may not be had.
BeginLeg(h) ==
    LET l == handlers[h].login IN
    /\ handlers[h].pc = "begin"
    /\ \/ logins' = [logins EXCEPT ![l].begun = @ + 1, ![l].live = TRUE]
       \/ Current(l) # NoRecord /\ Interactive(Current(l)) /\ UNCHANGED logins
    /\ handlers' = [handlers EXCEPT ![h] = Idle]
    /\ UNCHANGED <<trips, parcels, tokens, booked, proofs, wrong, late>>

\* mintForLegs: the identity of the first leg on the gate, the record of the
\* door under which it is minted, every leg; fresh if the gate was cleared now.
MintForLegs(l) ==
    LET p == logins[l]
        recs == {p.done[i].rec : i \in 1..Len(p.done)}
        gate == p.done[SelectInSeq(p.done, LAMBDA leg : leg.rec = p.gate)] IN
    [bound |-> recs \cup {p.primary}, creds |-> {rec \in recs : \E i \in 1..Len(p.done) : p.done[i].rec = rec /\ p.done[i].cred},
     from |-> p.gate, who |-> gate.who, fresh |-> ~gate.reused, login |-> l]

HandOut(l, t) ==
    /\ tokens' = tokens \cup {t}
    /\ logins' = [logins EXCEPT ![l].sessions = @ + 1]

\* finishLogin and deliverLogin.  No token without the gate's leg; or an MCP
\* client's side of the login is over, an account no longer active, the store
\* out of reach.
Finish(h) ==
    LET l == handlers[h].login
        t == MintForLegs(l)
        failed == UNCHANGED <<logins, tokens, parcels>> IN
    /\ handlers[h].pc = "finish"
    /\ handlers' = [handlers EXCEPT ![h] = Idle]
    /\ \/ failed
       \/ /\ \E i \in 1..Len(logins[l].done) : logins[l].done[i].rec = logins[l].gate
          /\ IF logins[l].kind \in {"mcp", "host"}
             THEN parcels' = parcels \cup {t} /\ UNCHANGED <<logins, tokens>>
             ELSE HandOut(l, t) /\ UNCHANGED parcels
    /\ UNCHANGED <<trips, booked, proofs, wrong, late>>

\* handleAuthorizationCodeGrant, or handleHandoff on the app's host.
Collect ==
    \E t \in parcels :
        /\ parcels' = parcels \ {t}
        /\ HandOut(t.login, t)
        /\ UNCHANGED <<handlers, trips, booked, proofs, wrong, late>>

\* A code with the wrong verifier, a ticket on another host, or either too late.
Refuse ==
    \E t \in parcels :
        /\ parcels' = parcels \ {t}
        /\ UNCHANGED <<logins, handlers, trips, tokens, booked, proofs, wrong, late>>

\* pendingAuthTTL: states are forgotten, with what only they led to; handlers
\* that have the login go on with it.
Expire(l) ==
    /\ logins[l].live
    /\ logins' = [logins EXCEPT ![l] =
            IF \E h \in Handlers : handlers[h].login = l THEN [@ EXCEPT !.live = FALSE] ELSE Over(@)]
    /\ trips' = {t \in trips : t.login # l \/ \E h \in Handlers : handlers[h].login = l}
    /\ UNCHANGED <<handlers, parcels, tokens, booked, proofs, wrong, late>>

\* All of it is in memory, save the tokens.
Restart ==
    /\ \E h \in Handlers : handlers[h].pc # "idle"
    /\ logins' = [l \in Logins |-> Over(logins[l])]
    /\ handlers' = [h \in Handlers |-> Idle]
    /\ trips' = {} /\ parcels' = {} /\ booked' = 0 /\ wrong' = 0 /\ late' = 0
    /\ UNCHANGED <<tokens, proofs>>

Starts(l) == StartApp(l) \/ StartPage(l) \/ StartMCP(l) \/ Bind(l) \/ SignIn(l) \/ Expire(l)

Enter(h, l) == Continue(h, l) \/ Callback(h, l) \/ Submit(h, l)

Step(h) ==
    \/ Exchange(h) \/ WrongCredential(h) \/ RightCredential(h)
    \/ BeginLeg(h) \/ Finish(h)

Next ==
    \/ \E l \in Logins : Starts(l) \/ \E h \in Handlers : Enter(h, l)
    \/ \E h \in Handlers : Step(h)
    \/ Collect \/ Refuse \/ RollWindow \/ Restart

Spec == Init /\ [][Next]_vars

-----------------------------------------------------------------------------
(* Properties                                                              *)

\* A token's identity is always that of somebody who proved the gate of its
\* login, however requests overlap and whatever earlier tokens covered: other
\* legs add credentials, never identity (mintForLegs).
IdentityIsTheGates ==
    \A t \in tokens :
        /\ t.from = logins[t.login].gate
        /\ \E p \in proofs : p.rec = t.from /\ p.who = t.who

\* A token counts as a fresh sign-in only if its gate was proved in the very
\* login that minted it: stacking legs on a fresh token does not renew it.
FreshMeansSignedIn ==
    \A t \in tokens : t.fresh => \E p \in proofs : p.login = t.login /\ p.rec = t.from /\ p.who = t.who

Undisturbed == \A l \in Logins : ~logins[l].raced

\* Every record a token is bound to has been proved ("one token carrying every
\* cleared record", auth_flows.go:36).
BoundRecordsWereProved ==
    \A t \in tokens, rec \in Records : rec \in t.bound => \E p \in proofs : p.rec = rec

\* That is so as long as no two requests advance one login at the same time.
UndisturbedLoginsProveAll == Undisturbed => BoundRecordsWereProved

\* A login leads to one session at most, whatever is sent again: states live
\* on after their leg, consent can be clicked twice, and codes and tickets
\* are kept until somebody comes for them.
OneSessionPerLogin == \A l \in Logins : ~logins[l].raced => logins[l].sessions <= 1

\* Every leg of an MCP client's login is cleared in the browser that was shown
\* the consent page (handleAuthorizeStart).
ConsentStaysInItsBrowser ==
    \A p \in proofs : p.home

\* At most FailureLimit wrong credentials are checked in a window, however many
\* come at once, save one for each check of the window before that comes to a
\* good end in this one (its attempt is taken back from the wrong window).
GuessesAreBounded ==
    wrong + Cardinality({h \in Handlers : handlers[h].pc = "verify" /\ ~handlers[h].old}) <= FailureLimit + late

\* What a token says has been proved, by the person it names.
TokensAreProved ==
    /\ TypeOK
    /\ IdentityIsTheGates
    /\ FreshMeansSignedIn
    /\ UndisturbedLoginsProveAll

\* A login stays with the browser and the session it began for.
LoginsStayTheirs ==
    /\ OneSessionPerLogin
    /\ ConsentStaysInItsBrowser

=============================================================================
