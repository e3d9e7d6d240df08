------------------------ MODULE RefreshSessions_proofs ------------------------
(* Proofs about RefreshSessions, for every value of its constants.         *)
EXTENDS RefreshSessions, UpstreamLegs, WellFoundedInduction, TLAPS

-----------------------------------------------------------------------------
(* The inductive invariant                                                 *)

\* jtis grow along a chain and are all below the next one to be drawn.
JtiOrder ==
    /\ \A t \in tokens : t.from < t.jti /\ t.jti < nextJti
    /\ \A f \in Families : Exists(f) =>
         /\ families[f].current < nextJti
         /\ families[f].prev < families[f].current

\* Nobody has been answered in exchange for the current token yet...
CurrentUnspent ==
    \A t \in tokens : Exists(t.fam) => t.from # families[t.fam].current

\* ... and whoever spent the previous one was answered with the current one.
PrevSpentForCurrent ==
    \A f \in Families :
        Exists(f) /\ families[f].prev # None
            => [fam |-> f, jti |-> families[f].current,
                from |-> families[f].prev] \in tokens

\* What a request remembers of the row stays meaningful: inside the grace
\* window its answer has already been given for the same token, and outside
\* it the row it read showed its own token as current.
RequestSnapshot ==
    \A r \in Requests : requests[r] # NoRequest =>
        /\ requests[r].jti # None /\ requests[r].jti < nextJti
        /\ requests[r].pc \in {"legs", "rotate"} =>
             IF requests[r].grace
             THEN [fam |-> requests[r].fam, jti |-> requests[r].current,
                   from |-> requests[r].jti] \in tokens
             ELSE requests[r].current = requests[r].jti

\* A family id has no row, token or request before its login is spent.
Unopened ==
    \A f \in Families : logins[f].state # "spent" =>
        /\ ~Exists(f)
        /\ \A t \in tokens : t.fam # f
        /\ \A r \in Requests : requests[r] # NoRequest => requests[r].fam # f

IInv ==
    /\ TypeOK
    /\ JtiOrder
    /\ CurrentUnspent
    /\ PrevSpentForCurrent
    /\ RequestSnapshot
    /\ Unopened
    /\ NeverForks
    /\ OnlySpentTokensRetire
    /\ NoFalseAccusation

-----------------------------------------------------------------------------
(* Type correctness                                                        *)

\* Revoking rows keeps the table's type (RevokeRefreshFamily).
LEMMA RevokeTyped ==
    ASSUME TypeOK, NEW ids, Revoke(ids)
    PROVE  families' \in [Families -> Family \cup {NoFamily}]
BY DEF TypeOK, Revoke, Exists, Family

\* The empty tables have their types.
LEMMA TypeInit == Init => TypeOK
BY DEF Init, TypeOK, User, Login, None

\* A request that begins remembers well-typed values.
LEMMA BeginTyped ==
    ASSUME TypeOK, NEW r \in Requests, NEW t \in tokens,
           BeginRefresh(r, t) \/ DetectReuse(r, t)
    PROVE  TypeOK'
<1>1. PICK pc \in {"legs", "reuse"}, grace \in BOOLEAN : Begin(r, t, pc, grace)
  BY DEF BeginRefresh, DetectReuse, InGrace
<1>2. t.fam \in Families /\ t.jti \in Nat
  BY DEF TypeOK, Token
<1>3. families[t.fam].current \in Nat
  BY <1>1, <1>2 DEF TypeOK, Begin, Live, Exists, Family
<1>4. [pc |-> pc, fam |-> t.fam, jti |-> t.jti,
       current |-> families[t.fam].current, grace |-> grace, next |-> None]
        \in Request
  BY <1>2, <1>3 DEF Request, None
<1> QED  BY <1>1, <1>4 DEF TypeOK, Begin

\* Answering keeps the requests and the tokens well-typed.
LEMMA AnswerTyped ==
    ASSUME TypeOK, NEW r \in Requests, requests[r] # NoRequest,
           NEW jti \in Nat, Answer(r, jti)
    PROVE  /\ requests' \in [Requests -> Request \cup {NoRequest}]
           /\ tokens' \subseteq Token
<1>1. requests[r] \in Request
  BY DEF TypeOK
<1>2. [requests[r] EXCEPT !.pc = "answered", !.next = jti] \in Request
  BY <1>1 DEF Request
<1>3. [fam |-> requests[r].fam, jti |-> jti, from |-> requests[r].jti] \in Token
  BY <1>1 DEF Request, Token
<1> QED  BY <1>2, <1>3 DEF Answer, TypeOK

\* Every step of a refresh request keeps the types.
LEMMA RequestStepTyped ==
    ASSUME TypeOK, NEW r \in Requests, RequestStep(r)
    PROVE  TypeOK'
<1> USE DEF TypeOK
<1>1. requests[r] \in Request \cup {NoRequest}
  OBVIOUS
<1>2. CASE RevokeReused(r)
  <2>1. families' \in [Families -> Family \cup {NoFamily}]
    BY <1>2, RevokeTyped DEF RevokeReused
  <2> QED  BY <1>2, <2>1 DEF RevokeReused, End
<1>3. CASE \/ LegsRefused(r) \/ RotatedElsewhere(r) \/ Respond(r)
  BY <1>3 DEF LegsRefused, RotatedElsewhere, Respond, End
<1>4. CASE RefreshLegs(r) \/ RotateLost(r)
  BY <1>1, <1>4 DEF RefreshLegs, RotateLost, At, Goto, Request
<1>5. CASE Reissue(r)
  <2>1. requests[r] # NoRequest /\ requests[r].current \in Nat
    BY <1>1, <1>5 DEF Reissue, At, Request
  <2> QED  BY <1>5, <2>1, AnswerTyped DEF Reissue
<1>6. CASE TakeWinners(r)
  <2>1. requests[r] # NoRequest /\ requests[r].fam \in Families
    BY <1>1, <1>6 DEF TakeWinners, At, Request
  <2>2. families[requests[r].fam].current \in Nat
    BY <1>6, <2>1 DEF TakeWinners, Exists, Family
  <2> QED  BY <1>6, <2>1, <2>2, AnswerTyped DEF TakeWinners
<1>7. CASE Rotate(r)
  <2> DEFINE f == requests[r].fam
             row == [families[f] EXCEPT !.prev = families[f].current,
                                        !.current = nextJti, !.rotatedAt = now]
  <2>1. requests[r] # NoRequest /\ f \in Families
    BY <1>1, <1>7 DEF Rotate, At, Request
  <2>2. families[f] \in Family
    BY <1>7, <2>1 DEF Rotate, Unrotated, Exists
  <2>3. row \in Family
    BY <2>2 DEF Family
  <2>4. families' = [families EXCEPT ![f] = row]
    BY <1>7 DEF Rotate
  <2>5. families' \in [Families -> Family \cup {NoFamily}]
    BY <2>1, <2>3, <2>4
  <2>6. /\ requests' \in [Requests -> Request \cup {NoRequest}]
        /\ tokens' \subseteq Token
    BY <1>7, <2>1, AnswerTyped DEF Rotate
  <2> QED  BY <1>7, <2>5, <2>6 DEF Rotate
<1> QED  BY <1>2, <1>3, <1>4, <1>5, <1>6, <1>7 DEF RequestStep

\* Every step keeps the types.
LEMMA TypeStep == TypeOK /\ [Next]_vars => TypeOK'
<1> SUFFICES ASSUME TypeOK, [Next]_vars PROVE TypeOK'
  OBVIOUS
<1> USE DEF TypeOK
<1>1. CASE \E f \in Families, u \in Users : ClearLogin(f, u)
  BY <1>1 DEF ClearLogin, Login, User
<1>2. ASSUME NEW f \in Families, OpenFamily(f) PROVE TypeOK'
  <2>1. logins[f] \in [state: {"cleared", "spent"}, user: Users, key: Nat]
    BY <1>2 DEF OpenFamily, Login
  <2>2. [logins[f] EXCEPT !.state = "spent"] \in Login
    BY <2>1 DEF Login
  <2>3. logins' \in [Families -> Login]
    BY <1>2, <2>2 DEF OpenFamily
  <2>4. families' \in [Families -> Family \cup {NoFamily}]
    BY <1>2, <2>1, ParametersAssumption DEF OpenFamily, Family, None
  <2>5. tokens' \subseteq Token
    BY <1>2 DEF OpenFamily, Token, None
  <2> QED  BY <1>2, <2>3, <2>4, <2>5 DEF OpenFamily
<1>3. ASSUME NEW r \in Requests, NEW t \in tokens,
             BeginRefresh(r, t) \/ DetectReuse(r, t)
      PROVE  TypeOK'
  BY <1>3, BeginTyped
<1>4. CASE \E r \in Requests : RequestStep(r)
  BY <1>4, RequestStepTyped
<1>5. CASE \/ \E f \in Families : SignOut(f)
           \/ \E u \in Users : SignOutAll(u) \/ RevokeSessions(u)
  <2>1. families' \in [Families -> Family \cup {NoFamily}]
    BY <1>5, RevokeTyped DEF SignOut, SignOutAll, RevokeSessions
  <2> QED  BY <1>5, <2>1 DEF SignOut, SignOutAll, RevokeSessions
<1>6. CASE \E u \in Users : \/ DeleteUser(u) \/ ChangeKey(u)
                           \/ \E s \in {"Active", "Suspended"} : SetStatus(u, s)
  BY <1>6 DEF DeleteUser, ChangeKey, SetStatus, User
<1>7. CASE Tick
  BY <1>7 DEF Tick
<1>8. CASE Sweep
  BY <1>8 DEF Sweep
<1>9. CASE StoreFails
  BY <1>9 DEF StoreFails, End, Login
<1>10. CASE Crash
  BY <1>10 DEF Crash, Login
<1>11. CASE UNCHANGED vars
  BY <1>11 DEF vars
<1> QED  BY <1>1, <1>2, <1>3, <1>4, <1>5, <1>6, <1>7, <1>8, <1>9, <1>10, <1>11
           DEF Next

\* Every variable keeps its type, whatever interleaves.
THEOREM TypeCorrect == Spec => []TypeOK
BY TypeInit, TypeStep, PTL DEF Spec

-----------------------------------------------------------------------------
(* Most steps leave the chains alone: rows only vanish or are marked        *)
(* revoked, and requests only move on or end.                               *)

SameRows ==
    \A f \in Families : families'[f] # NoFamily =>
        /\ Exists(f)
        /\ families'[f].current = families[f].current
        /\ families'[f].prev = families[f].prev

SameChains == SameRows /\ tokens' = tokens /\ nextJti' = nextJti

RequestsMoveOn ==
    \A r \in Requests : requests'[r] # NoRequest =>
        /\ requests[r] # NoRequest
        /\ requests'[r].fam = requests[r].fam
        /\ requests'[r].jti = requests[r].jti
        /\ requests'[r].current = requests[r].current
        /\ requests'[r].grace = requests[r].grace
        /\ requests'[r].pc \in {"legs", "rotate"}
             => requests[r].pc \in {"legs", "rotate"}
        /\ requests'[r].pc = "reuse" => requests[r].pc = "reuse"

LoginsMoveOn ==
    \A f \in Families : logins'[f].state # "spent" => logins[f].state # "spent"

\* The quiet steps preserve the invariant.
LEMMA QuietStep ==
    ASSUME IInv, TypeOK', SameChains, RequestsMoveOn, LoginsMoveOn
    PROVE  IInv'
<1> USE DEF IInv, SameChains
<1>1. \A t \in tokens : t.fam \in Families
  BY DEF TypeOK, Token
<1>2. \A r \in Requests : requests[r] # NoRequest => requests[r].fam \in Families
  BY DEF TypeOK, Request
<1>3. JtiOrder'
  BY DEF JtiOrder, SameRows, Exists
<1>4. CurrentUnspent'
  BY <1>1 DEF CurrentUnspent, SameRows, Exists
<1>5. PrevSpentForCurrent'
  BY DEF PrevSpentForCurrent, SameRows, Exists, None
<1>6. RequestSnapshot'
  BY DEF RequestSnapshot, RequestsMoveOn, None
<1>7. Unopened'
  BY DEF Unopened, RequestsMoveOn, LoginsMoveOn, SameRows, Exists
<1>8. NeverForks'
  BY DEF NeverForks
<1>9. OnlySpentTokensRetire'
  BY <1>1 DEF OnlySpentTokensRetire, SameRows, Exists
<1>10. NoFalseAccusation'
  BY <1>2 DEF NoFalseAccusation, RequestsMoveOn, SameRows, Exists, At
<1> QED  BY <1>3, <1>4, <1>5, <1>6, <1>7, <1>8, <1>9, <1>10

\* Revoking marks rows and leaves their chains alone.
LEMMA RevokeKeepsRows ==
    ASSUME TypeOK, NEW ids, Revoke(ids)
    PROVE  SameRows
BY DEF TypeOK, Revoke, SameRows, Exists, Family

\* Answering a token that has been answered before adds nothing.
LEMMA RepeatedAnswerIsQuiet ==
    ASSUME IInv, TypeOK', NEW r \in Requests, NEW jti, Answer(r, jti),
           requests[r] # NoRequest,
           [fam |-> requests[r].fam, jti |-> jti, from |-> requests[r].jti]
             \in tokens,
           UNCHANGED <<users, logins, families, accountOps, nextJti, now>>
    PROVE  IInv'
<1>1. requests[r] \in Request
  BY DEF IInv, TypeOK
<1>2. SameChains
  BY DEF SameChains, SameRows, Exists, Answer
<1>3. RequestsMoveOn
  BY <1>1 DEF RequestsMoveOn, Answer, IInv, TypeOK, Request
<1>4. LoginsMoveOn
  BY DEF LoginsMoveOn
<1> QED  BY <1>2, <1>3, <1>4, QuietStep

\* Every step of a request but the rotation is quiet.
LEMMA QuietRequestStep ==
    ASSUME IInv, TypeOK', NEW r \in Requests, RequestStep(r), ~Rotate(r)
    PROVE  IInv'
<1> USE DEF IInv
<1>1. requests[r] \in Request \cup {NoRequest}
  BY DEF TypeOK
<1>2. CASE Reissue(r)
  <2>1. requests[r] # NoRequest
    BY <1>2 DEF Reissue, At
  <2>2. [fam |-> requests[r].fam, jti |-> requests[r].current,
         from |-> requests[r].jti] \in tokens
    BY <1>2, <2>1 DEF Reissue, At, RequestSnapshot
  <2> QED  BY <1>2, <2>1, <2>2, RepeatedAnswerIsQuiet DEF Reissue
<1>3. CASE TakeWinners(r)
  <2> DEFINE f == requests[r].fam
  <2>1. requests[r] # NoRequest /\ f \in Families
    BY <1>1, <1>3 DEF TakeWinners, At, Request
  <2>2. [fam |-> f, jti |-> families[f].current, from |-> requests[r].jti]
          \in tokens
    BY <1>3, <2>1
       DEF TakeWinners, InGrace, RequestSnapshot, PrevSpentForCurrent
  <2> QED  BY <1>3, <2>1, <2>2, RepeatedAnswerIsQuiet DEF TakeWinners
<1>4. CASE RevokeReused(r)
  <2>1. SameRows
    BY <1>4, RevokeKeepsRows DEF RevokeReused
  <2> QED  BY <1>4, <2>1, QuietStep
             DEF RevokeReused, End, SameChains, RequestsMoveOn, LoginsMoveOn, TypeOK
<1>5. CASE \/ LegsRefused(r) \/ RotatedElsewhere(r) \/ Respond(r)
           \/ RefreshLegs(r) \/ RotateLost(r)
  <2>1. SameChains /\ LoginsMoveOn
    BY <1>5 DEF SameChains, SameRows, Exists, LoginsMoveOn, LegsRefused,
                RotatedElsewhere, Respond, RefreshLegs, RotateLost
  <2>2. RequestsMoveOn
    BY <1>1, <1>5 DEF RequestsMoveOn, LegsRefused, RotatedElsewhere, Respond,
                      RefreshLegs, RotateLost, End, Goto, At, TypeOK, Request
  <2> QED  BY <2>1, <2>2, QuietStep
<1> QED  BY <1>2, <1>3, <1>4, <1>5 DEF RequestStep

\* What is neither a request nor the opening of a family.
LEMMA QuietOtherStep ==
    ASSUME IInv, TypeOK',
           \/ \E f \in Families, u \in Users : ClearLogin(f, u)
           \/ \E f \in Families : SignOut(f)
           \/ \E u \in Users : \/ SignOutAll(u) \/ DeleteUser(u)
                              \/ ChangeKey(u) \/ RevokeSessions(u)
                              \/ \E s \in {"Active", "Suspended"} : SetStatus(u, s)
           \/ Tick \/ Sweep \/ StoreFails \/ Crash \/ UNCHANGED vars
    PROVE  IInv'
<1> USE DEF IInv
<1>1. SameRows
  BY RevokeKeepsRows DEF SameRows, Exists, ClearLogin, SignOut, SignOutAll,
     DeleteUser, ChangeKey, RevokeSessions, SetStatus, Tick, Sweep, StoreFails,
     Crash, vars
<1>2. tokens' = tokens /\ nextJti' = nextJti
  BY DEF ClearLogin, SignOut, SignOutAll, DeleteUser, ChangeKey, RevokeSessions,
     SetStatus, Tick, Sweep, StoreFails, Crash, vars
<1>3. RequestsMoveOn
  BY DEF RequestsMoveOn, ClearLogin, SignOut, SignOutAll, DeleteUser, ChangeKey,
     RevokeSessions, SetStatus, Tick, Sweep, StoreFails, End, Crash, vars, TypeOK
<1>4. LoginsMoveOn
  BY DEF LoginsMoveOn, ClearLogin, SignOut, SignOutAll, DeleteUser, ChangeKey,
     RevokeSessions, SetStatus, Tick, Sweep, StoreFails, Crash, vars, TypeOK, Login
<1> QED  BY <1>1, <1>2, <1>3, <1>4, QuietStep DEF SameChains

-----------------------------------------------------------------------------
(* The three steps that are not quiet                                      *)

\* A request's read of the row establishes what it remembers of it.
LEMMA BeginPreserves ==
    ASSUME IInv, TypeOK', NEW r \in Requests, NEW t \in tokens,
           BeginRefresh(r, t) \/ DetectReuse(r, t)
    PROVE  IInv'
<1> USE DEF IInv
<1>1. t.fam \in Families /\ t.jti \in Nat /\ t.from \in Nat
  BY DEF TypeOK, Token
<1>2. t = [fam |-> t.fam, jti |-> t.jti, from |-> t.from]
  BY DEF TypeOK, Token
<1>3. t.jti # None /\ t.jti < nextJti
  BY <1>1 DEF JtiOrder, TypeOK, None
<1>4. Exists(t.fam) /\ logins[t.fam].state = "spent"
  BY <1>1 DEF BeginRefresh, DetectReuse, Unopened
<1>5. PICK pc \in {"legs", "reuse"}, grace \in BOOLEAN :
        /\ Begin(r, t, pc, grace)
        /\ pc = "legs" => \/ /\ ~grace
                             /\ families[t.fam].current = t.jti
                          \/ grace /\ InGrace(t.fam, t.jti)
        /\ pc = "reuse" => families[t.fam].current # t.jti
  BY DEF BeginRefresh, DetectReuse, InGrace
<1> DEFINE req == [pc |-> pc, fam |-> t.fam, jti |-> t.jti,
                   current |-> families[t.fam].current, grace |-> grace,
                   next |-> None]
<1>6. requests' = [requests EXCEPT ![r] = req]
  BY <1>5 DEF Begin
<1>7. UNCHANGED <<users, logins, families, tokens, accountOps, nextJti, now>>
  BY <1>5 DEF Begin
<1>8. requests'[r] = req /\ \A q \in Requests \ {r} : requests'[q] = requests[q]
  BY <1>6 DEF TypeOK
<1>9. RequestSnapshot'
  <2>1. CASE pc = "legs" /\ grace
    <3>1. [fam |-> t.fam, jti |-> families[t.fam].current, from |-> t.jti]
            \in tokens
      BY <1>1, <1>3, <1>4, <1>5, <2>1 DEF InGrace, PrevSpentForCurrent
    <3> QED  BY <1>3, <1>7, <1>8, <2>1, <3>1 DEF RequestSnapshot
  <2>2. CASE ~(pc = "legs" /\ grace)
    BY <1>3, <1>5, <1>7, <1>8, <2>2 DEF RequestSnapshot
  <2> QED  BY <2>1, <2>2
<1>10. Unopened'
  BY <1>4, <1>7, <1>8 DEF Unopened, Exists
<1>11. NoFalseAccusation'
  BY <1>5, <1>7, <1>8 DEF NoFalseAccusation, At, Exists
<1>12. JtiOrder' /\ CurrentUnspent' /\ PrevSpentForCurrent'
  BY <1>7 DEF JtiOrder, CurrentUnspent, PrevSpentForCurrent, Exists
<1>13. NeverForks' /\ OnlySpentTokensRetire'
  BY <1>7 DEF NeverForks, OnlySpentTokensRetire, Exists
<1> QED  BY <1>9, <1>10, <1>11, <1>12, <1>13

\* Opening a family starts a chain of one token.
LEMMA OpenPreserves ==
    ASSUME IInv, TypeOK', NEW f \in Families, OpenFamily(f)
    PROVE  IInv'
<1> USE DEF IInv
<1> DEFINE tok == [fam |-> f, jti |-> nextJti, from |-> None]
<1>1. /\ families'[f].current = nextJti /\ families'[f].prev = None
      /\ \A g \in Families \ {f} : families'[g] = families[g]
  BY DEF OpenFamily, TypeOK
<1>2. /\ tokens' = tokens \cup {tok}
      /\ nextJti' = nextJti + 1 /\ requests' = requests
  BY DEF OpenFamily
<1>3. nextJti \in Nat \ {0}
  BY DEF TypeOK
<1>4. /\ ~Exists(f)
      /\ \A t \in tokens : t.fam # f
      /\ \A r \in Requests : requests[r] # NoRequest => requests[r].fam # f
  BY DEF OpenFamily, Unopened
<1>5. /\ logins'[f].state = "spent"
      /\ \A g \in Families \ {f} : logins'[g] = logins[g]
  <2>1. logins[f] \in [state: {"cleared", "spent"}, user: Users, key: Nat]
    BY DEF OpenFamily, TypeOK, Login
  <2> QED  BY <2>1 DEF OpenFamily, TypeOK
<1>6. \A t \in tokens : /\ t.fam \in Families /\ t.jti \in Nat /\ t.from \in Nat
                        /\ t.jti < nextJti /\ t.from < t.jti
  BY DEF TypeOK, Token, JtiOrder
<1>7. \A g \in Families : Exists(g) => families[g].current \in Nat
                                      /\ families[g].prev \in Nat
  BY DEF TypeOK, Exists, Family
<1>8. \A r \in Requests : requests[r] # NoRequest =>
        requests[r].fam \in Families /\ requests[r].jti \in Nat
  BY DEF TypeOK, Request
<1>9. JtiOrder'
  BY <1>1, <1>2, <1>3, <1>6, <1>7 DEF JtiOrder, Exists, None
<1>10. CurrentUnspent'
  BY <1>1, <1>2, <1>3, <1>4, <1>6 DEF CurrentUnspent, Exists, None
<1>11. PrevSpentForCurrent'
  BY <1>1, <1>2 DEF PrevSpentForCurrent, Exists, None
<1>12. RequestSnapshot'
  BY <1>2, <1>3, <1>8 DEF RequestSnapshot
<1>13. Unopened'
  BY <1>1, <1>2, <1>5 DEF Unopened, Exists
<1>14. NeverForks'
  BY <1>2, <1>4 DEF NeverForks
<1>15. OnlySpentTokensRetire'
  BY <1>1, <1>2, <1>4, <1>6 DEF OnlySpentTokensRetire, Exists
<1>16. NoFalseAccusation'
  BY <1>1, <1>2, <1>4, <1>8 DEF NoFalseAccusation, At, Exists
<1> QED  BY <1>9, <1>10, <1>11, <1>12, <1>13, <1>14, <1>15, <1>16

\* The row a rotation updates is the one the request read, so the token it
\* spends is the current one, unspent until now.
LEMMA RotatePreserves ==
    ASSUME IInv, TypeOK', NEW r \in Requests, Rotate(r)
    PROVE  IInv'
<1> USE DEF IInv
<1> DEFINE f == requests[r].fam
           old == families[f].current
           tok == [fam |-> f, jti |-> nextJti, from |-> old]
<1>1. requests[r] # NoRequest /\ requests[r] \in Request /\ f \in Families
  BY DEF Rotate, At, TypeOK, Request
<1>2. Exists(f) /\ families[f] \in Family /\ old \in Nat /\ old # None
  BY <1>1 DEF Rotate, Unrotated, Exists, TypeOK, Family, JtiOrder, None
<1>3. requests[r].jti = old /\ old < nextJti
  BY <1>1, <1>2 DEF Rotate, Unrotated, At, RequestSnapshot, JtiOrder
<1>4. /\ families'[f].current = nextJti /\ families'[f].prev = old
      /\ \A g \in Families \ {f} : families'[g] = families[g]
  BY <1>1, <1>2 DEF Rotate, TypeOK, Family
<1>5. /\ tokens' = tokens \cup {tok} /\ nextJti' = nextJti + 1
      /\ logins' = logins
  BY <1>3 DEF Rotate, Answer
<1>6. /\ requests'[r] = [requests[r] EXCEPT !.pc = "answered", !.next = nextJti]
      /\ \A q \in Requests \ {r} : requests'[q] = requests[q]
  BY DEF Rotate, Answer, TypeOK
<1>7. /\ requests'[r].pc = "answered" /\ requests'[r].fam = f
      /\ requests'[r].jti = old
  BY <1>1, <1>3, <1>6 DEF Request
<1>8. nextJti \in Nat \ {0}
  BY DEF TypeOK
<1>9. \A t \in tokens : /\ t.fam \in Families /\ t.jti \in Nat /\ t.from \in Nat
                        /\ t.jti < nextJti /\ t.from < t.jti
  BY DEF TypeOK, Token, JtiOrder
<1>10. \A g \in Families : Exists(g) => families[g].current \in Nat
                                       /\ families[g].prev \in Nat
  BY DEF TypeOK, Exists, Family
<1>11. \A q \in Requests : requests[q] # NoRequest =>
         requests[q].fam \in Families /\ requests[q].jti \in Nat
  BY DEF TypeOK, Request
<1>12. \A t \in tokens : t.fam = f => t.from # old
  BY <1>2 DEF CurrentUnspent
<1>13. JtiOrder'
  BY <1>2, <1>3, <1>4, <1>5, <1>8, <1>9, <1>10 DEF JtiOrder, Exists
<1>14. CurrentUnspent'
  BY <1>3, <1>4, <1>5, <1>8, <1>9 DEF CurrentUnspent, Exists
<1>15. PrevSpentForCurrent'
  BY <1>4, <1>5 DEF PrevSpentForCurrent, Exists, None
<1>16. RequestSnapshot'
  <2>1. ASSUME NEW q \in Requests \ {r}, requests'[q] # NoRequest
        PROVE  /\ requests'[q].jti # None /\ requests'[q].jti < nextJti'
               /\ requests'[q].pc \in {"legs", "rotate"} =>
                    IF requests'[q].grace
                    THEN [fam |-> requests'[q].fam, jti |-> requests'[q].current,
                          from |-> requests'[q].jti] \in tokens'
                    ELSE requests'[q].current = requests'[q].jti
    <3>1. requests'[q] = requests[q] /\ requests[q].jti \in Nat
      BY <1>6, <1>11, <2>1
    <3> HIDE DEF f, tok
    <3> QED  BY <1>5, <1>8, <2>1, <3>1 DEF RequestSnapshot
  <2>2. requests'[r].jti # None /\ requests'[r].jti < nextJti'
    BY <1>2, <1>3, <1>5, <1>7, <1>8
  <2> HIDE DEF f, tok
  <2> QED  BY <1>7, <2>1, <2>2 DEF RequestSnapshot
<1>17. Unopened'
  <2>1. logins[f].state = "spent"
    BY <1>1, <1>2 DEF Unopened
  <2>2. \A q \in Requests : requests'[q] # NoRequest =>
          \/ requests'[q].fam = f
          \/ (requests[q] # NoRequest) /\ (requests'[q].fam = requests[q].fam)
    BY <1>6, <1>7
  <2> HIDE DEF f
  <2> QED  BY <1>4, <1>5, <2>1, <2>2 DEF Unopened, Exists
<1>18. NeverForks'
  BY <1>5, <1>12 DEF NeverForks
<1>19. OnlySpentTokensRetire'
  <2> HIDE DEF f
  <2>1. tok.fam = f /\ tok.jti = nextJti /\ tok.from = old /\ tok \in tokens'
    BY <1>5
  <2> HIDE DEF tok
  <2> SUFFICES ASSUME NEW t \in tokens', families'[t.fam] # NoFamily,
                      families'[t.fam].current # t.jti
               PROVE  \E s \in tokens' : s.fam = t.fam /\ s.from = t.jti
    BY DEF OnlySpentTokensRetire, Exists
  <2>2. t \in tokens
    BY <1>4, <1>5, <2>1
  <2>3. CASE t.fam = f /\ t.jti = old
    BY <2>1, <2>3
  <2>4. CASE t.fam = f /\ t.jti # old
    BY <1>2, <1>5, <2>2, <2>4 DEF OnlySpentTokensRetire
  <2>5. CASE t.fam # f
    BY <1>4, <1>5, <1>9, <2>2, <2>5 DEF OnlySpentTokensRetire, Exists
  <2> QED  BY <2>3, <2>4, <2>5
<1>20. NoFalseAccusation'
  <2> SUFFICES ASSUME NEW q \in Requests, requests'[q] # NoRequest,
                      requests'[q].pc = "reuse",
                      families'[requests'[q].fam] # NoFamily
               PROVE  families'[requests'[q].fam].current # requests'[q].jti
    BY DEF NoFalseAccusation, At, Exists
  <2>1. q # r /\ requests'[q] = requests[q]
    BY <1>6, <1>7
  <2>2. requests[q].jti \in Nat /\ requests[q].jti < nextJti
    BY <1>11, <2>1 DEF RequestSnapshot
  <2>3. CASE requests[q].fam = f
    BY <1>4, <1>8, <2>1, <2>2, <2>3
  <2>4. CASE requests[q].fam # f
    BY <1>4, <1>11, <2>1, <2>4 DEF NoFalseAccusation, At, Exists
  <2> QED  BY <2>3, <2>4
<1> QED  BY <1>13, <1>14, <1>15, <1>16, <1>17, <1>18, <1>19, <1>20

-----------------------------------------------------------------------------
(* The invariant, and what it gives                                        *)

\* The invariant holds in the empty tables.
LEMMA InvInit == Init => IInv
<1> SUFFICES ASSUME Init PROVE IInv
  OBVIOUS
<1>1. TypeOK
  BY TypeInit
<1>2. /\ tokens = {} /\ \A f \in Families : ~Exists(f)
      /\ \A r \in Requests : requests[r] = NoRequest
  BY DEF Init, Exists
<1> QED  BY <1>1, <1>2 DEF IInv, JtiOrder, CurrentUnspent, PrevSpentForCurrent,
     RequestSnapshot, Unopened, NeverForks, OnlySpentTokensRetire,
     NoFalseAccusation, At

\* Every step preserves the invariant.
LEMMA InvStep == IInv /\ [Next]_vars => IInv'
<1> SUFFICES ASSUME IInv, [Next]_vars PROVE IInv'
  OBVIOUS
<1>1. TypeOK'
  BY TypeStep DEF IInv
<1>2. CASE \E f \in Families : OpenFamily(f)
  BY <1>1, <1>2, OpenPreserves
<1>3. CASE \E r \in Requests, t \in tokens : BeginRefresh(r, t) \/ DetectReuse(r, t)
  BY <1>1, <1>3, BeginPreserves
<1>4. CASE \E r \in Requests : RequestStep(r)
  BY <1>1, <1>4, RotatePreserves, QuietRequestStep
<1> QED  BY <1>1, <1>2, <1>3, <1>4, QuietOtherStep DEF Next

\* The invariant holds in every reachable state.
LEMMA Invariant == Spec => []IInv
BY InvInit, InvStep, PTL DEF Spec

\* A session never forks: any number of requests presenting one refresh token
\* of a family are answered with one successor.
THEOREM SessionsNeverFork == Spec => []NeverForks
<1>1. IInv => NeverForks
  BY DEF IInv
<1> QED  BY <1>1, Invariant, PTL

\* A token that stopped being the current one was exchanged by somebody.
THEOREM TokensRetireOnlyWhenSpent == Spec => []OnlySpentTokensRetire
<1>1. IInv => OnlySpentTokensRetire
  BY DEF IInv
<1> QED  BY <1>1, Invariant, PTL

\* Reuse detection never revokes a family for presenting its current token.
THEOREM ReuseDetectionIsRight == Spec => []NoFalseAccusation
<1>1. IInv => NoFalseAccusation
  BY DEF IInv
<1> QED  BY <1>1, Invariant, PTL

-----------------------------------------------------------------------------
(* Revocation is final                                                     *)

\* Revoking again leaves a revoked row as it is.
LEMMA RevokeIsFinal ==
    ASSUME TypeOK, NEW ids, Revoke(ids)
    PROVE  RevokedRowsStay
BY DEF TypeOK, Revoke, RevokedRowsStay, Exists, Family

\* No step revives or rotates a revoked row.
LEMMA FinalStep == IInv /\ [Next]_vars => RevokedRowsStay
<1> SUFFICES ASSUME IInv, [Next]_vars PROVE RevokedRowsStay
  OBVIOUS
<1>1. TypeOK
  BY DEF IInv
<1>2. CASE \E f \in Families : OpenFamily(f)
  BY <1>1, <1>2 DEF IInv, OpenFamily, Unopened, RevokedRowsStay, TypeOK
<1>3. CASE \E r \in Requests : Rotate(r)
  <2>1. PICK r \in Requests : Rotate(r)
    BY <1>3
  <2>2. \A f \in Families : f # requests[r].fam => families'[f] = families[f]
    BY <1>1, <2>1 DEF Rotate, TypeOK
  <2>3. Exists(requests[r].fam) /\ ~families[requests[r].fam].revoked
    BY <2>1 DEF Rotate, Unrotated
  <2> QED  BY <2>2, <2>3 DEF RevokedRowsStay
<1>4. CASE \/ \E r \in Requests : RevokeReused(r)
           \/ \E f \in Families : SignOut(f)
           \/ \E u \in Users : SignOutAll(u) \/ RevokeSessions(u)
  BY <1>1, <1>4, RevokeIsFinal
     DEF RevokeReused, SignOut, SignOutAll, RevokeSessions
<1>5. CASE Sweep
  BY <1>1, <1>5 DEF Sweep, RevokedRowsStay, TypeOK
<1>6. CASE UNCHANGED families
  BY <1>6 DEF RevokedRowsStay
<1> QED  BY <1>2, <1>3, <1>4, <1>5, <1>6
     DEF Next, RequestStep, ClearLogin, BeginRefresh, DetectReuse, Begin,
         RefreshLegs, LegsRefused, Reissue, RotateLost, TakeWinners,
         RotatedElsewhere, Respond, DeleteUser, ChangeKey, SetStatus, Tick,
         StoreFails, Crash, vars

\* No request still in flight revives or rotates a revoked family.
THEOREM RevocationIsFinal == Spec => RevokedIsFinal
<1>1. IInv /\ [Next]_vars => [RevokedRowsStay]_vars
  BY FinalStep
<1>2. Spec => [][RevokedRowsStay]_vars
  BY <1>1, Invariant, PTL DEF Spec
<1> QED  BY <1>2 DEF RevokedIsFinal

-----------------------------------------------------------------------------
(* The table implements the lifecycle of a session                         *)

LiveRow(f) == Exists(f) /\ ~families[f].revoked

\* The empty tables map to the lifecycle's initial state.
LEMMA LifecycleInit == Init => Lifecycle!Init
BY DEF Init, Lifecycle!Init, phaseOf, generationOf, Exists

\* A step that opens and advances nothing ends whatever it changes.
LEMMA EndsOrStutters ==
    ASSUME \A f \in Families :
             /\ LiveRow(f)' => LiveRow(f) /\ families'[f].current = families[f].current
             /\ ~Exists(f)' /\ logins'[f].state # "spent"
                  => ~Exists(f) /\ logins[f].state # "spent"
    PROVE  Lifecycle!Next
<1> DEFINE S == {f \in Families : phaseOf'[f] = "ended"}
<1>1. \A f \in Families : f \notin S =>
        phaseOf'[f] = phaseOf[f] /\ generationOf'[f] = generationOf[f]
  BY DEF phaseOf, generationOf, LiveRow, Exists
<1>2. \A f \in S : generationOf'[f] = 0
  BY DEF phaseOf, generationOf, Exists
<1>3. phaseOf' = [f \in Families |-> IF f \in S THEN "ended" ELSE phaseOf[f]]
  BY <1>1 DEF phaseOf
<1>4. generationOf' = [f \in Families |-> IF f \in S THEN 0 ELSE generationOf[f]]
  BY <1>1, <1>2 DEF generationOf
<1>5. Lifecycle!End(S)
  BY <1>3, <1>4 DEF Lifecycle!End
<1> QED  BY <1>5 DEF Lifecycle!Next

\* Opening a family maps to Open.
LEMMA OpenOpens ==
    ASSUME IInv, TypeOK', NEW f \in Families, OpenFamily(f)
    PROVE  Lifecycle!Next
<1>1. ~Exists(f) /\ logins[f].state # "spent"
  BY DEF IInv, Unopened, OpenFamily
<1>2. /\ families'[f] # NoFamily /\ ~families'[f].revoked
      /\ families'[f].current = nextJti
  <2> DEFINE row == [user |-> logins[f].user, key |-> logins[f].key,
                     current |-> nextJti, prev |-> None, rotatedAt |-> None,
                     expiresAt |-> now + FamilyTTL, revoked |-> FALSE]
  <2>1. logins[f] \in [state: {"cleared", "spent"}, user: Users, key: Nat]
    BY DEF OpenFamily, IInv, TypeOK, Login
  <2>2. row \in Family
    BY <2>1, ParametersAssumption DEF Family, IInv, TypeOK, None
  <2>3. families'[f] = row
    BY DEF OpenFamily, IInv, TypeOK
  <2>4. families'[f] # NoFamily
    <3> HIDE DEF row
    <3> QED  BY <2>2, <2>3, ParametersAssumption
  <2>5. ~families'[f].revoked /\ families'[f].current = nextJti
    BY <2>3
  <2> QED  BY <2>4, <2>5
<1>3. \A g \in Families \ {f} : families'[g] = families[g] /\ logins'[g] = logins[g]
  BY DEF OpenFamily, IInv, TypeOK
<1>4. phaseOf' = [phaseOf EXCEPT ![f] = "open"] /\ phaseOf[f] = "unopened"
  BY <1>1, <1>2, <1>3 DEF phaseOf, Exists
<1>5. generationOf' = [generationOf EXCEPT ![f] = nextJti]
  BY <1>2, <1>3 DEF generationOf, Exists
<1>6. generationOf'[f] = nextJti /\ nextJti \in Nat \ {0}
  BY <1>2 DEF generationOf, Exists, IInv, TypeOK
<1>7. Lifecycle!Open(f)
  BY <1>4, <1>5, <1>6 DEF Lifecycle!Open
<1> QED  BY <1>7 DEF Lifecycle!Next

\* A rotation maps to Advance: the new jti is later than the old one.
LEMMA RotateAdvances ==
    ASSUME IInv, TypeOK', NEW r \in Requests, Rotate(r)
    PROVE  Lifecycle!Next
<1> DEFINE f == requests[r].fam
<1>1. f \in Families
  BY DEF Rotate, At, IInv, TypeOK, Request
<1>2. Exists(f) /\ ~families[f].revoked /\ families[f] \in Family
  BY <1>1 DEF Rotate, Unrotated, Exists, IInv, TypeOK
<1>3. nextJti \in Nat /\ families[f].current \in Nat /\ families[f].current < nextJti
  BY <1>1, <1>2 DEF IInv, JtiOrder, TypeOK, Family
<1>4. [families[f] EXCEPT !.prev = families[f].current, !.current = nextJti,
                          !.rotatedAt = now] \in Family
  BY <1>2, <1>3 DEF Family, IInv, TypeOK
<1>5. /\ families'[f] # NoFamily /\ ~families'[f].revoked
      /\ families'[f].current = nextJti
  BY <1>1, <1>2, <1>4, ParametersAssumption DEF Rotate, IInv, TypeOK, Family
<1>6. \A g \in Families \ {f} : families'[g] = families[g]
  BY DEF Rotate, IInv, TypeOK
<1>7. logins' = logins
  BY DEF Rotate
<1>8. phaseOf[f] = "open" /\ generationOf[f] = families[f].current
  BY <1>1, <1>2 DEF phaseOf, generationOf
<1>9. phaseOf' = phaseOf
  BY <1>1, <1>2, <1>5, <1>6, <1>7 DEF phaseOf, Exists
<1>10. generationOf' = [generationOf EXCEPT ![f] = nextJti]
  BY <1>1, <1>5, <1>6 DEF generationOf, Exists
<1>11. generationOf'[f] = nextJti
  BY <1>1, <1>5 DEF generationOf, Exists
<1>12. Lifecycle!Advance(f)
  BY <1>3, <1>8, <1>9, <1>10, <1>11 DEF Lifecycle!Advance
<1> QED  BY <1>1, <1>12 DEF Lifecycle!Next

\* A revocation maps to End.
LEMMA RevokeEnds ==
    ASSUME TypeOK, NEW ids, Revoke(ids), UNCHANGED logins
    PROVE  Lifecycle!Next
<1>1. \A f \in Families :
        LiveRow(f)' => LiveRow(f) /\ families'[f].current = families[f].current
  BY DEF TypeOK, Revoke, LiveRow, Exists, Family
<1>2. \A f \in Families : ~Exists(f)' /\ logins'[f].state # "spent"
                           => ~Exists(f) /\ logins[f].state # "spent"
  BY ParametersAssumption DEF TypeOK, Revoke, Exists, Family
<1> QED  BY <1>1, <1>2, EndsOrStutters

\* Every step maps to a step of the lifecycle or a stutter.
LEMMA LifecycleStep ==
    IInv /\ TypeOK' /\ [Next]_vars => [Lifecycle!Next]_(Lifecycle!vars)
<1> SUFFICES ASSUME IInv, TypeOK', [Next]_vars
             PROVE  [Lifecycle!Next]_(Lifecycle!vars)
  OBVIOUS
<1>1. CASE \E f \in Families : OpenFamily(f)
  BY <1>1, OpenOpens
<1>2. CASE \E r \in Requests : Rotate(r)
  BY <1>2, RotateAdvances
<1>3. CASE \/ \E r \in Requests : RevokeReused(r)
           \/ \E f \in Families : SignOut(f)
           \/ \E u \in Users : SignOutAll(u) \/ RevokeSessions(u)
  BY <1>3, RevokeEnds
     DEF RevokeReused, SignOut, SignOutAll, RevokeSessions, IInv
<1>4. CASE Sweep
  <2>1. \A f \in Families : ~Exists(f)' /\ logins'[f].state # "spent"
                             => ~Exists(f) /\ logins[f].state # "spent"
    BY <1>4 DEF Sweep, Exists, IInv, Unopened, TypeOK
  <2>2. \A f \in Families : LiveRow(f)' =>
          LiveRow(f) /\ families'[f].current = families[f].current
    BY <1>4 DEF Sweep, LiveRow, Exists, IInv, TypeOK
  <2> QED  BY <2>1, <2>2, EndsOrStutters
<1>5. CASE \/ \E f \in Families, u \in Users : ClearLogin(f, u)
           \/ StoreFails \/ Crash
  <2>1. families' = families
    BY <1>5 DEF ClearLogin, StoreFails, Crash
  <2>2. \A f \in Families : logins'[f].state # "spent" => logins[f].state # "spent"
    BY <1>5 DEF ClearLogin, StoreFails, Crash, IInv, TypeOK, Login
  <2> QED  BY <2>1, <2>2, EndsOrStutters DEF LiveRow, Exists
<1>6. CASE UNCHANGED <<families, logins>>
  BY <1>6 DEF Lifecycle!vars, phaseOf, generationOf, Exists
<1> QED  BY <1>1, <1>2, <1>3, <1>4, <1>5, <1>6
     DEF Next, RequestStep, BeginRefresh, DetectReuse, Begin, RefreshLegs,
         LegsRefused, Reissue, RotateLost, TakeWinners, RotatedElsewhere,
         Respond, DeleteUser, ChangeKey, SetStatus, Tick, vars

\* Every behaviour of the table, its requests and its failures is one of the
\* session lifecycle: opened once, only ever moving forward, ended for good.
THEOREM LifecycleImplemented == Spec => ImplementsLifecycle
<1>1. Spec => []IInv /\ []TypeOK
  BY Invariant, TypeCorrect, PTL
<1> QED  BY <1>1, LifecycleInit, LifecycleStep, PTL
         DEF Spec, ImplementsLifecycle, Lifecycle!Spec


-----------------------------------------------------------------------------
(***************************************************************************)
(* Proofs about UpstreamLegs: for any records, providers and number of     *)
(* refreshes, the legs in a token are those its session was opened with.   *)
(***************************************************************************)
\* The invariant.  Before its login a session has nothing; a request that is over
\* is forgotten.
BeforeLogin ==
    IF cleared = <<>>
    THEN /\ jar = NoToken /\ family.current = 0 /\ \A p \in Providers : creds[p] = NoRecord
         /\ \A h \in Refreshers : reqs[h] = Idle
    ELSE jar # NoToken
OverIsIdle == \A h \in Refreshers : reqs[h].at = "idle" => reqs[h] = Idle

\* What a request has done: it goes through the legs of its token, of which it
\* spends only such as get a later token for it, and its rotation is news.
Progress(r) ==
    /\ r.token \in LegToken /\ r.todo \subseteq {p \in Providers : r.token.legs[p] # NoLeg}
    /\ r.at # "legs" => r.todo = {}
    /\ \A p \in Providers \ r.todo :
        /\ r.legs[p] # NoLeg <=> r.token.legs[p] # NoLeg
        /\ r.legs[p] # NoLeg => r.legs[p].rec = r.token.legs[p].rec /\ r.token.legs[p].refresh <= r.legs[p].refresh
    /\ \A x \in r.spent : \E p \in Providers \ r.todo :
        r.token.legs[p] # NoLeg /\ r.token.legs[p].rec = x /\ r.token.legs[p].refresh < r.legs[p].refresh
    /\ r.token.jti <= r.seen
    /\ r.at = "answer" => r.token.jti <= r.next
    /\ r.rotated => r.at = "answer" /\ r.token.jti < r.next
RequestsProgress == \A h \in Refreshers : reqs[h].at # "idle" => Progress(reqs[h])

\* Every token of the session has the legs of its login.
LegsAreTheLogins ==
    /\ jar # NoToken => creds = CredsOf(Collected(cleared, grants)) /\ CredsOf(jar.legs) = creds
    /\ \A h \in Refreshers : reqs[h].at # "idle" => jar # NoToken /\ CredsOf(reqs[h].token.legs) = creds

\* While every answer has come in its turn, what a client holds only gets newer.
Below(t, u) ==
    /\ t.jti <= u.jti
    /\ \A p \in Providers : t.legs[p] # NoLeg => t.legs[p].refresh <= u.legs[p].refresh
Disordered == strayed /\ Interactive \subseteq forked
JarsGrow == Disordered \/ \A h \in Refreshers : reqs[h].at # "idle" => Below(reqs[h].token, jar)

\* A request that goes by what the client still holds has legs that are current,
\* but for what another one has spent, and will answer with the current token, but
\* for one that another has rotated to.
OthersSpent(h) == UNION {reqs[k].spent : k \in Refreshers \ {h}}
Current(leg, elsewhere) ==
    leg # NoLeg => leg.refresh = 0 \/ leg.rec \in forked \cup elsewhere \/ leg.refresh = grants[leg.rec]
LegsOf(h) ==
    reqs[h].token = jar => \A p \in Providers \ reqs[h].todo : Current(reqs[h].legs[p], OthersSpent(h))
OtherRotated(h) == \E k \in Refreshers \ {h} : reqs[k].rotated
TokenOf(h) ==
    reqs[h].token = jar /\ ~strayed /\ ~OtherRotated(h) =>
        /\ reqs[h].at = "legs" /\ reqs[h].grace => reqs[h].seen = family.current
        /\ reqs[h].at = "answer" => reqs[h].next = family.current
AnswersAreCurrent == \A h \in Refreshers : reqs[h].at # "idle" => LegsOf(h) /\ TokenOf(h)

JarIsCurrent ==
    jar # NoToken =>
        /\ \A p \in Providers : Current(jar.legs[p], UNION {reqs[k].spent : k \in Refreshers})
        /\ ~strayed /\ (\A h \in Refreshers : ~reqs[h].rotated) => jar.jti = family.current

UInv ==
    /\ LegsTypeOK /\ family.previous <= family.current
    /\ BeforeLogin /\ OverIsIdle /\ RequestsProgress /\ LegsAreTheLogins
    /\ JarsGrow /\ AnswersAreCurrent /\ JarIsCurrent

-----------------------------------------------------------------------------
(* The legs of a login                                                     *)

\* A request that is over has nothing.
LEMMA IdleIs ==
    /\ Idle \in Refresh /\ Idle.at = "idle" /\ Idle.token = NoToken /\ Idle.spent = {} /\ Idle.rotated = FALSE
    /\ Idle.legs = NoLegs /\ NoToken \notin LegToken
BY UpstreamLegsAssumption, NothingAssumption DEF Idle, Refresh, NoLegs, Legs

\* Every set of naturals that is not empty has a least element.
LEMMA LeastOf ==
    ASSUME NEW I \in SUBSET Nat, I # {}
    PROVE  \E i \in I : \A j \in I : i <= j
<1>1. PICK i \in I : \A j \in I : <<j, i>> \notin OpToRel(<, Nat)
      BY WFMin, NatLessThanWellFounded, Zenon
<1>2. \A j \in I : ~(j < i) BY <1>1, Zenon DEF OpToRel
<1>3. \A j \in I : i <= j BY <1>2
<1> QED BY <1>3

\* A set of places of a login has a last one.
LEMMA LastIs ==
    ASSUME NEW n \in Nat, NEW S \in SUBSET (1..n), S # {}
    PROVE  Max(S) \in S
<1>1. PICK U : U = {u \in Nat : \A y \in S : y <= u} OBVIOUS
<1>2. n \in U BY <1>1
<1>3. PICK u \in U : \A v \in U : u <= v BY <1>1, <1>2, LeastOf
<1>4. u \in Nat /\ \A y \in S : y \in Nat /\ y <= u BY <1>1, <1>3
<1>5. \A v \in U : ~(v < u) BY <1>1, <1>3
<1>6. u \in S
  <2> SUFFICES ASSUME u \notin S PROVE FALSE OBVIOUS
  <2>1. PICK y \in S : TRUE OBVIOUS
  <2>2. \A z \in S : z < u BY <1>4
  <2>3. y < u /\ y \in Nat BY <1>4, <2>1, <2>2
  <2>4. u - 1 \in Nat /\ \A z \in S : z <= u - 1 BY <1>4, <2>2, <2>3
  <2>5. u - 1 \in U BY <1>1, <2>4
  <2> QED BY <1>4, <1>5, <2>5
<1>7. \E x \in S : \A y \in S : x >= y BY <1>4, <1>6
<1> QED BY <1>7 DEF Max

\* The record whose credential a login has for a provider, if any.
PlacesOf(legs, p) == {i \in DOMAIN legs : legs[i] \in Interactive /\ Provider[legs[i]] = p}
RecordFor(legs, p) == IF PlacesOf(legs, p) = {} THEN NoRecord ELSE legs[Max(PlacesOf(legs, p))]

\* What a login collects is one leg per provider, of a record of the provider,
\* whatever tokens were issued.
LEMMA CollectedIs ==
    ASSUME NEW door \in Doors \cup {<<>>}, NEW issued \in [Interactive -> 0..MaxSpent]
    PROVE  /\ Collected(door, issued) \in Legs
           /\ \A p \in Providers : Collected(door, issued)[p] # NoLeg =>
                  LET leg == Collected(door, issued)[p] IN leg.refresh = issued[leg.rec]
           /\ CredsOf(Collected(door, issued)) = [p \in Providers |-> RecordFor(door, p)]
           /\ \A p \in Providers : RecordFor(door, p) # NoRecord =>
                  RecordFor(door, p) \in Interactive /\ Provider[RecordFor(door, p)] = p
<1>1. door \in Seq(Records)
  <2>1. CASE door = <<>> BY <2>1
  <2>2. CASE door \in Doors BY <2>2, UpstreamLegsAssumption
  <2> QED BY <2>1, <2>2
<1>2. ASSUME NEW p \in Providers
      PROVE  /\ Collected(door, issued)[p] \in Leg \cup {NoLeg}
             /\ Collected(door, issued)[p] # NoLeg =>
                  LET leg == Collected(door, issued)[p] IN leg.refresh = issued[leg.rec]
             /\ (IF Collected(door, issued)[p] = NoLeg THEN NoRecord ELSE Collected(door, issued)[p].rec) = RecordFor(door, p)
             /\ RecordFor(door, p) # NoRecord =>
                  RecordFor(door, p) \in Interactive /\ Provider[RecordFor(door, p)] = p
  <2>1. PICK S : S = PlacesOf(door, p) OBVIOUS
  <2>2. PICK leg : leg = [rec |-> door[Max(S)], refresh |-> issued[door[Max(S)]]] OBVIOUS
  <2>3. Collected(door, issued)[p] = IF S = {} THEN NoLeg ELSE leg BY <2>1, <2>2 DEF Collected, PlacesOf
  <2>4. CASE S = {} BY <2>1, <2>3, <2>4 DEF RecordFor
  <2>5. CASE S # {}
    <3>1. Max(S) \in S
      <4>1. S \in SUBSET (1..Len(door)) /\ Len(door) \in Nat BY <1>1, <2>1 DEF PlacesOf
      <4> QED BY <2>5, <4>1, LastIs
    <3>2. door[Max(S)] \in Interactive /\ Provider[door[Max(S)]] = p BY <2>1, <3>1 DEF PlacesOf
    <3>3. leg \in Leg /\ leg # NoLeg /\ leg.rec = door[Max(S)] /\ leg.refresh = issued[leg.rec]
          BY <2>2, <3>2, NothingAssumption DEF Leg
    <3>4. RecordFor(door, p) = door[Max(S)] BY <2>1, <2>5 DEF RecordFor
    <3> QED BY <2>3, <2>5, <3>2, <3>3, <3>4
  <2> QED BY <2>4, <2>5
<1>3. Collected(door, issued) = [p \in Providers |-> Collected(door, issued)[p]] BY DEF Collected
<1>4. Collected(door, issued) \in Legs BY <1>2, <1>3 DEF Legs
<1>5. CredsOf(Collected(door, issued)) = [p \in Providers |-> RecordFor(door, p)] BY <1>2 DEF CredsOf
<1> QED BY <1>2, <1>4, <1>5

\* The credentials of a login stay whatever its tokens become.
LEMMA CredsStay ==
    ASSUME UInv, cleared' = cleared, jar' = jar, creds' = creds, grants' \in [Interactive -> 0..MaxSpent], jar # NoToken
    PROVE  creds' = CredsOf(Collected(cleared', grants')) /\ CredsOf(jar'.legs) = creds'
<1>1. cleared \in Doors \cup {<<>>} /\ grants \in [Interactive -> 0..MaxSpent] BY DEF UInv, LegsTypeOK
<1>2. creds = CredsOf(Collected(cleared, grants)) /\ CredsOf(jar.legs) = creds BY DEF UInv, LegsAreTheLogins
<1>3. PICK d : d = [p \in Providers |-> RecordFor(cleared, p)] OBVIOUS
<1>4. CredsOf(Collected(cleared, grants)) = d BY <1>1, <1>3, CollectedIs
<1>5. CredsOf(Collected(cleared, grants')) = d BY <1>1, <1>3, CollectedIs
<1> QED BY <1>2, <1>4, <1>5

-----------------------------------------------------------------------------
(* The steps of a request                                                  *)

\* What a request of h may become, q, and what may become of the rest, without the
\* client hearing of it: what h had spent or rotated is still its own, or lost.
Onward(h, q) ==
    /\ UNCHANGED <<cleared, jar, creds>> /\ reqs' = [reqs EXCEPT ![h] = q] /\ q \in Refresh
    /\ family' \in [current: 0..MaxRotations, previous: 0..MaxRotations, recent: BOOLEAN, revoked: BOOLEAN]
    /\ family'.previous <= family'.current /\ (family'.current = family.current \/ q.rotated)
    /\ grants' \in [Interactive -> 0..MaxSpent]
    /\ \A x \in Interactive : grants'[x] = grants[x] \/ x \in q.spent \cup forked'
    /\ forked \subseteq forked' /\ forked' \subseteq Interactive /\ reqs[h].spent \subseteq q.spent \cup forked'
    /\ strayed' \in BOOLEAN /\ (strayed => strayed') /\ (reqs[h].rotated => q.rotated \/ strayed')

\* Such a step keeps the invariant, if the request has then done what it may.
LEMMA OnwardKeeps ==
    ASSUME UInv, NEW h \in Refreshers, NEW q, Onward(h, q), jar # NoToken,
           \/ q = Idle
           \/ /\ q.at # "idle" /\ Progress(q) /\ LegsOf(h)' /\ TokenOf(h)'
              /\ q.token = jar \/ (reqs[h].at # "idle" /\ q.token = reqs[h].token)
    PROVE  UInv'
<1>1. /\ UNCHANGED <<cleared, jar, creds>> /\ q \in Refresh
      /\ reqs' \in [Refreshers -> Refresh] /\ reqs'[h] = q /\ \A k \in Refreshers \ {h} : reqs'[k] = reqs[k]
      BY DEF Onward, UInv, LegsTypeOK
<1>2. LegsTypeOK' /\ (family.previous <= family.current)' BY <1>1 DEF Onward, UInv, LegsTypeOK
<1>3. \A k \in Refreshers : k = h \/ reqs'[k] = reqs[k] BY <1>1
<1>4. cleared # <<>> BY DEF UInv, BeforeLogin
<1>5. BeforeLogin' BY <1>1, <1>4 DEF BeforeLogin
<1>6. OverIsIdle' BY <1>1, <1>3 DEF OverIsIdle, UInv
<1>7. RequestsProgress'
  <2>1. ASSUME NEW k \in Refreshers, reqs'[k].at # "idle" PROVE Progress(reqs'[k])
    <3>1. CASE k = h BY <1>1, <2>1, <3>1, IdleIs
    <3>2. CASE k # h BY <1>1, <2>1, <3>2 DEF UInv, RequestsProgress
    <3> QED BY <3>1, <3>2
  <2> QED BY <2>1 DEF RequestsProgress, Progress
<1>8. LegsAreTheLogins'
  <2>1. creds' = CredsOf(Collected(cleared', grants')) /\ CredsOf(jar'.legs) = creds' BY <1>1, CredsStay DEF Onward
  <2>2. ASSUME NEW k \in Refreshers, reqs'[k].at # "idle" PROVE CredsOf(reqs'[k].token.legs) = creds
    <3>1. CASE k # h BY <1>1, <2>2, <3>1 DEF UInv, LegsAreTheLogins
    <3>2. CASE k = h /\ q.token = jar BY <1>1, <2>1, <2>2, <3>2
    <3>3. CASE k = h /\ reqs[h].at # "idle" /\ q.token = reqs[h].token
          BY <1>1, <2>2, <3>3 DEF UInv, LegsAreTheLogins
    <3>4. CASE k = h /\ q = Idle BY <1>1, <2>2, <3>4, IdleIs
    <3> QED BY <3>1, <3>2, <3>3, <3>4
  <2> QED BY <1>1, <2>1, <2>2 DEF LegsAreTheLogins, CredsOf
<1>9. JarsGrow'
  <2>1. CASE Disordered BY <2>1 DEF Disordered, Onward, JarsGrow
  <2>2. CASE ~Disordered
    <3>1. jar \in LegToken BY DEF UInv, LegsTypeOK
    <3>2. Below(jar, jar) BY <3>1 DEF Below, LegToken, Legs, Leg
    <3>3. ASSUME NEW k \in Refreshers, reqs'[k].at # "idle" PROVE Below(reqs'[k].token, jar')
      <4>1. CASE k # h BY <1>1, <2>2, <3>3, <4>1 DEF UInv, JarsGrow
      <4>2. CASE k = h /\ q.token = jar BY <1>1, <3>2, <4>2
      <4>3. CASE k = h /\ reqs[h].at # "idle" /\ q.token = reqs[h].token
            BY <1>1, <2>2, <3>3, <4>3 DEF UInv, JarsGrow
      <4>4. CASE k = h /\ q = Idle BY <1>1, <3>3, <4>4, IdleIs
      <4> QED BY <4>1, <4>2, <4>3, <4>4
    <3> QED BY <3>3 DEF JarsGrow, Below
  <2> QED BY <2>1, <2>2
<1>10. ASSUME NEW leg \in Leg \cup {NoLeg}, NEW S, NEW S2, Current(leg, S),
              \A x \in S \ S2 : x \in forked', \A x \in q.spent : x \in S2
       PROVE  Current(leg, S2)'
  <2>1. leg # NoLeg => leg.rec \in Interactive BY DEF Leg
  <2> QED BY <1>10, <2>1 DEF Current, Onward
<1>11. AnswersAreCurrent'
  <2>1. ASSUME NEW k \in Refreshers, reqs'[k].at # "idle" PROVE LegsOf(k)' /\ TokenOf(k)'
    <3>1. CASE k = h BY <1>1, <2>1, <3>1, IdleIs
    <3>2. CASE k # h
      <4>1. reqs'[k] = reqs[k] /\ LegsOf(k) /\ TokenOf(k) /\ reqs[k] \in Refresh
            BY <1>1, <2>1, <3>2 DEF UInv, AnswersAreCurrent, LegsTypeOK
      <4>2. PICK S : S = OthersSpent(k) OBVIOUS
      <4>3. PICK S2 : S2 = OthersSpent(k)' OBVIOUS
      <4>4. \A x \in q.spent : x \in S2 BY <1>1, <3>2, <4>3 DEF OthersSpent
      <4>5. \A x \in S \ S2 : x \in forked'
        <5>1. ASSUME NEW x \in S, x \notin S2 PROVE x \in forked'
          <6>1. PICK l \in Refreshers \ {k} : x \in reqs[l].spent BY <4>2, <5>1 DEF OthersSpent
          <6>2. x \notin reqs'[l].spent BY <4>3, <5>1 DEF OthersSpent
          <6>3. l = h BY <1>3, <6>1, <6>2
          <6> QED BY <1>1, <6>1, <6>2, <6>3 DEF Onward
        <5> QED BY <5>1
      <4>6. LegsOf(k)'
        <5>1. ASSUME reqs[k].token = jar, NEW p \in Providers \ reqs[k].todo PROVE Current(reqs[k].legs[p], S2)'
          <6>1. Current(reqs[k].legs[p], S) BY <4>1, <4>2, <5>1 DEF LegsOf
          <6>2. reqs[k].legs[p] \in Leg \cup {NoLeg} BY <4>1 DEF Refresh, Legs
          <6>3. PICK leg : leg = reqs[k].legs[p] OBVIOUS
          <6>4. Current(leg, S2)' BY <1>10, <4>4, <4>5, <6>1, <6>2, <6>3
          <6> QED BY <4>1, <6>3, <6>4 DEF Current
        <5> QED BY <1>1, <4>1, <4>3, <5>1 DEF LegsOf, Current
      <4>7. TokenOf(k)'
        <5>1. ASSUME reqs[k].token = jar, ~strayed', \A l \in Refreshers \ {k} : ~reqs'[l].rotated
              PROVE  /\ reqs[k].at = "legs" /\ reqs[k].grace => reqs[k].seen = family'.current
                     /\ reqs[k].at = "answer" => reqs[k].next = family'.current
          <6>1. ~q.rotated /\ ~strayed /\ ~reqs[h].rotated /\ family'.current = family.current
                BY <1>1, <3>2, <5>1 DEF Onward
          <6>2. ~OtherRotated(k) BY <1>3, <5>1, <6>1 DEF OtherRotated
          <6> QED BY <4>1, <5>1, <6>1, <6>2 DEF TokenOf
        <5> QED BY <1>1, <4>1, <5>1 DEF TokenOf, OtherRotated
      <4> QED BY <4>6, <4>7
    <3> QED BY <3>1, <3>2
  <2> QED BY <2>1 DEF AnswersAreCurrent
<1>12. JarIsCurrent'
  <2>1. PICK S : S = UNION {reqs[k].spent : k \in Refreshers} OBVIOUS
  <2>2. PICK S2 : S2 = UNION {reqs'[k].spent : k \in Refreshers} OBVIOUS
  <2>3. \A x \in q.spent : x \in S2 BY <1>1, <2>2
  <2>4. \A x \in S \ S2 : x \in forked'
    <3>1. ASSUME NEW x \in S, x \notin S2 PROVE x \in forked'
      <4>1. PICK l \in Refreshers : x \in reqs[l].spent BY <2>1, <3>1
      <4>2. x \notin reqs'[l].spent BY <2>2, <3>1
      <4>3. l = h BY <1>3, <4>1, <4>2
      <4> QED BY <1>1, <4>1, <4>2, <4>3 DEF Onward
    <3> QED BY <3>1
  <2>5. \A p \in Providers : Current(jar.legs[p], S2)'
    <3>1. ASSUME NEW p \in Providers PROVE Current(jar.legs[p], S2)'
      <4>1. Current(jar.legs[p], S) BY <2>1 DEF UInv, JarIsCurrent
      <4>2. jar.legs[p] \in Leg \cup {NoLeg} BY DEF UInv, LegsTypeOK, LegToken, Legs
      <4>3. PICK leg : leg = jar.legs[p] OBVIOUS
      <4>4. Current(leg, S2)' BY <1>10, <2>3, <2>4, <4>1, <4>2, <4>3
      <4> QED BY <1>1, <4>3, <4>4 DEF Current
    <3> QED BY <3>1
  <2>6. ASSUME ~strayed', \A k \in Refreshers : ~reqs'[k].rotated PROVE jar.jti = family'.current
    <3>1. ~q.rotated /\ ~strayed /\ ~reqs[h].rotated /\ family'.current = family.current
          BY <1>1, <2>6 DEF Onward
    <3>2. \A k \in Refreshers : ~reqs[k].rotated BY <1>3, <2>6, <3>1
    <3> QED BY <3>1, <3>2 DEF UInv, JarIsCurrent
  <2> QED BY <1>1, <2>2, <2>5, <2>6 DEF JarIsCurrent
<1> QED BY <1>2, <1>5, <1>6, <1>7, <1>8, <1>9, <1>11, <1>12 DEF UInv

\* A request under way has a session, and has done what it may.
LEMMA UnderWay ==
    ASSUME UInv, NEW h \in Refreshers, NEW r, r = reqs[h], r.at # "idle"
    PROVE  /\ r \in Refresh /\ Progress(r) /\ r.token \in LegToken /\ r.spent \subseteq Interactive
           /\ jar # NoToken /\ jar \in LegToken /\ CredsOf(r.token.legs) = creds
           /\ LegsOf(h) /\ TokenOf(h)
<1>1. r \in Refresh /\ jar \in LegToken \cup {NoToken} BY DEF UInv, LegsTypeOK
<1>2. Progress(r) BY DEF UInv, RequestsProgress
<1>3. jar # NoToken /\ CredsOf(r.token.legs) = creds BY DEF UInv, LegsAreTheLogins
<1> QED BY <1>1, <1>2, <1>3 DEF Refresh, Progress, UInv, AnswersAreCurrent

\* A request that ends unheard leaves what it spent and rotated behind.
LEMMA EndsKeeps ==
    ASSUME UInv, NEW h \in Refreshers, reqs[h].at # "idle", Ends(h), UNCHANGED <<cleared, family, grants, jar, creds>>
    PROVE  UInv'
<1>1. reqs[h].spent \subseteq Interactive /\ jar # NoToken /\ reqs[h] \in Refresh BY UnderWay
<1>2. Onward(h, Idle) BY <1>1, IdleIs DEF Onward, Ends, UInv, LegsTypeOK, Refresh
<1> QED BY <1>1, <1>2, OnwardKeeps

\* A request looks its family up, or ends the session.
LEMMA AskKeeps ==
    ASSUME UInv, NEW h \in Refreshers, Ask(h)
    PROVE  UInv'
<1>1. reqs[h] = Idle /\ jar # NoToken /\ jar \in LegToken BY DEF Ask, UInv, OverIsIdle, LegsTypeOK
<1>2. PICK grace \in BOOLEAN : grace <=> jar.jti = family.previous /\ family.recent OBVIOUS
<1>3. family \in [current: 0..MaxRotations, previous: 0..MaxRotations, recent: BOOLEAN, revoked: BOOLEAN]
      /\ family.previous <= family.current
      BY DEF UInv, LegsTypeOK
<1>4. CASE jar.jti = family.current \/ grace
  <2>1. PICK D : D = {p \in Providers : jar.legs[p] # NoLeg} OBVIOUS
  <2>2. PICK q : q = [Idle EXCEPT !.at = "legs", !.token = jar, !.seen = family.current, !.grace = grace, !.todo = D]
        OBVIOUS
  <2>3. /\ q \in Refresh /\ q.at = "legs" /\ q.token = jar /\ q.seen = family.current /\ q.grace = grace /\ q.todo = D
        /\ q.legs = NoLegs /\ q.spent = {} /\ q.rotated = FALSE
        BY <1>1, <1>3, <2>1, <2>2, IdleIs DEF Refresh
  <2>4. reqs' = [reqs EXCEPT ![h] = q] /\ UNCHANGED <<cleared, family, grants, jar, creds, forked, strayed>>
    <3>1. (jar.jti = family.previous /\ family.recent) = grace
      <4>1. (jar.jti = family.previous /\ family.recent) \in BOOLEAN BY <1>3
      <4> QED BY <1>2, <4>1
    <3> QED BY <1>4, <2>1, <2>2, <3>1 DEF Ask
  <2>5. Onward(h, q)
    <3>1. reqs[h].spent = {} /\ reqs[h].rotated = FALSE BY <1>1, IdleIs
    <3> QED BY <1>3, <2>3, <2>4, <3>1 DEF Onward, UInv, LegsTypeOK
  <2>6. jar.jti <= family.current /\ jar.jti \in Nat BY <1>1, <1>2, <1>3, <1>4 DEF LegToken
  <2>7. Progress(q)
    <3>1. \A p \in Providers \ D : jar.legs[p] = NoLeg /\ q.legs[p] = NoLeg BY <2>1, <2>3 DEF NoLegs
    <3> QED BY <1>1, <2>1, <2>3, <2>6, <3>1 DEF Progress
  <2>8. reqs'[h] = q BY <2>4 DEF UInv, LegsTypeOK
  <2>9. LegsOf(h)'
    <3>1. \A p \in Providers \ D : q.legs[p] = NoLeg BY <2>3 DEF NoLegs
    <3> QED BY <2>3, <2>8, <3>1 DEF LegsOf, Current
  <2>10. TokenOf(h)' BY <2>3, <2>4, <2>8 DEF TokenOf
  <2> QED BY <1>1, <2>3, <2>5, <2>7, <2>9, <2>10, OnwardKeeps
<1>5. CASE ~(jar.jti = family.current \/ grace)
  <2>1. /\ family' = [family EXCEPT !.revoked = TRUE] /\ reqs' = reqs
        /\ UNCHANGED <<cleared, grants, jar, creds, forked, strayed>>
        BY <1>2, <1>5 DEF Ask
  <2>2. reqs' = [reqs EXCEPT ![h] = Idle] BY <1>1, <2>1 DEF UInv, LegsTypeOK
  <2>3. Onward(h, Idle) BY <1>1, <1>3, <2>1, <2>2, IdleIs DEF Onward, UInv, LegsTypeOK
  <2> QED BY <1>1, <2>3, OnwardKeeps
<1> QED BY <1>4, <1>5

\* A leg of a login is of a record of its provider.
LEMMA LegsAreTheirs ==
    ASSUME UInv, jar # NoToken, NEW t \in LegToken, CredsOf(t.legs) = creds, NEW p \in Providers, t.legs[p] # NoLeg
    PROVE  t.legs[p] \in Leg /\ t.legs[p].rec \in Interactive /\ Provider[t.legs[p].rec] = p
<1>1. t.legs[p] \in Leg BY DEF LegToken, Legs
<1>2. t.legs[p].rec \in Interactive /\ t.legs[p].rec # NoRecord
      BY <1>1, UpstreamLegsAssumption DEF Leg, Interactive
<1>3. creds[p] = t.legs[p].rec BY DEF CredsOf
<1>4. cleared \in Doors \cup {<<>>} /\ grants \in [Interactive -> 0..MaxSpent] BY DEF UInv, LegsTypeOK
<1>5. creds = [o \in Providers |-> RecordFor(cleared, o)] BY <1>4, CollectedIs DEF UInv, LegsAreTheLogins
<1>6. RecordFor(cleared, p) = t.legs[p].rec BY <1>3, <1>5
<1>7. Provider[t.legs[p].rec] = p BY <1>2, <1>4, <1>6, CollectedIs
<1> QED BY <1>1, <1>2, <1>7

\* A leg is done: it rides on, or is what its provider takes from now on.
LEMMA DoneKeeps ==
    ASSUME UInv, NEW h \in Refreshers, NEW p \in Providers, NEW leg \in Leg, NEW spent \in SUBSET {leg.rec},
           reqs[h].at = "legs", p \in reqs[h].todo, Done(h, p, leg, spent),
           UNCHANGED <<cleared, family, jar, creds, forked, strayed>>,
           grants' \in [Interactive -> 0..MaxSpent], \A x \in Interactive : grants'[x] = grants[x] \/ x \in spent,
           leg.rec = reqs[h].token.legs[p].rec, reqs[h].token.legs[p].refresh <= leg.refresh,
           spent # {} => reqs[h].token.legs[p].refresh < leg.refresh,
           leg.refresh = 0 \/ leg.refresh = grants'[leg.rec]
    PROVE  UInv'
<1>1. PICK r : r = reqs[h] OBVIOUS
<1>2. r.at = "legs" /\ r.at # "idle" /\ p \in r.todo BY <1>1
<1>3. /\ r \in Refresh /\ Progress(r) /\ r.token \in LegToken /\ r.spent \subseteq Interactive
      /\ jar # NoToken /\ jar \in LegToken /\ CredsOf(r.token.legs) = creds
      /\ LegsOf(h) /\ TokenOf(h)
      BY <1>1, <1>2, UnderWay
<1>4. PICK D : D = r.todo \ {p} OBVIOUS
<1>5. PICK L : L = [r.legs EXCEPT ![p] = leg] OBVIOUS
<1>6. PICK S : S = r.spent \cup spent OBVIOUS
<1>7. leg.rec \in Interactive /\ leg # NoLeg BY NothingAssumption DEF Leg
<1>8. D \in SUBSET Providers /\ L \in Legs /\ S \in SUBSET Interactive
      BY <1>3, <1>4, <1>5, <1>6, <1>7 DEF Refresh, Legs
<1>9. L[p] = leg /\ \A o \in Providers \ {p} : L[o] = r.legs[o] BY <1>3, <1>5 DEF Refresh, Legs
<1>10. PICK q : q = [r EXCEPT !.todo = D, !.legs = L, !.spent = S] OBVIOUS
<1>11. /\ q \in Refresh /\ q.at = "legs" /\ q.token = r.token /\ q.todo = D /\ q.legs = L /\ q.spent = S
       /\ q.rotated = r.rotated /\ q.seen = r.seen /\ q.grace = r.grace /\ q.next = r.next
       BY <1>2, <1>3, <1>8, <1>10 DEF Refresh
<1>12. reqs' = [reqs EXCEPT ![h] = q]
  <2>1. reqs' = [reqs EXCEPT ![h].todo = D, ![h].legs = L, ![h].spent = S]
        BY <1>1, <1>4, <1>5, <1>6 DEF Done, UInv, LegsTypeOK
  <2> QED BY <1>1, <1>10, <2>1 DEF UInv, LegsTypeOK
<1>13. reqs'[h] = q BY <1>12 DEF UInv, LegsTypeOK
<1>14. Onward(h, q)
  <2>1. r.spent \subseteq q.spent /\ (r.rotated => q.rotated) /\ spent \subseteq q.spent BY <1>6, <1>11
  <2> QED BY <1>1, <1>11, <1>12, <2>1 DEF Onward, UInv, LegsTypeOK
<1>15. r.token.legs[p] # NoLeg BY <1>2, <1>3 DEF Progress
<1>16. Progress(q)
  <2>1. D \subseteq {o \in Providers : r.token.legs[o] # NoLeg} BY <1>3, <1>4 DEF Progress
  <2>2. \A o \in Providers \ D :
          /\ L[o] # NoLeg <=> r.token.legs[o] # NoLeg
          /\ L[o] # NoLeg => L[o].rec = r.token.legs[o].rec /\ r.token.legs[o].refresh <= L[o].refresh
        BY <1>1, <1>3, <1>4, <1>7, <1>9, <1>15 DEF Progress
  <2>3. ASSUME NEW x \in S
        PROVE  \E o \in Providers \ D : /\ r.token.legs[o] # NoLeg /\ r.token.legs[o].rec = x
                                        /\ r.token.legs[o].refresh < L[o].refresh
    <3>1. CASE x \in spent BY <1>1, <1>4, <1>9, <1>15, <3>1
    <3>2. CASE x \in r.spent
      <4>1. PICK o \in Providers \ r.todo : /\ r.token.legs[o] # NoLeg /\ r.token.legs[o].rec = x
                                            /\ r.token.legs[o].refresh < r.legs[o].refresh
            BY <1>3, <3>2 DEF Progress
      <4>2. o # p /\ o \in Providers \ D BY <1>2, <1>4, <4>1
      <4> QED BY <1>9, <4>1, <4>2
    <3> QED BY <1>6, <2>3, <3>1, <3>2
  <2>4. r.token.jti <= r.seen /\ ~r.rotated BY <1>2, <1>3 DEF Progress
  <2>5. q.rotated = FALSE BY <1>3, <1>11, <2>4
  <2> QED BY <1>3, <1>11, <2>1, <2>2, <2>3, <2>4, <2>5 DEF Progress
<1>17. LegsOf(h)'
  <2>1. PICK T : T = OthersSpent(h) OBVIOUS
  <2>2. OthersSpent(h)' = T BY <1>12, <2>1 DEF OthersSpent, UInv, LegsTypeOK
  <2>3. ASSUME r.token = jar, NEW o \in Providers \ D PROVE Current(L[o], T)'
    <3>1. CASE o = p BY <1>9, <3>1 DEF Current
    <3>2. CASE o # p
      <4>1. o \in Providers \ r.todo BY <1>4, <2>3, <3>2
      <4>2. Current(r.legs[o], T) BY <1>1, <1>3, <2>1, <2>3, <4>1 DEF LegsOf
      <4>3. PICK l : l = r.legs[o] OBVIOUS
      <4>4. l # NoLeg => l \in Leg /\ l.rec \in Interactive /\ Provider[l.rec] = o
        <5>1. l # NoLeg => r.token.legs[o] # NoLeg /\ l.rec = r.token.legs[o].rec /\ l \in Leg
              BY <1>3, <4>1, <4>3 DEF Progress, Refresh, Legs
        <5> QED BY <1>3, <2>3, <5>1, LegsAreTheirs
      <4>5. Provider[leg.rec] = p BY <1>1, <1>3, <1>15, LegsAreTheirs
      <4>6. l # NoLeg => l.rec # leg.rec BY <3>2, <4>4, <4>5
      <4>7. l # NoLeg => grants'[l.rec] = grants[l.rec] BY <4>4, <4>6
      <4>8. Current(l, T)' BY <4>2, <4>3, <4>7 DEF Current
      <4> QED BY <1>9, <3>2, <4>3, <4>8 DEF Current
    <3> QED BY <3>1, <3>2
  <2> QED BY <1>11, <1>13, <2>2, <2>3 DEF LegsOf, Current
<1>18. TokenOf(h)'
  <2>1. OtherRotated(h)' <=> OtherRotated(h) BY <1>12 DEF OtherRotated, UInv, LegsTypeOK
  <2> QED BY <1>1, <1>2, <1>3, <1>11, <1>13, <2>1 DEF TokenOf
<1> QED BY <1>1, <1>2, <1>3, <1>11, <1>14, <1>16, <1>17, <1>18, OnwardKeeps

\* A leg rides on, is renewed, or is exchanged for the next.
LEMMA LegKeeps ==
    ASSUME UInv, NEW h \in Refreshers, NEW p \in Providers, RideOn(h, p) \/ Renew(h, p) \/ Exchange(h, p)
    PROVE  UInv'
<1>1. PICK leg : leg = reqs[h].token.legs[p] OBVIOUS
<1>2. reqs[h].at = "legs" /\ reqs[h].at # "idle" /\ p \in reqs[h].todo BY DEF RideOn, Renew, Exchange, Takes
<1>3. Progress(reqs[h]) /\ jar # NoToken BY <1>2, UnderWay
<1>4. leg \in Leg BY <1>1, <1>2, <1>3 DEF Progress, LegToken, Legs
<1>5. leg.refresh \in 0..MaxSpent /\ leg.rec \in Interactive /\ MaxSpent \in Nat
      BY <1>4, UpstreamLegsAssumption DEF Leg
<1>6. grants \in [Interactive -> 0..MaxSpent] BY DEF UInv, LegsTypeOK
<1>7. CASE RideOn(h, p) \/ Renew(h, p)
  <2>1. /\ Done(h, p, leg, {}) /\ UNCHANGED <<cleared, family, grants, jar, creds, forked, strayed>>
        /\ leg.refresh = 0 \/ leg.refresh = grants[leg.rec]
        BY <1>1, <1>7 DEF RideOn, Renew, Takes
  <2> QED BY <1>1, <1>2, <1>4, <1>5, <1>6, <2>1, DoneKeeps
<1>8. CASE Exchange(h, p)
  <2>1. PICK next : next = [leg EXCEPT !.refresh = leg.refresh + 1] OBVIOUS
  <2>2. leg.refresh = grants[leg.rec] /\ grants[leg.rec] < MaxSpent
        BY <1>1, <1>8 DEF Exchange, Takes
  <2>3. next \in Leg /\ next.rec = leg.rec /\ next.refresh = leg.refresh + 1
        BY <1>4, <1>5, <2>1, <2>2 DEF Leg
  <2>4. Done(h, p, next, {leg.rec}) /\ UNCHANGED <<cleared, family, jar, creds, forked, strayed>>
        /\ grants' = [grants EXCEPT ![leg.rec] = @ + 1]
        BY <1>1, <1>8, <2>1 DEF Exchange
  <2>5. /\ grants' \in [Interactive -> 0..MaxSpent] /\ grants'[leg.rec] = next.refresh
        /\ \A x \in Interactive : grants'[x] = grants[x] \/ x \in {leg.rec}
        BY <1>5, <1>6, <2>2, <2>3, <2>4
  <2>6. leg.refresh <= next.refresh /\ leg.refresh < next.refresh /\ {leg.rec} \in SUBSET {next.rec}
        BY <1>5, <2>3
  <2> QED BY <1>1, <1>2, <2>3, <2>4, <2>5, <2>6, DoneKeeps
<1> QED BY <1>7, <1>8

\* The provider's answer is lost: its record has lost its token.
LEMMA ExchangeLostKeeps ==
    ASSUME UInv, NEW h \in Refreshers, NEW p \in Providers, ExchangeLost(h, p)
    PROVE  UInv'
<1>1. PICK leg : leg = reqs[h].token.legs[p] OBVIOUS
<1>2. reqs[h].at = "legs" /\ reqs[h].at # "idle" /\ p \in reqs[h].todo BY DEF ExchangeLost, Takes
<1>3. Progress(reqs[h]) /\ jar # NoToken /\ reqs[h].spent \subseteq Interactive BY <1>2, UnderWay
<1>4. leg.rec \in Interactive BY <1>1, <1>2, <1>3 DEF Progress, LegToken, Legs, Leg
<1>5. ~reqs[h].rotated BY <1>2, <1>3 DEF Progress
<1>6. /\ grants' = [grants EXCEPT ![leg.rec] = @ + 1] /\ grants[leg.rec] < MaxSpent
      /\ reqs' = [reqs EXCEPT ![h] = Idle] /\ forked' = forked \cup reqs[h].spent \cup {leg.rec}
      /\ UNCHANGED <<cleared, family, jar, creds, strayed>>
      BY <1>1 DEF ExchangeLost
<1>7. grants' \in [Interactive -> 0..MaxSpent] /\ \A x \in Interactive : grants'[x] = grants[x] \/ x = leg.rec
      BY <1>4, <1>6, UpstreamLegsAssumption DEF UInv, LegsTypeOK
<1>8. Onward(h, Idle) BY <1>3, <1>4, <1>5, <1>6, <1>7, IdleIs DEF Onward, UInv, LegsTypeOK
<1> QED BY <1>3, <1>8, OnwardKeeps

\* A request goes on with its legs as they are.
LEMMA GoingOn ==
    ASSUME UInv, NEW h \in Refreshers, NEW r, r = reqs[h], r.at # "idle", r.todo = {}, NEW q \in Refresh,
           q.token = r.token, q.todo = {}, q.legs = r.legs, q.spent = r.spent, q.seen = r.seen, q.at # "idle",
           reqs' = [reqs EXCEPT ![h] = q], UNCHANGED <<cleared, grants, jar, creds, forked, strayed>>,
           family' \in [current: 0..MaxRotations, previous: 0..MaxRotations, recent: BOOLEAN, revoked: BOOLEAN],
           family'.previous <= family'.current, family'.current = family.current \/ q.rotated,
           r.rotated => q.rotated, q.at = "answer" => r.token.jti <= q.next,
           q.rotated => q.at = "answer" /\ r.token.jti < q.next,
           q.at # "legs", TokenOf(h)'
    PROVE  UInv'
<1>1. /\ Progress(r) /\ jar # NoToken /\ LegsOf(h) BY UnderWay
<1>2. Onward(h, q) BY DEF Onward, UInv, LegsTypeOK
<1>3. Progress(q) BY <1>1 DEF Progress
<1>4. reqs'[h] = q BY DEF UInv, LegsTypeOK
<1>5. OthersSpent(h)' = OthersSpent(h) BY DEF OthersSpent, UInv, LegsTypeOK
<1>6. LegsOf(h)' BY <1>1, <1>4, <1>5 DEF LegsOf, Current
<1> QED BY <1>1, <1>2, <1>3, <1>6, OnwardKeeps

\* A request's legs are done; it rotates the family, or follows who has.
LEMMA RotationKeeps ==
    ASSUME UInv, NEW h \in Refreshers, Mint(h) \/ RotateFamily(h) \/ FollowWinner(h)
    PROVE  UInv'
<1>1. PICK r : r = reqs[h] OBVIOUS
<1>2. r.at # "idle" BY <1>1 DEF Mint, RotateFamily, FollowWinner
<1>3. /\ r \in Refresh /\ Progress(r) /\ r.token \in LegToken /\ jar # NoToken /\ LegsOf(h) /\ TokenOf(h)
      BY <1>1, <1>2, UnderWay
<1>4. r.todo = {} BY <1>1, <1>3 DEF Mint, RotateFamily, FollowWinner, Progress
<1>5. r.at # "answer" /\ ~r.rotated /\ r.token.jti <= r.seen
      BY <1>1, <1>3 DEF Mint, RotateFamily, FollowWinner, Progress
<1>6. family \in [current: 0..MaxRotations, previous: 0..MaxRotations, recent: BOOLEAN, revoked: BOOLEAN]
      /\ family.previous <= family.current /\ MaxRotations \in Nat
      BY UpstreamLegsAssumption DEF UInv, LegsTypeOK
<1>7. r.token.jti \in Nat /\ r.seen \in 0..MaxRotations /\ r.grace \in BOOLEAN BY <1>3 DEF LegToken, Refresh
<1>8. CASE Mint(h)
  <2>1. PICK a : a = IF r.grace THEN "answer" ELSE "rotate" OBVIOUS
  <2>2. PICK q : q = [r EXCEPT !.at = a, !.next = r.seen] OBVIOUS
  <2>3. /\ q \in Refresh /\ q.at = a /\ q.next = r.seen /\ q.token = r.token /\ q.todo = {} /\ q.legs = r.legs
        /\ q.spent = r.spent /\ q.seen = r.seen /\ q.rotated = r.rotated /\ q.grace = r.grace
        BY <1>3, <1>4, <1>7, <2>1, <2>2 DEF Refresh
  <2>4. reqs' = [reqs EXCEPT ![h] = q] /\ UNCHANGED <<cleared, family, grants, jar, creds, forked, strayed>>
    <3>1. reqs' = [reqs EXCEPT ![h].at = a, ![h].next = r.seen] BY <1>1, <1>8, <2>1 DEF Mint
    <3>2. reqs' = [reqs EXCEPT ![h] = q] BY <1>1, <2>2, <3>1 DEF UInv, LegsTypeOK
    <3> QED BY <1>8, <3>2 DEF Mint
  <2>5. reqs'[h] = q BY <2>4 DEF UInv, LegsTypeOK
  <2>6. OtherRotated(h)' <=> OtherRotated(h) BY <2>4 DEF OtherRotated, UInv, LegsTypeOK
  <2>7. TokenOf(h)'
    <3>1. r.at = "legs" BY <1>1, <1>8 DEF Mint
    <3>2. q.at = "answer" => r.grace BY <2>1, <2>3
    <3>3. q.at # "legs" BY <2>1, <2>3
    <3> QED BY <1>1, <1>3, <2>3, <2>4, <2>5, <2>6, <3>1, <3>2, <3>3 DEF TokenOf
  <2>8. q.at # "idle" /\ q.at # "legs" BY <2>1, <2>3
  <2> QED BY <1>1, <1>2, <1>4, <1>5, <1>6, <2>3, <2>4, <2>7, <2>8, GoingOn
<1>9. CASE RotateFamily(h) /\ family.current = r.seen
  <2>1. PICK n : n = family.current + 1 OBVIOUS
  <2>2. PICK q : q = [r EXCEPT !.at = "answer", !.next = n, !.rotated = TRUE] OBVIOUS
  <2>3. family.current < MaxRotations /\ n \in 0..MaxRotations /\ r.token.jti < n
        BY <1>1, <1>5, <1>6, <1>7, <1>9, <2>1 DEF RotateFamily
  <2>4. /\ q \in Refresh /\ q.at = "answer" /\ q.next = n /\ q.token = r.token /\ q.todo = {} /\ q.legs = r.legs
        /\ q.spent = r.spent /\ q.seen = r.seen /\ q.rotated = TRUE
        BY <1>3, <1>4, <2>2, <2>3 DEF Refresh
  <2>5. /\ UNCHANGED <<cleared, grants, jar, creds, forked, strayed>>
        /\ family' = [family EXCEPT !.current = n, !.previous = family.current, !.recent = TRUE]
        /\ reqs' = [reqs EXCEPT ![h].at = "answer", ![h].next = n, ![h].rotated = TRUE]
        BY <1>1, <1>9, <2>1 DEF RotateFamily
  <2>6. reqs' = [reqs EXCEPT ![h] = q] BY <1>1, <2>2, <2>5 DEF UInv, LegsTypeOK
  <2>7. /\ family' \in [current: 0..MaxRotations, previous: 0..MaxRotations, recent: BOOLEAN, revoked: BOOLEAN]
        /\ family'.current = n /\ family'.previous <= family'.current
    <3>1. PICK o : o = family.current OBVIOUS
    <3>2. o \in 0..MaxRotations /\ o \in Nat /\ o <= n BY <1>6, <2>1, <3>1
    <3>3. family' = [family EXCEPT !.current = n, !.previous = o, !.recent = TRUE] BY <2>5, <3>1
    <3> QED BY <1>6, <2>3, <3>2, <3>3
  <2>8. reqs'[h] = q BY <2>6 DEF UInv, LegsTypeOK
  <2>9. TokenOf(h)' BY <2>4, <2>7, <2>8 DEF TokenOf
  <2>10. q.at # "idle" /\ q.at # "legs" /\ r.token.jti <= q.next BY <1>7, <2>3, <2>4
  <2> QED BY <1>1, <1>2, <1>4, <1>5, <2>3, <2>4, <2>5, <2>6, <2>7, <2>9, <2>10, GoingOn
<1>10. CASE RotateFamily(h) /\ family.current # r.seen
  <2>1. PICK q : q = [r EXCEPT !.at = "lost"] OBVIOUS
  <2>2. /\ q \in Refresh /\ q.at = "lost" /\ q.token = r.token /\ q.todo = {} /\ q.legs = r.legs
        /\ q.spent = r.spent /\ q.seen = r.seen /\ q.rotated = r.rotated
        BY <1>3, <1>4, <2>1 DEF Refresh
  <2>3. reqs' = [reqs EXCEPT ![h] = q] /\ UNCHANGED <<cleared, family, grants, jar, creds, forked, strayed>>
        BY <1>1, <1>10, <2>1 DEF RotateFamily, UInv, LegsTypeOK
  <2>4. reqs'[h] = q BY <2>3 DEF UInv, LegsTypeOK
  <2>5. TokenOf(h)' BY <2>2, <2>4 DEF TokenOf
  <2> QED BY <1>1, <1>2, <1>4, <1>5, <1>6, <2>2, <2>3, <2>5, GoingOn
<1>11. CASE FollowWinner(h) /\ r.token.jti = family.previous /\ family.recent
  <2>1. PICK n : n = family.current OBVIOUS
  <2>2. PICK q : q = [r EXCEPT !.at = "answer", !.next = n] OBVIOUS
  <2>3. /\ q \in Refresh /\ q.at = "answer" /\ q.next = n /\ q.token = r.token /\ q.todo = {} /\ q.legs = r.legs
        /\ q.spent = r.spent /\ q.seen = r.seen /\ q.rotated = r.rotated
        BY <1>3, <1>4, <1>6, <2>1, <2>2 DEF Refresh
  <2>4. /\ UNCHANGED <<cleared, family, grants, jar, creds, forked, strayed>>
        /\ reqs' = [reqs EXCEPT ![h].at = "answer", ![h].next = n]
        BY <1>1, <1>11, <2>1 DEF FollowWinner
  <2>5. reqs' = [reqs EXCEPT ![h] = q] BY <1>1, <2>2, <2>4 DEF UInv, LegsTypeOK
  <2>6. reqs'[h] = q BY <2>5 DEF UInv, LegsTypeOK
  <2>7. TokenOf(h)' BY <2>1, <2>3, <2>4, <2>6 DEF TokenOf
  <2>8. r.token.jti <= q.next BY <1>6, <1>11, <2>1, <2>3
  <2> QED BY <1>1, <1>2, <1>4, <1>5, <1>6, <2>3, <2>4, <2>5, <2>7, <2>8, GoingOn
<1>12. CASE FollowWinner(h) /\ ~(r.token.jti = family.previous /\ family.recent)
  <2>1. Ends(h) /\ UNCHANGED <<cleared, family, grants, jar, creds>> BY <1>1, <1>12 DEF FollowWinner
  <2> QED BY <1>1, <1>2, <2>1, EndsKeeps
<1> QED BY <1>8, <1>9, <1>10, <1>11, <1>12

\* Tokens of one login that are not older than each other are the same.
LEMMA BelowBothWays ==
    ASSUME UInv, jar # NoToken, NEW t \in LegToken, NEW u \in LegToken, CredsOf(t.legs) = creds, CredsOf(u.legs) = creds,
           Below(t, u), Below(u, t)
    PROVE  t = u
<1>1. t.jti = u.jti BY DEF Below, LegToken
<1>2. ASSUME NEW p \in Providers PROVE t.legs[p] = u.legs[p]
  <2>1. (t.legs[p] # NoLeg => t.legs[p] \in Leg /\ t.legs[p].rec \in Interactive)
        /\ (u.legs[p] # NoLeg => u.legs[p] \in Leg /\ u.legs[p].rec \in Interactive)
        BY LegsAreTheirs
  <2>2. creds[p] = (IF t.legs[p] = NoLeg THEN NoRecord ELSE t.legs[p].rec)
        /\ creds[p] = (IF u.legs[p] = NoLeg THEN NoRecord ELSE u.legs[p].rec)
        BY DEF CredsOf
  <2>3. NoRecord \notin Interactive BY UpstreamLegsAssumption DEF Interactive
  <2>4. CASE t.legs[p] = NoLeg BY <2>1, <2>2, <2>3, <2>4
  <2>5. CASE t.legs[p] # NoLeg
    <3>1. u.legs[p] # NoLeg /\ t.legs[p].rec = u.legs[p].rec BY <2>1, <2>2, <2>3, <2>5
    <3>2. t.legs[p].refresh = u.legs[p].refresh BY <2>1, <2>5, <3>1 DEF Below, Leg
    <3> QED BY <2>1, <2>5, <3>1, <3>2 DEF Leg
  <2> QED BY <2>4, <2>5
<1>3. t.legs = u.legs BY <1>2 DEF LegToken, Legs
<1> QED BY <1>1, <1>3 DEF LegToken

\* Nor does a token come between them.
LEMMA BelowOnward ==
    ASSUME UInv, jar # NoToken, NEW t \in LegToken, NEW u \in LegToken, NEW v \in LegToken,
           CredsOf(t.legs) = creds, CredsOf(u.legs) = creds, CredsOf(v.legs) = creds,
           Below(t, u), Below(u, v)
    PROVE  Below(t, v)
<1>1. t.jti <= v.jti BY UpstreamLegsAssumption DEF Below, LegToken
<1>2. ASSUME NEW p \in Providers, t.legs[p] # NoLeg PROVE t.legs[p].refresh <= v.legs[p].refresh
  <2>1. t.legs[p] \in Leg /\ t.legs[p].rec \in Interactive BY <1>2, LegsAreTheirs
  <2>2. NoRecord \notin Interactive BY UpstreamLegsAssumption DEF Interactive
  <2>3. creds[p] # NoRecord BY <1>2, <2>1, <2>2 DEF CredsOf
  <2>4. u.legs[p] # NoLeg /\ v.legs[p] # NoLeg BY <2>3 DEF CredsOf
  <2>5. u.legs[p] \in Leg /\ v.legs[p] \in Leg BY <2>4, LegsAreTheirs
  <2>6. t.legs[p].refresh <= u.legs[p].refresh /\ u.legs[p].refresh <= v.legs[p].refresh BY <1>2, <2>4 DEF Below
  <2> QED BY <2>1, <2>5, <2>6, UpstreamLegsAssumption DEF Leg
<1> QED BY <1>1, <1>2 DEF Below

\* An answer reaches the client: if it is what the client asked with last, it is the
\* next token; else what the client holds is no longer in order.
LEMMA DeliverKeeps ==
    ASSUME UInv, NEW h \in Refreshers, Deliver(h)
    PROVE  UInv'
<1>1. PICK r : r = reqs[h] OBVIOUS
<1>2. r.at = "answer" /\ r.at # "idle" BY <1>1 DEF Deliver
<1>3. /\ r \in Refresh /\ Progress(r) /\ r.token \in LegToken /\ r.spent \subseteq Interactive
      /\ jar # NoToken /\ jar \in LegToken /\ CredsOf(r.token.legs) = creds /\ LegsOf(h) /\ TokenOf(h)
      BY <1>1, <1>2, UnderWay
<1>4. PICK t : t = [jti |-> r.next, legs |-> r.legs] OBVIOUS
<1>5. t \in LegToken /\ t.jti = r.next /\ t.legs = r.legs /\ t # NoToken
      BY <1>3, <1>4, NothingAssumption DEF LegToken, Refresh
<1>6. /\ jar' = t /\ creds' = CredsOf(r.legs) /\ reqs' = [reqs EXCEPT ![h] = Idle]
      /\ forked' = IF jar # r.token THEN Interactive ELSE forked
      /\ strayed' = (strayed \/ jar # r.token) /\ UNCHANGED <<cleared, family, grants>>
      BY <1>1, <1>4 DEF Deliver
<1>7. r.todo = {} /\ r.token.jti <= r.next BY <1>2, <1>3 DEF Progress
<1>8. CredsOf(t.legs) = creds /\ creds' = creds
  <2>1. \A p \in Providers : /\ r.legs[p] # NoLeg <=> r.token.legs[p] # NoLeg
                             /\ r.legs[p] # NoLeg => r.legs[p].rec = r.token.legs[p].rec
        BY <1>3, <1>7 DEF Progress
  <2>2. CredsOf(r.legs) = CredsOf(r.token.legs) BY <2>1 DEF CredsOf
  <2> QED BY <1>3, <1>5, <1>6, <2>2
<1>9. reqs' \in [Refreshers -> Refresh] /\ reqs'[h] = Idle /\ \A k \in Refreshers : k = h \/ reqs'[k] = reqs[k]
      BY <1>6, IdleIs DEF UInv, LegsTypeOK
<1>10. forked' \in SUBSET Interactive /\ strayed' \in BOOLEAN BY <1>6 DEF UInv, LegsTypeOK
<1>11. LegsTypeOK' /\ (family.previous <= family.current)'
       BY <1>5, <1>6, <1>8, <1>9, <1>10 DEF UInv, LegsTypeOK
<1>12. cleared # <<>> BY <1>3 DEF UInv, BeforeLogin
<1>13. BeforeLogin' BY <1>5, <1>6, <1>12 DEF BeforeLogin
<1>14. OverIsIdle' BY <1>9 DEF OverIsIdle, UInv
<1>15. \A k \in Refreshers : reqs'[k].at # "idle" => k # h /\ reqs'[k] = reqs[k] BY <1>9, IdleIs
<1>16. RequestsProgress'
  <2>1. \A k \in Refreshers : reqs'[k].at # "idle" => Progress(reqs'[k]) BY <1>15 DEF UInv, RequestsProgress
  <2> QED BY <2>1 DEF RequestsProgress, Progress
<1>17. LegsAreTheLogins'
  <2>1. creds = CredsOf(Collected(cleared, grants)) BY <1>3 DEF UInv, LegsAreTheLogins
  <2>2. \A k \in Refreshers : reqs'[k].at # "idle" => CredsOf(reqs'[k].token.legs) = creds
        BY <1>15 DEF UInv, LegsAreTheLogins
  <2>3. creds' = CredsOf(Collected(cleared', grants')) BY <1>6, <1>8, <2>1
  <2>4. CredsOf(jar'.legs) = creds' BY <1>5, <1>6, <1>8
  <2>5. \A k \in Refreshers : reqs'[k].at # "idle" => jar' # NoToken /\ CredsOf(reqs'[k].token.legs) = creds'
        BY <1>5, <1>6, <1>8, <2>2
  <2> QED BY <2>3, <2>4, <2>5 DEF LegsAreTheLogins, CredsOf
<1>18. CASE Disordered'
  <2>1. strayed' /\ Interactive \subseteq forked' BY <1>18 DEF Disordered
  <2>2. JarsGrow' BY <1>18 DEF JarsGrow
  <2>3. ASSUME NEW legs \in Legs, NEW S, NEW p \in Providers PROVE Current(legs[p], S)'
    <3>1. legs[p] # NoLeg => legs[p].rec \in forked' BY <2>1, <2>3 DEF Legs, Leg
    <3> QED BY <3>1 DEF Current
  <2>4. AnswersAreCurrent'
    <3>1. ASSUME NEW k \in Refreshers, reqs'[k].at # "idle" PROVE LegsOf(k)' /\ TokenOf(k)'
      <4>1. PICK l : l = reqs'[k].legs OBVIOUS
      <4>2. PICK T : T = OthersSpent(k)' OBVIOUS
      <4>3. l \in Legs BY <1>9, <4>1 DEF Refresh
      <4>4. \A p \in Providers : Current(l[p], T)' BY <2>3, <4>3
      <4>5. LegsOf(k)' BY <4>1, <4>2, <4>4 DEF LegsOf, Current
      <4> QED BY <2>1, <4>5 DEF TokenOf
    <3> QED BY <3>1 DEF AnswersAreCurrent
  <2>5. JarIsCurrent'
    <3>1. PICK T : T = UNION {reqs'[k].spent : k \in Refreshers} OBVIOUS
    <3>2. \A p \in Providers : Current(t.legs[p], T)'
      <4>1. PICK l : l = t.legs OBVIOUS
      <4>2. l \in Legs BY <1>5, <4>1 DEF LegToken
      <4>3. \A p \in Providers : Current(l[p], T)' BY <2>3, <4>2
      <4> QED BY <4>1, <4>3 DEF Current
    <3> QED BY <1>6, <2>1, <3>1, <3>2 DEF JarIsCurrent, Current
  <2> QED BY <1>11, <1>13, <1>14, <1>16, <1>17, <2>2, <2>4, <2>5 DEF UInv
<1>19. CASE ~Disordered'
  <2>1. jar = r.token /\ forked' = forked /\ strayed' = strayed
    <3>1. jar # r.token => strayed' /\ forked' = Interactive BY <1>6
    <3>2. jar = r.token BY <1>19, <3>1 DEF Disordered
    <3>3. strayed \in BOOLEAN BY DEF UInv, LegsTypeOK
    <3> QED BY <1>6, <3>2, <3>3
  <2>2. ~Disordered BY <1>19, <2>1 DEF Disordered
  <2>3. Below(jar, t)
    <3>1. \A p \in Providers : jar.legs[p] # NoLeg => jar.legs[p].refresh <= r.legs[p].refresh
          BY <1>3, <1>7, <2>1 DEF Progress
    <3> QED BY <1>5, <1>7, <2>1, <3>1 DEF Below
  <2>4. CredsOf(jar.legs) = creds BY <1>3, <2>1
  <2>5. ASSUME NEW k \in Refreshers, reqs'[k].at # "idle"
        PROVE  reqs[k].token \in LegToken /\ Below(reqs[k].token, jar) /\ CredsOf(reqs[k].token.legs) = creds
    <3>1. reqs[k].at # "idle" BY <1>15, <2>5
    <3> QED BY <2>2, <3>1, UnderWay DEF UInv, JarsGrow
  <2>6. JarsGrow'
    <3>1. ASSUME NEW k \in Refreshers, reqs'[k].at # "idle" PROVE Below(reqs[k].token, t)
          BY <1>3, <1>5, <1>8, <2>3, <2>4, <2>5, <3>1, BelowOnward
    <3>2. \A k \in Refreshers : reqs'[k].at # "idle" => Below(reqs'[k].token, jar') BY <1>6, <1>15, <3>1
    <3> QED BY <3>2 DEF JarsGrow, Below
  <2>7. ASSUME NEW k \in Refreshers, reqs'[k].at # "idle", reqs[k].token = t
        PROVE  t = jar /\ r.spent = {} /\ ~r.rotated
    <3>1. t = jar BY <1>3, <1>5, <1>8, <2>3, <2>4, <2>5, <2>7, BelowBothWays
    <3>2. r.token.jti = r.next /\ r.token.legs = r.legs BY <1>5, <2>1, <3>1
    <3>3. r.token.jti \in Nat /\ \A p \in Providers : r.legs[p] # NoLeg => r.legs[p].refresh \in Nat
          BY <1>3 DEF LegToken, Legs, Leg, Refresh
    <3>4. ~r.rotated BY <1>3, <3>2, <3>3 DEF Progress
    <3>5. r.spent = {}
      <4> SUFFICES ASSUME NEW x \in r.spent PROVE FALSE OBVIOUS
      <4>1. PICK p \in Providers : r.token.legs[p] # NoLeg /\ r.token.legs[p].refresh < r.legs[p].refresh
            BY <1>3 DEF Progress
      <4> QED BY <3>2, <3>3, <4>1
    <3> QED BY <3>1, <3>4, <3>5
  <2>8. AnswersAreCurrent'
    <3>1. ASSUME NEW k \in Refreshers, reqs'[k].at # "idle" PROVE LegsOf(k)' /\ TokenOf(k)'
      <4>1. reqs'[k] = reqs[k] /\ k # h /\ reqs[k].at # "idle" BY <1>15, <3>1
      <4>2. LegsOf(k) /\ TokenOf(k) BY <4>1 DEF UInv, AnswersAreCurrent
      <4>3. CASE reqs[k].token # t
        <5>1. reqs'[k].token # jar' BY <1>6, <4>1, <4>3
        <5> QED BY <5>1 DEF LegsOf, TokenOf
      <4>4. CASE reqs[k].token = t
        <5>1. t = jar /\ r.spent = {} /\ ~r.rotated BY <2>7, <3>1, <4>4
        <5>2. PICK T : T = OthersSpent(k) OBVIOUS
        <5>3. OthersSpent(k)' = T
          <6>1. \A x : x \in UNION {reqs'[l].spent : l \in Refreshers \ {k}}
                       <=> x \in UNION {reqs[l].spent : l \in Refreshers \ {k}}
                BY <1>1, <1>9, <5>1, IdleIs
          <6> QED BY <5>2, <6>1 DEF OthersSpent
        <5>4. OtherRotated(k)' <=> OtherRotated(k) BY <1>1, <1>9, <5>1, IdleIs DEF OtherRotated
        <5>5. LegsOf(k)' BY <1>6, <2>1, <4>1, <4>2, <5>1, <5>2, <5>3 DEF LegsOf, Current
        <5>6. TokenOf(k)' BY <1>6, <2>1, <4>1, <4>2, <5>1, <5>4 DEF TokenOf
        <5> QED BY <5>5, <5>6
      <4> QED BY <4>3, <4>4
    <3> QED BY <3>1 DEF AnswersAreCurrent
  <2>9. JarIsCurrent'
    <3>1. PICK T : T = OthersSpent(h) OBVIOUS
    <3>2. UNION {reqs'[k].spent : k \in Refreshers} = T
      <4>1. \A x : x \in UNION {reqs'[k].spent : k \in Refreshers} <=> x \in UNION {reqs[l].spent : l \in Refreshers \ {h}}
            BY <1>9, IdleIs
      <4> QED BY <3>1, <4>1 DEF OthersSpent
    <3>3. \A p \in Providers : Current(r.legs[p], T) BY <1>1, <1>3, <1>7, <2>1, <3>1 DEF LegsOf
    <3>4. \A p \in Providers : Current(t.legs[p], T)' BY <1>5, <1>6, <2>1, <3>3 DEF Current
    <3>5. ASSUME ~strayed', \A k \in Refreshers : ~reqs'[k].rotated PROVE t.jti = family'.current
      <4>1. ~strayed /\ ~OtherRotated(h) BY <1>9, <2>1, <3>5 DEF OtherRotated
      <4> QED BY <1>1, <1>2, <1>3, <1>5, <1>6, <2>1, <4>1 DEF TokenOf
    <3> QED BY <1>6, <3>2, <3>4, <3>5 DEF JarIsCurrent, Current
  <2> QED BY <1>11, <1>13, <1>14, <1>16, <1>17, <2>6, <2>8, <2>9 DEF UInv
<1> QED BY <1>18, <1>19

\* A login is completed: the session's first token has its legs.
LEMMA SignInKeeps ==
    ASSUME UInv, NEW door \in Doors, SignIn(door)
    PROVE  UInv'
<1>1. cleared = <<>> /\ cleared' = door /\ UNCHANGED <<family, reqs, forked, strayed>> BY DEF SignIn
<1>2. PICK issued \in [Interactive -> {0, 1}] :
          /\ grants' = issued /\ jar' = [jti |-> 0, legs |-> Collected(door, issued)]
          /\ creds' = CredsOf(Collected(door, issued))
      BY DEF SignIn
<1>3. issued \in [Interactive -> 0..MaxSpent]
  <2>1. {0, 1} \subseteq 0..MaxSpent BY UpstreamLegsAssumption
  <2> QED BY <2>1
<1>4. PICK L : L = Collected(door, issued) OBVIOUS
<1>5. /\ L \in Legs /\ \A p \in Providers : L[p] # NoLeg => L[p].refresh = issued[L[p].rec]
      /\ CredsOf(L) = [p \in Providers |-> RecordFor(door, p)]
      /\ \A p \in Providers : RecordFor(door, p) # NoRecord => RecordFor(door, p) \in Interactive
      BY <1>3, <1>4, CollectedIs
<1>6. jar' \in LegToken /\ jar'.jti = 0 /\ jar'.legs = L
      BY <1>2, <1>4, <1>5, UpstreamLegsAssumption DEF LegToken
<1>7. jar' # NoToken /\ door # <<>> BY <1>6, NothingAssumption, UpstreamLegsAssumption
<1>8. CredsOf(L) \in [Providers -> Interactive \cup {NoRecord}] BY <1>5
<1>9. LegsTypeOK' BY <1>1, <1>2, <1>3, <1>4, <1>6, <1>8 DEF UInv, LegsTypeOK
<1>10. family.current = 0 /\ \A h \in Refreshers : reqs[h] = Idle /\ reqs[h].at = "idle"
       BY <1>1, IdleIs DEF UInv, BeforeLogin
<1>11. BeforeLogin' BY <1>1, <1>7 DEF BeforeLogin
<1>12. OverIsIdle' BY <1>1, <1>10 DEF OverIsIdle
<1>13. \A h \in Refreshers : reqs'[h].at = "idle" BY <1>1, <1>10
<1>14. RequestsProgress' /\ JarsGrow' /\ AnswersAreCurrent'
       BY <1>13 DEF RequestsProgress, JarsGrow, AnswersAreCurrent
<1>15. LegsAreTheLogins'
  <2>1. creds' = CredsOf(Collected(cleared', grants')) BY <1>1, <1>2
  <2>2. CredsOf(jar'.legs) = creds' BY <1>2, <1>4, <1>6
  <2> QED BY <1>13, <2>1, <2>2 DEF LegsAreTheLogins, CredsOf
<1>16. JarIsCurrent'
  <2>1. \A p \in Providers : L[p] # NoLeg => L[p].refresh = grants'[L[p].rec] BY <1>2, <1>5
  <2> QED BY <1>1, <1>6, <1>10, <2>1 DEF JarIsCurrent, Current
<1> QED BY <1>1, <1>9, <1>11, <1>12, <1>14, <1>15, <1>16 DEF UInv

\* The process restarts: what was spent and rotated is left behind.
LEMMA RestartKeeps ==
    ASSUME UInv, Restart
    PROVE  UInv'
<1>1. PICK none : none = [h \in Refreshers |-> Idle] OBVIOUS
<1>2. /\ reqs' = none /\ UNCHANGED <<cleared, family, grants, jar, creds>>
      /\ forked' = forked \cup UNION {reqs[h].spent : h \in Refreshers}
      /\ strayed' = (strayed \/ \E h \in Refreshers : reqs[h].rotated)
      BY <1>1 DEF Restart
<1>3. \A h \in Refreshers : reqs'[h] = Idle /\ reqs'[h].at = "idle" BY <1>1, <1>2, IdleIs
<1>4. \A h \in Refreshers : reqs[h].spent \subseteq Interactive
  <2>1. \A h \in Refreshers : reqs[h].at = "idle" => reqs[h].spent = {} BY IdleIs DEF UInv, OverIsIdle
  <2> QED BY <2>1, UnderWay
<1>5. forked' \in SUBSET Interactive /\ strayed' \in BOOLEAN BY <1>2, <1>4 DEF UInv, LegsTypeOK
<1>6. LegsTypeOK' BY <1>1, <1>2, <1>5, IdleIs DEF UInv, LegsTypeOK
<1>7. BeforeLogin' /\ OverIsIdle' BY <1>2, <1>3 DEF UInv, BeforeLogin, OverIsIdle
<1>8. RequestsProgress' /\ JarsGrow' /\ AnswersAreCurrent'
      BY <1>3 DEF RequestsProgress, JarsGrow, AnswersAreCurrent
<1>9. LegsAreTheLogins'
  <2>1. jar # NoToken => creds = CredsOf(Collected(cleared, grants)) /\ CredsOf(jar.legs) = creds
        BY DEF UInv, LegsAreTheLogins
  <2>2. jar' # NoToken => creds' = CredsOf(Collected(cleared', grants')) /\ CredsOf(jar'.legs) = creds'
        BY <1>2, <2>1
  <2> QED BY <1>3, <2>2 DEF LegsAreTheLogins, CredsOf
<1>10. JarIsCurrent'
  <2> SUFFICES ASSUME jar # NoToken PROVE JarIsCurrent' BY <1>2 DEF JarIsCurrent
  <2>1. \A p \in Providers : Current(jar.legs[p], UNION {reqs[k].spent : k \in Refreshers})
        BY DEF UInv, JarIsCurrent
  <2>2. PICK T : T = UNION {reqs'[k].spent : k \in Refreshers} OBVIOUS
  <2>3. \A p \in Providers : Current(jar.legs[p], T)' BY <1>2, <2>1 DEF Current
  <2>4. ~strayed' => jar'.jti = family'.current
    <3>1. ~strayed' => ~strayed /\ \A h \in Refreshers : ~reqs[h].rotated BY <1>2
    <3> QED BY <1>2, <3>1 DEF UInv, JarIsCurrent
  <2> QED BY <1>2, <2>2, <2>3, <2>4 DEF JarIsCurrent, Current
<1> QED BY <1>2, <1>6, <1>7, <1>8, <1>9, <1>10 DEF UInv

\* The grace window closes.
LEMMA GraceKeeps ==
    ASSUME UInv, GraceEnds
    PROVE  UInv'
<1>1. family' = [family EXCEPT !.recent = FALSE] /\ UNCHANGED <<cleared, grants, jar, creds, reqs, forked, strayed>>
      BY DEF GraceEnds
<1>2. /\ family' \in [current: 0..MaxRotations, previous: 0..MaxRotations, recent: BOOLEAN, revoked: BOOLEAN]
      /\ family'.current = family.current /\ family'.previous = family.previous
      BY <1>1 DEF UInv, LegsTypeOK
<1>3. LegsTypeOK' /\ (family.previous <= family.current)' BY <1>1, <1>2 DEF UInv, LegsTypeOK
<1>4. BeforeLogin' /\ OverIsIdle' BY <1>1, <1>2 DEF UInv, BeforeLogin, OverIsIdle
<1>5. RequestsProgress' BY <1>1 DEF UInv, RequestsProgress, Progress
<1>6. LegsAreTheLogins'
  <2>1. creds' = CredsOf(Collected(cleared', grants')) <=> creds = CredsOf(Collected(cleared, grants)) BY <1>1
  <2>2. CredsOf(jar'.legs) = creds' <=> CredsOf(jar.legs) = creds BY <1>1
  <2>3. \A h \in Refreshers : CredsOf(reqs'[h].token.legs) = creds' <=> CredsOf(reqs[h].token.legs) = creds BY <1>1
  <2>4. jar' # NoToken => creds' = CredsOf(Collected(cleared', grants')) /\ CredsOf(jar'.legs) = creds'
        BY <1>1, <2>1, <2>2 DEF UInv, LegsAreTheLogins
  <2>5. \A h \in Refreshers : reqs'[h].at # "idle" => jar' # NoToken /\ CredsOf(reqs'[h].token.legs) = creds'
        BY <1>1, <2>3 DEF UInv, LegsAreTheLogins
  <2> QED BY <2>4, <2>5 DEF LegsAreTheLogins, CredsOf
<1>7. JarsGrow' BY <1>1 DEF UInv, JarsGrow, Disordered, Below
<1>8. AnswersAreCurrent'
      BY <1>1, <1>2 DEF UInv, AnswersAreCurrent, LegsOf, TokenOf, Current, OthersSpent, OtherRotated
<1>9. JarIsCurrent' BY <1>1, <1>2 DEF UInv, JarIsCurrent, Current
<1> QED BY <1>3, <1>4, <1>5, <1>6, <1>7, <1>8, <1>9 DEF UInv

\* A session begins with nothing.
LEMMA NothingYet ==
    ASSUME LegsInit
    PROVE  UInv
<1>1. LegsTypeOK
  <2>1. reqs \in [Refreshers -> Refresh] BY IdleIs DEF LegsInit
  <2>2. 0 \in 0..MaxRotations /\ 0 \in 0..MaxSpent BY UpstreamLegsAssumption
  <2>3. /\ family \in [current: 0..MaxRotations, previous: 0..MaxRotations, recent: BOOLEAN, revoked: BOOLEAN]
        /\ grants \in [Interactive -> 0..MaxSpent]
        BY <2>2 DEF LegsInit
  <2> QED BY <2>1, <2>3 DEF LegsInit, LegsTypeOK
<1>2. \A h \in Refreshers : reqs[h] = Idle /\ reqs[h].at = "idle" BY IdleIs DEF LegsInit
<1>3. BeforeLogin /\ OverIsIdle /\ LegsAreTheLogins /\ JarIsCurrent
      BY <1>2 DEF LegsInit, BeforeLogin, OverIsIdle, LegsAreTheLogins, JarIsCurrent
<1>4. RequestsProgress /\ JarsGrow /\ AnswersAreCurrent BY <1>2 DEF RequestsProgress, JarsGrow, AnswersAreCurrent
<1> QED BY <1>1, <1>3, <1>4 DEF LegsInit, UInv

\* Nothing happens to the session.
LEMMA NothingKeeps ==
    ASSUME UInv, UNCHANGED legsVars
    PROVE  UInv'
<1>1. UNCHANGED <<cleared, family, grants, jar, creds, reqs, forked, strayed>> BY DEF legsVars
<1>2. LegsTypeOK' /\ (family.previous <= family.current)' /\ BeforeLogin' /\ OverIsIdle'
      BY <1>1 DEF UInv, LegsTypeOK, BeforeLogin, OverIsIdle
<1>3. RequestsProgress' BY <1>1 DEF UInv, RequestsProgress, Progress
<1>4. LegsAreTheLogins' BY <1>1 DEF UInv, LegsAreTheLogins, CredsOf, Collected
<1>5. JarsGrow' /\ AnswersAreCurrent' /\ JarIsCurrent'
      BY <1>1 DEF UInv, JarsGrow, Disordered, Below, AnswersAreCurrent, JarIsCurrent, LegsOf, TokenOf, Current,
                  OthersSpent, OtherRotated
<1> QED BY <1>2, <1>3, <1>4, <1>5 DEF UInv

\* Every step keeps the invariant.
LEMMA StepKeeps ==
    ASSUME UInv, [LegsNext]_legsVars
    PROVE  UInv'
<1>1. CASE \E door \in Doors : SignIn(door) BY <1>1, SignInKeeps
<1>2. ASSUME NEW h \in Refreshers, Ask(h) \/ Mint(h) \/ RotateFamily(h) \/ FollowWinner(h) \/ Deliver(h) PROVE UInv'
      BY <1>2, AskKeeps, RotationKeeps, DeliverKeeps
<1>3. ASSUME NEW h \in Refreshers, Lose(h) PROVE UInv'
  <2>1. reqs[h].at # "idle" BY <1>3 DEF Lose
  <2> QED BY <1>3, <2>1, EndsKeeps DEF Lose
<1>4. ASSUME NEW h \in Refreshers, NEW p \in Providers, RideOn(h, p) \/ Renew(h, p) \/ Exchange(h, p) PROVE UInv'
      BY <1>4, LegKeeps
<1>5. ASSUME NEW h \in Refreshers, NEW p \in Providers, Refuse(h, p) PROVE UInv'
  <2>1. reqs[h].at # "idle" BY <1>5 DEF Refuse
  <2> QED BY <1>5, <2>1, EndsKeeps DEF Refuse
<1>6. ASSUME NEW h \in Refreshers, NEW p \in Providers, ExchangeLost(h, p) PROVE UInv'
      BY <1>6, ExchangeLostKeeps
<1>7. CASE GraceEnds \/ Restart BY <1>7, GraceKeeps, RestartKeeps
<1>8. CASE UNCHANGED legsVars BY <1>8, NothingKeeps
<1> QED BY <1>1, <1>2, <1>3, <1>4, <1>5, <1>6, <1>7, <1>8 DEF LegsNext

-----------------------------------------------------------------------------
(* What goes upstream                                                      *)

\* A session's credentials are of records of their providers.
LEMMA CredsAreTheirs ==
    ASSUME UInv, NEW p \in Providers, creds[p] # NoRecord
    PROVE  creds[p] \in Interactive /\ Provider[creds[p]] = p
<1>1. jar # NoToken BY DEF UInv, BeforeLogin
<1>2. cleared \in Doors \cup {<<>>} /\ grants \in [Interactive -> 0..MaxSpent] BY DEF UInv, LegsTypeOK
<1>3. creds = [o \in Providers |-> RecordFor(cleared, o)] BY <1>1, <1>2, CollectedIs DEF UInv, LegsAreTheLogins
<1> QED BY <1>2, <1>3, CollectedIs

\* What a service may be resolved to: a service that acts as nobody gets nothing.
ActsAsNobody(svc) == svc.type = "api" /\ svc.actsAs # NoRecord /\ Kind[svc.actsAs] = "open"
Due(svc, gate, cred) ==
    /\ ActsAsNobody(svc) => cred = Nothing
    /\ \/ cred \in {Nothing, Verbatim, Session, Refused} \/ cred = Key(Wanted(svc, gate))
       \/ /\ cred.what = "credential" /\ Wanted(svc, gate) \in Interactive
          /\ Provider[cred.rec] = Provider[Wanted(svc, gate)]

\* A credential of the provider of the record a service wants is due to it.
LEMMA CredentialIsDue ==
    ASSUME UInv, NEW svc \in Services, NEW gate \in Gates, Wanted(svc, gate) \in Interactive, ~ActsAsNobody(svc)
    PROVE  Due(svc, gate, Credential(Provider[Wanted(svc, gate)]))
<1>1. PICK p : p = Provider[Wanted(svc, gate)] OBVIOUS
<1>2. p \in Providers BY <1>1, UpstreamLegsAssumption
<1>3. CASE creds[p] = NoRecord BY <1>1, <1>3 DEF Credential, Due
<1>4. CASE creds[p] # NoRecord
  <2>1. Credential(p).what = "credential" /\ Provider[Credential(p).rec] = p
        BY <1>2, <1>4, CredsAreTheirs DEF Credential
  <2> QED BY <1>1, <2>1 DEF Due
<1> QED BY <1>3, <1>4

\* A service is resolved to what is due to it.
LEMMA ResolvedIsDue ==
    ASSUME UInv, NEW svc \in Services, NEW gate \in Gates, NEW claims \in BOOLEAN, NEW shown \in Shown
    PROVE  Due(svc, gate, resolveOutboundCred(svc, gate, claims, shown))
<1>1. /\ svc.type \in {"api", "mcp"} /\ svc.actsAs \in Records \cup {NoRecord}
      /\ svc.type = "mcp" => svc.own \in Interactive
      /\ NoRecord \notin Records
      BY UpstreamLegsAssumption
<1>2. CASE svc.type = "mcp"
  <2>1. resolveOutboundCred(svc, gate, claims, shown) = ServerDecides(svc, gate, claims)
        BY <1>2 DEF resolveOutboundCred
  <2>2. Wanted(svc, gate) = svc.own /\ ~ActsAsNobody(svc) BY <1>2 DEF Wanted, ActsAsNobody
  <2>3. ServerDecides(svc, gate, claims) \in {Credential(Provider[svc.own]), Verbatim, Nothing}
        BY DEF ServerDecides
  <2> QED BY <1>1, <1>2, <2>1, <2>2, <2>3, CredentialIsDue DEF Due
<1>3. CASE svc.type # "mcp" /\ svc.actsAs # NoRecord
  <2>1. PICK r : r = svc.actsAs OBVIOUS
  <2>2. resolveOutboundCred(svc, gate, claims, shown) = ActsAs(r, claims, shown)
        BY <1>3, <2>1 DEF resolveOutboundCred
  <2>3. Wanted(svc, gate) = r BY <1>3, <2>1 DEF Wanted
  <2>4. r \in Records /\ Kind[r] \in {"oidc", "mcp", "ssh", "key", "open"}
        BY <1>1, <1>3, <2>1, UpstreamLegsAssumption
  <2>5. r \in Interactive <=> Kind[r] \in {"oidc", "mcp"} BY <2>4 DEF Interactive
  <2>6. CASE Kind[r] = "open"
    <3>1. ActsAs(r, claims, shown) = Nothing BY <2>5, <2>6 DEF ActsAs
    <3> QED BY <2>2, <3>1 DEF Due
  <2>7. CASE Kind[r] = "key"
    <3>1. ActsAs(r, claims, shown) = Key(r) BY <2>5, <2>7 DEF ActsAs
    <3> QED BY <2>1, <2>2, <2>3, <2>7, <3>1 DEF Due, ActsAsNobody
  <2>8. CASE Kind[r] = "ssh"
    <3>1. ActsAs(r, claims, shown) \in {Session, Refused} BY <2>5, <2>8 DEF ActsAs
    <3> QED BY <2>1, <2>2, <2>8, <3>1 DEF Due, ActsAsNobody
  <2>9. CASE r \in Interactive
    <3>1. ActsAs(r, claims, shown) \in {Credential(Provider[r]), Refused} BY <2>5, <2>9 DEF ActsAs
    <3>2. ~ActsAsNobody(svc) BY <2>1, <2>5, <2>9 DEF ActsAsNobody
    <3> QED BY <2>2, <2>3, <2>9, <3>1, <3>2, CredentialIsDue DEF Due
  <2> QED BY <2>4, <2>5, <2>6, <2>7, <2>8, <2>9
<1>4. CASE svc.type # "mcp" /\ svc.actsAs = NoRecord
  <2>1. resolveOutboundCred(svc, gate, claims, shown) = OwnCredential(gate, claims)
        BY <1>4 DEF resolveOutboundCred
  <2>2. Wanted(svc, gate) = gate /\ ~ActsAsNobody(svc) BY <1>4 DEF Wanted, ActsAsNobody
  <2>3. gate \in Interactive => gate \in Records /\ Kind[gate] \in {"oidc", "mcp"} BY DEF Interactive
  <2>4. OwnCredential(gate, claims) \in {Verbatim, Key(gate), Nothing, Session}
        \/ (gate \in Interactive /\ OwnCredential(gate, claims) = Credential(Provider[gate]))
        BY <2>3 DEF OwnCredential
  <2> QED BY <2>1, <2>2, <2>4, CredentialIsDue DEF Due
<1> QED BY <1>1, <1>2, <1>3, <1>4

\* What goes out for a call, given that what the service is resolved to is due to it.
GoesHome(svc, gate, cred) ==
    /\ cred.what = "session" => svc.local
    /\ cred.what = "credential" =>
           Wanted(svc, gate) \in Interactive /\ Provider[cred.rec] = Provider[Wanted(svc, gate)]
    /\ cred.what = "key" /\ cred.rec # NoRecord => cred.rec = Wanted(svc, gate)
    /\ ActsAsNobody(svc) => cred.what \in {"none", "session"}

\* What is due to a service goes to it unchanged, but for a session's token that is
\* not for it and a caller's own header.
LEMMA DueGoesHome ==
    ASSUME UInv, NEW svc \in Services, NEW gate \in Gates, NEW shown \in Shown
    PROVE  GoesHome(svc, gate, Proxied(svc, gate, shown)) /\ GoesHome(svc, gate, ToolToken(svc, gate, shown))
<1>1. svc.local \in BOOLEAN BY UpstreamLegsAssumption
<1>2. ASSUME NEW cred, Due(svc, gate, cred), cred # Session \/ svc.local, cred # Verbatim
      PROVE  GoesHome(svc, gate, cred)
      BY <1>2 DEF Due, GoesHome, Nothing, Verbatim, Session, Refused, Key
<1>3. GoesHome(svc, gate, Nothing) /\ (svc.local => GoesHome(svc, gate, Session))
      BY DEF GoesHome, Nothing, Session
<1>4. ASSUME ~ActsAsNobody(svc) PROVE GoesHome(svc, gate, Forwarded(svc, shown)) /\ GoesHome(svc, gate, Refused)
  <2>1. GoesHome(svc, gate, Refused) BY <1>4 DEF GoesHome, Refused
  <2>2. CASE shown = "session" BY <1>1, <1>3, <2>1, <2>2 DEF Forwarded
  <2>3. CASE shown = "none" BY <1>3, <2>1, <2>3 DEF Forwarded
  <2>4. CASE shown = "bearer" \/ shown = "key"
    <3>1. Forwarded(svc, shown) = [what |-> shown, rec |-> NoRecord] BY <2>4 DEF Forwarded
    <3>2. GoesHome(svc, gate, [what |-> shown, rec |-> NoRecord]) BY <1>4, <2>4 DEF GoesHome
    <3> QED BY <2>1, <3>1, <3>2
  <2> QED BY <2>2, <2>3, <2>4 DEF Shown
<1>5. GoesHome(svc, gate, Proxied(svc, gate, shown))
  <2>1. PICK cred : cred = IF ProxyRefuses(svc, gate, shown) THEN Refused
                           ELSE resolveOutboundCred(svc, gate, ProxyClaims(svc, gate, shown), shown)
        OBVIOUS
  <2>2. Due(svc, gate, cred)
    <3>1. ProxyClaims(svc, gate, shown) \in BOOLEAN BY DEF ProxyClaims, Claims, Open
    <3>2. Due(svc, gate, resolveOutboundCred(svc, gate, ProxyClaims(svc, gate, shown), shown))
          BY <3>1, ResolvedIsDue
    <3>3. ProxyRefuses(svc, gate, shown) => svc.type = "mcp" BY DEF ProxyRefuses
    <3> QED BY <2>1, <3>2, <3>3 DEF Due, ActsAsNobody
  <2>3. Proxied(svc, gate, shown) =
          CASE cred # Refused /\ svc.local /\ shown = "session" -> Session
            [] cred = Session /\ ~svc.local -> Nothing
            [] cred = Verbatim /\ ~(svc.local /\ shown = "session") -> Forwarded(svc, shown)
            [] OTHER -> cred
        BY <2>1 DEF Proxied
  <2>4. Verbatim # Nothing /\ Session # Nothing /\ Refused # Nothing /\ Verbatim # Session /\ Verbatim # Refused
        BY DEF Verbatim, Nothing, Session, Refused
  <2>5. CASE cred # Refused /\ svc.local /\ shown = "session" BY <1>3, <2>3, <2>4, <2>5
  <2>6. CASE cred = Session /\ ~svc.local BY <1>3, <2>3, <2>4, <2>6
  <2>7. CASE cred = Verbatim /\ ~(svc.local /\ shown = "session")
        BY <1>4, <2>2, <2>3, <2>4, <2>7 DEF Due
  <2>8. CASE /\ ~(cred # Refused /\ svc.local /\ shown = "session") /\ ~(cred = Session /\ ~svc.local)
             /\ ~(cred = Verbatim /\ ~(svc.local /\ shown = "session"))
    <3>1. Proxied(svc, gate, shown) = cred BY <2>3, <2>8
    <3>2. (cred # Session \/ svc.local) /\ cred # Verbatim BY <1>1, <2>4, <2>8
    <3> QED BY <1>2, <2>2, <3>1, <3>2
  <2> QED BY <2>5, <2>6, <2>7, <2>8
<1>6. GoesHome(svc, gate, ToolToken(svc, gate, shown))
  <2>1. PICK cred : cred = resolveOutboundCred(svc, gate, Claims(gate, shown), shown) OBVIOUS
  <2>2. Due(svc, gate, cred)
    <3>1. Claims(gate, shown) \in BOOLEAN BY DEF Claims
    <3> QED BY <2>1, <3>1, ResolvedIsDue
  <2>3. ToolToken(svc, gate, shown) =
          CASE cred = Session -> Nothing
            [] cred = Verbatim -> IF shown = "session" THEN Nothing ELSE Forwarded(svc, shown)
            [] OTHER -> cred
        BY <2>1 DEF ToolToken
  <2>4. Verbatim # Nothing /\ Verbatim # Session BY DEF Verbatim, Nothing, Session
  <2>5. CASE cred = Session BY <1>3, <2>3, <2>4, <2>5
  <2>6. CASE cred = Verbatim
    <3>1. ToolToken(svc, gate, shown) \in {Nothing, Forwarded(svc, shown)} BY <2>3, <2>4, <2>6
    <3>2. ~ActsAsNobody(svc) BY <2>2, <2>4, <2>6 DEF Due
    <3> QED BY <1>3, <1>4, <3>1, <3>2
  <2>7. CASE cred # Session /\ cred # Verbatim
    <3>1. ToolToken(svc, gate, shown) = cred BY <2>3, <2>7
    <3> QED BY <1>2, <2>2, <2>7, <3>1
  <2> QED BY <2>5, <2>6, <2>7
<1> QED BY <1>5, <1>6

\* The invariant says that the legs serve the session.
LEMMA InvariantServes ==
    ASSUME UInv
    PROVE  LegsServeTheSession
<1>1. LegsAreCurrent
  <2>1. ASSUME NEW x, NEW h \in Refreshers, x \in reqs[h].spent PROVE h \in Running
    <3>1. reqs[h] # Idle BY <2>1, IdleIs
    <3> QED BY <3>1 DEF UInv, OverIsIdle, Running
  <2>2. UNION {reqs[h].spent : h \in Refreshers} \subseteq UNION {reqs[h].spent : h \in Running} BY <2>1
  <2>3. jar # NoToken => \A p \in Providers : Current(jar.legs[p], UNION {reqs[h].spent : h \in Refreshers})
        BY DEF UInv, JarIsCurrent
  <2>4. PICK T : T = UNION {reqs[h].spent : h \in Refreshers} OBVIOUS
  <2>5. PICK R : R = UNION {reqs[h].spent : h \in Running} OBVIOUS
  <2>6. jar # NoToken => \A p \in Providers : Current(jar.legs[p], T) BY <2>3, <2>4
  <2>7. jar # NoToken => \A p \in Providers : Current(jar.legs[p], R)
        BY <2>2, <2>4, <2>5, <2>6 DEF Current
  <2> QED BY <2>5, <2>7 DEF LegsAreCurrent, Current
<1>2. TokenIsCurrent BY DEF UInv, JarIsCurrent, TokenIsCurrent
<1>3. LegsStay BY DEF UInv, LegsAreTheLogins, LegsStay
<1>4. CredentialsGoHome
  <2>1. \A svc \in Services, gate \in Gates, shown \in Shown :
          GoesHome(svc, gate, Proxied(svc, gate, shown)) /\ GoesHome(svc, gate, ToolToken(svc, gate, shown))
        BY DueGoesHome
  <2> QED BY <2>1 DEF CredentialsGoHome, GoesHome, ActsAsNobody
<1> QED BY <1>1, <1>2, <1>3, <1>4 DEF UInv, LegsServeTheSession

\* A session's credentials serve it: whatever order its refreshes come in, and
\* whichever answers are lost, what the client holds is what its providers and its
\* family take, unless an answer that had the next was lost or came late; no
\* refresh drops or trades a leg; and what goes out for a call is for whom it is
\* meant (upstreamRefreshLeg, mintForLegs, resolveOutboundCred, serviceDoProxy).
THEOREM TheLegsServe == LegsSpec => []LegsServeTheSession
<1>1. LegsInit => UInv BY NothingYet
<1>2. UInv /\ [LegsNext]_legsVars => UInv' BY StepKeeps
<1>3. UInv => LegsServeTheSession BY InvariantServes
<1> QED BY <1>1, <1>2, <1>3, PTL DEF LegsSpec

=============================================================================
