---------------------------- MODULE LoginFlow_proofs ----------------------------
(***************************************************************************)
(* Proofs about LoginFlow: what a token says was proved by the person it   *)
(* names, a login stays with its browser and leads to one session, and     *)
(* guesses are bounded, whatever the number of logins, requests, records   *)
(* and people, and whichever requests overlap.                             *)
(***************************************************************************)
EXTENDS LoginFlow, FiniteSetTheorems, SequenceTheorems, WellFoundedInduction, TLAPS

\* Somebody proved a record; in a certain login.
Proves(ps, rec, who) == \E p \in ps : p.rec = rec /\ p.who = who
ProvesIn(ps, l, rec, who) == \E p \in ps : p.login = l /\ p.rec = rec /\ p.who = who

\* A login that goes on has a gate, which is asked for first if at all, and
\* an MCP client's is bound to the browser of its consent page.
LoginOK(p) ==
    /\ p.kind \in {"none", "over"} => ~p.live
    /\ p.kind \notin {"none", "over"} => p.gate \in Records /\ p.primary \in Records
    /\ p.kind = "mcp" => p.bound \subseteq p.home
    /\ p.at >= 1
    /\ \A i \in 2..Len(p.legs) : p.legs[i] # p.gate

\* The gate's leg of a login was proved by the one it names.
LegsOK(p, l, ps) ==
    \A i \in DOMAIN p.done : p.done[i].rec = p.gate =>
        /\ Proves(ps, p.gate, p.done[i].who)
        /\ ~p.done[i].reused => ProvesIn(ps, l, p.gate, p.done[i].who)

\* A request at work on a login p; the passphrase form, which clears the leg it
\* finds, will not find the gate of another kind.
HandlerOK(hd, p) ==
    /\ hd.pc = "idle" => hd.login = NoLogin
    /\ hd.pc # "idle" => hd.login \in Logins /\ p.kind \notin {"none", "over"}
    /\ hd.pc \in {"exchange", "verify"} => hd.rec \in Records /\ hd.home
    /\ hd.pc = "verify" /\ hd.rec = "ssh" =>
         p.gate = "ssh" \/ \A i \in p.at..Len(p.legs) : p.legs[i] # p.gate

\* A token minted in a login with this gate.
TokenOK(t, gate, ps) ==
    /\ t.from = gate
    /\ Proves(ps, t.from, t.who)
    /\ t.fresh => ProvesIn(ps, t.login, t.from, t.who)

\* What a login has, wherever its requests are: the parts TokensAreProved and
\* ConsentStaysInItsBrowser rest on.
SInv ==
    /\ TypeOK
    /\ \A l \in Logins : LoginOK(logins[l]) /\ LegsOK(logins[l], l, proofs)
    /\ \A h \in Handlers : HandlerOK(handlers[h], logins[handlers[h].login])
    /\ \A t \in tokens \cup parcels :
         logins[t.login].kind # "none" /\ TokenOK(t, logins[t.login].gate, proofs)
    /\ \A p \in proofs : p.home

\* A login has led to a session, or is about to.
Ended(l) == logins[l].sessions = 1 \/ \E t \in parcels : t.login = l

\* While no two requests advance a login at once, the one that does has the
\* current leg, and a login that is at its end has no leg left and is not
\* started again.
Alone(l) ==
    /\ \A h, k \in Handlers : handlers[h].login = l /\ handlers[k].login = l => h = k
    /\ \A h \in Handlers : handlers[h].login = l =>
         /\ handlers[h].pc \in {"exchange", "verify"} => handlers[h].rec = Current(l)
         /\ handlers[h].pc = "finish" => logins[l].at > Len(logins[l].legs) /\ ~Ended(l)
    /\ logins[l].sessions \in {0, 1}
    /\ logins[l].sessions = 1 => \A t \in parcels : t.login # l
    /\ \A s, t \in parcels : s.login = l /\ t.login = l => s = t
    /\ Ended(l) =>
         /\ logins[l].kind # "none"
         /\ logins[l].at > Len(logins[l].legs)
         /\ logins[l].done # <<>> \/ logins[l].kind = "over"
UInv == \A l \in Logins : ~logins[l].raced => Alone(l)

\* Somebody proved the record; all a token is bound to; all that is done in a
\* login, and the record its token is minted under, if it is not asked for any
\* more.
RecProved(rec, ps) == \E p \in ps : p.rec = rec
TokenProved(t, ps) == \A rec \in t.bound : RecProved(rec, ps)
LoginProved(p, ps) ==
    /\ \A i \in DOMAIN p.done : RecProved(p.done[i].rec, ps)
    /\ p.kind \notin {"none", "over"} =>
         \/ RecProved(p.primary, ps)
         \/ \E i \in p.at..Len(p.legs) : p.legs[i] = p.primary

\* While no login was raced, tokens and logins carry records that were proved.
PInv ==
    Undisturbed =>
        /\ \A t \in tokens \cup parcels : TokenProved(t, proofs)
        /\ \A l \in Logins : LoginProved(logins[l], proofs)

\* Nobody races for a login that has not begun.
Calm == \A l \in Logins : logins[l].kind = "none" => ~logins[l].raced

\* What holds of logins that no two requests advance at once.
RInv == UInv /\ PInv /\ Calm

\* Checks of this window that are not over.
Checking == {h \in Handlers : handlers[h].pc = "verify" /\ ~handlers[h].old}

\* Every wrong credential of the window, tried or being tried, is booked.
GInv ==
    /\ IsFiniteSet(Checking)
    /\ wrong + Cardinality(Checking) <= booked + late

-----------------------------------------------------------------------------
(* Legs covered and legs minted                                            *)

\* A function on 1..n is a sequence of its values.
LEMMA FunIsSeq ==
    ASSUME NEW T, NEW n \in Nat, NEW f \in [1..n -> T]
    PROVE  f \in Seq(T)
OBVIOUS

\* Every set of naturals that is not empty has a least element.
LEMMA LeastOf ==
    ASSUME NEW I \in SUBSET Nat, I # {}
    PROVE  \E i \in I : \A j \in I : i <= j
<1>1. PICK i \in I : \A j \in I : <<j, i>> \notin OpToRel(<, Nat)
    BY WFMin, NatLessThanWellFounded, Zenon
<1>2. \A j \in I : ~(j < i)
    BY <1>1, Zenon DEF OpToRel
<1>3. \A j \in I : i <= j
    BY <1>2
<1> QED BY <1>3

\* What goes upwards does not fall behind.
LEMMA NoneFallsBehind ==
    ASSUME NEW m \in Nat, NEW at \in [1..m -> Nat], \A k \in 1..m : at[k] >= 1,
           \A j, k \in 1..m : j < k => at[j] < at[k]
    PROVE  \A k \in 1..m : k <= at[k]
<1> DEFINE low == {k \in 1..m : at[k] < k}
<1> SUFFICES ASSUME low # {} PROVE FALSE
    OBVIOUS
<1>1. low \in SUBSET Nat
    OBVIOUS
<1>2. PICK k \in low : \A j \in low : k <= j
  <2> HIDE DEF low
  <2> QED BY <1>1, LeastOf
<1>3. k \in 1..m /\ at[k] < k /\ at[k] >= 1
    OBVIOUS
<1>4. k - 1 \in 1..m /\ at[k - 1] < at[k]
    BY <1>3
<1>5. k - 1 \in low
    BY <1>3, <1>4
<1> QED BY <1>2, <1>3, <1>5

\* InOrder enumerates a set of positions, upwards and whole.
LEMMA Enumerated ==
    ASSUME NEW n \in Nat, NEW S \in SUBSET (1..n), NEW at \in InOrder(S)
    PROVE  /\ at \in Seq(S)
           /\ \A j, k \in DOMAIN at : j < k => at[j] < at[k]
           /\ \A s \in S : \E k \in DOMAIN at : at[k] = s
           /\ \A k \in DOMAIN at : k <= at[k]
<1>1. IsFiniteSet(S) /\ Cardinality(S) \in Nat
  <2>1. IsFiniteSet(1..n)
      BY FS_Interval
  <2>2. IsFiniteSet(S)
      BY <2>1, FS_Subset
  <2> QED BY <2>2, FS_CardinalityType
<1> DEFINE D == 1..Cardinality(S)
<1>2. /\ at \in [D -> S]
      /\ \A j, k \in D : j # k => at[j] # at[k]
      /\ \A j, k \in DOMAIN at : j < k => at[j] < at[k]
    BY DEF InOrder, SetToSeqs
<1>3. at \in Seq(S)
    BY <1>1, <1>2
<1>4. IsFiniteSet(D) /\ Cardinality(D) = Cardinality(S)
    BY <1>1, FS_Interval
<1>5. at \in Injection(D, S)
    BY <1>2 DEF Injection, IsInjective
<1>6. at \in Surjection(D, S)
    BY <1>1, <1>4, <1>5, FS_Injection
<1>7. \A s \in S : \E k \in D : at[k] = s
    BY <1>6 DEF Surjection
<1>8. \A k \in DOMAIN at : k <= at[k]
  <2>1. \A k \in D : at[k] \in 1..n
      BY <1>2
  <2>2. at \in [D -> Nat] /\ \A k \in D : at[k] >= 1
      BY <1>2, <2>1
  <2> QED BY <1>1, <1>2, <2>2, NoneFallsBehind
<1> QED BY <1>2, <1>3, <1>7, <1>8

\* The tokens a caller presents: one that was handed out, or none.
LEMMA PresentedTokens ==
    ASSUME NEW presented \in Presented
    PROVE  presented \subseteq tokens
BY DEF Presented

\* What a token says of a leg it covers.
LEMMA LegFromToken ==
    ASSUME NEW t \in Token, NEW rec \in Records, NEW gate, LegCovered(t, rec, gate)
    PROVE  LET leg == LegFromClaims(rec, t) IN
           /\ leg \in Leg /\ leg.rec = rec /\ leg.reused
           /\ rec \in t.bound
           /\ rec = gate => t.from = gate /\ leg.who = t.who
BY DEF LegFromClaims, LegCovered, Token, Leg

\* The positions of the legs that are covered.
Reused(legs, gate, presented) ==
    {i \in DOMAIN legs : \E t \in presented : LegCovered(t, legs[i], gate)}

\* Legs parted by the positions of those that are done and of the others.
Parted(legs, gate, presented, d, u) ==
    [done |-> [n \in DOMAIN d |-> LegDone(legs[d[n]], gate, presented)],
     todo |-> [n \in DOMAIN u |-> legs[u[n]]]]

Splits(legs, gate, presented) ==
    {Parted(legs, gate, presented, d, u) :
        d \in InOrder(Reused(legs, gate, presented)),
        u \in InOrder(DOMAIN legs \ Reused(legs, gate, presented))}

\* Covered goes through the positions in order.
LEMMA CoveredInOrder ==
    \A legs, gate, presented : Covered(legs, gate, presented) = Splits(legs, gate, presented)
BY DEF Covered, Reused, Parted, Splits

\* A split is a parting by positions that are in order.
SplitInOrder(legs, gate, presented, c) ==
    \E d, u : /\ d \in InOrder(Reused(legs, gate, presented))
              /\ u \in InOrder(DOMAIN legs \ Reused(legs, gate, presented))
              /\ c = Parted(legs, gate, presented, d, u)
LEMMA SplitByOrder ==
    \A legs, gate, presented, c :
        c \in Splits(legs, gate, presented) => SplitInOrder(legs, gate, presented, c)
BY DEF Splits, SplitInOrder

\* Tokens cover some legs, which are done with the identity of the one that
\* covers the gate; the others are left to do in their order.
LEMMA LegsAreCovered ==
    ASSUME NEW legs \in Seq(Records), NEW gate, NEW presented \in SUBSET Token,
           NEW c \in Covered(legs, gate, presented)
    PROVE  /\ c.done \in Seq(Leg) /\ c.todo \in Seq(Records)
           /\ \A i \in DOMAIN c.done : \E t \in presented :
                /\ c.done[i].reused
                /\ c.done[i].rec \in t.bound
                /\ c.done[i].rec = gate => t.from = gate /\ c.done[i].who = t.who
           /\ \A i \in DOMAIN c.todo : \E j \in DOMAIN legs : c.todo[i] = legs[j] /\ i <= j
           /\ \A j \in DOMAIN legs :
                \/ \E i \in DOMAIN c.todo : c.todo[i] = legs[j]
                \/ \E t \in presented : legs[j] \in t.bound
<1> DEFINE reused == Reused(legs, gate, presented)
           others == DOMAIN legs \ reused
           ds == InOrder(reused)
           us == InOrder(others)
           leg(i) == LegDone(legs[i], gate, presented)
<1>a. \E d \in ds : \E u \in us : c = Parted(legs, gate, presented, d, u)
  <2>1. c \in Splits(legs, gate, presented)
      BY CoveredInOrder, Zenon
  <2>2. SplitInOrder(legs, gate, presented, c)
      BY <2>1, SplitByOrder, Zenon
  <2> QED BY <2>2, Zenon DEF SplitInOrder
<1>b. PICK d \in ds : \E u \in us : c = Parted(legs, gate, presented, d, u)
    BY <1>a
<1>1. PICK u \in us : c = Parted(legs, gate, presented, d, u)
    BY <1>b
<1>2. /\ Len(legs) \in Nat /\ DOMAIN legs = 1..Len(legs)
      /\ \A i \in DOMAIN legs : legs[i] \in Records
    OBVIOUS
<1>3. reused \in SUBSET (1..Len(legs)) /\ others \in SUBSET (1..Len(legs))
    BY <1>2 DEF Reused
<1>4. \A i \in reused : \E t \in presented :
        /\ leg(i) \in Leg /\ leg(i).rec = legs[i] /\ leg(i).reused
        /\ legs[i] \in t.bound
        /\ legs[i] = gate => t.from = gate /\ leg(i).who = t.who
  <2> TAKE i \in reused
  <2> DEFINE t == CHOOSE t \in presented : LegCovered(t, legs[i], gate)
  <2>1. \E k \in presented : LegCovered(k, legs[i], gate)
      BY DEF Reused
  <2>2. t \in presented /\ LegCovered(t, legs[i], gate)
      BY <2>1
  <2>3. leg(i) = LegFromClaims(legs[i], t)
      BY DEF LegDone
  <2>4. legs[i] \in Records
      BY <1>2, <1>3
  <2> HIDE DEF t, leg
  <2>5. t \in Token
      BY <2>2
  <2>6. /\ leg(i) \in Leg /\ leg(i).rec = legs[i] /\ leg(i).reused
        /\ legs[i] \in t.bound
        /\ legs[i] = gate => t.from = gate /\ leg(i).who = t.who
      BY <2>2, <2>3, <2>4, <2>5, LegFromToken
  <2> QED BY <2>2, <2>6
<1> HIDE DEF ds, us, leg, reused, others
<1>6. /\ d \in Seq(reused)
      /\ \A j, k \in DOMAIN d : j < k => d[j] < d[k]
    BY <1>2, <1>3, Enumerated DEF ds
<1>7. /\ u \in Seq(others)
      /\ \A j, k \in DOMAIN u : j < k => u[j] < u[k]
      /\ \A s \in others : \E k \in DOMAIN u : u[k] = s
      /\ \A k \in DOMAIN u : k <= u[k]
    BY <1>2, <1>3, Enumerated DEF us
<1>8. /\ Len(d) \in Nat /\ DOMAIN d = 1..Len(d)
      /\ Len(u) \in Nat /\ DOMAIN u = 1..Len(u)
      /\ \A n \in DOMAIN d : d[n] \in reused
      /\ \A n \in DOMAIN u : u[n] \in others
    BY <1>6, <1>7
<1>9. /\ c.done \in [1..Len(d) -> Leg]
      /\ c.todo \in [1..Len(u) -> Records]
      /\ \A n \in 1..Len(d) : c.done[n] = leg(d[n])
      /\ \A n \in 1..Len(u) : c.todo[n] = legs[u[n]]
  <2>1. \A n \in 1..Len(d) : leg(d[n]) \in Leg
      BY <1>4, <1>8
  <2>2. \A n \in 1..Len(u) : legs[u[n]] \in Records
      BY <1>2, <1>3, <1>8
  <2>3. c.done = [n \in 1..Len(d) |-> leg(d[n])] /\ c.todo = [n \in 1..Len(u) |-> legs[u[n]]]
      BY <1>1, <1>8 DEF Parted, leg
  <2> QED BY <2>1, <2>2, <2>3
<1>10. c.done \in Seq(Leg) /\ c.todo \in Seq(Records)
    BY <1>8, <1>9, FunIsSeq
<1>11. ASSUME NEW i \in DOMAIN c.done
       PROVE  \E t \in presented :
                /\ c.done[i].reused
                /\ c.done[i].rec \in t.bound
                /\ c.done[i].rec = gate => t.from = gate /\ c.done[i].who = t.who
  <2>1. d[i] \in reused /\ c.done[i] = leg(d[i])
      BY <1>8, <1>9
  <2> QED BY <1>4, <2>1
<1>12. \A i \in DOMAIN c.todo : \E j \in DOMAIN legs : c.todo[i] = legs[j] /\ i <= j
  <2> TAKE i \in DOMAIN c.todo
  <2>1. i \in DOMAIN u /\ c.todo[i] = legs[u[i]]
      BY <1>8, <1>9
  <2>2. u[i] \in DOMAIN legs /\ i <= u[i]
      BY <1>2, <1>3, <1>7, <1>8, <2>1
  <2> QED BY <2>1, <2>2
<1>13. ASSUME NEW j \in DOMAIN legs
       PROVE  \/ \E i \in DOMAIN c.todo : c.todo[i] = legs[j]
              \/ \E t \in presented : legs[j] \in t.bound
  <2>1. CASE j \in others
      BY <1>7, <1>8, <1>9, <2>1
  <2>2. CASE j \in reused
      BY <1>4, <2>2
  <2> QED BY <2>1, <2>2 DEF others
<1> QED BY <1>10, <1>11, <1>12, <1>13

\* The legs on the gate, and the one SelectInSeq finds.
GateLegs(done, gate) == {i \in 1..Len(done) : done[i].rec = gate}
GateAt(done, gate) == SelectInSeq(done, LAMBDA leg : leg.rec = gate)

\* SelectInSeq finds the first leg on the gate, if there is one.
LEMMA LegSelected ==
    \A done, gate : GateLegs(done, gate) # {} =>
        GateAt(done, gate) = CHOOSE i \in GateLegs(done, gate) : \A j \in GateLegs(done, gate) : i <= j
BY DEF SelectInSeq, Min, GateLegs, GateAt

\* The leg on the gate, which says who the token names.
LEMMA GateFound ==
    ASSUME NEW done \in Seq(Leg), NEW gate, \E i \in 1..Len(done) : done[i].rec = gate
    PROVE  GateAt(done, gate) \in 1..Len(done) /\ done[GateAt(done, gate)].rec = gate
<1>1. GateLegs(done, gate) # {} /\ GateLegs(done, gate) \in SUBSET Nat
    BY DEF GateLegs
<1>2. GateAt(done, gate) = CHOOSE i \in GateLegs(done, gate) : \A j \in GateLegs(done, gate) : i <= j
    BY <1>1, LegSelected
<1>3. GateAt(done, gate) \in GateLegs(done, gate)
    BY <1>1, <1>2, LeastOf
<1> QED BY <1>3 DEF GateLegs

\* A login whose gate's leg is done mints a token that says who proved it.
LEMMA MintOK ==
    ASSUME SInv, NEW l \in Logins, logins[l].kind \notin {"none", "over"},
           \E i \in 1..Len(logins[l].done) : logins[l].done[i].rec = logins[l].gate
    PROVE  /\ MintForLegs(l) \in Token /\ MintForLegs(l).login = l
           /\ TokenOK(MintForLegs(l), logins[l].gate, proofs)
<1> DEFINE p == logins[l]
           n == GateAt(p.done, p.gate)
           t == MintForLegs(l)
           recs == {p.done[i].rec : i \in 1..Len(p.done)}
<1>1. p \in Login /\ LoginOK(p) /\ LegsOK(p, l, proofs)
    BY DEF SInv, TypeOK
<1>2. p.done \in Seq(Leg) /\ p.gate \in Records /\ p.primary \in Records
    BY <1>1 DEF Login, LoginOK
<1>3. n \in 1..Len(p.done) /\ p.done[n].rec = p.gate
  <2>1. \E i \in 1..Len(p.done) : p.done[i].rec = p.gate
      OBVIOUS
  <2> HIDE DEF p
  <2> QED BY <1>2, <2>1, GateFound
<1>4. /\ t.bound = recs \cup {p.primary}
      /\ t.creds = {rec \in recs : \E i \in 1..Len(p.done) : p.done[i].rec = rec /\ p.done[i].cred}
      /\ t.from = p.gate /\ t.who = p.done[n].who /\ t.fresh = ~p.done[n].reused /\ t.login = l
      /\ t = [bound |-> t.bound, creds |-> t.creds, from |-> t.from, who |-> t.who,
              fresh |-> t.fresh, login |-> t.login]
    BY DEF MintForLegs, GateAt
<1>5. \A i \in 1..Len(p.done) : p.done[i] \in Leg
    BY <1>2
<1> HIDE DEF p, n, t, recs
<1>6. recs \subseteq Records
    BY <1>5 DEF recs, Leg
<1>7. p.done[n].who \in People \cup {NoOne} /\ p.done[n].reused \in BOOLEAN
    BY <1>3, <1>5 DEF Leg
<1>8. t \in Token
    BY <1>2, <1>4, <1>6, <1>7 DEF Token
<1>9. DOMAIN p.done = 1..Len(p.done)
    BY <1>2
<1>10. TokenOK(t, p.gate, proofs)
    BY <1>1, <1>3, <1>4, <1>7, <1>9 DEF LegsOK, TokenOK
<1> QED BY <1>4, <1>8, <1>10 DEF p, t

-----------------------------------------------------------------------------
(* What a login has                                                        *)

\* A login goes on as it was, with no more legs to do on its gate.
Keeps(q, p) ==
    /\ p.kind = q.kind /\ p.gate = q.gate
    /\ (\A i \in q.at..Len(q.legs) : q.legs[i] # q.gate)
         => \A i \in p.at..Len(p.legs) : p.legs[i] # p.gate

TripsOK == \A t \in trips : t.login \in Logins /\ t.rec \in Records /\ t.begun \in Nat /\ t.who \in People

\* A request stays as it should be when its login goes on.
LEMMA HandlerStays ==
    ASSUME NEW hd, NEW q, NEW p, HandlerOK(hd, q), Keeps(q, p)
    PROVE  HandlerOK(hd, p)
BY DEF HandlerOK, Keeps

\* What was proved stays proved.
LEMMA ProofsStay ==
    ASSUME NEW ps, NEW qs, ps \subseteq qs
    PROVE  /\ \A rec, who : Proves(ps, rec, who) => Proves(qs, rec, who)
           /\ \A l, rec, who : ProvesIn(ps, l, rec, who) => ProvesIn(qs, l, rec, who)
BY DEF Proves, ProvesIn

\* One login changes, some of the requests at work on it, and what it minted.
LEMMA OneStep ==
    ASSUME SInv, NEW l \in Logins, NEW p \in Login,
           logins' = [logins EXCEPT ![l] = p],
           LoginOK(p), LegsOK(p, l, proofs'),
           p.kind # "none", logins[l].kind # "none" => p.gate = logins[l].gate,
           proofs \subseteq proofs', \A q \in proofs' : q.home,
           handlers' \in [Handlers -> Handler],
           \A h \in Handlers :
             \/ handlers'[h] = handlers[h] /\ (handlers[h].login = l => Keeps(logins[l], p))
             \/ HandlerOK(handlers'[h], p) /\ handlers'[h].login \in {l, NoLogin},
           \A t \in (tokens' \cup parcels') \ (tokens \cup parcels) :
             t \in Token /\ t.login = l /\ TokenOK(t, p.gate, proofs'),
           TripsOK', booked' \in 0..FailureLimit, wrong' \in Nat, late' \in Nat
    PROVE  SInv'
<1>1. /\ logins \in [Logins -> Login] /\ handlers \in [Handlers -> Handler]
      /\ \A t \in tokens \cup parcels : t \in Token
    BY DEF SInv, TypeOK
<1>2. /\ logins' \in [Logins -> Login] /\ logins'[l] = p
      /\ \A k \in Logins : k # l => logins'[k] = logins[k]
    BY <1>1
<1>3. /\ \A t \in parcels' : t \in Token
      /\ tokens' \subseteq Token
    BY <1>1
<1>4. TypeOK'
    BY <1>2, <1>3 DEF TypeOK, TripsOK
<1>5. ASSUME NEW k \in Logins
      PROVE  LoginOK(logins'[k]) /\ LegsOK(logins'[k], k, proofs')
  <2>1. CASE k = l
      BY <1>2, <2>1
  <2>2. CASE k # l
    <3>1. LoginOK(logins[k]) /\ LegsOK(logins[k], k, proofs)
        BY DEF SInv
    <3>2. LegsOK(logins[k], k, proofs')
        BY <3>1, ProofsStay DEF LegsOK
    <3> QED BY <1>2, <2>2, <3>1, <3>2
  <2> QED BY <2>1, <2>2
<1>6. ASSUME NEW h \in Handlers
      PROVE  HandlerOK(handlers'[h], logins'[handlers'[h].login])
  <2>1. ASSUME handlers'[h] = handlers[h], handlers[h].login = l => Keeps(logins[l], p)
        PROVE  HandlerOK(handlers'[h], logins'[handlers'[h].login])
    <3>1. HandlerOK(handlers[h], logins[handlers[h].login])
        BY DEF SInv
    <3>2. handlers[h].login \in Logins \cup {NoLogin}
        BY <1>1 DEF Handler
    <3>3. CASE handlers[h].login = l
        BY <1>2, <2>1, <3>1, <3>3, HandlerStays
    <3>4. CASE handlers[h].login = NoLogin
      <4>1. handlers[h].pc = "idle"
          BY <3>1, <3>4, LoginsAssumption DEF HandlerOK
      <4> QED BY <2>1, <3>4, <4>1 DEF HandlerOK
    <3>5. CASE handlers[h].login \in Logins \ {l}
        BY <1>2, <2>1, <3>1, <3>5
    <3> QED BY <3>2, <3>3, <3>4, <3>5
  <2>2. ASSUME HandlerOK(handlers'[h], p), handlers'[h].login \in {l, NoLogin}
        PROVE  HandlerOK(handlers'[h], logins'[handlers'[h].login])
    <3>1. CASE handlers'[h].login = l
        BY <1>2, <2>2, <3>1
    <3>2. CASE handlers'[h].login = NoLogin
      <4>1. handlers'[h].pc = "idle"
          BY <2>2, <3>2, LoginsAssumption DEF HandlerOK
      <4> QED BY <2>2, <3>2, <4>1 DEF HandlerOK
    <3> QED BY <2>2, <3>1, <3>2
  <2> QED BY <2>1, <2>2
<1>7. ASSUME NEW t \in tokens' \cup parcels'
      PROVE  logins'[t.login].kind # "none" /\ TokenOK(t, logins'[t.login].gate, proofs')
  <2>1. CASE t \in tokens \cup parcels
    <3>1. logins[t.login].kind # "none" /\ TokenOK(t, logins[t.login].gate, proofs)
        BY <2>1 DEF SInv
    <3>2. TokenOK(t, logins[t.login].gate, proofs')
        BY <3>1, ProofsStay DEF TokenOK
    <3>3. t.login \in Logins
        BY <1>1, <2>1 DEF Token
    <3>4. CASE t.login = l
        BY <1>2, <3>1, <3>2, <3>4
    <3>5. CASE t.login # l
        BY <1>2, <3>1, <3>2, <3>3, <3>5
    <3> QED BY <3>4, <3>5
  <2>2. CASE t \notin tokens \cup parcels
      BY <1>2, <2>2
  <2> QED BY <2>1, <2>2
<1> QED BY <1>4, <1>5, <1>6, <1>7 DEF SInv

\* The types, and what each login and request has.
LEMMA Known ==
    ASSUME SInv
    PROVE  /\ logins \in [Logins -> Login] /\ handlers \in [Handlers -> Handler]
           /\ TripsOK /\ tokens \subseteq Token /\ parcels \subseteq Token
           /\ booked \in 0..FailureLimit /\ wrong \in Nat /\ late \in Nat
           /\ \A l \in Logins : logins[l] \in Login /\ LoginOK(logins[l]) /\ LegsOK(logins[l], l, proofs)
           /\ \A h \in Handlers : handlers[h] \in Handler /\ HandlerOK(handlers[h], logins[handlers[h].login])
           /\ \A q \in proofs : q.home
BY DEF SInv, TypeOK, TripsOK

\* A request is at work on a login that has begun and is not over.
LEMMA AtWork ==
    ASSUME SInv, NEW h \in Handlers, NEW l \in Logins, handlers[h].login = l
    PROVE  logins[l].kind \notin {"none", "over"} /\ handlers[h].pc # "idle"
<1>1. HandlerOK(handlers[h], logins[l])
    BY DEF SInv
<1> QED BY <1>1, LoginsAssumption DEF HandlerOK

\* Nothing is said of an identity that nobody proved.
LEMMA NoLegs ==
    ASSUME NEW p, NEW l, NEW ps, p.done = <<>>
    PROVE  LegsOK(p, l, ps)
BY DEF LegsOK

\* A login begins, of any kind.
LEMMA Begins ==
    ASSUME SInv, NEW l \in Logins, logins[l].kind = "none", NEW p \in Login,
           logins' = [logins EXCEPT ![l] = p], LoginOK(p), LegsOK(p, l, proofs), p.kind # "none",
           UNCHANGED <<handlers, trips, parcels, tokens, booked, proofs, wrong, late>>
    PROVE  SInv'
<1>1. /\ handlers' \in [Handlers -> Handler] /\ TripsOK'
      /\ booked' \in 0..FailureLimit /\ wrong' \in Nat /\ late' \in Nat
      /\ \A q \in proofs' : q.home
    BY Known DEF TripsOK
<1>2. \A h \in Handlers : handlers'[h] = handlers[h] /\ handlers[h].login # l
    BY AtWork
<1>3. LegsOK(p, l, proofs')
    OBVIOUS
<1>4. tokens' = tokens /\ parcels' = parcels /\ proofs \subseteq proofs'
    OBVIOUS
<1> QED BY <1>1, <1>2, <1>3, <1>4, OneStep

\* The doors.
LEMMA DoorsHaveGates ==
    ASSUME NEW door \in Doors
    PROVE  /\ door \in Seq(Records) /\ Len(door) \in Nat /\ Len(door) >= 1 /\ DOMAIN door = 1..Len(door)
           /\ door[1] \in Records
           /\ \A i \in 1..Len(door) : door[i] \in Records
           /\ \A i \in 2..Len(door) : door[i] # door[1]
           /\ Last(door) = door[Len(door)] /\ Last(door) \in Records
<1>1. door \in Seq(Records) /\ door # <<>> /\ \A i \in 2..Len(door) : door[i] # door[1]
    BY LoginsAssumption
<1>2. Len(door) \in Nat /\ Len(door) >= 1 /\ DOMAIN door = 1..Len(door)
    BY <1>1
<1>3. \A i \in 1..Len(door) : door[i] \in Records
    BY <1>1
<1>4. door[1] \in Records
    BY <1>2, <1>3
<1> QED BY <1>1, <1>2, <1>3, <1>4 DEF Last

\* The logins that begin, as records.
LEMMA NewApp ==
    ASSUME NEW legs \in Seq(Records), NEW done \in Seq(Leg), NEW gate \in Records, NEW primary \in Records
    PROVE  [NewLogin EXCEPT !.kind = "app", !.live = TRUE, !.legs = legs, !.done = done,
                            !.gate = gate, !.primary = primary, !.begun = 1] \in Login
BY DEF NewLogin, Login

\* A page's.
LEMMA NewPage ==
    ASSUME NEW kind \in {"page", "host"}, NEW gate \in Records, NEW bound \in SUBSET Browsers
    PROVE  [NewLogin EXCEPT !.kind = kind, !.live = TRUE, !.legs = <<gate>>, !.begun = 1,
                            !.gate = gate, !.primary = gate, !.bound = bound] \in Login
<1>1. <<>> \in Seq(Leg) /\ <<gate>> \in Seq(Records)
    OBVIOUS
<1> QED BY <1>1 DEF NewLogin, Login

\* An MCP client's.
LEMMA NewMCP ==
    ASSUME NEW legs \in Seq(Records), NEW gate \in Records, NEW primary \in Records, NEW bound \in SUBSET Browsers
    PROVE  [NewLogin EXCEPT !.kind = "mcp", !.live = TRUE, !.legs = legs, !.gate = gate,
                            !.primary = primary, !.bound = bound, !.home = bound] \in Login
<1>1. <<>> \in Seq(Leg)
    OBVIOUS
<1> QED BY <1>1 DEF NewLogin, Login

\* handleLogin keeps the invariant.
LEMMA StartAppKeeps ==
    ASSUME SInv, NEW l \in Logins, StartApp(l)
    PROVE  SInv'
<1>1. PICK door \in Doors, presented \in Presented :
        \E c \in Covered(door, door[1], presented) :
          logins' = [logins EXCEPT ![l] = [NewLogin EXCEPT !.kind = "app", !.live = TRUE, !.legs = c.todo, !.done = c.done,
                                            !.gate = door[1], !.primary = Last(door), !.begun = 1]]
    BY DEF StartApp
<1>2. PICK c \in Covered(door, door[1], presented) :
          logins' = [logins EXCEPT ![l] = [NewLogin EXCEPT !.kind = "app", !.live = TRUE, !.legs = c.todo, !.done = c.done,
                                            !.gate = door[1], !.primary = Last(door), !.begun = 1]]
    BY <1>1
<1> DEFINE p == [NewLogin EXCEPT !.kind = "app", !.live = TRUE, !.legs = c.todo, !.done = c.done,
                                 !.gate = door[1], !.primary = Last(door), !.begun = 1]
<1>3. presented \subseteq tokens /\ presented \in SUBSET Token
    BY PresentedTokens, Known
<1>4. /\ door \in Seq(Records) /\ Len(door) \in Nat /\ Len(door) >= 1 /\ DOMAIN door = 1..Len(door)
      /\ \A i \in 1..Len(door) : door[i] \in Records
      /\ \A i \in 2..Len(door) : door[i] # door[1]
      /\ Last(door) \in Records
    BY DoorsHaveGates
<1>a. door \in Seq(Records) /\ door[1] \in Records /\ Last(door) \in Records
    BY DoorsHaveGates
<1>b. presented \in SUBSET Token
    BY <1>3
<1>5. /\ c.done \in Seq(Leg) /\ c.todo \in Seq(Records)
      /\ \A i \in DOMAIN c.done : \E t \in presented :
           /\ c.done[i].reused
           /\ c.done[i].rec = door[1] => t.from = door[1] /\ c.done[i].who = t.who
      /\ \A i \in DOMAIN c.todo : \E j \in DOMAIN door : c.todo[i] = door[j] /\ i <= j
  <2> DEFINE gate == door[1]
  <2>1. c \in Covered(door, gate, presented)
      OBVIOUS
  <2> HIDE DEF gate
  <2>2. /\ c.done \in Seq(Leg) /\ c.todo \in Seq(Records)
        /\ \A i \in DOMAIN c.done : \E t \in presented :
             /\ c.done[i].reused
             /\ c.done[i].rec \in t.bound
             /\ c.done[i].rec = gate => t.from = gate /\ c.done[i].who = t.who
        /\ \A i \in DOMAIN c.todo : \E j \in DOMAIN door : c.todo[i] = door[j] /\ i <= j
      BY <1>a, <1>b, <2>1, LegsAreCovered
  <2> QED BY <2>2 DEF gate
<1>6. /\ p.kind = "app" /\ p.live /\ p.legs = c.todo /\ p.at = 1 /\ p.done = c.done /\ p.gate = door[1]
      /\ p.primary = Last(door)
    BY DEF NewLogin
<1>7. logins' = [logins EXCEPT ![l] = p]
    BY <1>2
<1>8. logins[l].kind = "none" /\ UNCHANGED <<handlers, trips, parcels, tokens, booked, proofs, wrong, late>>
    BY DEF StartApp
<1>9. p \in Login
    BY <1>a, <1>5, NewApp
<1> HIDE DEF p
<1>10. LoginOK(p)
  <2>1. Len(c.todo) \in Nat /\ DOMAIN c.todo = 1..Len(c.todo)
      BY <1>5
  <2>2. \A i \in 2..Len(c.todo) : c.todo[i] # door[1]
    <3> TAKE i \in 2..Len(c.todo)
    <3>1. i \in DOMAIN c.todo /\ i >= 2
        BY <2>1
    <3>2. PICK j \in DOMAIN door : c.todo[i] = door[j] /\ i <= j
        BY <1>5, <3>1
    <3>3. j \in 2..Len(door)
        BY <1>4, <3>1, <3>2
    <3> QED BY <1>4, <3>2, <3>3
  <2> QED BY <1>a, <1>6, <2>2 DEF LoginOK
<1>11. LegsOK(p, l, proofs)
  <2>1. \A t \in presented : Proves(proofs, t.from, t.who)
      BY <1>3 DEF SInv, TokenOK
  <2> QED BY <1>5, <1>6, <2>1 DEF LegsOK
<1> QED BY <1>6, <1>7, <1>8, <1>9, <1>10, <1>11, Begins

\* passPageGate keeps it.
LEMMA StartPageKeeps ==
    ASSUME SInv, NEW l \in Logins, StartPage(l)
    PROVE  SInv'
<1>1. PICK door \in Doors, b \in Browsers, kind \in {"page", "host"} :
        logins' = [logins EXCEPT ![l] = [NewLogin EXCEPT !.kind = kind, !.live = TRUE, !.legs = <<door[1]>>, !.begun = 1,
            !.gate = door[1], !.primary = door[1], !.bound = IF kind = "page" THEN {b} ELSE {}]]
    BY DEF StartPage
<1> DEFINE p == [NewLogin EXCEPT !.kind = kind, !.live = TRUE, !.legs = <<door[1]>>, !.begun = 1,
            !.gate = door[1], !.primary = door[1], !.bound = IF kind = "page" THEN {b} ELSE {}]
<1>2. /\ p.kind \in {"page", "host"} /\ p.legs = <<door[1]>> /\ p.at = 1 /\ p.done = <<>> /\ p.gate = door[1]
      /\ p.primary = door[1]
    BY DEF NewLogin
<1>3. logins' = [logins EXCEPT ![l] = p]
    BY <1>1
<1>4. logins[l].kind = "none" /\ UNCHANGED <<handlers, trips, parcels, tokens, booked, proofs, wrong, late>>
    BY DEF StartPage
<1>5. door[1] \in Records
    BY DoorsHaveGates
<1>6. p \in Login
    BY <1>5, NewPage
<1> HIDE DEF p
<1>7. Len(p.legs) = 1
    BY <1>2
<1>8. LoginOK(p)
    BY <1>2, <1>5, <1>7 DEF LoginOK
<1> QED BY <1>2, <1>3, <1>4, <1>6, <1>8, NoLegs, Begins

\* handleAuthorizeStart keeps it.
LEMMA StartMCPKeeps ==
    ASSUME SInv, NEW l \in Logins, StartMCP(l)
    PROVE  SInv'
<1>1. PICK door \in Doors, b \in Browsers :
        logins' = [logins EXCEPT ![l] = [NewLogin EXCEPT !.kind = "mcp", !.live = TRUE, !.legs = door, !.gate = door[1],
                                         !.primary = Last(door), !.bound = {b}, !.home = {b}]]
    BY DEF StartMCP
<1> DEFINE p == [NewLogin EXCEPT !.kind = "mcp", !.live = TRUE, !.legs = door, !.gate = door[1],
                                         !.primary = Last(door), !.bound = {b}, !.home = {b}]
<1>2. /\ p.kind = "mcp" /\ p.legs = door /\ p.at = 1 /\ p.done = <<>> /\ p.gate = door[1]
      /\ p.primary = Last(door) /\ p.bound = {b} /\ p.home = {b}
    BY DEF NewLogin
<1>3. logins' = [logins EXCEPT ![l] = p]
    BY <1>1
<1>4. logins[l].kind = "none" /\ UNCHANGED <<handlers, trips, parcels, tokens, booked, proofs, wrong, late>>
    BY DEF StartMCP
<1>5. /\ door[1] \in Records /\ Last(door) \in Records /\ door \in Seq(Records)
      /\ \A i \in 2..Len(door) : door[i] # door[1]
    BY DoorsHaveGates
<1>6. p \in Login
    BY <1>5, NewMCP
<1> HIDE DEF p
<1>8. LoginOK(p)
    BY <1>2, <1>5 DEF LoginOK
<1> QED BY <1>2, <1>3, <1>4, <1>6, <1>8, NoLegs, Begins

\* A login goes on with the requests at work on it as they are.
LEMMA LoginGoesOn ==
    ASSUME SInv, NEW l \in Logins, NEW p \in Login, logins' = [logins EXCEPT ![l] = p],
           LoginOK(p), LegsOK(p, l, proofs), p.kind # "none", Keeps(logins[l], p),
           \A t \in (tokens' \cup parcels') \ (tokens \cup parcels) :
             t \in Token /\ t.login = l /\ TokenOK(t, p.gate, proofs),
           TripsOK', UNCHANGED <<handlers, booked, proofs, wrong, late>>
    PROVE  SInv'
<1>1. /\ handlers' \in [Handlers -> Handler]
      /\ booked' \in 0..FailureLimit /\ wrong' \in Nat /\ late' \in Nat
      /\ \A q \in proofs' : q.home
    BY Known
<1>2. \A h \in Handlers : handlers'[h] = handlers[h] /\ (handlers[h].login = l => Keeps(logins[l], p))
    OBVIOUS
<1>3. LegsOK(p, l, proofs') /\ proofs \subseteq proofs'
    OBVIOUS
<1>4. \A t \in (tokens' \cup parcels') \ (tokens \cup parcels) :
        t \in Token /\ t.login = l /\ TokenOK(t, p.gate, proofs')
    OBVIOUS
<1>5. p.gate = logins[l].gate
    BY DEF Keeps
<1> QED BY <1>1, <1>2, <1>3, <1>4, <1>5, OneStep

\* A request moves, and with it its login.
LEMMA RequestMoves ==
    ASSUME SInv, NEW l \in Logins, NEW p \in Login, logins' = [logins EXCEPT ![l] = p],
           LoginOK(p), LegsOK(p, l, proofs'), p.kind # "none", Keeps(logins[l], p),
           NEW h \in Handlers, NEW hd \in Handler, handlers' = [handlers EXCEPT ![h] = hd],
           HandlerOK(hd, p), hd.login \in {l, NoLogin},
           proofs \subseteq proofs', \A q \in proofs' : q.home,
           \A t \in (tokens' \cup parcels') \ (tokens \cup parcels) :
             t \in Token /\ t.login = l /\ TokenOK(t, p.gate, proofs'),
           TripsOK', booked' \in 0..FailureLimit, wrong' \in Nat, late' \in Nat
    PROVE  SInv'
<1>1. handlers \in [Handlers -> Handler]
    BY Known
<1>2. handlers' \in [Handlers -> Handler]
    BY <1>1
<1>3. \A k \in Handlers :
        \/ handlers'[k] = handlers[k] /\ (handlers[k].login = l => Keeps(logins[l], p))
        \/ HandlerOK(handlers'[k], p) /\ handlers'[k].login \in {l, NoLogin}
    BY <1>1
<1>4. p.gate = logins[l].gate
    BY DEF Keeps
<1> QED BY <1>2, <1>3, <1>4, OneStep

\* A login as it is keeps what it has.
LEMMA Same ==
    ASSUME NEW q, NEW p, p.kind = q.kind, p.gate = q.gate, p.legs = q.legs, p.at = q.at
    PROVE  Keeps(q, p)
BY DEF Keeps

\* What makes a login's record right is in these fields.
LEMMA SameLogin ==
    ASSUME NEW q, NEW p, NEW l, NEW ps, LoginOK(q), LegsOK(q, l, ps),
           p.kind = q.kind, p.live = q.live, p.gate = q.gate, p.primary = q.primary, p.legs = q.legs,
           p.at = q.at, p.done = q.done, p.bound = q.bound, p.home = q.home
    PROVE  LoginOK(p) /\ LegsOK(p, l, ps) /\ Keeps(q, p)
BY Same DEF LoginOK, LegsOK

\* Nothing new is said.
LEMMA NoNews ==
    ASSUME UNCHANGED <<tokens, parcels>>, NEW l, NEW gate, NEW ps
    PROVE  \A t \in (tokens' \cup parcels') \ (tokens \cup parcels) :
             t \in Token /\ t.login = l /\ TokenOK(t, gate, ps)
OBVIOUS

\* Binding a browser keeps the invariant.
LEMMA BindKeeps ==
    ASSUME SInv, NEW l \in Logins, Bind(l)
    PROVE  SInv'
<1>1. PICK b \in Browsers : logins' = [logins EXCEPT ![l].bound = @ \cup {b}]
    BY DEF Bind
<1> DEFINE q == logins[l]
           p == [q EXCEPT !.bound = q.bound \cup {b}]
<1>2. q \in Login /\ LoginOK(q) /\ LegsOK(q, l, proofs)
    BY Known
<1>3. q.live /\ q.kind # "mcp" /\ UNCHANGED <<handlers, trips, parcels, tokens, booked, proofs, wrong, late>>
    BY DEF Bind, MayBind
<1>4. logins' = [logins EXCEPT ![l] = p]
    BY <1>1
<1>5. p \in Login
  <2> HIDE DEF q
  <2> QED BY <1>2 DEF Login
<1>6. /\ p.kind = q.kind /\ p.live = q.live /\ p.gate = q.gate /\ p.primary = q.primary /\ p.legs = q.legs
      /\ p.at = q.at /\ p.done = q.done /\ p.home = q.home
  <2> HIDE DEF q
  <2> QED BY <1>2 DEF Login
<1> HIDE DEF p
<1>7. LoginOK(p) /\ p.kind # "none"
    BY <1>2, <1>3, <1>6 DEF LoginOK
<1>8. LegsOK(p, l, proofs)
    BY <1>2, <1>6 DEF LegsOK
<1>9. TripsOK'
    BY <1>3, Known DEF TripsOK
<1>10. \A t \in (tokens' \cup parcels') \ (tokens \cup parcels) :
         t \in Token /\ t.login = l /\ TokenOK(t, p.gate, proofs)
    BY <1>3
<1> QED BY <1>3, <1>4, <1>5, <1>6, <1>7, <1>8, <1>9, <1>10, Same, LoginGoesOn

\* Signing in at the provider keeps it.
LEMMA SignInKeeps ==
    ASSUME SInv, NEW l \in Logins, SignIn(l)
    PROVE  SInv'
<1>1. PICK who \in People :
        trips' = trips \cup {[login |-> l, begun |-> logins[l].begun, rec |-> Current(l), who |-> who,
                              n |-> Cardinality({t \in trips : t.login = l})]}
    BY DEF SignIn
<1> DEFINE q == logins[l]
<1>2. q \in Login /\ LoginOK(q) /\ LegsOK(q, l, proofs) /\ TripsOK
    BY Known
<1>3. q.live /\ Current(l) # NoRecord /\ UNCHANGED <<logins, handlers, parcels, tokens, booked, proofs, wrong, late>>
    BY DEF SignIn
<1>4. Current(l) \in Records /\ q.begun \in Nat
  <2>1. q.legs \in Seq(Records) /\ q.at \in Nat /\ q.at >= 1 /\ q.begun \in Nat
      BY <1>2 DEF Login, LoginOK
  <2>2. q.at <= Len(q.legs) /\ Current(l) = q.legs[q.at]
      BY <1>3 DEF Current
  <2>3. Len(q.legs) \in Nat
      BY <2>1
  <2>4. q.at \in 1..Len(q.legs)
      BY <2>1, <2>2, <2>3
  <2> HIDE DEF q
  <2> QED BY <2>1, <2>2, <2>4
<1>5. TripsOK'
    BY <1>1, <1>2, <1>4 DEF TripsOK
<1>6. logins' = [logins EXCEPT ![l] = q]
    BY <1>3, Known
<1>7. q.kind # "none"
    BY <1>2, <1>3 DEF LoginOK
<1>8. \A t \in (tokens' \cup parcels') \ (tokens \cup parcels) :
         t \in Token /\ t.login = l /\ TokenOK(t, q.gate, proofs)
    BY <1>3
<1>9. Keeps(logins[l], q)
    BY Same
<1> HIDE DEF q
<1> QED BY <1>2, <1>3, <1>5, <1>6, <1>7, <1>8, <1>9, LoginGoesOn

\* Forgetting a login keeps it.
LEMMA ExpireKeeps ==
    ASSUME SInv, NEW l \in Logins, Expire(l)
    PROVE  SInv'
<1> DEFINE q == logins[l]
<1>1. /\ q \in Login /\ LoginOK(q) /\ LegsOK(q, l, proofs) /\ TripsOK
      /\ logins \in [Logins -> Login] /\ handlers \in [Handlers -> Handler]
      /\ booked \in 0..FailureLimit /\ wrong \in Nat /\ late \in Nat
      /\ \A r \in proofs : r.home
    BY Known
<1>2. q.live /\ trips' \subseteq trips /\ UNCHANGED <<handlers, parcels, tokens, booked, proofs, wrong, late>>
    BY DEF Expire
<1>3. TripsOK'
    BY <1>1, <1>2 DEF TripsOK
<1>4. q.kind \notin {"none", "over"}
    BY <1>1, <1>2 DEF LoginOK
<1>5. \A t \in (tokens' \cup parcels') \ (tokens \cup parcels) :
         t \in Token /\ t.login = l /\ TokenOK(t, q.gate, proofs)
    BY <1>2
<1>6. CASE \E h \in Handlers : handlers[h].login = l
  <2> DEFINE p == [q EXCEPT !.live = FALSE]
  <2>1. logins' = [logins EXCEPT ![l] = p]
      BY <1>6 DEF Expire
  <2>2. p \in Login
    <3> HIDE DEF q
    <3> QED BY <1>1 DEF Login
  <2>3. /\ p.kind = q.kind /\ ~p.live /\ p.gate = q.gate /\ p.primary = q.primary /\ p.legs = q.legs
        /\ p.at = q.at /\ p.done = q.done /\ p.bound = q.bound /\ p.home = q.home
    <3> HIDE DEF q
    <3> QED BY <1>1 DEF Login
  <2> HIDE DEF p
  <2>4. LoginOK(p) /\ LegsOK(p, l, proofs) /\ p.kind # "none" /\ Keeps(logins[l], p)
      BY <1>1, <1>4, <2>3, Same DEF LoginOK, LegsOK
  <2> QED BY <1>2, <1>3, <1>5, <2>1, <2>2, <2>3, <2>4, LoginGoesOn
<1>7. CASE ~ \E h \in Handlers : handlers[h].login = l
  <2> DEFINE p == Over(q)
  <2>1. logins' = [logins EXCEPT ![l] = p]
      BY <1>7 DEF Expire
  <2>2. p \in Login /\ p.kind = "over" /\ ~p.live /\ p.gate = q.gate /\ p.legs = <<>> /\ p.done = <<>> /\ p.at = 1
    <3> HIDE DEF q
    <3>1. <<>> \in Seq(Leg) /\ <<>> \in Seq(Records)
        OBVIOUS
    <3> QED BY <1>1, <3>1 DEF Login, Over, NewLogin
  <2> HIDE DEF p
  <2>3. LoginOK(p) /\ LegsOK(p, l, proofs')
      BY <2>2, NoLegs DEF LoginOK
  <2>4. \A h \in Handlers : handlers'[h] = handlers[h] /\ handlers[h].login # l
      BY <1>2, <1>7
  <2>5. /\ handlers' \in [Handlers -> Handler] /\ proofs \subseteq proofs'
        /\ booked' \in 0..FailureLimit /\ wrong' \in Nat /\ late' \in Nat
        /\ \A r \in proofs' : r.home
      BY <1>1, <1>2
  <2>6. /\ tokens' = tokens /\ parcels' = parcels
        /\ p.kind # "none" /\ p.gate = logins[l].gate
      BY <1>2, <2>2
  <2> QED BY <1>3, <2>1, <2>2, <2>3, <2>4, <2>5, <2>6, OneStep
<1> QED BY <1>6, <1>7

\* The current leg, if there is one.
LEMMA CurrentLeg ==
    ASSUME SInv, NEW l \in Logins, Current(l) # NoRecord
    PROVE  /\ logins[l].at \in 1..Len(logins[l].legs) /\ Len(logins[l].legs) \in Nat
           /\ Current(l) = logins[l].legs[logins[l].at] /\ Current(l) \in Records
<1> DEFINE q == logins[l]
<1>1. q.legs \in Seq(Records) /\ q.at \in Nat /\ q.at >= 1
    BY Known DEF Login, LoginOK
<1>2. q.at <= Len(q.legs) /\ Current(l) = q.legs[q.at]
    BY DEF Current
<1>3. Len(q.legs) \in Nat
    BY <1>1
<1>4. q.at \in 1..Len(q.legs)
    BY <1>1, <1>2, <1>3
<1> HIDE DEF q
<1>5. Current(l) \in Records
    BY <1>1, <1>2, <1>4
<1> QED BY <1>2, <1>3, <1>4, <1>5 DEF q

\* A request that enters a login, as a record; and the login.
LEMMA Entered ==
    ASSUME SInv, NEW h \in Handlers, NEW l \in Logins, NEW hd \in Handler, Enters(h, l, hd)
    PROVE  \E p \in Login : \E r \in Handler :
           /\ logins' = [logins EXCEPT ![l] = p] /\ handlers' = [handlers EXCEPT ![h] = r]
           /\ r.pc = hd.pc /\ r.login = l /\ r.rec = hd.rec /\ r.home = hd.home
           /\ p.kind = logins[l].kind /\ p.gate = logins[l].gate /\ p.legs = logins[l].legs /\ p.at = logins[l].at
           /\ LoginOK(p) /\ LegsOK(p, l, proofs) /\ Keeps(logins[l], p)
<1> DEFINE q == logins[l]
           busy == \E k \in Handlers : handlers[k].login = l
           p == [q EXCEPT !.raced = q.raced \/ busy]
           r == [hd EXCEPT !.login = l]
<1>1. q \in Login /\ LoginOK(q) /\ LegsOK(q, l, proofs)
    BY Known
<1>2. logins' = [logins EXCEPT ![l] = p] /\ handlers' = [handlers EXCEPT ![h] = r]
    BY DEF Enters
<1>3. busy \in BOOLEAN
    OBVIOUS
<1> HIDE DEF q, busy
<1>4. /\ p \in Login
      /\ p.kind = q.kind /\ p.live = q.live /\ p.gate = q.gate /\ p.primary = q.primary /\ p.legs = q.legs
      /\ p.at = q.at /\ p.done = q.done /\ p.bound = q.bound /\ p.home = q.home
    BY <1>1, <1>3 DEF Login
<1>5. r \in Handler /\ r.pc = hd.pc /\ r.login = l /\ r.rec = hd.rec /\ r.home = hd.home
    BY DEF Handler
<1> HIDE DEF p, r
<1>6. LoginOK(p) /\ LegsOK(p, l, proofs) /\ Keeps(q, p)
    BY <1>1, <1>4, SameLogin
<1>7. logins' = [logins EXCEPT ![l] = p] /\ handlers' = [handlers EXCEPT ![h] = r]
    BY <1>2 DEF p, r, q, busy
<1>8. q = logins[l]
    BY DEF q
<1> QED BY <1>4, <1>5, <1>6, <1>7, <1>8

\* handleCallback, up to its call of the token endpoint, keeps the invariant.
LEMMA CallbackKeeps ==
    ASSUME SInv, NEW h \in Handlers, NEW l \in Logins, Callback(h, l)
    PROVE  SInv'
<1>1. /\ logins[l].live /\ logins[l] \in Login /\ LoginOK(logins[l]) /\ LegsOK(logins[l], l, proofs)
      /\ booked \in 0..FailureLimit /\ wrong \in Nat /\ late \in Nat
      /\ logins \in [Logins -> Login]
    BY Known DEF Callback
<1>2. logins[l].kind \notin {"none", "over"}
    BY <1>1 DEF LoginOK
<1>3. PICK t \in trips :
        /\ t.login = l
        /\ trips' = trips \ {t}
        /\ IF t.begun = logins[l].begun /\ t.rec = Current(l)
           THEN \E b \in logins[l].bound :
                Enters(h, l, [Idle EXCEPT !.pc = "exchange", !.rec = t.rec, !.who = t.who, !.home = AtHome(l, b), !.cred = TRUE])
           ELSE UNCHANGED <<logins, handlers>>
    BY DEF Callback
<1>4. UNCHANGED <<parcels, tokens, booked, proofs, wrong, late>>
    BY DEF Callback
<1>5. TripsOK' /\ t.rec \in Records /\ t.who \in People
    BY <1>3, Known DEF TripsOK
<1>6. /\ proofs \subseteq proofs' /\ \A r \in proofs' : r.home
      /\ booked' \in 0..FailureLimit /\ wrong' \in Nat /\ late' \in Nat
      /\ tokens' = tokens /\ parcels' = parcels
    BY <1>1, <1>4, Known
<1>7. CASE t.begun = logins[l].begun /\ t.rec = Current(l)
  <2>1. PICK b \in logins[l].bound :
          Enters(h, l, [Idle EXCEPT !.pc = "exchange", !.rec = t.rec, !.who = t.who, !.home = AtHome(l, b), !.cred = TRUE])
      BY <1>3, <1>7
  <2>2. AtHome(l, b) = TRUE
      BY <1>1 DEF AtHome, LoginOK
  <2> DEFINE hd == [Idle EXCEPT !.pc = "exchange", !.rec = t.rec, !.who = t.who, !.home = AtHome(l, b), !.cred = TRUE]
  <2>3. hd \in Handler /\ hd.pc = "exchange" /\ hd.rec = t.rec /\ hd.home
      BY <1>5, <2>2 DEF Handler, Idle
  <2>4. Enters(h, l, hd)
      BY <2>1
  <2> HIDE DEF hd
  <2>5. PICK p \in Login : \E r \in Handler :
        /\ logins' = [logins EXCEPT ![l] = p] /\ handlers' = [handlers EXCEPT ![h] = r]
        /\ r.pc = hd.pc /\ r.login = l /\ r.rec = hd.rec /\ r.home = hd.home
        /\ p.kind = logins[l].kind /\ p.gate = logins[l].gate /\ p.legs = logins[l].legs /\ p.at = logins[l].at
        /\ LoginOK(p) /\ LegsOK(p, l, proofs) /\ Keeps(logins[l], p)
      BY <2>3, <2>4, Entered
  <2>a. PICK r \in Handler :
        /\ logins' = [logins EXCEPT ![l] = p] /\ handlers' = [handlers EXCEPT ![h] = r]
        /\ r.pc = hd.pc /\ r.login = l /\ r.rec = hd.rec /\ r.home = hd.home
        /\ p.kind = logins[l].kind /\ p.gate = logins[l].gate /\ p.legs = logins[l].legs /\ p.at = logins[l].at
        /\ LoginOK(p) /\ LegsOK(p, l, proofs) /\ Keeps(logins[l], p)
      BY <2>5
  <2>6. HandlerOK(r, p)
      BY <1>2, <1>5, <2>3, <2>a DEF HandlerOK
  <2>7. LegsOK(p, l, proofs') /\ p.kind # "none" /\ r.login \in {l, NoLogin}
      BY <1>2, <1>4, <2>a
  <2> QED BY <1>5, <1>6, <2>a, <2>6, <2>7, RequestMoves
<1>8. CASE ~(t.begun = logins[l].begun /\ t.rec = Current(l))
  <2>1. UNCHANGED <<logins, handlers>>
      BY <1>3, <1>8
  <2>2. logins' = [logins EXCEPT ![l] = logins[l]]
      BY <1>1, <2>1
  <2>3. Keeps(logins[l], logins[l])
      BY Same
  <2> QED BY <1>1, <1>2, <1>4, <1>5, <1>6, <2>1, <2>2, <2>3, LoginGoesOn
<1> QED BY <1>7, <1>8

\* A form, up to its check, keeps it.
LEMMA SubmitKeeps ==
    ASSUME SInv, NEW h \in Handlers, NEW l \in Logins, Submit(h, l)
    PROVE  SInv'
<1>1. /\ logins[l].live /\ logins[l] \in Login /\ LoginOK(logins[l]) /\ LegsOK(logins[l], l, proofs)
      /\ booked \in 0..FailureLimit /\ wrong \in Nat /\ late \in Nat
    BY Known DEF Submit
<1>2. logins[l].kind \notin {"none", "over"}
    BY <1>1 DEF LoginOK
<1>3. PICK who \in IF Current(l) = "ssh" THEN People ELSE {NoOne}, b \in logins[l].bound :
        Enters(h, l, [Idle EXCEPT !.pc = "verify", !.rec = Current(l), !.who = who, !.home = AtHome(l, b)])
    BY DEF Submit
<1>4. UNCHANGED <<trips, parcels, tokens, proofs, wrong, late>> /\ Current(l) \in {"ssh", "key"} /\ Attempt
    BY DEF Submit
<1>5. Current(l) # NoRecord
    BY <1>4, LoginsAssumption
<1>6. /\ logins[l].at \in 1..Len(logins[l].legs) /\ Len(logins[l].legs) \in Nat
      /\ Current(l) = logins[l].legs[logins[l].at] /\ Current(l) \in Records
    BY <1>5, CurrentLeg
<1>7. booked' \in 0..FailureLimit
    BY <1>1, <1>4, LoginsAssumption DEF Attempt
<1>8. /\ proofs \subseteq proofs' /\ \A r \in proofs' : r.home
      /\ wrong' \in Nat /\ late' \in Nat
      /\ tokens' = tokens /\ parcels' = parcels /\ TripsOK'
    BY <1>1, <1>4, Known DEF TripsOK
<1>9. AtHome(l, b) = TRUE
    BY <1>1 DEF AtHome, LoginOK
<1> DEFINE hd == [Idle EXCEPT !.pc = "verify", !.rec = Current(l), !.who = who, !.home = AtHome(l, b)]
<1>10. who \in People \cup {NoOne}
    OBVIOUS
<1>11. hd \in Handler /\ hd.pc = "verify" /\ hd.rec = Current(l) /\ hd.home
    BY <1>6, <1>9, <1>10 DEF Handler, Idle
<1>12. Enters(h, l, hd)
    BY <1>3
<1> HIDE DEF hd
<1>13. PICK p \in Login : \E r \in Handler :
      /\ logins' = [logins EXCEPT ![l] = p] /\ handlers' = [handlers EXCEPT ![h] = r]
      /\ r.pc = hd.pc /\ r.login = l /\ r.rec = hd.rec /\ r.home = hd.home
      /\ p.kind = logins[l].kind /\ p.gate = logins[l].gate /\ p.legs = logins[l].legs /\ p.at = logins[l].at
      /\ LoginOK(p) /\ LegsOK(p, l, proofs) /\ Keeps(logins[l], p)
    BY <1>11, <1>12, Entered
<1>a. PICK r \in Handler :
      /\ logins' = [logins EXCEPT ![l] = p] /\ handlers' = [handlers EXCEPT ![h] = r]
      /\ r.pc = hd.pc /\ r.login = l /\ r.rec = hd.rec /\ r.home = hd.home
      /\ p.kind = logins[l].kind /\ p.gate = logins[l].gate /\ p.legs = logins[l].legs /\ p.at = logins[l].at
      /\ LoginOK(p) /\ LegsOK(p, l, proofs) /\ Keeps(logins[l], p)
    BY <1>13
<1>14. ASSUME r.rec = "ssh", p.gate # "ssh"
       PROVE  \A i \in p.at..Len(p.legs) : p.legs[i] # p.gate
  <2>1. p.legs[p.at] = "ssh" /\ p.at \in 1..Len(p.legs) /\ Len(p.legs) \in Nat
      BY <1>6, <1>11, <1>a, <1>14
  <2>2. \A i \in 2..Len(p.legs) : p.legs[i] # p.gate
      BY <1>a DEF LoginOK
  <2>3. \A i \in p.at..Len(p.legs) : i = p.at \/ i \in 2..Len(p.legs)
      BY <2>1
  <2> QED BY <1>14, <2>1, <2>2, <2>3
<1>15. HandlerOK(r, p)
    BY <1>2, <1>6, <1>11, <1>a, <1>14 DEF HandlerOK
<1>16. LegsOK(p, l, proofs') /\ p.kind # "none" /\ r.login \in {l, NoLogin}
    BY <1>2, <1>4, <1>a
<1> QED BY <1>7, <1>8, <1>a, <1>15, <1>16, RequestMoves

\* A login after consent, and after a leg that was just proved.
AfterConsent(q, legs, done, busy) == [q EXCEPT !.legs = legs, !.done = done, !.raced = q.raced \/ busy]
SetConsent(f, l, legs, done, busy) == [f EXCEPT ![l].legs = legs, ![l].done = done, ![l].raced = @ \/ busy]
AfterLeg(q, leg) == [q EXCEPT !.at = q.at + 1, !.done = Append(q.done, leg)]

\* Consent sets three fields at once.
LEMMA ThreeFields ==
    ASSUME NEW f \in [Logins -> Login], NEW l \in Logins, NEW legs, NEW done, NEW busy
    PROVE  SetConsent(f, l, legs, done, busy) = [f EXCEPT ![l] = AfterConsent(f[l], legs, done, busy)]
BY DEF AfterConsent, SetConsent

\* A leg sets two.
LEMMA TwoFields ==
    ASSUME NEW f \in [Logins -> Login], NEW l \in Logins, NEW leg
    PROVE  [f EXCEPT ![l].at = @ + 1, ![l].done = Append(@, leg)] = [f EXCEPT ![l] = AfterLeg(f[l], leg)]
BY DEF AfterLeg

\* The login after consent.
LEMMA Consented ==
    ASSUME NEW q \in Login, NEW legs \in Seq(Records), NEW done \in Seq(Leg), NEW busy \in BOOLEAN
    PROVE  LET p == AfterConsent(q, legs, done, busy) IN
           /\ p \in Login /\ p.legs = legs /\ p.done = done
           /\ p.kind = q.kind /\ p.live = q.live /\ p.gate = q.gate /\ p.primary = q.primary
           /\ p.at = q.at /\ p.bound = q.bound /\ p.home = q.home /\ p.sessions = q.sessions
           /\ p.raced = (q.raced \/ busy)
BY DEF Login, AfterConsent

\* handleAuthorizeContinue keeps the invariant.
LEMMA ContinueKeeps ==
    ASSUME SInv, NEW h \in Handlers, NEW l \in Logins, Continue(h, l)
    PROVE  SInv'
<1> DEFINE q == logins[l]
           busy == \E k \in Handlers : handlers[k].login = l
<1>1. PICK presented \in Presented : \E c \in Covered(logins[l].legs, logins[l].gate, presented) :
        /\ logins' = [logins EXCEPT ![l].legs = c.todo, ![l].done = c.done,
                                    ![l].raced = @ \/ \E k \in Handlers : handlers[k].login = l]
        /\ handlers' = [handlers EXCEPT ![h] = [Idle EXCEPT !.login = l, !.pc = IF c.todo = <<>> THEN "finish" ELSE "begin"]]
    BY DEF Continue
<1>2. PICK c \in Covered(q.legs, q.gate, presented) :
        /\ logins' = [logins EXCEPT ![l].legs = c.todo, ![l].done = c.done,
                                    ![l].raced = @ \/ \E k \in Handlers : handlers[k].login = l]
        /\ handlers' = [handlers EXCEPT ![h] = [Idle EXCEPT !.login = l, !.pc = IF c.todo = <<>> THEN "finish" ELSE "begin"]]
    BY <1>1
<1>3. /\ q.live /\ q.kind = "mcp" /\ q.at = 1
      /\ UNCHANGED <<trips, parcels, tokens, booked, proofs, wrong, late>>
    BY DEF Continue
<1>4. /\ q \in Login /\ LoginOK(q) /\ LegsOK(q, l, proofs) /\ logins \in [Logins -> Login]
      /\ TripsOK /\ booked \in 0..FailureLimit /\ wrong \in Nat /\ late \in Nat /\ \A r \in proofs : r.home
    BY Known
<1>5. q.legs \in Seq(Records) /\ Len(q.legs) \in Nat /\ DOMAIN q.legs = 1..Len(q.legs)
    BY <1>4 DEF Login
<1>6. presented \subseteq tokens /\ presented \in SUBSET Token
    BY PresentedTokens, Known
<1>7. /\ c.done \in Seq(Leg) /\ c.todo \in Seq(Records)
      /\ \A i \in DOMAIN c.done : \E t \in presented :
           /\ c.done[i].reused
           /\ c.done[i].rec \in t.bound
           /\ c.done[i].rec = q.gate => t.from = q.gate /\ c.done[i].who = t.who
      /\ \A i \in DOMAIN c.todo : \E j \in DOMAIN q.legs : c.todo[i] = q.legs[j] /\ i <= j
  <2>1. \E legs, gate : legs = q.legs /\ gate = q.gate
      OBVIOUS
  <2>2. PICK legs, gate : legs = q.legs /\ gate = q.gate
      BY <2>1
  <2>3. legs \in Seq(Records) /\ c \in Covered(legs, gate, presented) /\ presented \in SUBSET Token
      BY <1>5, <1>6, <2>2
  <2>4. /\ c.done \in Seq(Leg) /\ c.todo \in Seq(Records)
        /\ \A i \in DOMAIN c.done : \E t \in presented :
             /\ c.done[i].reused
             /\ c.done[i].rec \in t.bound
             /\ c.done[i].rec = gate => t.from = gate /\ c.done[i].who = t.who
        /\ \A i \in DOMAIN c.todo : \E j \in DOMAIN legs : c.todo[i] = legs[j] /\ i <= j
      BY <2>3, LegsAreCovered
  <2> QED BY <2>2, <2>4
<1> DEFINE p == AfterConsent(q, c.todo, c.done, busy)
           r == [Idle EXCEPT !.login = l, !.pc = IF c.todo = <<>> THEN "finish" ELSE "begin"]
<1>8. logins' = [logins EXCEPT ![l] = p]
  <2> DEFINE todo == c.todo
             done == c.done
  <2>1. logins' = SetConsent(logins, l, todo, done, busy)
      BY <1>2 DEF SetConsent
  <2> HIDE DEF todo, done, busy
  <2>2. logins' = [logins EXCEPT ![l] = AfterConsent(logins[l], todo, done, busy)]
      BY <1>4, <2>1, ThreeFields
  <2> QED BY <2>2 DEF todo, done
<1>9. handlers' = [handlers EXCEPT ![h] = r]
    BY <1>2
<1>10. busy \in BOOLEAN
    OBVIOUS
<1>11. /\ p \in Login /\ p.legs = c.todo /\ p.done = c.done
       /\ p.kind = q.kind /\ p.live = q.live /\ p.gate = q.gate /\ p.primary = q.primary
       /\ p.at = q.at /\ p.bound = q.bound /\ p.home = q.home
  <2> HIDE DEF q, busy
  <2>1. q \in Login /\ c.todo \in Seq(Records) /\ c.done \in Seq(Leg)
      BY <1>4, <1>7
  <2> QED BY <2>1, <1>10, Consented
<1>12. r \in Handler /\ r.login = l /\ r.pc \in {"finish", "begin"}
    BY DEF Idle, Handler
<1> HIDE DEF p, r
<1>13. Len(c.todo) \in Nat /\ DOMAIN c.todo = 1..Len(c.todo)
    BY <1>7
<1>14. LoginOK(p)
  <2>1. \A j \in 2..Len(q.legs) : q.legs[j] # q.gate
      BY <1>4 DEF LoginOK
  <2>2. ASSUME NEW i \in 2..Len(c.todo)
        PROVE  c.todo[i] # q.gate
    <3>1. i \in DOMAIN c.todo
        BY <1>13
    <3>2. PICK j \in DOMAIN q.legs : c.todo[i] = q.legs[j] /\ i <= j
        BY <1>7, <3>1
    <3>3. j \in 2..Len(q.legs)
        BY <1>5, <3>2
    <3> QED BY <2>1, <3>2, <3>3
  <2> QED BY <1>3, <1>4, <1>11, <2>2 DEF LoginOK
<1>15. LegsOK(p, l, proofs')
  <2>1. \A t \in presented : Proves(proofs, t.from, t.who)
      BY <1>6 DEF SInv, TokenOK
  <2> QED BY <1>3, <1>7, <1>11, <2>1 DEF LegsOK
<1>16. Keeps(logins[l], p)
  <2>1. ASSUME \A i \in 1..Len(q.legs) : q.legs[i] # q.gate, NEW i \in 1..Len(c.todo)
        PROVE  c.todo[i] # q.gate
      BY <1>5, <1>7, <1>13, <2>1
  <2> QED BY <1>3, <1>11, <2>1 DEF Keeps
<1>17. HandlerOK(r, p)
    BY <1>3, <1>11, <1>12 DEF HandlerOK
<1>18. /\ tokens' = tokens /\ parcels' = parcels /\ proofs \subseteq proofs' /\ \A s \in proofs' : s.home
       /\ TripsOK' /\ booked' \in 0..FailureLimit /\ wrong' \in Nat /\ late' \in Nat
       /\ p.kind # "none" /\ r.login \in {l, NoLogin}
    BY <1>3, <1>4, <1>11, <1>12 DEF TripsOK
<1> QED BY <1>8, <1>9, <1>11, <1>12, <1>14, <1>15, <1>16, <1>17, <1>18, RequestMoves

\* A leg that was just proved.
LEMMA LegDoneNow ==
    ASSUME NEW q \in Login, NEW leg \in Leg
    PROVE  LET p == AfterLeg(q, leg) IN
           /\ p \in Login /\ p.at = q.at + 1 /\ p.done = Append(q.done, leg) /\ p.legs = q.legs
           /\ p.kind = q.kind /\ p.live = q.live /\ p.gate = q.gate /\ p.primary = q.primary
           /\ p.bound = q.bound /\ p.home = q.home /\ p.sessions = q.sessions /\ p.raced = q.raced
<1>1. Append(q.done, leg) \in Seq(Leg) /\ q.at + 1 \in Nat
    BY DEF Login
<1> QED BY <1>1 DEF Login, AfterLeg

\* completeLeg keeps the invariant, when the record it clears was proved if
\* that is the gate.
LEMMA CompleteKeeps ==
    ASSUME SInv, NEW h \in Handlers, handlers[h].pc \in {"exchange", "verify"}, NEW rec \in Records,
           CompleteLeg(h, rec), proofs' = proofs \cup {Proof(handlers[h])},
           rec = logins[handlers[h].login].gate => handlers[h].rec = rec,
           UNCHANGED <<trips, parcels, tokens, wrong>>, booked' \in 0..FailureLimit, late' \in Nat
    PROVE  SInv'
<1> DEFINE l == handlers[h].login
           q == logins[l]
           hd == handlers[h]
           leg == [rec |-> rec, who |-> hd.who, cred |-> hd.cred, reused |-> FALSE]
           p == AfterLeg(q, leg)
           r == [Idle EXCEPT !.login = l, !.pc = IF q.at < Len(q.legs) THEN "begin" ELSE "finish"]
           pr == Proof(hd)
<1>1. /\ handlers \in [Handlers -> Handler] /\ logins \in [Logins -> Login]
      /\ hd \in Handler /\ HandlerOK(hd, q)
      /\ TripsOK /\ booked \in 0..FailureLimit /\ wrong \in Nat /\ late \in Nat /\ \A s \in proofs : s.home
    BY Known
<1>2. l \in Logins /\ q.kind \notin {"none", "over"} /\ hd.home
    BY <1>1 DEF HandlerOK
<1>3. q \in Login /\ LoginOK(q) /\ LegsOK(q, l, proofs)
    BY <1>2, Known
<1>4. logins' = [logins EXCEPT ![l] = p]
    BY <1>1, <1>2, TwoFields DEF CompleteLeg
<1>5. handlers' = [handlers EXCEPT ![h] = r]
    BY DEF CompleteLeg
<1>6. leg \in Leg /\ leg.rec = rec /\ leg.who = hd.who /\ ~leg.reused
    BY <1>1 DEF Handler, Leg
<1>7. r \in Handler /\ r.login = l /\ r.pc \in {"finish", "begin"}
    BY <1>2 DEF Idle, Handler
<1>8. pr.login = l /\ pr.rec = hd.rec /\ pr.who = hd.who /\ pr.home /\ proofs' = proofs \cup {pr}
    BY <1>2 DEF Proof
<1>g. rec = q.gate => hd.rec = rec
    OBVIOUS
<1>u. UNCHANGED <<trips, parcels, tokens, wrong>> /\ logins[l] = q
    OBVIOUS
<1> HIDE DEF l, q, hd, leg, r, pr
<1>9. /\ p \in Login /\ p.at = q.at + 1 /\ p.done = Append(q.done, leg) /\ p.legs = q.legs
      /\ p.kind = q.kind /\ p.live = q.live /\ p.gate = q.gate /\ p.primary = q.primary
      /\ p.bound = q.bound /\ p.home = q.home
    BY <1>3, <1>6, LegDoneNow
<1> HIDE DEF p
<1>10. q.at \in Nat /\ q.at >= 1 /\ q.done \in Seq(Leg)
    BY <1>3 DEF Login, LoginOK
<1>11. LoginOK(p)
    BY <1>3, <1>9, <1>10 DEF LoginOK
<1>12. proofs \subseteq proofs' /\ \A s \in proofs' : s.home
    BY <1>1, <1>8
<1>13. LegsOK(p, l, proofs')
  <2>1. LegsOK(q, l, proofs')
      BY <1>3, <1>12, ProofsStay DEF LegsOK
  <2>2. /\ \A i \in DOMAIN p.done : i \in DOMAIN q.done \/ p.done[i] = leg
        /\ \A i \in DOMAIN q.done : p.done[i] = q.done[i]
      BY <1>6, <1>9, <1>10
  <2>3. leg.rec = q.gate => Proves(proofs', q.gate, leg.who) /\ ProvesIn(proofs', l, q.gate, leg.who)
      BY <1>6, <1>8, <1>g DEF Proves, ProvesIn
  <2>4. ASSUME NEW i \in DOMAIN p.done, p.done[i].rec = p.gate
        PROVE  /\ Proves(proofs', p.gate, p.done[i].who)
               /\ ~p.done[i].reused => ProvesIn(proofs', l, p.gate, p.done[i].who)
    <3>1. CASE i \in DOMAIN q.done
        BY <1>9, <2>1, <2>2, <2>4, <3>1 DEF LegsOK
    <3>2. CASE p.done[i] = leg
        BY <1>9, <2>3, <2>4, <3>2
    <3> QED BY <2>2, <3>1, <3>2
  <2> QED BY <2>4 DEF LegsOK
<1>14. Keeps(q, p)
  <2>1. Len(q.legs) \in Nat
      BY <1>3 DEF Login
  <2>2. \A i \in p.at..Len(p.legs) : i \in q.at..Len(q.legs)
      BY <1>9, <1>10, <2>1
  <2> QED BY <1>9, <2>2 DEF Keeps
<1>15. HandlerOK(r, p)
    BY <1>2, <1>7, <1>9 DEF HandlerOK
<1>16. TripsOK' /\ wrong' \in Nat /\ tokens' = tokens /\ parcels' = parcels /\ p.kind # "none" /\ r.login \in {l, NoLogin}
    BY <1>1, <1>2, <1>7, <1>9, <1>u DEF TripsOK
<1> QED BY <1>2, <1>4, <1>5, <1>7, <1>9, <1>11, <1>12, <1>13, <1>14, <1>15, <1>16, <1>u, RequestMoves

\* A request that has done its part.
LEMMA IdleIsOK ==
    Idle \in Handler /\ Idle.login = NoLogin /\ Idle.pc = "idle" /\ \A p : HandlerOK(Idle, p)
BY DEF Idle, Handler, HandlerOK

\* A request gives up, with its login as it is.
LEMMA GivesUp ==
    ASSUME SInv, NEW h \in Handlers, handlers[h].pc # "idle", handlers' = [handlers EXCEPT ![h] = Idle],
           UNCHANGED <<logins, trips, tokens>>, proofs \subseteq proofs', \A q \in proofs' : q.home,
           \A t \in parcels' \ (tokens \cup parcels) :
             t \in Token /\ t.login = handlers[h].login /\ TokenOK(t, logins[handlers[h].login].gate, proofs'),
           booked' \in 0..FailureLimit, wrong' \in Nat, late' \in Nat
    PROVE  SInv'
<1> DEFINE l == handlers[h].login
           q == logins[l]
<1>1. /\ HandlerOK(handlers[h], q) /\ TripsOK /\ logins \in [Logins -> Login]
    BY Known
<1>2. l \in Logins /\ q.kind \notin {"none", "over"}
    BY <1>1 DEF HandlerOK
<1>3. q \in Login /\ LoginOK(q) /\ LegsOK(q, l, proofs)
    BY <1>2, Known
<1>4. logins' = [logins EXCEPT ![l] = q] /\ TripsOK'
    BY <1>1, <1>2 DEF TripsOK
<1>5. /\ Idle \in Handler /\ HandlerOK(Idle, q) /\ Idle.login \in {l, NoLogin} /\ Keeps(logins[l], q) /\ q.kind # "none"
    BY <1>2, IdleIsOK, Same
<1>6. LegsOK(q, l, proofs')
    BY <1>3, ProofsStay DEF LegsOK
<1>7. \A t \in (tokens' \cup parcels') \ (tokens \cup parcels) :
        t \in Token /\ t.login = l /\ TokenOK(t, q.gate, proofs')
    OBVIOUS
<1> HIDE DEF q, l
<1> QED BY <1>2, <1>3, <1>4, <1>5, <1>6, <1>7, RequestMoves

\* The provider answers, or fails to.
LEMMA ExchangeKeeps ==
    ASSUME SInv, NEW h \in Handlers, Exchange(h)
    PROVE  SInv'
<1>1. /\ handlers[h].pc = "exchange" /\ UNCHANGED <<trips, parcels, tokens, booked, wrong, late>>
      /\ \/ CompleteLeg(h, handlers[h].rec) /\ proofs' = proofs \cup {Proof(handlers[h])}
         \/ handlers' = [handlers EXCEPT ![h] = Idle] /\ UNCHANGED <<logins, proofs>>
    BY DEF Exchange
<1>2. /\ booked' \in 0..FailureLimit /\ wrong' \in Nat /\ late' \in Nat
      /\ HandlerOK(handlers[h], logins[handlers[h].login]) /\ \A q \in proofs : q.home
    BY <1>1, Known
<1>3. CASE CompleteLeg(h, handlers[h].rec) /\ proofs' = proofs \cup {Proof(handlers[h])}
  <2>1. handlers[h].rec \in Records
      BY <1>1, <1>2 DEF HandlerOK
  <2> QED BY <1>1, <1>2, <1>3, <2>1, CompleteKeeps
<1>4. CASE handlers' = [handlers EXCEPT ![h] = Idle] /\ UNCHANGED <<logins, proofs>>
    BY <1>1, <1>2, <1>4, GivesUp
<1> QED BY <1>1, <1>3, <1>4

\* A wrong credential.
LEMMA WrongKeeps ==
    ASSUME SInv, NEW h \in Handlers, WrongCredential(h)
    PROVE  SInv'
<1>1. /\ handlers[h].pc = "verify" /\ handlers' = [handlers EXCEPT ![h] = Idle]
      /\ UNCHANGED <<logins, trips, parcels, tokens, booked, proofs, late>>
      /\ wrong' = IF handlers[h].old THEN wrong ELSE wrong + 1
    BY DEF WrongCredential
<1>2. /\ booked' \in 0..FailureLimit /\ wrong' \in Nat /\ late' \in Nat /\ \A q \in proofs' : q.home
    BY <1>1, Known
<1>3. handlers[h].pc # "idle" /\ proofs \subseteq proofs' /\ \A t \in parcels' \ (tokens \cup parcels) : FALSE
    BY <1>1
<1> QED BY <1>1, <1>2, <1>3, GivesUp

\* The right one: the passphrase form clears the leg that is current by now.
LEMMA RightKeeps ==
    ASSUME SInv, NEW h \in Handlers, RightCredential(h)
    PROVE  SInv'
<1> DEFINE hd == handlers[h]
           l == hd.login
           rec == IF hd.rec = "ssh" THEN Current(l) ELSE hd.rec
           pr == Proof(hd)
<1>1. /\ hd.pc = "verify" /\ UNCHANGED <<trips, parcels, tokens, wrong>>
      /\ booked' = IF booked > 0 THEN booked - 1 ELSE 0
      /\ late' = IF hd.old /\ booked > 0 THEN late + 1 ELSE late
      /\ proofs' = proofs \cup {Proof(hd)}
      /\ IF rec = NoRecord THEN handlers' = [handlers EXCEPT ![h] = Idle] /\ UNCHANGED logins ELSE CompleteLeg(h, rec)
    BY DEF RightCredential
<1>2. /\ booked \in 0..FailureLimit /\ wrong \in Nat /\ late \in Nat
      /\ HandlerOK(hd, logins[l]) /\ \A q \in proofs : q.home
    BY Known
<1>3. hd.rec \in Records /\ hd.home /\ l \in Logins
    BY <1>1, <1>2 DEF HandlerOK
<1>4. booked' \in 0..FailureLimit
    BY <1>1, <1>2, LoginsAssumption
<1>5. late' \in Nat
    BY <1>1, <1>2
<1>6. CASE rec = NoRecord
  <2>1. handlers' = [handlers EXCEPT ![h] = Idle] /\ UNCHANGED <<logins, trips, tokens>>
      BY <1>1, <1>6
  <2>2. pr.home /\ proofs' = proofs \cup {pr}
      BY <1>1, <1>3 DEF Proof
  <2> HIDE DEF pr
  <2>3. handlers[h].pc # "idle" /\ proofs \subseteq proofs' /\ \A q \in proofs' : q.home
      BY <1>1, <1>2, <2>2
  <2>4. wrong' \in Nat /\ \A t \in parcels' \ (tokens \cup parcels) : FALSE
      BY <1>1, <1>2
  <2> QED BY <1>4, <1>5, <2>1, <2>3, <2>4, GivesUp
<1>7. CASE rec # NoRecord
  <2>1. CompleteLeg(h, rec)
      BY <1>1, <1>7
  <2>2. CASE hd.rec # "ssh"
    <3>1. rec = hd.rec
        BY <2>2
    <3> HIDE DEF rec
    <3> QED BY <1>1, <1>3, <1>4, <1>5, <2>1, <3>1, CompleteKeeps
  <2>3. CASE hd.rec = "ssh"
    <3>1. rec = Current(l)
        BY <2>3
    <3>2. /\ logins[l].at \in 1..Len(logins[l].legs) /\ Len(logins[l].legs) \in Nat
          /\ Current(l) = logins[l].legs[logins[l].at] /\ Current(l) \in Records
        BY <1>3, <1>7, <3>1, CurrentLeg
    <3>3. rec = logins[l].gate => hd.rec = rec
      <4>1. logins[l].at \in logins[l].at..Len(logins[l].legs)
          BY <3>2
      <4> QED BY <1>1, <1>2, <2>3, <3>1, <3>2, <4>1 DEF HandlerOK
    <3>4. rec \in Records
        BY <3>1, <3>2
    <3> HIDE DEF rec
    <3> QED BY <1>1, <1>4, <1>5, <2>1, <3>3, <3>4, CompleteKeeps
  <2> QED BY <2>2, <2>3
<1> QED BY <1>6, <1>7

\* beginLeg keeps it.
LEMMA BeginKeeps ==
    ASSUME SInv, NEW h \in Handlers, BeginLeg(h)
    PROVE  SInv'
<1> DEFINE l == handlers[h].login
           q == logins[l]
           p == [q EXCEPT !.begun = q.begun + 1, !.live = TRUE]
<1>1. /\ handlers[h].pc = "begin" /\ handlers' = [handlers EXCEPT ![h] = Idle]
      /\ UNCHANGED <<trips, parcels, tokens, booked, proofs, wrong, late>>
    BY DEF BeginLeg
<1>2. /\ HandlerOK(handlers[h], q) /\ TripsOK /\ logins \in [Logins -> Login]
      /\ booked \in 0..FailureLimit /\ wrong \in Nat /\ late \in Nat /\ \A s \in proofs : s.home
    BY Known
<1>3. l \in Logins /\ q.kind \notin {"none", "over"}
    BY <1>1, <1>2 DEF HandlerOK
<1>4. q \in Login /\ LoginOK(q) /\ LegsOK(q, l, proofs)
    BY <1>3, Known
<1>5. /\ booked' \in 0..FailureLimit /\ wrong' \in Nat /\ late' \in Nat /\ \A s \in proofs' : s.home
      /\ proofs \subseteq proofs' /\ TripsOK' /\ tokens' = tokens /\ parcels' = parcels
    BY <1>1, <1>2 DEF TripsOK
<1>6. CASE UNCHANGED logins
    BY <1>1, <1>5, <1>6, GivesUp
<1>7. CASE ~UNCHANGED logins
  <2>1. logins' = [logins EXCEPT ![l] = p]
    <3>1. logins' = [logins EXCEPT ![l].begun = @ + 1, ![l].live = TRUE]
        BY <1>7 DEF BeginLeg
    <3> QED BY <1>2, <1>3, <3>1
  <2>u. logins[l] = q
      OBVIOUS
  <2> HIDE DEF q
  <2>b. q.begun + 1 \in Nat
      BY <1>4 DEF Login
  <2>2. /\ p \in Login /\ p.live
        /\ p.kind = q.kind /\ p.gate = q.gate /\ p.primary = q.primary /\ p.legs = q.legs
        /\ p.at = q.at /\ p.done = q.done /\ p.bound = q.bound /\ p.home = q.home
      BY <1>4, <2>b DEF Login
  <2> HIDE DEF p, l
  <2>3. LoginOK(p) /\ LegsOK(p, l, proofs') /\ Keeps(q, p) /\ p.kind # "none"
      BY <1>1, <1>3, <1>4, <2>2, Same DEF LoginOK, LegsOK
  <2>4. Idle \in Handler /\ HandlerOK(Idle, p) /\ Idle.login \in {l, NoLogin}
      BY IdleIsOK
  <2> QED BY <1>1, <1>3, <1>5, <2>1, <2>2, <2>3, <2>4, <2>u, RequestMoves
<1> QED BY <1>6, <1>7

\* A session of a login.
LEMMA OneMoreSession ==
    ASSUME NEW q \in Login
    PROVE  LET p == [q EXCEPT !.sessions = q.sessions + 1] IN
           /\ p \in Login /\ p.sessions = q.sessions + 1
           /\ p.kind = q.kind /\ p.live = q.live /\ p.gate = q.gate /\ p.primary = q.primary /\ p.legs = q.legs
           /\ p.at = q.at /\ p.done = q.done /\ p.bound = q.bound /\ p.home = q.home /\ p.raced = q.raced
<1>1. q.sessions + 1 \in Nat
    BY DEF Login
<1> QED BY <1>1 DEF Login

\* finishLogin keeps it.
LEMMA FinishKeeps ==
    ASSUME SInv, NEW h \in Handlers, Finish(h)
    PROVE  SInv'
<1> DEFINE l == handlers[h].login
           q == logins[l]
           t == MintForLegs(l)
<1>1. /\ handlers[h].pc = "finish" /\ handlers' = [handlers EXCEPT ![h] = Idle]
      /\ UNCHANGED <<trips, booked, proofs, wrong, late>>
    BY DEF Finish
<1>2. /\ HandlerOK(handlers[h], q) /\ TripsOK /\ logins \in [Logins -> Login]
      /\ booked \in 0..FailureLimit /\ wrong \in Nat /\ late \in Nat /\ \A s \in proofs : s.home
    BY Known
<1>3. l \in Logins /\ q.kind \notin {"none", "over"}
    BY <1>1, <1>2 DEF HandlerOK
<1>4. q \in Login /\ LoginOK(q) /\ LegsOK(q, l, proofs)
    BY <1>3, Known
<1>5. /\ booked' \in 0..FailureLimit /\ wrong' \in Nat /\ late' \in Nat /\ \A s \in proofs' : s.home
      /\ proofs \subseteq proofs' /\ TripsOK'
    BY <1>1, <1>2 DEF TripsOK
<1>6. CASE UNCHANGED <<logins, tokens, parcels>>
  <2>1. UNCHANGED <<logins, trips, tokens>> /\ handlers[h].pc # "idle" /\ \A s \in parcels' \ (tokens \cup parcels) : FALSE
      BY <1>1, <1>6
  <2> QED BY <1>1, <1>5, <2>1, GivesUp
<1>7. CASE /\ \E i \in 1..Len(logins[l].done) : logins[l].done[i].rec = logins[l].gate
           /\ IF logins[l].kind \in {"mcp", "host"}
              THEN parcels' = parcels \cup {t} /\ UNCHANGED <<logins, tokens>>
              ELSE HandOut(l, t) /\ UNCHANGED parcels
  <2>1. t \in Token /\ t.login = l /\ TokenOK(t, q.gate, proofs)
      BY <1>3, <1>7, MintOK
  <2> HIDE DEF t
  <2>2. CASE logins[l].kind \in {"mcp", "host"}
    <3>1. parcels' = parcels \cup {t} /\ UNCHANGED <<logins, tokens>>
        BY <1>7, <2>2
    <3>2. \A s \in parcels' \ (tokens \cup parcels) : s \in Token /\ s.login = l /\ TokenOK(s, q.gate, proofs')
        BY <1>1, <2>1, <3>1
    <3>3. UNCHANGED <<logins, trips, tokens>> /\ handlers[h].pc # "idle"
        BY <1>1, <3>1
    <3> QED BY <1>1, <1>5, <3>2, <3>3, GivesUp
  <2>3. CASE logins[l].kind \notin {"mcp", "host"}
    <3> DEFINE p == [q EXCEPT !.sessions = q.sessions + 1]
    <3>1. /\ logins' = [logins EXCEPT ![l] = p] /\ tokens' = tokens \cup {t} /\ parcels' = parcels
        BY <1>7, <2>3 DEF HandOut
    <3>u. logins[l] = q
        OBVIOUS
    <3> HIDE DEF q
    <3>2. /\ p \in Login
          /\ p.kind = q.kind /\ p.live = q.live /\ p.gate = q.gate /\ p.primary = q.primary /\ p.legs = q.legs
          /\ p.at = q.at /\ p.done = q.done /\ p.bound = q.bound /\ p.home = q.home
        BY <1>4, OneMoreSession
    <3> HIDE DEF p, l
    <3>3. LoginOK(p) /\ LegsOK(p, l, proofs') /\ Keeps(q, p) /\ p.kind # "none"
        BY <1>1, <1>3, <1>4, <3>2, SameLogin
    <3>4. Idle \in Handler /\ HandlerOK(Idle, p) /\ Idle.login \in {l, NoLogin}
        BY IdleIsOK
    <3>5. \A s \in (tokens' \cup parcels') \ (tokens \cup parcels) :
            s \in Token /\ s.login = l /\ TokenOK(s, p.gate, proofs')
        BY <1>1, <2>1, <3>1, <3>2
    <3> QED BY <1>1, <1>3, <1>5, <3>1, <3>2, <3>3, <3>4, <3>5, <3>u, RequestMoves
  <2> QED BY <2>2, <2>3
<1> QED BY <1>6, <1>7 DEF Finish

\* Somebody comes for a code or a ticket.
LEMMA CollectKeeps ==
    ASSUME SInv, Collect
    PROVE  SInv'
<1>1. PICK t \in parcels :
        /\ parcels' = parcels \ {t} /\ HandOut(t.login, t)
        /\ UNCHANGED <<handlers, trips, booked, proofs, wrong, late>>
    BY DEF Collect
<1> DEFINE l == t.login
           q == logins[l]
           p == [q EXCEPT !.sessions = q.sessions + 1]
<1>2. l \in Logins /\ TripsOK
    BY Known DEF Token
<1>3. q \in Login /\ LoginOK(q) /\ LegsOK(q, l, proofs)
    BY <1>2, Known
<1>4. logins' = [logins EXCEPT ![l] = p] /\ tokens' = tokens \cup {t}
    BY <1>1 DEF HandOut
<1>5. q.kind # "none"
    BY DEF SInv
<1>u. logins[l] = q
    OBVIOUS
<1> HIDE DEF q
<1>6. /\ p \in Login
      /\ p.kind = q.kind /\ p.live = q.live /\ p.gate = q.gate /\ p.primary = q.primary /\ p.legs = q.legs
      /\ p.at = q.at /\ p.done = q.done /\ p.bound = q.bound /\ p.home = q.home
    BY <1>3, OneMoreSession
<1> HIDE DEF p, l
<1>7. LoginOK(p) /\ LegsOK(p, l, proofs) /\ Keeps(q, p) /\ p.kind # "none"
    BY <1>3, <1>5, <1>6, SameLogin
<1>8. /\ TripsOK' /\ UNCHANGED <<handlers, booked, proofs, wrong, late>>
      /\ \A s \in (tokens' \cup parcels') \ (tokens \cup parcels) : FALSE
    BY <1>1, <1>2, <1>4 DEF TripsOK
<1> QED BY <1>2, <1>4, <1>6, <1>7, <1>8, <1>u, LoginGoesOn

\* Or is refused.
LEMMA RefuseKeeps ==
    ASSUME SInv, Refuse
    PROVE  SInv'
<1>1. PICK t \in parcels :
        /\ parcels' = parcels \ {t}
        /\ UNCHANGED <<logins, handlers, trips, tokens, booked, proofs, wrong, late>>
    BY DEF Refuse
<1> DEFINE l == t.login
           q == logins[l]
<1>2. l \in Logins /\ TripsOK /\ logins \in [Logins -> Login]
    BY Known DEF Token
<1>3. q \in Login /\ LoginOK(q) /\ LegsOK(q, l, proofs)
    BY <1>2, Known
<1>4. logins' = [logins EXCEPT ![l] = q]
    BY <1>1, <1>2
<1>5. q.kind # "none" /\ Keeps(logins[l], q)
    BY Same DEF SInv
<1>8. /\ TripsOK' /\ UNCHANGED <<handlers, booked, proofs, wrong, late>>
      /\ \A s \in (tokens' \cup parcels') \ (tokens \cup parcels) : FALSE
    BY <1>1, <1>2 DEF TripsOK
<1> HIDE DEF l, q
<1> QED BY <1>2, <1>3, <1>4, <1>5, <1>8, LoginGoesOn

\* A new window of the counter keeps the invariant.
LEMMA RollKeeps ==
    ASSUME SInv, RollWindow
    PROVE  SInv'
<1>1. /\ handlers' = [h \in Handlers |-> [handlers[h] EXCEPT !.old = @ \/ handlers[h].pc = "verify"]]
      /\ booked' = 0 /\ wrong' = 0 /\ late' = 0
      /\ UNCHANGED <<logins, trips, parcels, tokens, proofs>>
    BY DEF RollWindow
<1>2. ASSUME NEW h \in Handlers
      PROVE  /\ handlers'[h] \in Handler
             /\ handlers'[h].pc = handlers[h].pc /\ handlers'[h].login = handlers[h].login
             /\ handlers'[h].rec = handlers[h].rec /\ handlers'[h].home = handlers[h].home
  <2>1. handlers[h] \in Handler
      BY Known
  <2>2. handlers'[h] = [handlers[h] EXCEPT !.old = handlers[h].old \/ handlers[h].pc = "verify"]
      BY <1>1
  <2>3. (handlers[h].old \/ handlers[h].pc = "verify") \in BOOLEAN
      BY <2>1 DEF Handler
  <2> QED BY <2>1, <2>2, <2>3 DEF Handler
<1>3. handlers' \in [Handlers -> Handler]
    BY <1>1, <1>2
<1>4. TypeOK'
    BY <1>1, <1>3, LoginsAssumption DEF SInv, TypeOK
<1>5. \A h \in Handlers : HandlerOK(handlers'[h], logins'[handlers'[h].login])
    BY <1>1, <1>2, Known DEF HandlerOK
<1>6. /\ logins' = logins /\ proofs' = proofs /\ tokens' = tokens /\ parcels' = parcels
    BY <1>1
<1> QED BY <1>4, <1>5, <1>6 DEF SInv

\* What is left of a login.
LEMMA OverIsOver ==
    ASSUME NEW q \in Login
    PROVE  LET p == Over(q) IN
           /\ p \in Login /\ p.kind = "over" /\ ~p.live /\ p.gate = q.gate /\ p.legs = <<>> /\ p.done = <<>>
           /\ p.at = 1 /\ p.raced = q.raced /\ p.sessions = IF q.raced THEN 0 ELSE q.sessions
<1>1. <<>> \in Seq(Leg) /\ <<>> \in Seq(Records)
    OBVIOUS
<1>2. q.raced \in BOOLEAN /\ q.sessions \in Nat /\ q.gate \in Records \cup {NoRecord}
    BY DEF Login
<1> QED BY <1>1, <1>2 DEF Login, Over, NewLogin

\* A restart keeps it.
LEMMA RestartKeeps ==
    ASSUME SInv, Restart
    PROVE  SInv'
<1>1. /\ logins' = [l \in Logins |-> Over(logins[l])] /\ handlers' = [h \in Handlers |-> Idle]
      /\ trips' = {} /\ parcels' = {} /\ booked' = 0 /\ wrong' = 0 /\ late' = 0
      /\ UNCHANGED <<tokens, proofs>>
    BY DEF Restart
<1>2. ASSUME NEW l \in Logins
      PROVE  /\ logins'[l] \in Login /\ logins'[l].kind = "over" /\ ~logins'[l].live
             /\ logins'[l].gate = logins[l].gate /\ logins'[l].legs = <<>> /\ logins'[l].done = <<>>
             /\ logins'[l].at = 1
    BY <1>1, Known, OverIsOver
<1>3. TypeOK'
  <2>1. logins' \in [Logins -> Login]
      BY <1>1, <1>2
  <2>2. handlers' \in [Handlers -> Handler]
      BY <1>1, IdleIsOK
  <2> QED BY <1>1, <2>1, <2>2, Known, LoginsAssumption DEF TypeOK
<1>4. \A l \in Logins : LoginOK(logins'[l]) /\ LegsOK(logins'[l], l, proofs')
  <2> TAKE l \in Logins
  <2>1. LegsOK(logins'[l], l, proofs')
      BY <1>2, NoLegs
  <2> QED BY <1>2, <2>1 DEF LoginOK
<1>5. \A h \in Handlers : HandlerOK(handlers'[h], logins'[handlers'[h].login])
  <2> TAKE h \in Handlers
  <2>1. handlers'[h] = Idle
      BY <1>1
  <2> QED BY <2>1, IdleIsOK
<1>6. \A t \in tokens' \cup parcels' :
         logins'[t.login].kind # "none" /\ TokenOK(t, logins'[t.login].gate, proofs')
  <2>1. ASSUME NEW t \in tokens
        PROVE  logins'[t.login].kind # "none" /\ TokenOK(t, logins'[t.login].gate, proofs)
    <3>1. t.login \in Logins /\ TokenOK(t, logins[t.login].gate, proofs)
        BY Known DEF SInv, Token
    <3> QED BY <1>2, <3>1
  <2> QED BY <1>1, <2>1
<1>7. \A q \in proofs' : q.home
    BY <1>1, Known
<1> QED BY <1>3, <1>4, <1>5, <1>6, <1>7 DEF SInv

\* The earlier session's token, and what was proved for it.
LEMMA PastIsProved ==
    ASSUME NEW legs \in Seq(Records), legs # <<>>, NEW who \in People, NEW gate, legs[1] = gate
    PROVE  /\ PastToken(legs, who) \in Token /\ PastToken(legs, who).login = Past
           /\ TokenOK(PastToken(legs, who), gate, Proved(legs, who))
           /\ PastToken(legs, who).bound = Range(legs)
<1> DEFINE t == PastToken(legs, who)
           pr == [login |-> Past, rec |-> legs[1], who |-> who, home |-> TRUE]
<1>1. Range(legs) \subseteq Records /\ legs[1] \in Range(legs) /\ legs[1] \in Records
    BY DEF Range
<1>2. t \in Token /\ t.login = Past /\ t.from = legs[1] /\ t.who = who /\ t.bound = Range(legs)
  <2>1. {rec \in Range(legs) : Interactive(rec)} \subseteq Records
      BY <1>1
  <2> QED BY <1>1, <2>1, LoginsAssumption DEF PastToken, Token
<1>3. pr \in Proved(legs, who) /\ pr.login = Past /\ pr.rec = legs[1] /\ pr.who = who
    BY <1>1 DEF Proved
<1> HIDE DEF t, pr
<1>4. TokenOK(t, gate, Proved(legs, who))
    BY <1>2, <1>3 DEF TokenOK, Proves, ProvesIn
<1> QED BY <1>2, <1>4 DEF t

\* The first states are as they should be.
LEMMA Begin ==
    ASSUME Init
    PROVE  SInv
<1>1. PICK door \in Doors, who \in People : \E legs \in {<<>>, <<door[1]>>, door} :
        /\ logins = [l \in Logins |-> IF l = Past THEN [NewLogin EXCEPT !.kind = "over", !.gate = door[1]] ELSE NewLogin]
        /\ tokens = IF legs = <<>> THEN {} ELSE {PastToken(legs, who)}
        /\ proofs = Proved(legs, who)
    BY DEF Init
<1>2. PICK legs \in {<<>>, <<door[1]>>, door} :
        /\ logins = [l \in Logins |-> IF l = Past THEN [NewLogin EXCEPT !.kind = "over", !.gate = door[1]] ELSE NewLogin]
        /\ tokens = IF legs = <<>> THEN {} ELSE {PastToken(legs, who)}
        /\ proofs = Proved(legs, who)
    BY <1>1
<1>3. door \in Seq(Records) /\ door[1] \in Records
    BY DoorsHaveGates
<1>4. legs \in Seq(Records) /\ (legs # <<>> => legs[1] = door[1])
  <2>1. CASE legs = <<>>
      BY <2>1
  <2>2. CASE legs = <<door[1]>>
      BY <1>3, <2>2
  <2>3. CASE legs = door
      BY <1>3, <2>3
  <2> QED BY <2>1, <2>2, <2>3
<1>5. /\ handlers = [h \in Handlers |-> Idle] /\ trips = {} /\ parcels = {}
      /\ booked = 0 /\ wrong = 0 /\ late = 0
    BY DEF Init
<1> DEFINE gate == door[1]
           past == [NewLogin EXCEPT !.kind = "over", !.gate = gate]
<1>g. gate \in Records
    BY <1>3
<1>l. \A l \in Logins : logins[l] = IF l = Past THEN past ELSE NewLogin
    BY <1>2
<1> HIDE DEF gate
<1>6. /\ past \in Login /\ past.kind = "over" /\ ~past.live /\ past.gate = gate /\ past.legs = <<>>
      /\ past.done = <<>> /\ past.at = 1
      /\ NewLogin \in Login /\ NewLogin.kind = "none" /\ ~NewLogin.live /\ NewLogin.legs = <<>>
      /\ NewLogin.done = <<>> /\ NewLogin.at = 1
  <2>1. <<>> \in Seq(Leg) /\ <<>> \in Seq(Records)
      OBVIOUS
  <2> QED BY <1>g, <2>1 DEF Login, NewLogin
<1> HIDE DEF past
<1>7. logins \in [Logins -> Login]
    BY <1>2, <1>6 DEF past, gate
<1>8. \A t \in tokens : t \in Token /\ t.login = Past /\ TokenOK(t, gate, proofs)
  <2>1. CASE legs = <<>>
      BY <1>2, <2>1
  <2>2. CASE legs # <<>>
    <3>1. legs[1] = gate
        BY <1>4, <2>2 DEF gate
    <3>2. PastToken(legs, who) \in Token /\ PastToken(legs, who).login = Past
          /\ TokenOK(PastToken(legs, who), gate, Proved(legs, who))
        BY <1>4, <2>2, <3>1, PastIsProved
    <3> QED BY <1>2, <2>2, <3>2
  <2> QED BY <2>1, <2>2
<1>9. TypeOK
    BY <1>5, <1>7, <1>8, IdleIsOK, LoginsAssumption DEF TypeOK
<1>10. \A l \in Logins : LoginOK(logins[l]) /\ LegsOK(logins[l], l, proofs)
  <2> TAKE l \in Logins
  <2>1. logins[l].done = <<>> /\ logins[l].legs = <<>> /\ logins[l].at = 1 /\ ~logins[l].live
        /\ logins[l].kind \in {"none", "over"}
      BY <1>6, <1>l
  <2> QED BY <2>1, NoLegs DEF LoginOK
<1>11. \A h \in Handlers : HandlerOK(handlers[h], logins[handlers[h].login])
    BY <1>5, IdleIsOK
<1>12. \A t \in tokens \cup parcels :
         logins[t.login].kind # "none" /\ TokenOK(t, logins[t.login].gate, proofs)
    BY <1>5, <1>6, <1>8, <1>l, LoginsAssumption
<1>13. \A p \in proofs : p.home
    BY <1>2 DEF Proved
<1> QED BY <1>9, <1>10, <1>11, <1>12, <1>13 DEF SInv

\* Every step keeps the invariant.
LEMMA SInvKept ==
    SInv /\ [Next]_vars => SInv'
<1> SUFFICES ASSUME SInv, [Next]_vars PROVE SInv'
    OBVIOUS
<1>1. ASSUME NEW l \in Logins, Starts(l) PROVE SInv'
    BY <1>1, StartAppKeeps, StartPageKeeps, StartMCPKeeps, BindKeeps, SignInKeeps, ExpireKeeps DEF Starts
<1>2. ASSUME NEW l \in Logins, NEW h \in Handlers, Enter(h, l) PROVE SInv'
    BY <1>2, ContinueKeeps, CallbackKeeps, SubmitKeeps DEF Enter
<1>3. ASSUME NEW h \in Handlers, Step(h) PROVE SInv'
    BY <1>3, ExchangeKeeps, WrongKeeps, RightKeeps, BeginKeeps, FinishKeeps DEF Step
<1>4. CASE UNCHANGED vars
    BY <1>4 DEF vars, SInv, TypeOK
<1> QED BY <1>1, <1>2, <1>3, <1>4, CollectKeeps, RefuseKeeps, RollKeeps, RestartKeeps DEF Next

\* The parts hold throughout.
LEMMA SInvAlways ==
    Spec => []SInv
<1>1. Init => SInv
    BY Begin
<1> QED BY <1>1, SInvKept, PTL DEF Spec

-----------------------------------------------------------------------------
(* Guesses                                                                 *)

\* The sums the counters are compared by.
LEMMA SumsGrow ==
    ASSUME NEW w \in Nat, NEW c \in Nat, NEW b \in Nat, NEW t \in Nat,
           NEW ww \in Nat, NEW cc \in Nat, NEW bb \in Nat, NEW tt \in Nat,
           w + c <= b + t, cc <= c, ww <= w, b + t <= bb + tt
    PROVE  ww + cc <= bb + tt
OBVIOUS

\* With one check less.
LEMMA SumsLess ==
    ASSUME NEW w \in Nat, NEW c \in Nat, NEW b \in Nat, NEW t \in Nat,
           NEW ww \in Nat, NEW cc \in Nat, NEW bb \in Nat, NEW tt \in Nat,
           w + c <= b + t, cc = c - 1, ww + b + t <= w + 1 + bb + tt
    PROVE  ww + cc <= bb + tt
OBVIOUS

\* Fewer checks, with no more of them wrong than booked.
LEMMA FewerChecks ==
    ASSUME SInv, SInv', GInv, Checking' \subseteq Checking,
           wrong' <= wrong, booked + late <= booked' + late'
    PROVE  GInv'
<1>1. /\ booked \in Nat /\ wrong \in Nat /\ late \in Nat /\ booked' \in Nat /\ wrong' \in Nat /\ late' \in Nat
    BY Known, LoginsAssumption DEF SInv, TypeOK
<1>2. IsFiniteSet(Checking) /\ wrong + Cardinality(Checking) <= booked + late
    BY DEF GInv
<1>3. \A S : S \subseteq Checking => IsFiniteSet(S) /\ Cardinality(S) <= Cardinality(Checking) /\ Cardinality(S) \in Nat
  <2> TAKE S
  <2> SUFFICES ASSUME S \subseteq Checking
               PROVE  IsFiniteSet(S) /\ Cardinality(S) <= Cardinality(Checking) /\ Cardinality(S) \in Nat
      OBVIOUS
  <2>1. IsFiniteSet(S) /\ Cardinality(S) <= Cardinality(Checking)
      BY <1>2, FS_Subset
  <2> QED BY <2>1, FS_CardinalityType
<1>4. PICK S : S = Checking'
    OBVIOUS
<1>5. Cardinality(Checking) \in Nat
    BY <1>2, FS_CardinalityType
<1>6. IsFiniteSet(S) /\ Cardinality(S) <= Cardinality(Checking) /\ Cardinality(S) \in Nat
    BY <1>3, <1>4
<1>7. wrong' + Cardinality(S) <= booked' + late'
  <2>1. PICK w, c, b, t, ww, cc, bb, tt :
          /\ w = wrong /\ c = Cardinality(Checking) /\ b = booked /\ t = late
          /\ ww = wrong' /\ cc = Cardinality(S) /\ bb = booked' /\ tt = late'
      OBVIOUS
  <2>2. /\ w \in Nat /\ c \in Nat /\ b \in Nat /\ t \in Nat
        /\ ww \in Nat /\ cc \in Nat /\ bb \in Nat /\ tt \in Nat
      BY <1>1, <1>5, <1>6, <2>1
  <2>3. w + c <= b + t /\ cc <= c /\ ww <= w /\ b + t <= bb + tt
      BY <1>2, <1>6, <2>1
  <2>4. ww + cc <= bb + tt
      BY <2>2, <2>3, SumsGrow
  <2> QED BY <2>1, <2>4
<1> QED BY <1>4, <1>6, <1>7 DEF GInv

\* A check ends.
LEMMA OneCheckLess ==
    ASSUME SInv, SInv', GInv, NEW h \in Checking, Checking' = Checking \ {h},
           wrong' + booked + late <= wrong + 1 + booked' + late'
    PROVE  GInv'
<1>1. /\ booked \in Nat /\ wrong \in Nat /\ late \in Nat /\ booked' \in Nat /\ wrong' \in Nat /\ late' \in Nat
    BY Known, LoginsAssumption DEF SInv, TypeOK
<1>2. IsFiniteSet(Checking) /\ wrong + Cardinality(Checking) <= booked + late
    BY DEF GInv
<1>3. IsFiniteSet(Checking \ {h}) /\ Cardinality(Checking \ {h}) = Cardinality(Checking) - 1
    BY <1>2, FS_RemoveElement
<1>4. Cardinality(Checking) \in Nat
    BY <1>2, FS_CardinalityType
<1>5. wrong' + Cardinality(Checking \ {h}) <= booked' + late'
  <2>0. Cardinality(Checking \ {h}) \in Nat
      BY <1>3, FS_CardinalityType
  <2>1. PICK w, c, b, t, ww, cc, bb, tt :
          /\ w = wrong /\ c = Cardinality(Checking) /\ b = booked /\ t = late
          /\ ww = wrong' /\ cc = Cardinality(Checking \ {h}) /\ bb = booked' /\ tt = late'
      OBVIOUS
  <2>2. /\ w \in Nat /\ c \in Nat /\ b \in Nat /\ t \in Nat
        /\ ww \in Nat /\ cc \in Nat /\ bb \in Nat /\ tt \in Nat
      BY <1>1, <1>4, <2>0, <2>1
  <2>3. w + c <= b + t /\ cc = c - 1 /\ ww + b + t <= w + 1 + bb + tt
      BY <1>2, <1>3, <2>1
  <2>4. ww + cc <= bb + tt
      BY <2>2, <2>3, SumsLess
  <2> QED BY <2>1, <2>4
<1>6. PICK S : S = Checking \ {h}
    OBVIOUS
<1>7. IsFiniteSet(S) /\ wrong' + Cardinality(S) <= booked' + late' /\ Checking' = S
    BY <1>3, <1>5, <1>6
<1> QED BY <1>7 DEF GInv

\* A request that is not checking any more.
LEMMA ChecksNoMore ==
    ASSUME SInv, NEW h \in Handlers, NEW r, r.pc # "verify", handlers' = [handlers EXCEPT ![h] = r]
    PROVE  Checking' = Checking \ {h}
<1>1. handlers \in [Handlers -> Handler]
    BY Known
<1>2. \A k \in Handlers : handlers'[k] = IF k = h THEN r ELSE handlers[k]
    BY <1>1
<1> QED BY <1>2 DEF Checking

\* What each request moves to.
LEMMA Moved ==
    ASSUME NEW l
    PROVE  /\ Idle.pc = "idle"
           /\ [Idle EXCEPT !.login = l, !.pc = "finish"].pc = "finish"
           /\ [Idle EXCEPT !.login = l, !.pc = "begin"].pc = "begin"
BY DEF Idle

\* A leg that is done is not checked any more.
LEMMA CompleteUnchecks ==
    ASSUME SInv, NEW h \in Handlers, NEW rec, CompleteLeg(h, rec)
    PROVE  Checking' = Checking \ {h}
<1> DEFINE l == handlers[h].login
           r == [Idle EXCEPT !.login = l, !.pc = IF logins[l].at < Len(logins[l].legs) THEN "begin" ELSE "finish"]
<1>1. handlers' = [handlers EXCEPT ![h] = r]
    BY DEF CompleteLeg
<1>2. r.pc # "verify"
    BY DEF Idle
<1> HIDE DEF r
<1> QED BY <1>1, <1>2, ChecksNoMore

\* Entering for a provider's answer is no check.
LEMMA EnterUnchecks ==
    ASSUME SInv, NEW h \in Handlers, NEW l \in Logins, Continue(h, l) \/ Callback(h, l)
    PROVE  Checking' \subseteq Checking
<1>1. ASSUME Continue(h, l)
      PROVE  Checking' \subseteq Checking
  <2>1. PICK todo : handlers' = [handlers EXCEPT ![h] = [Idle EXCEPT !.login = l, !.pc = IF todo = <<>> THEN "finish" ELSE "begin"]]
      BY <1>1 DEF Continue
  <2> DEFINE r == [Idle EXCEPT !.login = l, !.pc = IF todo = <<>> THEN "finish" ELSE "begin"]
  <2>2. r.pc # "verify" /\ handlers' = [handlers EXCEPT ![h] = r]
      BY <2>1 DEF Idle
  <2> HIDE DEF r
  <2> QED BY <2>2, ChecksNoMore
<1>2. ASSUME Callback(h, l)
      PROVE  Checking' \subseteq Checking
  <2>1. CASE UNCHANGED handlers
      BY <2>1 DEF Checking
  <2>2. CASE ~UNCHANGED handlers
    <3>1. PICK t, home : Enters(h, l, [Idle EXCEPT !.pc = "exchange", !.rec = t.rec, !.who = t.who, !.home = home, !.cred = TRUE])
        BY <1>2, <2>2 DEF Callback
    <3> DEFINE hd == [Idle EXCEPT !.pc = "exchange", !.rec = t.rec, !.who = t.who, !.home = home, !.cred = TRUE]
               r == [hd EXCEPT !.login = l]
    <3>2. handlers' = [handlers EXCEPT ![h] = r]
        BY <3>1 DEF Enters
    <3>3. r.pc # "verify"
        BY DEF Idle
    <3> HIDE DEF r
    <3> QED BY <3>2, <3>3, ChecksNoMore
  <2> QED BY <2>1, <2>2
<1> QED BY <1>1, <1>2

\* A check begins, and is booked.
LEMMA SubmitBooks ==
    ASSUME SInv, SInv', GInv, NEW h \in Handlers, NEW l \in Logins, Submit(h, l)
    PROVE  GInv'
<1>1. PICK who, home, rec :
        Enters(h, l, [Idle EXCEPT !.pc = "verify", !.rec = rec, !.who = who, !.home = home])
    BY DEF Submit
<1> DEFINE hd == [Idle EXCEPT !.pc = "verify", !.rec = rec, !.who = who, !.home = home]
           r == [hd EXCEPT !.login = l]
<1>2. handlers' = [handlers EXCEPT ![h] = r]
    BY <1>1 DEF Enters
<1>3. r.pc = "verify" /\ ~r.old
    BY DEF Idle
<1>4. handlers[h].pc = "idle" /\ booked' = booked + 1 /\ wrong' = wrong /\ late' = late
    BY DEF Submit, Attempt
<1> HIDE DEF r
<1>5. \A k \in Handlers : handlers'[k] = IF k = h THEN r ELSE handlers[k]
    BY <1>2, Known
<1>6. Checking' = Checking \cup {h} /\ h \notin Checking
    BY <1>3, <1>4, <1>5 DEF Checking
<1>7. /\ booked \in Nat /\ wrong \in Nat /\ late \in Nat
    BY Known
<1>8. IsFiniteSet(Checking) /\ wrong + Cardinality(Checking) <= booked + late
    BY DEF GInv
<1>9. Cardinality(Checking) \in Nat
    BY <1>8, FS_CardinalityType
<1>10. IsFiniteSet(Checking \cup {h}) /\ Cardinality(Checking \cup {h}) = Cardinality(Checking) + 1
    BY <1>6, <1>8, FS_AddElement
<1>11. wrong' + Cardinality(Checking \cup {h}) <= booked' + late'
    BY <1>4, <1>7, <1>8, <1>9, <1>10
<1>12. PICK S : S = Checking \cup {h}
    OBVIOUS
<1>13. IsFiniteSet(S) /\ wrong' + Cardinality(S) <= booked' + late' /\ Checking' = S
    BY <1>6, <1>10, <1>11, <1>12
<1> QED BY <1>13 DEF GInv

\* A wrong credential goes from the checks to the wrong ones.
LEMMA WrongCounts ==
    ASSUME SInv, SInv', GInv, NEW h \in Handlers, WrongCredential(h)
    PROVE  GInv'
<1>1. /\ handlers[h].pc = "verify" /\ handlers' = [handlers EXCEPT ![h] = Idle]
      /\ booked' = booked /\ late' = late
      /\ wrong' = IF handlers[h].old THEN wrong ELSE wrong + 1
    BY DEF WrongCredential
<1>2. Checking' = Checking \ {h}
    BY <1>1, IdleIsOK, ChecksNoMore
<1>3. /\ booked \in Nat /\ wrong \in Nat /\ late \in Nat
    BY Known
<1>4. CASE handlers[h].old
  <2>1. wrong' <= wrong /\ booked + late <= booked' + late' /\ Checking' \subseteq Checking
      BY <1>1, <1>2, <1>3, <1>4
  <2> QED BY <2>1, FewerChecks
<1>5. CASE ~handlers[h].old
  <2>1. h \in Checking
      BY <1>1, <1>5 DEF Checking
  <2>2. wrong' + booked + late <= wrong + 1 + booked' + late'
      BY <1>1, <1>3, <1>5
  <2> QED BY <1>2, <2>1, <2>2, OneCheckLess
<1> QED BY <1>4, <1>5

\* The right one takes its attempt back, from whichever window it is.
LEMMA RightCounts ==
    ASSUME SInv, SInv', GInv, NEW h \in Handlers, RightCredential(h)
    PROVE  GInv'
<1> DEFINE rec == IF handlers[h].rec = "ssh" THEN Current(handlers[h].login) ELSE handlers[h].rec
<1>1. /\ handlers[h].pc = "verify" /\ wrong' = wrong
      /\ booked' = IF booked > 0 THEN booked - 1 ELSE 0
      /\ late' = IF handlers[h].old /\ booked > 0 THEN late + 1 ELSE late
      /\ \/ handlers' = [handlers EXCEPT ![h] = Idle]
         \/ CompleteLeg(h, rec)
    BY DEF RightCredential
<1> HIDE DEF rec
<1>2. Checking' = Checking \ {h}
    BY <1>1, IdleIsOK, ChecksNoMore, CompleteUnchecks
<1>3. /\ booked \in Nat /\ wrong \in Nat /\ late \in Nat
    BY Known
<1>4. CASE handlers[h].old
  <2>1. wrong' <= wrong /\ booked + late <= booked' + late' /\ Checking' \subseteq Checking
      BY <1>1, <1>2, <1>3, <1>4
  <2> QED BY <2>1, FewerChecks
<1>5. CASE ~handlers[h].old
  <2>1. h \in Checking
      BY <1>1, <1>5 DEF Checking
  <2>2. wrong' + booked + late <= wrong + 1 + booked' + late'
      BY <1>1, <1>3, <1>5
  <2> QED BY <1>2, <2>1, <2>2, OneCheckLess
<1> QED BY <1>4, <1>5

\* A new window, or a restart, leaves nothing to count.
LEMMA NothingToCount ==
    ASSUME SInv, RollWindow \/ Restart
    PROVE  GInv'
<1>1. booked' = 0 /\ wrong' = 0 /\ late' = 0
    BY DEF RollWindow, Restart
<1>2. ASSUME NEW h \in Handlers
      PROVE  handlers'[h].pc # "verify" \/ handlers'[h].old
  <2>1. ASSUME RollWindow
        PROVE  handlers'[h].pc # "verify" \/ handlers'[h].old
    <3>1. handlers[h] \in Handler
        BY Known
    <3>2. handlers'[h] = [handlers[h] EXCEPT !.old = handlers[h].old \/ handlers[h].pc = "verify"]
        BY <2>1 DEF RollWindow
    <3>3. handlers'[h].pc = handlers[h].pc /\ handlers'[h].old = (handlers[h].old \/ handlers[h].pc = "verify")
        BY <3>1, <3>2 DEF Handler
    <3> QED BY <3>3
  <2>2. ASSUME Restart
        PROVE  handlers'[h].pc # "verify" \/ handlers'[h].old
    <3>1. handlers'[h] = Idle
        BY <2>2 DEF Restart
    <3> QED BY <3>1, IdleIsOK
  <2> QED BY <2>1, <2>2
<1>3. Checking' = {}
    BY <1>2 DEF Checking
<1>4. IsFiniteSet({}) /\ Cardinality({}) = 0
    BY FS_EmptySet
<1> QED BY <1>1, <1>3, <1>4 DEF GInv

\* No step lets a guess through that is not booked.
LEMMA GuessesKept ==
    SInv /\ SInv' /\ GInv /\ [Next]_vars => GInv'
<1> SUFFICES ASSUME SInv, SInv', GInv, [Next]_vars PROVE GInv'
    OBVIOUS
<1>n. booked \in Nat /\ wrong \in Nat /\ late \in Nat
    BY Known
<1>1. ASSUME UNCHANGED <<handlers, booked, wrong, late>> PROVE GInv'
    BY <1>1 DEF GInv, Checking
<1>2. ASSUME UNCHANGED <<booked, wrong, late>>, Checking' \subseteq Checking PROVE GInv'
  <2>1. wrong' <= wrong /\ booked + late <= booked' + late'
      BY <1>2, <1>n
  <2> QED BY <1>2, <2>1, FewerChecks
<1>3. ASSUME NEW l \in Logins, Starts(l) PROVE GInv'
  <2>1. UNCHANGED <<handlers, booked, wrong, late>>
      BY <1>3 DEF Starts, StartApp, StartPage, StartMCP, Bind, SignIn, Expire
  <2> QED BY <1>1, <2>1
<1>4. ASSUME NEW l \in Logins, NEW h \in Handlers, Enter(h, l) PROVE GInv'
  <2>1. CASE Submit(h, l)
      BY <2>1, SubmitBooks
  <2>2. CASE Continue(h, l) \/ Callback(h, l)
    <3>1. UNCHANGED <<booked, wrong, late>>
        BY <2>2 DEF Continue, Callback
    <3> QED BY <1>2, <2>2, <3>1, EnterUnchecks
  <2> QED BY <1>4, <2>1, <2>2 DEF Enter
<1>5. ASSUME NEW h \in Handlers, Step(h) PROVE GInv'
  <2>1. CASE Exchange(h)
    <3>1. UNCHANGED <<booked, wrong, late>>
        BY <2>1 DEF Exchange
    <3>2. CompleteLeg(h, handlers[h].rec) \/ handlers' = [handlers EXCEPT ![h] = Idle]
        BY <2>1 DEF Exchange
    <3>3. Checking' = Checking \ {h}
        BY <3>2, CompleteUnchecks, IdleIsOK, ChecksNoMore
    <3> QED BY <1>2, <3>1, <3>3
  <2>2. CASE BeginLeg(h) \/ Finish(h)
    <3>1. UNCHANGED <<booked, wrong, late>> /\ handlers' = [handlers EXCEPT ![h] = Idle]
        BY <2>2 DEF BeginLeg, Finish
    <3>3. Checking' = Checking \ {h}
        BY <3>1, IdleIsOK, ChecksNoMore
    <3> QED BY <1>2, <3>1, <3>3
  <2> QED BY <1>5, <2>1, <2>2, WrongCounts, RightCounts DEF Step
<1>6. CASE Collect \/ Refuse
  <2>1. UNCHANGED <<handlers, booked, wrong, late>>
      BY <1>6 DEF Collect, Refuse
  <2> QED BY <1>1, <2>1
<1>7. CASE UNCHANGED vars
    BY <1>1, <1>7 DEF vars
<1> QED BY <1>3, <1>4, <1>5, <1>6, <1>7, NothingToCount DEF Next

\* However many credentials are tried at once, no more than FailureLimit wrong
\* ones are checked in a window, save those whose attempt a check of the window
\* before took back (loginFailures).
THEOREM GuessesStayBounded ==
    Spec => []GuessesAreBounded
<1>1. Init => GInv
  <2> SUFFICES ASSUME Init PROVE GInv
      OBVIOUS
  <2>1. Checking = {} /\ booked = 0 /\ wrong = 0 /\ late = 0
      BY IdleIsOK DEF Init, Checking
  <2>2. IsFiniteSet({}) /\ Cardinality({}) = 0
      BY FS_EmptySet
  <2> QED BY <2>1, <2>2 DEF GInv
<1>2. SInv /\ GInv => GuessesAreBounded
  <2> SUFFICES ASSUME SInv, GInv PROVE GuessesAreBounded
      OBVIOUS
  <2>1. booked \in 0..FailureLimit /\ wrong \in Nat /\ late \in Nat /\ FailureLimit \in Nat
      BY Known, LoginsAssumption
  <2>2. IsFiniteSet(Checking) /\ wrong + Cardinality(Checking) <= booked + late
      BY DEF GInv
  <2>3. Cardinality(Checking) \in Nat
      BY <2>2, FS_CardinalityType
  <2>4. wrong + Cardinality(Checking) <= FailureLimit + late
      BY <2>1, <2>2, <2>3
  <2> QED BY <2>4 DEF GuessesAreBounded, Checking
<1>3. Spec => []GInv
    BY <1>1, SInvAlways, GuessesKept, PTL DEF Spec
<1> QED BY <1>2, <1>3, SInvAlways, PTL

-----------------------------------------------------------------------------
(* Logins that nobody races for                                            *)

\* A login that is where it was.
Alike(p, q) ==
    /\ p.kind = q.kind /\ p.legs = q.legs /\ p.at = q.at /\ p.done = q.done
    /\ p.primary = q.primary /\ p.raced = q.raced /\ p.sessions = q.sessions

\* A request that is where it was, or has left its login.
Stays(h) ==
    \/ handlers'[h].login = NoLogin
    \/ /\ handlers'[h].login = handlers[h].login /\ handlers'[h].pc = handlers[h].pc
       /\ handlers'[h].rec = handlers[h].rec

\* A login that is where it was, with fewer requests and parcels, is as alone.
LEMMA AloneStays ==
    ASSUME NEW k \in Logins, Alone(k), Alike(logins'[k], logins[k]),
           \A h \in Handlers : handlers'[h].login = k => Stays(h),
           \A t \in parcels' : t.login = k => t \in parcels
    PROVE  Alone(k)'
<1>1. /\ logins'[k].kind = logins[k].kind /\ logins'[k].legs = logins[k].legs /\ logins'[k].at = logins[k].at
      /\ logins'[k].done = logins[k].done /\ logins'[k].sessions = logins[k].sessions
    BY DEF Alike
<1>2. Current(k)' = Current(k)
    BY <1>1 DEF Current
<1>3. \A h \in Handlers : handlers'[h].login = k =>
        handlers[h].login = k /\ handlers'[h].pc = handlers[h].pc /\ handlers'[h].rec = handlers[h].rec
    BY LoginsAssumption DEF Stays
<1>4. Ended(k)' => Ended(k)
    BY <1>1 DEF Ended
<1>5. \A h, j \in Handlers : handlers'[h].login = k /\ handlers'[j].login = k => h = j
    BY <1>3 DEF Alone
<1>6. \A h \in Handlers : handlers'[h].login = k =>
        /\ handlers'[h].pc \in {"exchange", "verify"} => handlers'[h].rec = Current(k)'
        /\ handlers'[h].pc = "finish" => logins'[k].at > Len(logins'[k].legs) /\ ~Ended(k)'
    BY <1>1, <1>2, <1>3, <1>4 DEF Alone
<1>7. /\ logins'[k].sessions \in {0, 1}
      /\ logins'[k].sessions = 1 => \A t \in parcels' : t.login # k
      /\ \A s, t \in parcels' : s.login = k /\ t.login = k => s = t
    BY <1>1 DEF Alone
<1>8. Ended(k)' =>
         /\ logins'[k].kind # "none"
         /\ logins'[k].at > Len(logins'[k].legs)
         /\ logins'[k].done # <<>> \/ logins'[k].kind = "over"
    BY <1>1, <1>4 DEF Alone
<1> QED BY <1>5, <1>6, <1>7, <1>8 DEF Alone

\* What was proved stays proved, of tokens and logins.
LEMMA ProvedStays ==
    ASSUME NEW ps, NEW qs, ps \subseteq qs
    PROVE  /\ \A rec : RecProved(rec, ps) => RecProved(rec, qs)
           /\ \A t : TokenProved(t, ps) => TokenProved(t, qs)
           /\ \A p : LoginProved(p, ps) => LoginProved(p, qs)
<1>1. \A rec : RecProved(rec, ps) => RecProved(rec, qs)
    BY DEF RecProved
<1> QED BY <1>1 DEF TokenProved, LoginProved

\* A login that is where it was has the same proved.
LEMMA AlikeProved ==
    ASSUME NEW p, NEW q, NEW ps, Alike(p, q), LoginProved(q, ps)
    PROVE  LoginProved(p, ps)
BY DEF Alike, LoginProved

\* One login changes.
LEMMA OneLoginMoves ==
    ASSUME RInv, NEW l \in Logins,
           \A k \in Logins \ {l} : Alike(logins'[k], logins[k]),
           \A h \in Handlers : handlers'[h].login # l => Stays(h),
           \A t \in parcels' : t.login # l => t \in parcels,
           ~logins'[l].raced => ~logins[l].raced,
           logins'[l].kind # "none",
           ~logins'[l].raced => Alone(l)',
           proofs \subseteq proofs',
           Undisturbed => \A t \in (tokens' \cup parcels') \ (tokens \cup parcels) : TokenProved(t, proofs'),
           Undisturbed => LoginProved(logins'[l], proofs')
    PROVE  RInv'
<1>1. UInv'
  <2> SUFFICES ASSUME NEW k \in Logins, ~logins'[k].raced
               PROVE  Alone(k)'
      BY DEF UInv
  <2>1. CASE k = l
      BY <2>1
  <2>2. CASE k # l
    <3>1. Alike(logins'[k], logins[k])
        BY <2>2
    <3>2. Alone(k)
        BY <3>1 DEF RInv, UInv, Alike
    <3>3. \A h \in Handlers : handlers'[h].login = k => Stays(h)
        BY <2>2
    <3>4. \A t \in parcels' : t.login = k => t \in parcels
        BY <2>2
    <3> QED BY <3>1, <3>2, <3>3, <3>4, AloneStays
  <2> QED BY <2>1, <2>2
<1>2. Calm'
  <2> SUFFICES ASSUME NEW k \in Logins, logins'[k].kind = "none"
               PROVE  ~logins'[k].raced
      BY DEF Calm
  <2>1. k # l
      OBVIOUS
  <2> QED BY <2>1 DEF RInv, Calm, Alike
<1>3. PInv'
  <2> SUFFICES ASSUME Undisturbed'
               PROVE  /\ \A t \in tokens' \cup parcels' : TokenProved(t, proofs')
                      /\ \A k \in Logins : LoginProved(logins'[k], proofs')
      BY DEF PInv
  <2>1. Undisturbed
    <3> SUFFICES ASSUME NEW k \in Logins
                 PROVE  ~logins[k].raced
        BY DEF Undisturbed
    <3>1. ~logins'[k].raced
        BY DEF Undisturbed
    <3>2. k # l => logins'[k].raced = logins[k].raced
        BY DEF Alike
    <3> QED BY <3>1, <3>2
  <2>2. /\ \A t \in tokens \cup parcels : TokenProved(t, proofs)
        /\ \A k \in Logins : LoginProved(logins[k], proofs)
      BY <2>1 DEF RInv, PInv
  <2>3. /\ \A t \in tokens \cup parcels : TokenProved(t, proofs')
        /\ \A k \in Logins : LoginProved(logins[k], proofs')
      BY <2>2, ProvedStays
  <2>4. \A k \in Logins : LoginProved(logins'[k], proofs')
      BY <2>1, <2>3, AlikeProved
  <2> QED BY <2>1, <2>3, <2>4
<1> QED BY <1>1, <1>2, <1>3 DEF RInv

\* No login moves on.
LEMMA NoLoginMoves ==
    ASSUME RInv,
           \A k \in Logins : Alike(logins'[k], logins[k]),
           \A h \in Handlers : Stays(h),
           parcels' \subseteq parcels, tokens' = tokens, proofs \subseteq proofs'
    PROVE  RInv'
<1>1. UInv'
  <2> SUFFICES ASSUME NEW k \in Logins, ~logins'[k].raced
               PROVE  Alone(k)'
      BY DEF UInv
  <2>1. Alone(k)
      BY DEF RInv, UInv, Alike
  <2> QED BY <2>1, AloneStays
<1>2. Calm'
    BY DEF RInv, Calm, Alike
<1>3. PInv'
  <2> SUFFICES ASSUME Undisturbed'
               PROVE  /\ \A t \in tokens' \cup parcels' : TokenProved(t, proofs')
                      /\ \A k \in Logins : LoginProved(logins'[k], proofs')
      BY DEF PInv
  <2>1. Undisturbed
      BY DEF Undisturbed, Alike
  <2>2. /\ \A t \in tokens \cup parcels : TokenProved(t, proofs)
        /\ \A k \in Logins : LoginProved(logins[k], proofs)
      BY <2>1 DEF RInv, PInv
  <2>3. /\ \A t \in tokens \cup parcels : TokenProved(t, proofs')
        /\ \A k \in Logins : LoginProved(logins[k], proofs')
      BY <2>2, ProvedStays
  <2> QED BY <2>3, AlikeProved
<1> QED BY <1>1, <1>2, <1>3 DEF RInv

\* A login begins, with nobody at work on it and nothing minted in it.
LEMMA BornAlone ==
    ASSUME SInv, RInv, NEW l \in Logins, logins[l].kind = "none", NEW p,
           logins' = [logins EXCEPT ![l] = p], ~p.raced, p.sessions = 0, p.kind # "none",
           Undisturbed => LoginProved(p, proofs), UNCHANGED <<handlers, parcels, tokens, proofs>>
    PROVE  RInv'
<1>1. /\ logins'[l] = p /\ \A k \in Logins \ {l} : logins'[k] = logins[k]
    BY Known
<1>2. \A h \in Handlers : handlers'[h] = handlers[h] /\ handlers[h].login # l
    BY AtWork
<1>3. \A t \in parcels' : t \in parcels /\ t.login # l
    BY DEF SInv
<1>4. Alone(l)'
  <2>1. ~Ended(l)'
      BY <1>1, <1>3 DEF Ended
  <2> QED BY <1>1, <1>2, <1>3, <2>1 DEF Alone
<1>5. ~logins[l].raced
    BY DEF RInv, Calm
<1>6. \A k \in Logins \ {l} : Alike(logins'[k], logins[k])
    BY <1>1 DEF Alike
<1>7. \A h \in Handlers : Stays(h)
    BY <1>2 DEF Stays
<1>8. proofs \subseteq proofs' /\ LoginProved(p, proofs) = LoginProved(p, proofs')
    OBVIOUS
<1> QED BY <1>1, <1>3, <1>4, <1>5, <1>6, <1>7, <1>8, OneLoginMoves

\* The record a token is minted under is covered or asked for.
LEMMA CoveredProved ==
    ASSUME NEW legs, NEW c, NEW ps, NEW presented, NEW primary,
           c.todo \in Seq(Records), c.done \in Seq(Leg),
           \A t \in presented : TokenProved(t, ps),
           \A i \in DOMAIN c.done : \E t \in presented : c.done[i].rec \in t.bound,
           \A j \in DOMAIN legs :
             \/ \E i \in DOMAIN c.todo : c.todo[i] = legs[j]
             \/ \E t \in presented : legs[j] \in t.bound,
           RecProved(primary, ps) \/ \E j \in DOMAIN legs : legs[j] = primary,
           NEW p, p.at = 1, p.legs = c.todo, p.done = c.done, p.primary = primary
    PROVE  LoginProved(p, ps)
<1>1. \A i \in DOMAIN p.done : RecProved(p.done[i].rec, ps)
    BY DEF TokenProved
<1>2. DOMAIN c.todo = 1..Len(c.todo)
    OBVIOUS
<1>3. RecProved(primary, ps) \/ \E i \in 1..Len(c.todo) : c.todo[i] = primary
    BY <1>2 DEF TokenProved
<1> QED BY <1>1, <1>3 DEF LoginProved

\* handleLogin.
LEMMA StartAppAlone ==
    ASSUME SInv, RInv, NEW l \in Logins, StartApp(l)
    PROVE  RInv'
<1>1. PICK door \in Doors, presented \in Presented :
        \E c \in Covered(door, door[1], presented) :
          logins' = [logins EXCEPT ![l] = [NewLogin EXCEPT !.kind = "app", !.live = TRUE, !.legs = c.todo, !.done = c.done,
                                            !.gate = door[1], !.primary = Last(door), !.begun = 1]]
    BY DEF StartApp
<1>2. PICK c \in Covered(door, door[1], presented) :
          logins' = [logins EXCEPT ![l] = [NewLogin EXCEPT !.kind = "app", !.live = TRUE, !.legs = c.todo, !.done = c.done,
                                            !.gate = door[1], !.primary = Last(door), !.begun = 1]]
    BY <1>1
<1> DEFINE p == [NewLogin EXCEPT !.kind = "app", !.live = TRUE, !.legs = c.todo, !.done = c.done,
                                 !.gate = door[1], !.primary = Last(door), !.begun = 1]
<1>3. presented \subseteq tokens /\ presented \in SUBSET Token
    BY PresentedTokens, Known
<1>4. door \in Seq(Records) /\ Len(door) \in DOMAIN door /\ Last(door) = door[Len(door)]
    BY DoorsHaveGates
<1>5. /\ c.done \in Seq(Leg) /\ c.todo \in Seq(Records)
      /\ \A i \in DOMAIN c.done : \E t \in presented : c.done[i].rec \in t.bound
      /\ \A j \in DOMAIN door :
           \/ \E i \in DOMAIN c.todo : c.todo[i] = door[j]
           \/ \E t \in presented : door[j] \in t.bound
  <2> DEFINE gate == door[1]
  <2>1. c \in Covered(door, gate, presented)
      OBVIOUS
  <2>a. door \in Seq(Records) /\ presented \in SUBSET Token
      BY <1>3, <1>4
  <2> HIDE DEF gate
  <2>2. /\ c.done \in Seq(Leg) /\ c.todo \in Seq(Records)
        /\ \A i \in DOMAIN c.done : \E t \in presented :
             /\ c.done[i].reused
             /\ c.done[i].rec \in t.bound
             /\ c.done[i].rec = gate => t.from = gate /\ c.done[i].who = t.who
        /\ \A j \in DOMAIN door :
             \/ \E i \in DOMAIN c.todo : c.todo[i] = door[j]
             \/ \E t \in presented : door[j] \in t.bound
      BY <2>1, <2>a, LegsAreCovered
  <2> QED BY <2>2
<1>6. /\ p.kind = "app" /\ p.legs = c.todo /\ p.at = 1 /\ p.done = c.done /\ p.primary = Last(door)
      /\ ~p.raced /\ p.sessions = 0
    BY DEF NewLogin
<1>7. logins' = [logins EXCEPT ![l] = p]
    BY <1>2
<1>8. logins[l].kind = "none" /\ UNCHANGED <<handlers, parcels, tokens, proofs>>
    BY DEF StartApp
<1> HIDE DEF p
<1>9. ASSUME Undisturbed
      PROVE  LoginProved(p, proofs)
  <2>1. \A t \in presented : TokenProved(t, proofs)
      BY <1>3, <1>9 DEF RInv, PInv
  <2>2. \E j \in DOMAIN door : door[j] = Last(door)
      BY <1>4
  <2> QED BY <1>5, <1>6, <2>1, <2>2, CoveredProved
<1> QED BY <1>6, <1>7, <1>8, <1>9, BornAlone

\* passPageGate.
LEMMA StartPageAlone ==
    ASSUME SInv, RInv, NEW l \in Logins, StartPage(l)
    PROVE  RInv'
<1>1. PICK door \in Doors, b \in Browsers, kind \in {"page", "host"} :
        logins' = [logins EXCEPT ![l] = [NewLogin EXCEPT !.kind = kind, !.live = TRUE, !.legs = <<door[1]>>, !.begun = 1,
            !.gate = door[1], !.primary = door[1], !.bound = IF kind = "page" THEN {b} ELSE {}]]
    BY DEF StartPage
<1> DEFINE p == [NewLogin EXCEPT !.kind = kind, !.live = TRUE, !.legs = <<door[1]>>, !.begun = 1,
            !.gate = door[1], !.primary = door[1], !.bound = IF kind = "page" THEN {b} ELSE {}]
<1>2. /\ p.kind \in {"page", "host"} /\ p.legs = <<door[1]>> /\ p.at = 1 /\ p.done = <<>>
      /\ p.primary = door[1] /\ ~p.raced /\ p.sessions = 0
    BY DEF NewLogin
<1>3. logins' = [logins EXCEPT ![l] = p]
    BY <1>1
<1>4. logins[l].kind = "none" /\ UNCHANGED <<handlers, parcels, tokens, proofs>>
    BY DEF StartPage
<1> HIDE DEF p
<1>5. LoginProved(p, proofs)
  <2>1. DOMAIN p.done = {} /\ 1 \in p.at..Len(p.legs) /\ p.legs[1] = p.primary
      BY <1>2
  <2> QED BY <2>1 DEF LoginProved
<1> QED BY <1>2, <1>3, <1>4, <1>5, BornAlone

\* handleAuthorizeStart.
LEMMA StartMCPAlone ==
    ASSUME SInv, RInv, NEW l \in Logins, StartMCP(l)
    PROVE  RInv'
<1>1. PICK door \in Doors, b \in Browsers :
        logins' = [logins EXCEPT ![l] = [NewLogin EXCEPT !.kind = "mcp", !.live = TRUE, !.legs = door, !.gate = door[1],
                                         !.primary = Last(door), !.bound = {b}, !.home = {b}]]
    BY DEF StartMCP
<1> DEFINE p == [NewLogin EXCEPT !.kind = "mcp", !.live = TRUE, !.legs = door, !.gate = door[1],
                                         !.primary = Last(door), !.bound = {b}, !.home = {b}]
<1>2. /\ p.kind = "mcp" /\ p.legs = door /\ p.at = 1 /\ p.done = <<>>
      /\ p.primary = Last(door) /\ ~p.raced /\ p.sessions = 0
    BY DEF NewLogin
<1>3. logins' = [logins EXCEPT ![l] = p]
    BY <1>1
<1>4. logins[l].kind = "none" /\ UNCHANGED <<handlers, parcels, tokens, proofs>>
    BY DEF StartMCP
<1> HIDE DEF p
<1>5. LoginProved(p, proofs)
  <2>0. Len(door) \in 1..Len(door) /\ Last(door) = door[Len(door)]
      BY DoorsHaveGates
  <2>1. DOMAIN p.done = {} /\ Len(door) \in p.at..Len(p.legs) /\ p.legs[Len(door)] = p.primary
      BY <1>2, <2>0
  <2> QED BY <2>1 DEF LoginProved
<1> QED BY <1>2, <1>3, <1>4, <1>5, BornAlone

\* The requests as they are.
LEMMA AllStay ==
    ASSUME handlers' = handlers
    PROVE  \A h \in Handlers : Stays(h)
BY DEF Stays

\* One request leaves.
LEMMA OneLeaves ==
    ASSUME SInv, NEW h \in Handlers, handlers' = [handlers EXCEPT ![h] = Idle]
    PROVE  \A k \in Handlers : Stays(k)
<1>1. \A k \in Handlers : handlers'[k] = IF k = h THEN Idle ELSE handlers[k]
    BY Known
<1> QED BY <1>1, IdleIsOK DEF Stays

\* Binding, signing in.
LEMMA BindAlone ==
    ASSUME SInv, RInv, NEW l \in Logins, Bind(l) \/ SignIn(l)
    PROVE  RInv'
<1>1. /\ UNCHANGED <<handlers, parcels, tokens, proofs>>
      /\ UNCHANGED logins \/ \E b \in Browsers : logins' = [logins EXCEPT ![l].bound = @ \cup {b}]
    BY DEF Bind, SignIn
<1>2. ASSUME NEW b \in Browsers, logins' = [logins EXCEPT ![l].bound = @ \cup {b}], NEW k \in Logins
      PROVE  Alike(logins'[k], logins[k])
  <2>1. logins[k] \in Login
      BY Known
  <2>2. logins'[k] = IF k = l THEN [logins[k] EXCEPT !.bound = logins[k].bound \cup {b}] ELSE logins[k]
      BY <1>2, Known
  <2> QED BY <2>1, <2>2 DEF Alike, Login
<1>3. \A k \in Logins : Alike(logins'[k], logins[k])
    BY <1>1, <1>2 DEF Alike
<1>4. parcels' \subseteq parcels /\ tokens' = tokens /\ proofs \subseteq proofs'
    BY <1>1
<1> QED BY <1>1, <1>3, <1>4, AllStay, NoLoginMoves

\* Forgetting a login.
LEMMA ExpireAlone ==
    ASSUME SInv, RInv, NEW l \in Logins, Expire(l)
    PROVE  RInv'
<1> DEFINE q == logins[l]
<1>1. q \in Login /\ LoginOK(q) /\ logins \in [Logins -> Login]
    BY Known
<1>2. q.live /\ UNCHANGED <<handlers, parcels, tokens, proofs>>
    BY DEF Expire
<1>3. /\ parcels' \subseteq parcels /\ tokens' = tokens /\ proofs \subseteq proofs'
    BY <1>2
<1>4. CASE \E h \in Handlers : handlers[h].login = l
  <2> DEFINE p == [q EXCEPT !.live = FALSE]
  <2>1. logins' = [logins EXCEPT ![l] = p]
      BY <1>4 DEF Expire
  <2>2. Alike(p, q)
    <3> HIDE DEF q
    <3> QED BY <1>1 DEF Login, Alike
  <2> HIDE DEF p
  <2>3. \A k \in Logins : Alike(logins'[k], logins[k])
      BY <1>1, <2>1, <2>2 DEF Alike
  <2> QED BY <1>2, <1>3, <2>3, AllStay, NoLoginMoves
<1>5. CASE ~ \E h \in Handlers : handlers[h].login = l
  <2> DEFINE p == Over(q)
  <2>1. logins' = [logins EXCEPT ![l] = p]
      BY <1>5 DEF Expire
  <2>2. p.kind = "over" /\ p.legs = <<>> /\ p.done = <<>> /\ p.at = 1 /\ p.raced = q.raced
        /\ p.sessions = IF q.raced THEN 0 ELSE q.sessions
    <3> HIDE DEF q
    <3> QED BY <1>1, OverIsOver
  <2>3. logins'[l] = p /\ \A k \in Logins \ {l} : logins'[k] = logins[k]
      BY <1>1, <2>1
  <2> HIDE DEF p
  <2>4. ASSUME ~p.raced
        PROVE  Alone(l)'
    <3>1. Alone(l) /\ p.sessions = logins[l].sessions
        BY <2>2, <2>4 DEF RInv, UInv
    <3>2. logins'[l].at > Len(logins'[l].legs)
        BY <2>2, <2>3
    <3> QED BY <1>2, <1>5, <2>2, <2>3, <3>1, <3>2 DEF Alone, Ended
  <2>5. LoginProved(p, proofs')
      BY <2>2 DEF LoginProved
  <2>6. \A k \in Logins \ {l} : Alike(logins'[k], logins[k])
      BY <2>3 DEF Alike
  <2> QED BY <1>2, <1>3, <2>2, <2>3, <2>4, <2>5, <2>6, AllStay, OneLoginMoves
<1> QED BY <1>4, <1>5

\* Enters, with the request as it is then.
EntersAs(h, l, hd) ==
    /\ hd.login = l /\ handlers' = [handlers EXCEPT ![h] = hd]
    /\ logins' = [logins EXCEPT ![l].raced = @ \/ \E k \in Handlers : handlers[k].login = l]

\* A request enters a login for a credential or a provider's answer.
LEMMA EnterAlone ==
    ASSUME SInv, RInv, NEW h \in Handlers, NEW l \in Logins, handlers[h].pc = "idle", logins[l].kind # "none",
           NEW hd, hd.pc \in {"exchange", "verify"}, hd.rec = Current(l), EntersAs(h, l, hd),
           UNCHANGED <<parcels, tokens, proofs>>
    PROVE  RInv'
<1> DEFINE q == logins[l]
           busy == \E k \in Handlers : handlers[k].login = l
           p == [q EXCEPT !.raced = q.raced \/ busy]
<1>1. q \in Login /\ logins \in [Logins -> Login] /\ handlers \in [Handlers -> Handler]
    BY Known
<1>2. logins' = [logins EXCEPT ![l] = p] /\ busy \in BOOLEAN
    BY DEF EntersAs
<1>3. logins'[l] = p /\ \A k \in Logins \ {l} : logins'[k] = logins[k]
    BY <1>1, <1>2
<1>4. /\ p.kind = q.kind /\ p.legs = q.legs /\ p.at = q.at /\ p.done = q.done
      /\ p.primary = q.primary /\ p.sessions = q.sessions /\ p.raced = (q.raced \/ busy)
  <2> HIDE DEF q, busy
  <2> QED BY <1>1 DEF Login
<1> HIDE DEF p
<1>5. hd.login = l /\ \A k \in Handlers : handlers'[k] = IF k = h THEN hd ELSE handlers[k]
    BY <1>1 DEF EntersAs
<1>6. ASSUME ~p.raced
      PROVE  Alone(l)'
  <2>1. Alone(l) /\ ~busy
      BY <1>4, <1>6 DEF RInv, UInv
  <2>2. Current(l)' = Current(l)
      BY <1>3, <1>4 DEF Current
  <2>3. \A k \in Handlers : handlers'[k].login = l => k = h
      BY <1>5, <2>1
  <2>4. Ended(l)' = Ended(l)
      BY <1>3, <1>4 DEF Ended
  <2>5. \A k \in Handlers : handlers'[k].login = l =>
          /\ handlers'[k].pc \in {"exchange", "verify"} => handlers'[k].rec = Current(l)'
          /\ handlers'[k].pc = "finish" => logins'[l].at > Len(logins'[l].legs) /\ ~Ended(l)'
      BY <1>5, <2>2, <2>3
  <2> HIDE DEF busy
  <2> QED BY <1>3, <1>4, <2>1, <2>3, <2>4, <2>5 DEF Alone
<1>7. ASSUME Undisturbed
      PROVE  LoginProved(p, proofs')
  <2>1. LoginProved(q, proofs)
      BY <1>7 DEF RInv, PInv
  <2> QED BY <1>4, <2>1 DEF LoginProved
<1>8. \A k \in Logins \ {l} : Alike(logins'[k], logins[k])
    BY <1>3 DEF Alike
<1>9. \A k \in Handlers : handlers'[k].login # l => Stays(k)
    BY <1>5 DEF Stays
<1>10. /\ \A t \in parcels' : t.login # l => t \in parcels
       /\ proofs \subseteq proofs' /\ \A t \in (tokens' \cup parcels') \ (tokens \cup parcels) : FALSE
       /\ logins'[l].kind # "none"
    BY <1>3, <1>4
<1>11. ~logins'[l].raced => ~logins[l].raced
    BY <1>3, <1>4
<1> QED BY <1>3, <1>6, <1>7, <1>8, <1>9, <1>10, <1>11, OneLoginMoves

\* The states that are forgotten lead to logins that have begun.
LEMMA LiveHasBegun ==
    ASSUME SInv, NEW l \in Logins, logins[l].live
    PROVE  logins[l].kind \notin {"none", "over"}
BY Known DEF LoginOK

\* handleCallback.
LEMMA CallbackAlone ==
    ASSUME SInv, RInv, NEW h \in Handlers, NEW l \in Logins, Callback(h, l)
    PROVE  RInv'
<1>1. handlers[h].pc = "idle" /\ logins[l].live /\ UNCHANGED <<parcels, tokens, proofs>>
    BY DEF Callback
<1>2. CASE UNCHANGED <<logins, handlers>>
  <2>1. \A k \in Logins : Alike(logins'[k], logins[k])
      BY <1>2 DEF Alike
  <2> QED BY <1>1, <1>2, <2>1, AllStay, NoLoginMoves
<1>3. CASE ~UNCHANGED <<logins, handlers>>
  <2>1. PICK t, home : /\ t.rec = Current(l)
                       /\ Enters(h, l, [Idle EXCEPT !.pc = "exchange", !.rec = t.rec, !.who = t.who, !.home = home, !.cred = TRUE])
      BY <1>3 DEF Callback
  <2> DEFINE hd == [[Idle EXCEPT !.pc = "exchange", !.rec = t.rec, !.who = t.who, !.home = home, !.cred = TRUE] EXCEPT !.login = l]
  <2>2. hd.pc = "exchange" /\ hd.rec = Current(l) /\ hd.login = l
      BY <2>1 DEF Idle
  <2>3. EntersAs(h, l, hd)
      BY <2>1, <2>2 DEF Enters, EntersAs
  <2> HIDE DEF hd
  <2> QED BY <1>1, <2>2, <2>3, LiveHasBegun, EnterAlone
<1> QED BY <1>2, <1>3

\* A form.
LEMMA SubmitAlone ==
    ASSUME SInv, RInv, NEW h \in Handlers, NEW l \in Logins, Submit(h, l)
    PROVE  RInv'
<1>1. handlers[h].pc = "idle" /\ logins[l].live /\ UNCHANGED <<parcels, tokens, proofs>>
    BY DEF Submit
<1>2. PICK who, home : Enters(h, l, [Idle EXCEPT !.pc = "verify", !.rec = Current(l), !.who = who, !.home = home])
    BY DEF Submit
<1> DEFINE hd == [[Idle EXCEPT !.pc = "verify", !.rec = Current(l), !.who = who, !.home = home] EXCEPT !.login = l]
<1>3. hd.pc = "verify" /\ hd.rec = Current(l) /\ hd.login = l
    BY DEF Idle
<1>4. EntersAs(h, l, hd)
    BY <1>2, <1>3 DEF Enters, EntersAs
<1> HIDE DEF hd
<1> QED BY <1>1, <1>3, <1>4, LiveHasBegun, EnterAlone

\* handleAuthorizeContinue.
LEMMA ContinueAlone ==
    ASSUME SInv, RInv, NEW h \in Handlers, NEW l \in Logins, Continue(h, l)
    PROVE  RInv'
<1> DEFINE q == logins[l]
           busy == \E k \in Handlers : handlers[k].login = l
<1>1. PICK presented \in Presented : \E c \in Covered(logins[l].legs, logins[l].gate, presented) :
        /\ logins' = [logins EXCEPT ![l].legs = c.todo, ![l].done = c.done,
                                    ![l].raced = @ \/ \E k \in Handlers : handlers[k].login = l]
        /\ handlers' = [handlers EXCEPT ![h] = [Idle EXCEPT !.login = l, !.pc = IF c.todo = <<>> THEN "finish" ELSE "begin"]]
    BY DEF Continue
<1>2. PICK c \in Covered(q.legs, q.gate, presented) :
        /\ logins' = [logins EXCEPT ![l].legs = c.todo, ![l].done = c.done,
                                    ![l].raced = @ \/ \E k \in Handlers : handlers[k].login = l]
        /\ handlers' = [handlers EXCEPT ![h] = [Idle EXCEPT !.login = l, !.pc = IF c.todo = <<>> THEN "finish" ELSE "begin"]]
    BY <1>1
<1>3. /\ q.live /\ q.kind = "mcp" /\ q.at = 1 /\ q.done = <<>> /\ handlers[h].pc = "idle"
      /\ UNCHANGED <<parcels, tokens, proofs>>
    BY DEF Continue
<1>4. q \in Login /\ LoginOK(q) /\ logins \in [Logins -> Login] /\ handlers \in [Handlers -> Handler]
    BY Known
<1>5. q.legs \in Seq(Records) /\ DOMAIN q.legs = 1..Len(q.legs)
    BY <1>4 DEF Login
<1>6. presented \subseteq tokens /\ presented \in SUBSET Token
    BY PresentedTokens, Known
<1>7. /\ c.done \in Seq(Leg) /\ c.todo \in Seq(Records)
      /\ \A i \in DOMAIN c.done : \E t \in presented : c.done[i].rec \in t.bound
      /\ \A j \in DOMAIN q.legs :
           \/ \E i \in DOMAIN c.todo : c.todo[i] = q.legs[j]
           \/ \E t \in presented : q.legs[j] \in t.bound
  <2>1. PICK legs, gate : legs = q.legs /\ gate = q.gate
      OBVIOUS
  <2>3. legs \in Seq(Records) /\ c \in Covered(legs, gate, presented) /\ presented \in SUBSET Token
      BY <1>5, <1>6, <2>1
  <2>4. /\ c.done \in Seq(Leg) /\ c.todo \in Seq(Records)
        /\ \A i \in DOMAIN c.done : \E t \in presented :
             /\ c.done[i].reused
             /\ c.done[i].rec \in t.bound
             /\ c.done[i].rec = gate => t.from = gate /\ c.done[i].who = t.who
        /\ \A j \in DOMAIN legs :
             \/ \E i \in DOMAIN c.todo : c.todo[i] = legs[j]
             \/ \E t \in presented : legs[j] \in t.bound
      BY <2>3, LegsAreCovered
  <2> QED BY <2>1, <2>4
<1> DEFINE p == AfterConsent(q, c.todo, c.done, busy)
           r == [Idle EXCEPT !.login = l, !.pc = IF c.todo = <<>> THEN "finish" ELSE "begin"]
<1>8. logins' = [logins EXCEPT ![l] = p]
  <2> DEFINE todo == c.todo
             done == c.done
  <2>1. logins' = SetConsent(logins, l, todo, done, busy)
      BY <1>2 DEF SetConsent
  <2> HIDE DEF todo, done, busy
  <2>2. logins' = [logins EXCEPT ![l] = AfterConsent(logins[l], todo, done, busy)]
      BY <1>4, <2>1, ThreeFields
  <2> QED BY <2>2 DEF todo, done
<1>9. handlers' = [handlers EXCEPT ![h] = r]
    BY <1>2
<1>10. busy \in BOOLEAN
    OBVIOUS
<1>11. /\ p.legs = c.todo /\ p.done = c.done /\ p.kind = q.kind /\ p.primary = q.primary
       /\ p.at = q.at /\ p.sessions = q.sessions /\ p.raced = (q.raced \/ busy)
  <2> HIDE DEF q, busy
  <2>1. q \in Login /\ c.todo \in Seq(Records) /\ c.done \in Seq(Leg)
      BY <1>4, <1>7
  <2> QED BY <2>1, <1>10, Consented
<1>12. r.login = l /\ r.pc = IF c.todo = <<>> THEN "finish" ELSE "begin"
    BY DEF Idle
<1> HIDE DEF p, r
<1>13. logins'[l] = p /\ \A k \in Logins \ {l} : logins'[k] = logins[k]
    BY <1>4, <1>8
<1>14. \A k \in Handlers : handlers'[k] = IF k = h THEN r ELSE handlers[k]
    BY <1>4, <1>9
<1>15. ASSUME ~p.raced
       PROVE  Alone(l)'
  <2>1. Alone(l) /\ ~busy
      BY <1>11, <1>15 DEF RInv, UInv
  <2>2. \A k \in Handlers : handlers'[k].login = l => k = h
      BY <1>14, <2>1
  <2>3. Ended(l)' = Ended(l)
      BY <1>3, <1>11, <1>13 DEF Ended
  <2>4. ~Ended(l)
      BY <1>3, <2>1 DEF Alone
  <2>5. c.todo = <<>> => logins'[l].at > Len(logins'[l].legs)
      BY <1>3, <1>11, <1>13
  <2>6. \A k \in Handlers : handlers'[k].login = l =>
          /\ handlers'[k].pc \in {"exchange", "verify"} => handlers'[k].rec = Current(l)'
          /\ handlers'[k].pc = "finish" => logins'[l].at > Len(logins'[l].legs) /\ ~Ended(l)'
      BY <1>12, <1>14, <2>2, <2>3, <2>4, <2>5
  <2> HIDE DEF busy
  <2> QED BY <1>3, <1>11, <1>13, <2>1, <2>2, <2>3, <2>4, <2>6 DEF Alone
<1>16. ASSUME Undisturbed
       PROVE  LoginProved(p, proofs')
  <2>1. \A t \in presented : TokenProved(t, proofs)
      BY <1>6, <1>16 DEF RInv, PInv
  <2>2. LoginProved(q, proofs)
      BY <1>16 DEF RInv, PInv
  <2>3. RecProved(q.primary, proofs) \/ \E j \in DOMAIN q.legs : q.legs[j] = q.primary
      BY <1>3, <1>5, <2>2 DEF LoginProved
  <2>4. p.at = 1 /\ proofs' = proofs
      BY <1>3, <1>11
  <2>5. PICK legs, primary, ps : legs = q.legs /\ primary = q.primary /\ ps = proofs
      OBVIOUS
  <2>6. p.legs = c.todo /\ p.done = c.done /\ p.primary = primary
      BY <1>11, <2>5
  <2>7. /\ c.todo \in Seq(Records) /\ c.done \in Seq(Leg)
        /\ \A i \in DOMAIN c.done : \E t \in presented : c.done[i].rec \in t.bound
      BY <1>7
  <2>8. \A j \in DOMAIN legs :
          \/ \E i \in DOMAIN c.todo : c.todo[i] = legs[j]
          \/ \E t \in presented : legs[j] \in t.bound
      BY <1>7, <2>5
  <2>9. /\ \A t \in presented : TokenProved(t, ps)
        /\ RecProved(primary, ps) \/ \E j \in DOMAIN legs : legs[j] = primary
      BY <2>1, <2>3, <2>5
  <2>10. LoginProved(p, ps)
      BY <2>4, <2>6, <2>7, <2>8, <2>9, CoveredProved
  <2> QED BY <2>4, <2>5, <2>10
<1>17. \A k \in Logins \ {l} : Alike(logins'[k], logins[k])
    BY <1>13 DEF Alike
<1>18. \A k \in Handlers : handlers'[k].login # l => Stays(k)
    BY <1>12, <1>14 DEF Stays
<1>19. /\ \A t \in parcels' : t.login # l => t \in parcels
       /\ proofs \subseteq proofs' /\ \A t \in (tokens' \cup parcels') \ (tokens \cup parcels) : FALSE
       /\ logins'[l].kind # "none" /\ (~logins'[l].raced => ~logins[l].raced)
    BY <1>3, <1>11, <1>13
<1> QED BY <1>13, <1>15, <1>16, <1>17, <1>18, <1>19, OneLoginMoves

\* completeLeg.
LEMMA CompleteAlone ==
    ASSUME SInv, RInv, NEW h \in Handlers, handlers[h].pc \in {"exchange", "verify"}, NEW rec \in Records,
           rec = handlers[h].rec \/ rec = Current(handlers[h].login),
           CompleteLeg(h, rec), proofs' = proofs \cup {Proof(handlers[h])}, UNCHANGED <<parcels, tokens>>
    PROVE  RInv'
<1>0. PICK l, hd : l = handlers[h].login /\ hd = handlers[h]
    OBVIOUS
<1> DEFINE q == logins[l]
           leg == [rec |-> rec, who |-> hd.who, cred |-> hd.cred, reused |-> FALSE]
           p == AfterLeg(q, leg)
           r == [Idle EXCEPT !.login = l, !.pc = IF q.at < Len(q.legs) THEN "begin" ELSE "finish"]
<1>1. /\ handlers \in [Handlers -> Handler] /\ logins \in [Logins -> Login]
      /\ hd \in Handler /\ HandlerOK(hd, q)
    BY <1>0, Known
<1>2. l \in Logins /\ q.kind \notin {"none", "over"} /\ hd.rec \in Records
    BY <1>0, <1>1 DEF HandlerOK
<1>3. q \in Login /\ LoginOK(q)
    BY <1>2, Known
<1>4. logins' = [logins EXCEPT ![l] = p]
    BY <1>0, <1>1, <1>2, TwoFields DEF CompleteLeg
<1>5. handlers' = [handlers EXCEPT ![h] = r]
    BY <1>0 DEF CompleteLeg
<1>6. leg \in Leg /\ leg.rec = rec
    BY <1>1 DEF Handler, Leg
<1>7. r.login = l /\ r.pc = IF q.at < Len(q.legs) THEN "begin" ELSE "finish"
    BY DEF Idle
<1>8. hd.rec = Proof(hd).rec /\ Proof(hd) \in proofs' /\ proofs \subseteq proofs'
    BY <1>0 DEF Proof
<1>u. logins[l] = q /\ handlers[h] = hd /\ hd.login = l /\ hd.pc \in {"exchange", "verify"}
      /\ (rec = hd.rec \/ rec = Current(l))
    BY <1>0
<1> HIDE DEF q, leg, r
<1>9. /\ p.at = q.at + 1 /\ p.done = Append(q.done, leg) /\ p.legs = q.legs
      /\ p.kind = q.kind /\ p.primary = q.primary /\ p.sessions = q.sessions /\ p.raced = q.raced
    BY <1>3, <1>6, LegDoneNow
<1> HIDE DEF p
<1>10. q.at \in Nat /\ q.at >= 1 /\ q.done \in Seq(Leg) /\ Len(q.legs) \in Nat
    BY <1>3 DEF Login, LoginOK
<1>11. logins'[l] = p /\ \A k \in Logins \ {l} : logins'[k] = logins[k]
    BY <1>1, <1>2, <1>4
<1>12. \A k \in Handlers : handlers'[k] = IF k = h THEN r ELSE handlers[k]
    BY <1>1, <1>5
<1>13. RecProved(hd.rec, proofs')
    BY <1>8 DEF RecProved
<1>14. ASSUME ~q.raced
       PROVE  /\ Alone(l) /\ hd.rec = Current(l) /\ rec = hd.rec
              /\ \A k \in Handlers : handlers[k].login = l => k = h
  <2>1. Alone(l)
      BY <1>2, <1>14, <1>u DEF RInv, UInv
  <2> QED BY <1>u, <2>1 DEF Alone
<1>15. ASSUME ~q.raced
       PROVE  Alone(l)'
  <2>1. /\ Alone(l) /\ hd.rec = Current(l)
        /\ \A k \in Handlers : handlers[k].login = l => k = h
      BY <1>14, <1>15
  <2>2. Current(l) # NoRecord
      BY <1>2, <2>1, LoginsAssumption
  <2>3. ~Ended(l)
    <3>1. q.at <= Len(q.legs)
        BY <1>u, <2>2 DEF Current
    <3> QED BY <1>10, <1>u, <2>1, <3>1 DEF Alone
  <2>4. ~Ended(l)'
      BY <1>9, <1>11, <1>u, <2>3 DEF Ended
  <2>5. \A k \in Handlers : handlers'[k].login = l => k = h
      BY <1>12, <2>1
  <2>6. r.pc = "finish" => logins'[l].at > Len(logins'[l].legs)
      BY <1>7, <1>9, <1>10, <1>11
  <2>7. \A k \in Handlers : handlers'[k].login = l =>
          /\ handlers'[k].pc \in {"exchange", "verify"} => handlers'[k].rec = Current(l)'
          /\ handlers'[k].pc = "finish" => logins'[l].at > Len(logins'[l].legs) /\ ~Ended(l)'
      BY <1>7, <1>12, <2>4, <2>5, <2>6
  <2>8. logins'[l].sessions \in {0, 1} /\ parcels' = parcels
      BY <1>9, <1>11, <1>u, <2>1 DEF Alone
  <2> QED BY <2>4, <2>5, <2>7, <2>8, <1>9, <1>11, <1>u, <2>1 DEF Alone
<1>16. ASSUME Undisturbed
       PROVE  LoginProved(p, proofs')
  <2>1. ~q.raced /\ LoginProved(q, proofs)
      BY <1>2, <1>16, <1>u DEF Undisturbed, RInv, PInv
  <2>2. rec = hd.rec /\ rec = Current(l)
      BY <1>14, <2>1
  <2>3. LoginProved(q, proofs')
      BY <1>8, <2>1, ProvedStays
  <2>4. \A i \in DOMAIN p.done : (i \in DOMAIN q.done /\ p.done[i] = q.done[i]) \/ p.done[i] = leg
      BY <1>6, <1>9, <1>10
  <2>5. \A i \in DOMAIN p.done : RecProved(p.done[i].rec, proofs')
      BY <1>6, <1>13, <2>2, <2>3, <2>4 DEF LoginProved
  <2>6. \/ RecProved(q.primary, proofs')
        \/ \E i \in q.at..Len(q.legs) : q.legs[i] = q.primary
      BY <1>2, <2>3 DEF LoginProved
  <2>7. ASSUME NEW i \in q.at..Len(q.legs), q.legs[i] = q.primary
        PROVE  RecProved(q.primary, proofs') \/ i \in p.at..Len(p.legs)
    <3>1. CASE i = q.at
      <4>1. q.primary = Current(l)
          BY <1>10, <1>u, <2>7, <3>1 DEF Current
      <4> QED BY <1>13, <2>2, <4>1
    <3>2. CASE i # q.at
        BY <1>9, <1>10, <3>2
    <3> QED BY <3>1, <3>2
  <2>8. \/ RecProved(p.primary, proofs')
        \/ \E i \in p.at..Len(p.legs) : p.legs[i] = p.primary
      BY <1>9, <2>6, <2>7
  <2> QED BY <2>5, <2>8 DEF LoginProved
<1>17. \A k \in Logins \ {l} : Alike(logins'[k], logins[k])
    BY <1>11 DEF Alike
<1>18. \A k \in Handlers : handlers'[k].login # l => Stays(k)
    BY <1>7, <1>12 DEF Stays
<1>19. /\ \A t \in parcels' : t.login # l => t \in parcels
       /\ \A t \in (tokens' \cup parcels') \ (tokens \cup parcels) : FALSE
       /\ logins'[l].kind # "none" /\ (~logins'[l].raced => ~logins[l].raced)
    BY <1>2, <1>9, <1>11, <1>u
<1>20. ~logins'[l].raced => Alone(l)'
    BY <1>9, <1>11, <1>15
<1> QED BY <1>2, <1>8, <1>11, <1>16, <1>17, <1>18, <1>19, <1>20, OneLoginMoves

\* A request gives up.
LEMMA GivesUpAlone ==
    ASSUME SInv, RInv, NEW h \in Handlers, handlers' = [handlers EXCEPT ![h] = Idle],
           UNCHANGED <<logins, parcels, tokens>>, proofs \subseteq proofs'
    PROVE  RInv'
<1>1. \A k \in Logins : Alike(logins'[k], logins[k])
    BY DEF Alike
<1>2. parcels' \subseteq parcels /\ tokens' = tokens
    OBVIOUS
<1> QED BY <1>1, <1>2, OneLeaves, NoLoginMoves

\* The provider's answer.
LEMMA ExchangeAlone ==
    ASSUME SInv, RInv, NEW h \in Handlers, Exchange(h)
    PROVE  RInv'
<1>1. /\ handlers[h].pc = "exchange" /\ UNCHANGED <<parcels, tokens>>
      /\ \/ CompleteLeg(h, handlers[h].rec) /\ proofs' = proofs \cup {Proof(handlers[h])}
         \/ handlers' = [handlers EXCEPT ![h] = Idle] /\ UNCHANGED <<logins, proofs>>
    BY DEF Exchange
<1>2. HandlerOK(handlers[h], logins[handlers[h].login])
    BY Known
<1>3. CASE CompleteLeg(h, handlers[h].rec) /\ proofs' = proofs \cup {Proof(handlers[h])}
  <2>1. handlers[h].rec \in Records
      BY <1>1, <1>2 DEF HandlerOK
  <2> QED BY <1>1, <1>3, <2>1, CompleteAlone
<1>4. CASE handlers' = [handlers EXCEPT ![h] = Idle] /\ UNCHANGED <<logins, proofs>>
    BY <1>1, <1>4, GivesUpAlone
<1> QED BY <1>1, <1>3, <1>4

\* The right credential.
LEMMA RightAlone ==
    ASSUME SInv, RInv, NEW h \in Handlers, RightCredential(h)
    PROVE  RInv'
<1> DEFINE hd == handlers[h]
           l == hd.login
           rec == IF hd.rec = "ssh" THEN Current(l) ELSE hd.rec
<1>1. /\ hd.pc = "verify" /\ UNCHANGED <<parcels, tokens>> /\ proofs' = proofs \cup {Proof(hd)}
      /\ IF rec = NoRecord THEN handlers' = [handlers EXCEPT ![h] = Idle] /\ UNCHANGED logins ELSE CompleteLeg(h, rec)
    BY DEF RightCredential
<1>2. HandlerOK(hd, logins[l])
    BY Known
<1>3. hd.rec \in Records /\ l \in Logins
    BY <1>1, <1>2 DEF HandlerOK
<1>4. CASE rec = NoRecord
    BY <1>1, <1>4, GivesUpAlone
<1>5. CASE rec # NoRecord
  <2>1. rec \in Records /\ (rec = handlers[h].rec \/ rec = Current(handlers[h].login))
      BY <1>3, <1>5, CurrentLeg
  <2>2. CompleteLeg(h, rec)
      BY <1>1, <1>5
  <2> HIDE DEF rec
  <2> QED BY <1>1, <2>1, <2>2, CompleteAlone
<1> QED BY <1>4, <1>5

\* beginLeg.
LEMMA BeginAlone ==
    ASSUME SInv, RInv, NEW h \in Handlers, BeginLeg(h)
    PROVE  RInv'
<1>1. /\ handlers' = [handlers EXCEPT ![h] = Idle] /\ handlers[h].pc = "begin"
      /\ UNCHANGED <<parcels, tokens, proofs>>
    BY DEF BeginLeg
<1>2. CASE UNCHANGED logins
    BY <1>1, <1>2, GivesUpAlone
<1>3. CASE ~UNCHANGED logins
  <2>1. PICK l : l = handlers[h].login
      OBVIOUS
  <2>2. logins' = [logins EXCEPT ![l].begun = @ + 1, ![l].live = TRUE]
      BY <1>3, <2>1 DEF BeginLeg
  <2>3. l \in Logins
      BY <1>1, <2>1, Known DEF HandlerOK
  <2>4. ASSUME NEW k \in Logins
        PROVE  Alike(logins'[k], logins[k])
    <3>1. logins[k] \in Login
        BY Known
    <3>2. logins'[k] = IF k = l THEN [logins[k] EXCEPT !.begun = logins[k].begun + 1, !.live = TRUE] ELSE logins[k]
        BY <2>2, <2>3, Known
    <3> QED BY <3>1, <3>2 DEF Alike, Login
  <2>5. parcels' \subseteq parcels /\ tokens' = tokens /\ proofs \subseteq proofs'
      BY <1>1
  <2> QED BY <1>1, <2>4, <2>5, OneLeaves, NoLoginMoves
<1> QED BY <1>2, <1>3

\* All a token is bound to was proved, when its login is at its end.
LEMMA MintProved ==
    ASSUME SInv, NEW l \in Logins, logins[l].kind \notin {"none", "over"}, NEW ps,
           LoginProved(logins[l], ps), logins[l].at > Len(logins[l].legs)
    PROVE  TokenProved(MintForLegs(l), ps)
<1> DEFINE p == logins[l]
           t == MintForLegs(l)
           recs == {p.done[i].rec : i \in 1..Len(p.done)}
<1>1. t.bound = recs \cup {p.primary}
    BY DEF MintForLegs
<1>2. p \in Login
    BY Known
<1>3. DOMAIN p.done = 1..Len(p.done) /\ p.at \in Nat /\ Len(p.legs) \in Nat
    BY <1>2 DEF Login
<1>4. \A rec \in recs : RecProved(rec, ps)
    BY <1>3 DEF LoginProved
<1>5. p.at..Len(p.legs) = {}
    BY <1>3
<1>6. RecProved(p.primary, ps)
    BY <1>5 DEF LoginProved
<1> HIDE DEF t, recs
<1>7. TokenProved(t, ps)
    BY <1>1, <1>4, <1>6 DEF TokenProved
<1> QED BY <1>7 DEF t

\* finishLogin.
LEMMA FinishAlone ==
    ASSUME SInv, RInv, NEW h \in Handlers, Finish(h)
    PROVE  RInv'
<1>0. PICK l : l = handlers[h].login
    OBVIOUS
<1>t. PICK t : t = MintForLegs(l)
    OBVIOUS
<1> DEFINE q == logins[l]
<1>1. /\ handlers[h].pc = "finish" /\ handlers' = [handlers EXCEPT ![h] = Idle] /\ proofs' = proofs
      /\ \/ UNCHANGED <<logins, tokens, parcels>>
         \/ /\ \E i \in 1..Len(logins[l].done) : logins[l].done[i].rec = logins[l].gate
            /\ IF logins[l].kind \in {"mcp", "host"}
               THEN parcels' = parcels \cup {t} /\ UNCHANGED <<logins, tokens>>
               ELSE HandOut(l, t) /\ UNCHANGED parcels
    BY <1>0, <1>t DEF Finish
<1>2. /\ HandlerOK(handlers[h], q) /\ logins \in [Logins -> Login] /\ handlers \in [Handlers -> Handler]
    BY <1>0, Known
<1>3. l \in Logins /\ q.kind \notin {"none", "over"}
    BY <1>0, <1>1, <1>2 DEF HandlerOK
<1>4. q \in Login
    BY <1>3, Known
<1>5. CASE UNCHANGED <<logins, tokens, parcels>>
    BY <1>1, <1>5, GivesUpAlone
<1>6. CASE ~UNCHANGED <<logins, tokens, parcels>>
  <2>1. \E i \in 1..Len(q.done) : q.done[i].rec = q.gate
      BY <1>1, <1>6
  <2>2. t.login = l
      BY <1>3, <1>t, <2>1, MintOK
  <2>3. q.done # <<>>
      BY <2>1
  <2>4. ASSUME ~q.raced
        PROVE  /\ Alone(l) /\ q.at > Len(q.legs) /\ ~Ended(l)
               /\ \A k \in Handlers : handlers[k].login = l => k = h
    <3>1. Alone(l)
        BY <1>3, <2>4 DEF RInv, UInv
    <3> QED BY <1>0, <1>1, <3>1 DEF Alone
  <2>5. ASSUME Undisturbed
        PROVE  LoginProved(q, proofs) /\ TokenProved(t, proofs)
    <3>1. ~q.raced /\ LoginProved(q, proofs)
        BY <1>3, <2>5 DEF Undisturbed, RInv, PInv
    <3> QED BY <1>3, <1>t, <2>4, <3>1, MintProved
  <2>6. \A k \in Handlers : handlers'[k] = IF k = h THEN Idle ELSE handlers[k]
      BY <1>1, <1>2
  <2>7. ASSUME ~q.raced
        PROVE  \A k \in Handlers : handlers'[k].login # l
      BY <1>3, <2>4, <2>6, <2>7, IdleIsOK, LoginsAssumption
  <2>8. \A k \in Handlers : handlers'[k].login # l => Stays(k)
      BY <2>6, IdleIsOK DEF Stays
  <2>9. CASE q.kind \in {"mcp", "host"}
    <3>1. parcels' = parcels \cup {t} /\ logins' = logins /\ tokens' = tokens
        BY <1>1, <1>6, <2>9
    <3>2. ASSUME ~q.raced
          PROVE  Alone(l)'
      <4>1. q.sessions = 0 /\ \A s \in parcels : s.login # l
          BY <2>4, <3>2 DEF Alone, Ended
      <4>2. logins'[l].kind # "none" /\ logins'[l].at > Len(logins'[l].legs) /\ logins'[l].done # <<>>
          BY <1>3, <2>3, <2>4, <3>1, <3>2
      <4>3. logins'[l].sessions = 0
          BY <3>1, <4>1
      <4>4. \A s, u \in parcels' : s.login = l /\ u.login = l => s = u
          BY <3>1, <4>1
      <4> QED BY <2>7, <3>2, <4>2, <4>3, <4>4 DEF Alone
    <3>3. /\ \A k \in Logins \ {l} : Alike(logins'[k], logins[k])
          /\ \A s \in parcels' : s.login # l => s \in parcels
          /\ ~logins'[l].raced => ~logins[l].raced
          /\ logins'[l].kind # "none" /\ proofs \subseteq proofs'
        BY <1>1, <1>3, <2>2, <3>1 DEF Alike
    <3>4. Undisturbed => \A s \in (tokens' \cup parcels') \ (tokens \cup parcels) : TokenProved(s, proofs')
        BY <1>1, <2>5, <3>1
    <3>5. Undisturbed => LoginProved(logins'[l], proofs')
        BY <1>1, <2>5, <3>1
    <3>6. ~logins'[l].raced => Alone(l)'
        BY <3>1, <3>2
    <3> QED BY <1>3, <2>8, <3>3, <3>4, <3>5, <3>6, OneLoginMoves
  <2>10. CASE q.kind \notin {"mcp", "host"}
    <3> DEFINE p == [q EXCEPT !.sessions = q.sessions + 1]
    <3>1. /\ logins' = [logins EXCEPT ![l] = p] /\ tokens' = tokens \cup {t} /\ parcels' = parcels
        BY <1>1, <1>6, <2>10 DEF HandOut
    <3>u. logins[l] = q
        OBVIOUS
    <3> HIDE DEF q
    <3>2. /\ p.sessions = q.sessions + 1 /\ p.kind = q.kind /\ p.primary = q.primary /\ p.legs = q.legs
          /\ p.at = q.at /\ p.done = q.done /\ p.raced = q.raced
        BY <1>4, OneMoreSession
    <3> HIDE DEF p
    <3>3. logins'[l] = p /\ \A k \in Logins \ {l} : logins'[k] = logins[k]
        BY <1>2, <1>3, <3>1
    <3>4. ASSUME ~q.raced
          PROVE  Alone(l)'
      <4>1. q.sessions = 0 /\ \A s \in parcels : s.login # l
          BY <2>4, <3>4, <3>u DEF Alone, Ended
      <4>2. logins'[l].kind # "none" /\ logins'[l].at > Len(logins'[l].legs) /\ logins'[l].done # <<>>
          BY <1>3, <2>3, <2>4, <3>2, <3>3, <3>4
      <4>3. logins'[l].sessions = 1 /\ parcels' = parcels
          BY <3>1, <3>2, <3>3, <4>1
      <4> QED BY <2>7, <3>4, <4>1, <4>2, <4>3 DEF Alone
    <3>5. /\ \A k \in Logins \ {l} : Alike(logins'[k], logins[k])
          /\ \A s \in parcels' : s.login # l => s \in parcels
          /\ ~logins'[l].raced => ~logins[l].raced
          /\ logins'[l].kind # "none" /\ proofs \subseteq proofs'
        BY <1>1, <1>3, <3>1, <3>2, <3>3, <3>u DEF Alike
    <3>6. Undisturbed => \A s \in (tokens' \cup parcels') \ (tokens \cup parcels) : TokenProved(s, proofs')
        BY <1>1, <2>5, <3>1
    <3>7. Undisturbed => LoginProved(logins'[l], proofs')
        BY <1>1, <2>5, <3>2, <3>3 DEF LoginProved
    <3>8. ~logins'[l].raced => Alone(l)'
        BY <3>2, <3>3, <3>4
    <3> QED BY <1>3, <2>8, <3>5, <3>6, <3>7, <3>8, OneLoginMoves
  <2> QED BY <2>9, <2>10
<1> QED BY <1>5, <1>6

\* Somebody comes for a code or a ticket.
LEMMA CollectAlone ==
    ASSUME SInv, RInv, Collect
    PROVE  RInv'
<1>1. PICK t \in parcels :
        /\ parcels' = parcels \ {t} /\ HandOut(t.login, t)
        /\ UNCHANGED <<handlers, trips, booked, proofs, wrong, late>>
    BY DEF Collect
<1>2. PICK l : l = t.login
    OBVIOUS
<1> DEFINE q == logins[l]
           p == [q EXCEPT !.sessions = q.sessions + 1]
<1>3. l \in Logins /\ logins \in [Logins -> Login]
    BY <1>2, Known DEF Token
<1>4. q \in Login /\ q.kind # "none"
    BY <1>2, <1>3, Known DEF SInv
<1>5. logins' = [logins EXCEPT ![l] = p] /\ tokens' = tokens \cup {t}
    BY <1>1, <1>2 DEF HandOut
<1>u. logins[l] = q
    OBVIOUS
<1> HIDE DEF q
<1>6. /\ p.sessions = q.sessions + 1 /\ p.kind = q.kind /\ p.primary = q.primary /\ p.legs = q.legs
      /\ p.at = q.at /\ p.done = q.done /\ p.raced = q.raced
    BY <1>4, OneMoreSession
<1> HIDE DEF p
<1>7. logins'[l] = p /\ \A k \in Logins \ {l} : logins'[k] = logins[k]
    BY <1>3, <1>5
<1>8. ASSUME ~q.raced
      PROVE  Alone(l)'
  <2>1. Alone(l) /\ Ended(l)
      BY <1>2, <1>3, <1>8, <1>u DEF RInv, UInv, Ended
  <2>2. q.sessions = 0 /\ \A s \in parcels : s.login = l => s = t
      BY <1>2, <1>u, <2>1 DEF Alone
  <2>3. logins'[l].sessions = 1 /\ \A s \in parcels' : s.login # l
      BY <1>1, <1>6, <1>7, <2>2
  <2>4. Current(l)' = Current(l)
      BY <1>6, <1>7, <1>u DEF Current
  <2>5. \A h \in Handlers : handlers'[h].login = l =>
          /\ handlers'[h].pc \in {"exchange", "verify"} => handlers'[h].rec = Current(l)'
          /\ handlers'[h].pc # "finish"
      BY <1>1, <2>1, <2>4 DEF Alone
  <2>6. \A h, k \in Handlers : handlers'[h].login = l /\ handlers'[k].login = l => h = k
      BY <1>1, <2>1 DEF Alone
  <2>7. /\ logins'[l].kind # "none" /\ logins'[l].at > Len(logins'[l].legs)
        /\ logins'[l].done # <<>> \/ logins'[l].kind = "over"
      BY <1>6, <1>7, <1>u, <2>1 DEF Alone
  <2> QED BY <2>3, <2>5, <2>6, <2>7 DEF Alone
<1>9. /\ \A k \in Logins \ {l} : Alike(logins'[k], logins[k])
      /\ \A s \in parcels' : s.login # l => s \in parcels
      /\ ~logins'[l].raced => ~logins[l].raced
      /\ logins'[l].kind # "none" /\ proofs \subseteq proofs'
    BY <1>1, <1>4, <1>6, <1>7, <1>u DEF Alike
<1>10. \A s \in (tokens' \cup parcels') \ (tokens \cup parcels) : FALSE
    BY <1>1, <1>5
<1>11. ASSUME Undisturbed
       PROVE  LoginProved(logins'[l], proofs')
  <2>1. LoginProved(q, proofs)
      BY <1>3, <1>11, <1>u DEF RInv, PInv
  <2> QED BY <1>1, <1>6, <1>7, <2>1 DEF LoginProved
<1>12. ~logins'[l].raced => Alone(l)'
    BY <1>6, <1>7, <1>8
<1>13. \A h \in Handlers : Stays(h)
    BY <1>1, AllStay
<1> QED BY <1>3, <1>9, <1>10, <1>11, <1>12, <1>13, OneLoginMoves

\* Or is refused; or the counter's window lapses.
LEMMA RefuseAlone ==
    ASSUME SInv, RInv, Refuse \/ RollWindow
    PROVE  RInv'
<1>1. parcels' \subseteq parcels /\ tokens' = tokens /\ proofs' = proofs /\ logins' = logins
    BY DEF Refuse, RollWindow
<1>2. \A h \in Handlers : Stays(h)
  <2>1. CASE Refuse
    <3>1. handlers' = handlers
        BY <2>1 DEF Refuse
    <3> QED BY <3>1, AllStay
  <2>2. CASE RollWindow
    <3> TAKE h \in Handlers
    <3>1. handlers[h] \in Handler
        BY Known
    <3>2. handlers'[h] = [handlers[h] EXCEPT !.old = handlers[h].old \/ handlers[h].pc = "verify"]
        BY <2>2 DEF RollWindow
    <3>3. handlers'[h].login = handlers[h].login /\ handlers'[h].pc = handlers[h].pc /\ handlers'[h].rec = handlers[h].rec
        BY <3>1, <3>2 DEF Handler
    <3> QED BY <3>3 DEF Stays
  <2> QED BY <2>1, <2>2
<1>3. \A k \in Logins : Alike(logins'[k], logins[k])
    BY <1>1 DEF Alike
<1> QED BY <1>1, <1>2, <1>3, NoLoginMoves

\* A restart.
LEMMA RestartAlone ==
    ASSUME SInv, RInv, Restart
    PROVE  RInv'
<1>1. /\ logins' = [l \in Logins |-> Over(logins[l])] /\ handlers' = [h \in Handlers |-> Idle]
      /\ parcels' = {} /\ UNCHANGED <<tokens, proofs>>
    BY DEF Restart
<1>2. ASSUME NEW l \in Logins
      PROVE  /\ logins'[l].kind = "over" /\ logins'[l].legs = <<>> /\ logins'[l].done = <<>> /\ logins'[l].at = 1
             /\ logins'[l].raced = logins[l].raced
             /\ logins'[l].sessions = IF logins[l].raced THEN 0 ELSE logins[l].sessions
    BY <1>1, Known, OverIsOver
<1>3. UInv'
  <2> SUFFICES ASSUME NEW l \in Logins, ~logins'[l].raced
               PROVE  Alone(l)'
      BY DEF UInv
  <2>1. Alone(l) /\ logins'[l].sessions = logins[l].sessions
      BY <1>2 DEF RInv, UInv
  <2>2. \A h \in Handlers : handlers'[h].login # l
      BY <1>1, IdleIsOK, LoginsAssumption
  <2>3. logins'[l].at > Len(logins'[l].legs)
      BY <1>2
  <2>4. logins'[l].sessions \in {0, 1}
      BY <2>1 DEF Alone
  <2>5. logins'[l].kind = "over"
      BY <1>2
  <2> QED BY <1>1, <2>2, <2>3, <2>4, <2>5 DEF Alone
<1>4. Calm'
    BY <1>2 DEF Calm
<1>5. PInv'
  <2> SUFFICES ASSUME Undisturbed'
               PROVE  /\ \A t \in tokens' \cup parcels' : TokenProved(t, proofs')
                      /\ \A l \in Logins : LoginProved(logins'[l], proofs')
      BY DEF PInv
  <2>1. Undisturbed
      BY <1>2 DEF Undisturbed
  <2>2. \A t \in tokens' \cup parcels' : TokenProved(t, proofs')
      BY <1>1, <2>1 DEF RInv, PInv
  <2>3. \A l \in Logins : LoginProved(logins'[l], proofs')
      BY <1>2 DEF LoginProved
  <2> QED BY <2>2, <2>3
<1> QED BY <1>3, <1>4, <1>5 DEF RInv

\* So it begins.
LEMMA BeginAlike ==
    ASSUME Init, SInv
    PROVE  RInv
<1>1. PICK door \in Doors, who \in People : \E legs \in {<<>>, <<door[1]>>, door} :
        /\ logins = [l \in Logins |-> IF l = Past THEN [NewLogin EXCEPT !.kind = "over", !.gate = door[1]] ELSE NewLogin]
        /\ tokens = IF legs = <<>> THEN {} ELSE {PastToken(legs, who)}
        /\ proofs = Proved(legs, who)
    BY DEF Init
<1>2. PICK legs :
        /\ logins = [l \in Logins |-> IF l = Past THEN [NewLogin EXCEPT !.kind = "over", !.gate = door[1]] ELSE NewLogin]
        /\ tokens = IF legs = <<>> THEN {} ELSE {PastToken(legs, who)}
        /\ proofs = Proved(legs, who)
    BY <1>1
<1>3. parcels = {} /\ handlers = [h \in Handlers |-> Idle]
    BY DEF Init
<1>4. \A l \in Logins : logins[l].done = <<>> /\ ~logins[l].raced /\ logins[l].sessions = 0
                        /\ logins[l].kind \in {"none", "over"}
    BY <1>2 DEF NewLogin
<1>5. UInv
  <2>1. \A h \in Handlers, l \in Logins : handlers[h].login # l
      BY <1>3, IdleIsOK, LoginsAssumption
  <2>2. \A l \in Logins : logins[l].sessions = 0 /\ ~Ended(l)
      BY <1>3, <1>4 DEF Ended
  <2> QED BY <1>3, <2>1, <2>2 DEF UInv, Alone
<1>6. PInv
  <2>1. \A t \in tokens : TokenProved(t, proofs)
    <3>1. PastToken(legs, who).bound = Range(legs)
        BY DEF PastToken
    <3>2. \A rec \in Range(legs) : RecProved(rec, Proved(legs, who))
      <4> TAKE rec \in Range(legs)
      <4> DEFINE pr == [login |-> Past, rec |-> rec, who |-> who, home |-> TRUE]
      <4>1. pr \in Proved(legs, who)
          BY DEF Proved
      <4>2. pr.rec = rec
          OBVIOUS
      <4> HIDE DEF pr
      <4> QED BY <4>1, <4>2 DEF RecProved
    <3> QED BY <1>2, <3>1, <3>2 DEF TokenProved
  <2>2. \A l \in Logins : LoginProved(logins[l], proofs)
      BY <1>4 DEF LoginProved
  <2> QED BY <1>3, <2>1, <2>2 DEF PInv
<1> QED BY <1>4, <1>5, <1>6 DEF RInv, Calm

\* Every step keeps what holds of logins nobody races for.
LEMMA RInvKept ==
    SInv /\ RInv /\ [Next]_vars => RInv'
<1> SUFFICES ASSUME SInv, RInv, [Next]_vars PROVE RInv'
    OBVIOUS
<1>1. ASSUME NEW l \in Logins, Starts(l) PROVE RInv'
    BY <1>1, StartAppAlone, StartPageAlone, StartMCPAlone, BindAlone, ExpireAlone DEF Starts
<1>2. ASSUME NEW l \in Logins, NEW h \in Handlers, Enter(h, l) PROVE RInv'
    BY <1>2, ContinueAlone, CallbackAlone, SubmitAlone DEF Enter
<1>3. ASSUME NEW h \in Handlers, Step(h) PROVE RInv'
  <2>1. CASE WrongCredential(h)
    <3>1. /\ handlers' = [handlers EXCEPT ![h] = Idle] /\ UNCHANGED <<logins, parcels, tokens>>
          /\ proofs \subseteq proofs'
        BY <2>1 DEF WrongCredential
    <3> QED BY <3>1, GivesUpAlone
  <2> QED BY <1>3, <2>1, ExchangeAlone, RightAlone, BeginAlone, FinishAlone DEF Step
<1>4. CASE UNCHANGED vars
  <2>1. /\ \A k \in Logins : Alike(logins'[k], logins[k])
        /\ handlers' = handlers /\ parcels' \subseteq parcels /\ tokens' = tokens /\ proofs \subseteq proofs'
      BY <1>4 DEF vars, Alike
  <2> QED BY <2>1, AllStay, NoLoginMoves
<1> QED BY <1>1, <1>2, <1>3, <1>4, CollectAlone, RefuseAlone, RestartAlone DEF Next

\* Throughout.
LEMMA RInvAlways ==
    Spec => []RInv
<1>1. Init => SInv /\ RInv
    BY Begin, BeginAlike
<1> QED BY <1>1, SInvAlways, RInvKept, PTL DEF Spec

-----------------------------------------------------------------------------
(* What follows                                                            *)

\* What a token says has been proved, by the person it names: its identity is
\* that of somebody who proved the gate, in that login if it counts as fresh,
\* and while no two requests advance a login at once every record it is bound to
\* was proved (mintForLegs).
THEOREM TokensSayWhatWasProved ==
    Spec => []TokensAreProved
<1>1. SInv /\ RInv => TokensAreProved
  <2> SUFFICES ASSUME SInv, RInv PROVE TokensAreProved
      OBVIOUS
  <2>1. TypeOK
      BY DEF SInv
  <2>2. \A t \in tokens : TokenOK(t, logins[t.login].gate, proofs)
      BY DEF SInv
  <2>3. IdentityIsTheGates /\ FreshMeansSignedIn
      BY <2>2 DEF IdentityIsTheGates, FreshMeansSignedIn, TokenOK, Proves, ProvesIn
  <2>4. UndisturbedLoginsProveAll
      BY DEF UndisturbedLoginsProveAll, BoundRecordsWereProved, RInv, PInv, TokenProved, RecProved
  <2> QED BY <2>1, <2>3, <2>4 DEF TokensAreProved
<1> QED BY <1>1, SInvAlways, RInvAlways, PTL

\* A login that no two requests advanced at once leads to one session at most,
\* and an MCP client's stays in the browser that was shown its consent page,
\* whatever is sent again.
THEOREM LoginsKeepToTheirs ==
    Spec => []LoginsStayTheirs
<1>1. SInv /\ RInv => LoginsStayTheirs
  <2> SUFFICES ASSUME SInv, RInv PROVE LoginsStayTheirs
      OBVIOUS
  <2>1. OneSessionPerLogin
    <3> SUFFICES ASSUME NEW l \in Logins, ~logins[l].raced
                 PROVE  logins[l].sessions <= 1
        BY DEF OneSessionPerLogin
    <3>1. logins[l].sessions \in {0, 1}
        BY DEF RInv, UInv, Alone
    <3> QED BY <3>1
  <2>2. ConsentStaysInItsBrowser
      BY DEF ConsentStaysInItsBrowser, SInv
  <2> QED BY <2>1, <2>2 DEF LoginsStayTheirs
<1> QED BY <1>1, SInvAlways, RInvAlways, PTL

=================================================================================
