----------------------------- MODULE Accounts_proofs -----------------------------
(***************************************************************************)
(* Proofs about Accounts: for any number of accounts, auth records and     *)
(* requests in flight, accounts whose writers did not overlap are what the *)
(* requests meant, nobody is a Superuser whom no Superuser made one, ended *)
(* keys leave no session but of logins under way, and onboarding is done   *)
(* whole or undone.                                                        *)
(***************************************************************************)
EXTENDS Accounts, TLAPS

RequestsAreRecords == req \in [Handlers -> Request]

\* The requests that will write the row they read, and those that are about an
\* account.
Rewriters == {"update", "keep", "move", "make", "drop", "profile", "mint", "spend", "firstkey"}
OnAccount == Rewriters \cup {"clear", "delete", "revoke", "pin", "firstgate"}

\* What a request knows, whatever the others do: the account it is about had
\* its id, who was a Superuser on the row it read had been made one, and the row
\* it was asked to write is the one it read but for what it may change.
Knows(r, crown, next) ==
    /\ r.at \in OnAccount => r.id \in Users /\ r.id < next
    /\ r.at \in Rewriters \cup {"pin"} => r.seen \in Row
    /\ r.at \in Rewriters /\ r.seen.role = "Superuser" => r.id \in crown
    /\ r.at \in {"update", "keep", "move", "profile"} =>
          r.want \in Row /\ r.want.key = r.seen.key /\ r.want.link = r.seen.link /\ r.want.pin = r.seen.pin
    /\ r.at = "profile" => r.want.role = r.seen.role /\ r.want.status = r.seen.status
    /\ r.at \in {"keep", "move"} => MayGrant(r.actor, r.want.role)
    /\ r.at \in {"make", "firstkey"} => r.seen.key = 0
    /\ r.at = "dropRecord" => r.rec \in Records \ {Builtin}
RequestsKnow == \A h \in Handlers : Knows(req[h], crowned, nextId)

\* The sessions that logins under way will open, and those with the ones there are.
Logins == {<<req[k].id, req[k].seen.key>> : k \in {l \in Handlers : req[l].at = "login"}}
Signed == sessions \cup Logins

\* Ids are given in order.
IdsInOrder ==
    /\ \A u \in Users : Exists(u) => u < nextId
    /\ \A s \in Signed : s \in Users \X (1..MaxSecrets) /\ s[1] < nextId
    /\ \A u \in cutShort : u < nextId

\* Two rows that say the same, but perhaps for the pin.
SameButPin(row, other) ==
    /\ row.role = other.role /\ row.status = other.status /\ row.email = other.email
    /\ row.key = other.key /\ row.link = other.link

\* An account and its page in the book exist together, and say the same; while a
\* move is about to clear the pins, all but the pin.
OnTheBooks ==
    \A u \in Users :
        /\ Exists(u) <=> book[u] # Gone
        /\ Exists(u) /\ Undisturbed(u) =>
              /\ SameButPin(users[u], book[u])
              /\ users[u].pin = book[u].pin \/ u \in At("clear")

\* Sessions and logins under way go by the key on the account, but for those that
\* outlived it.
KeysEnd ==
    \A s \in Signed \ outlived :
        Undisturbed(s[1]) /\ s[1] \notin At("revoke") /\ Exists(s[1]) => users[s[1]].key = s[2]

RowsHold == IdsInOrder /\ OnTheBooks /\ SuperusersWereCrowned /\ KeysEnd

\* What a request found when it began is still so while it is alone.
AsBegun(r, us, g, rs, cut) ==
    /\ r.at = "gate" /\ r.rec # 0 => rs[r.rec] # Gone
    /\ r.at = "dropRecord" => g # r.rec
    /\ r.at = "first" => g = 0 /\ \A u \in Users : us[u] = Gone
    /\ r.at \in {"firstkey", "firstgate"} =>
          g = 0 /\ r.id \notin cut /\ us[r.id] # Gone /\ \A u \in Users \ {r.id} : us[u] = Gone
    /\ r.at = "firstkey" => r.seen.role = "Superuser"
    /\ r.at = "firstgate" => us[r.id].role = "Superuser" /\ us[r.id].key # 0
AloneAsBegun ==
    \A h \in Handlers : req[h].alone /\ req[h].at # "idle" =>
        /\ \A k \in Handlers \ {h} : req[k].at = "idle"
        /\ AsBegun(req[h], users, gate, records, cutShort)

GatesHold == records[Builtin] # Gone /\ GateIsThere

AInv ==
    /\ TypeOK /\ RequestsAreRecords
    /\ RequestsKnow
    /\ RowsHold
    /\ AloneAsBegun
    /\ GatesHold

-----------------------------------------------------------------------------
(* Rows, counters and requests                                             *)

\* A row is known by its fields.
LEMMA RowsAreFields ==
    ASSUME NEW r \in Row, NEW q \in Row, SameButPin(r, q), r.pin = q.pin
    PROVE  r = q
BY DEF Row, SameButPin

\* A request with nothing to do is a request like any other.
LEMMA IdleIsRequest ==
    /\ Idle \in Request /\ Idle.at = "idle"
    /\ \A crown, next : Knows(Idle, crown, next)
    /\ \A us, g, rs, cut : AsBegun(Idle, us, g, rs, cut)
<1>1. Idle \in Request
    BY AccountsAssumption DEF Idle, Setup, Request, Actor, Roles, Kinds
<1>2. Idle.at = "idle"
    BY DEF Idle
<1> QED BY <1>1, <1>2 DEF Knows, AsBegun, OnAccount, Rewriters

\* One more request.
LEMMA OneMoreRequest ==
    ASSUME TypeOK, made < MaxRequests
    PROVE  made + 1 \in 0..MaxRequests
BY AccountsAssumption DEF TypeOK

\* One more key or link.
LEMMA OneMoreSecret ==
    ASSUME TypeOK, secrets < MaxSecrets
    PROVE  secrets + 1 \in 0..MaxSecrets /\ secrets + 1 \in 1..MaxSecrets /\ secrets + 1 # 0
BY AccountsAssumption DEF TypeOK

\* One more account.
LEMMA OneMoreUser ==
    ASSUME TypeOK, nextId <= MaxUsers
    PROVE  /\ nextId + 1 \in 1..MaxUsers + 1 /\ nextId \in Users /\ nextId < nextId + 1
           /\ \A n \in Nat : n < nextId => n < nextId + 1 /\ n # nextId
BY AccountsAssumption DEF TypeOK, Users

\* One more record.
LEMMA OneMoreRecord ==
    ASSUME TypeOK, nextRecord <= MaxRecords
    PROVE  nextRecord + 1 \in 1..MaxRecords + 1 /\ nextRecord \in Records
BY AccountsAssumption DEF TypeOK, Records

\* What a request knows stays so.
LEMMA KnowsMore ==
    ASSUME NEW r, NEW crown, NEW more, crown \subseteq more, NEW next \in Nat, NEW later \in Nat, next <= later,
           Knows(r, crown, next)
    PROVE  Knows(r, more, later)
<1>1. r.at \in OnAccount => r.id < later
  <2> SUFFICES ASSUME r.at \in OnAccount PROVE r.id < later
      OBVIOUS
  <2>1. r.id \in Users /\ r.id < next
      BY DEF Knows
  <2>2. r.id \in Nat
      BY <2>1, AccountsAssumption DEF Users
  <2> QED BY <2>1, <2>2
<1> QED BY <1>1 DEF Knows

\* Whom the requests at a point are about, when one request goes on.
LEMMA StandingMoves ==
    ASSUME RequestsAreRecords, NEW h \in Handlers, NEW q, req' = [req EXCEPT ![h] = q], NEW s
    PROVE  /\ req[h].at # s => At(s) \subseteq At(s)'
           /\ q.at = s => q.id \in At(s)'
           /\ At(s) \subseteq At(s)' \cup {req[h].id}
           /\ q.at # "login" => Logins' \subseteq Logins
<1>1. req'[h] = q /\ \A k \in Handlers \ {h} : req'[k] = req[k]
    BY DEF RequestsAreRecords
<1>2. ASSUME NEW u, u \in At(s)
      PROVE  \E k \in Handlers : req[k].at = s /\ req[k].id = u
    BY <1>2 DEF At
<1>3. ASSUME NEW k \in Handlers, req'[k].at = s
      PROVE  req'[k].id \in At(s)'
    BY <1>3 DEF At
<1>4. ASSUME q.at # "login" PROVE Logins' \subseteq Logins
  <2>1. ASSUME NEW p \in Logins' PROVE p \in Logins
    <3>1. PICK k \in Handlers : req'[k].at = "login" /\ p = <<req'[k].id, req'[k].seen.key>>
        BY <2>1 DEF Logins
    <3>2. req'[k] = req[k]
        BY <1>1, <1>4, <3>1
    <3> QED BY <3>1, <3>2 DEF Logins
  <2> QED BY <2>1
<1> QED BY <1>1, <1>2, <1>3, <1>4

\* A request goes on: the others know what they knew, and none of them was
\* alone.
LEMMA RequestGoesOn ==
    ASSUME AInv, NEW h \in Handlers, req[h].at # "idle",
           NEW q \in Request, req' = [req EXCEPT ![h] = q],
           crowned \subseteq crowned', nextId' \in Nat, nextId <= nextId',
           Knows(q, crowned', nextId'),
           q.at = "idle" \/ (q.alone => req[h].alone /\ AsBegun(q, users', gate', records', cutShort'))
    PROVE  RequestsAreRecords' /\ RequestsKnow' /\ AloneAsBegun'
<1>1. req' \in [Handlers -> Request] /\ req'[h] = q /\ \A k \in Handlers \ {h} : req'[k] = req[k]
    BY DEF AInv, RequestsAreRecords
<1>2. nextId \in Nat
    BY AccountsAssumption DEF AInv, TypeOK
<1>3. RequestsKnow'
  <2>1. ASSUME NEW k \in Handlers PROVE Knows(req'[k], crowned', nextId')
    <3>1. CASE k = h
        BY <1>1, <3>1
    <3>2. CASE k # h
      <4>1. Knows(req[k], crowned, nextId)
          BY DEF AInv, RequestsKnow
      <4>2. Knows(req[k], crowned', nextId')
          BY <1>2, <4>1, KnowsMore
      <4> QED BY <1>1, <3>2, <4>2
    <3> QED BY <3>1, <3>2
  <2> QED BY <2>1 DEF RequestsKnow
<1>4. AloneAsBegun'
  <2> SUFFICES ASSUME NEW k \in Handlers, req'[k].alone, req'[k].at # "idle"
               PROVE  /\ \A i \in Handlers \ {k} : req'[i].at = "idle"
                      /\ AsBegun(req'[k], users', gate', records', cutShort')
      BY DEF AloneAsBegun
  <2>1. k = h
      BY <1>1 DEF AInv, AloneAsBegun
  <2> QED BY <1>1, <2>1 DEF AInv, AloneAsBegun
<1> QED BY <1>1, <1>3, <1>4 DEF RequestsAreRecords

\* A session in the name of an account, by the key that is on it.
Current(s) == s \in Users \X (1..MaxSecrets) /\ s[1] < nextId /\ users[s[1]].key = s[2]

\* No row changes, and nobody leaves a point where something is left to do.
LEMMA RowsStill ==
    ASSUME AInv, UNCHANGED rows, At("clear") \subseteq At("clear")', At("revoke") \subseteq At("revoke")',
           \A s \in Logins' : s \in Logins \/ Current(s)
    PROVE  RowsHold'
<1>1. /\ users' = users /\ nextId' = nextId /\ sessions' = sessions /\ outlived' = outlived /\ book' = book
      /\ overlapped' = overlapped /\ cutShort' = cutShort /\ crowned' = crowned
    BY DEF rows
<1>2. \A u : Exists(u)' = Exists(u) /\ Undisturbed(u)' = Undisturbed(u)
    BY <1>1 DEF Exists, Undisturbed
<1>0. \A s \in Signed' : s \in Signed \/ Current(s)
    BY <1>1 DEF Signed
<1>3. IdsInOrder' /\ SuperusersWereCrowned'
    BY <1>0, <1>1, <1>2 DEF AInv, RowsHold, IdsInOrder, SuperusersWereCrowned, Current
<1>4. OnTheBooks'
    BY <1>1, <1>2 DEF AInv, RowsHold, OnTheBooks
<1>5. KeysEnd'
    BY <1>0, <1>1, <1>2 DEF AInv, RowsHold, KeysEnd, Current
<1> QED BY <1>3, <1>4, <1>5 DEF RowsHold

-----------------------------------------------------------------------------
(* Requests that arrive                                                    *)

\* Those under way are no longer alone, and all else is as it was with them.
LEMMA CrowdedAlike ==
    ASSUME AInv
    PROVE  /\ Crowded \in [Handlers -> Request]
           /\ \A k \in Handlers :
                /\ Crowded[k].at = req[k].at /\ (req[k].at # "idle" => Crowded[k].id = req[k].id /\ ~Crowded[k].alone)
                /\ req[k].at # "idle" => Crowded[k].seen = req[k].seen
                /\ Knows(Crowded[k], crowned, nextId)
<1>1. ASSUME NEW k \in Handlers
      PROVE  /\ Crowded[k] \in Request /\ Crowded[k].at = req[k].at
             /\ (req[k].at # "idle" => Crowded[k].id = req[k].id /\ ~Crowded[k].alone)
             /\ (req[k].at # "idle" => Crowded[k].seen = req[k].seen)
             /\ Knows(Crowded[k], crowned, nextId)
  <2>1. PICK r \in Request : r = req[k]
      BY DEF AInv, RequestsAreRecords
  <2>2. CASE r.at = "idle"
    <3>1. Crowded[k] = Idle
        BY <2>1, <2>2 DEF Crowded
    <3> QED BY <2>1, <2>2, <3>1, IdleIsRequest
  <2>3. CASE r.at # "idle"
    <3> DEFINE q == [r EXCEPT !.alone = FALSE]
    <3>1. Crowded[k] = q
        BY <2>1, <2>3 DEF Crowded
    <3>2. /\ q \in Request /\ q.at = r.at /\ q.id = r.id /\ ~q.alone /\ q.seen = r.seen /\ q.want = r.want
          /\ q.actor = r.actor /\ q.rec = r.rec
        BY DEF Request
    <3>3. Knows(r, crowned, nextId)
        BY <2>1 DEF AInv, RequestsKnow
    <3> HIDE DEF q
    <3>4. Knows(q, crowned, nextId)
        BY <3>2, <3>3 DEF Knows
    <3> QED BY <2>1, <3>1, <3>2, <3>4
  <2> QED BY <2>2, <2>3
<1>2. Crowded = [k \in Handlers |-> Crowded[k]]
    BY DEF Crowded
<1> QED BY <1>1, <1>2

\* A request arrives, and has been as far as its first wait.
LEMMA BeginKeeps ==
    ASSUME AInv, NEW h \in Handlers, Free(h), NEW r \in Request, Begin(h, r),
           Knows(r, crowned, nextId), AsBegun(r, users, gate, records, cutShort),
           r.at = "login" => Current(<<r.id, r.seen.key>>)
    PROVE  AInv'
<1>1. PICK b \in BOOLEAN : b = (\A k \in Handlers : req[k].at = "idle")
    OBVIOUS
<1>2. PICK q : q = [r EXCEPT !.alone = b]
    OBVIOUS
<1>3. /\ q \in Request /\ q.at = r.at /\ q.id = r.id /\ q.alone = b /\ q.seen = r.seen /\ q.want = r.want
      /\ q.actor = r.actor /\ q.rec = r.rec
    BY <1>2 DEF Request
<1>4. Knows(q, crowned, nextId) /\ AsBegun(q, users, gate, records, cutShort)
    BY <1>3 DEF Knows, AsBegun
<1>5. /\ req' = [Crowded EXCEPT ![h] = q] /\ made' = made + 1 /\ made < MaxRequests /\ req[h].at = "idle"
      /\ UNCHANGED <<rows, gates>>
    BY <1>1, <1>2 DEF Begin, Free
<1>6. req' \in [Handlers -> Request] /\ req'[h] = q /\ \A k \in Handlers \ {h} : req'[k] = Crowded[k]
    BY <1>3, <1>5, CrowdedAlike
<1>7. made' \in 0..MaxRequests
    BY <1>5, OneMoreRequest DEF AInv
<1>8. TypeOK' /\ RequestsAreRecords'
    BY <1>5, <1>6, <1>7 DEF AInv, TypeOK, RequestsAreRecords, rows, gates
<1>9. crowned' = crowned /\ nextId' = nextId /\ users' = users /\ gate' = gate /\ records' = records /\ cutShort' = cutShort
    BY <1>5 DEF rows, gates
<1>10. RequestsKnow'
    BY <1>4, <1>6, <1>9, CrowdedAlike DEF RequestsKnow
<1>11. ASSUME NEW s, s # "idle" PROVE At(s) \subseteq At(s)'
  <2>1. ASSUME NEW k \in Handlers, req[k].at = s PROVE req'[k].at = s /\ req'[k].id = req[k].id
    <3>1. k # h
        BY <1>5, <1>11, <2>1
    <3> QED BY <1>6, <1>11, <2>1, <3>1, CrowdedAlike
  <2> QED BY <2>1 DEF At
<1>15. \A s \in Logins' : s \in Logins \/ Current(s)
  <2> SUFFICES ASSUME NEW s \in Logins' PROVE s \in Logins \/ Current(s)
      OBVIOUS
  <2>1. PICK k \in Handlers : req'[k].at = "login" /\ s = <<req'[k].id, req'[k].seen.key>>
      BY DEF Logins
  <2>2. CASE k = h
      BY <1>3, <1>6, <2>1, <2>2
  <2>3. CASE k # h
    <3>1. req[k].at = "login" /\ req'[k].id = req[k].id /\ req'[k].seen = req[k].seen
        BY <1>6, <2>1, <2>3, CrowdedAlike
    <3> QED BY <2>1, <3>1 DEF Logins
  <2> QED BY <2>2, <2>3
<1>12. RowsHold'
    BY <1>5, <1>11, <1>15, RowsStill
<1>13. AloneAsBegun'
  <2> SUFFICES ASSUME NEW k \in Handlers, req'[k].alone, req'[k].at # "idle"
               PROVE  /\ \A i \in Handlers \ {k} : req'[i].at = "idle"
                      /\ AsBegun(req'[k], users', gate', records', cutShort')
      BY DEF AloneAsBegun
  <2>1. k = h
      BY <1>6, CrowdedAlike
  <2> QED BY <1>1, <1>3, <1>4, <1>6, <1>9, <2>1, CrowdedAlike
<1>14. GatesHold'
    BY <1>5 DEF AInv, GatesHold, GateIsThere, gates
<1> QED BY <1>8, <1>10, <1>12, <1>13, <1>14 DEF AInv

\* Whoever acts is an account that is there, or setup mode.
LEMMA ActorsAreThere ==
    ASSUME AInv, NEW actor \in Actors
    PROVE  /\ actor \in Actor
           /\ actor.id # 0 => actor.id \in Users /\ Exists(actor.id)
<1>1. users \in [Users -> Row \cup {Gone}] /\ Users \subseteq 1..MaxUsers /\ Users \subseteq 0..MaxUsers
    BY AccountsAssumption DEF AInv, TypeOK, Users
<1>2. CASE actor = Setup
    BY <1>2, AccountsAssumption DEF Setup, Actor, Roles
<1>3. CASE actor # Setup
  <2>1. PICK u \in Users, f \in BOOLEAN : Exists(u) /\ actor = [id |-> u, role |-> users[u].role, fresh |-> f]
      BY <1>3 DEF Actors
  <2>2. users[u] \in Row
      BY <1>1, <2>1 DEF Exists
  <2>3. users[u].role \in Roles
      BY <2>2 DEF Row
  <2> QED BY <1>1, <2>1, <2>3 DEF Actor
<1> QED BY <1>2, <1>3

\* The row a request reads says what it knows.
LEMMA SeenIsKnown ==
    ASSUME AInv, NEW u \in Users, Exists(u)
    PROVE  /\ users[u] \in Row /\ u < nextId /\ u \in 0..MaxUsers
           /\ users[u].role = "Superuser" => u \in crowned
BY AccountsAssumption DEF AInv, TypeOK, RowsHold, IdsInOrder, SuperusersWereCrowned, Exists, Users

\* A request that is about an account and has read its row.
LEMMA RowRequest ==
    ASSUME AInv, NEW u \in Users, Exists(u),
           NEW at \in {"update", "make", "drop", "profile", "mint", "spend", "login", "pin", "delete"},
           NEW actor \in Actor, NEW seen \in {users[u], Gone}, NEW want \in Row \cup {Gone},
           NEW r, r = [at |-> at, actor |-> actor, id |-> u, seen |-> seen, want |-> want,
                       rec |-> 0, kind |-> "open", alone |-> TRUE]
    PROVE  /\ r \in Request /\ r.at = at /\ r.actor = actor /\ r.id = u /\ r.seen = seen /\ r.want = want
           /\ AsBegun(r, users, gate, records, cutShort)
<1>1. users[u] \in Row /\ u \in 0..MaxUsers /\ 0 \in 0..MaxRecords
    BY SeenIsKnown, AccountsAssumption
<1>2. r \in Request
    BY <1>1 DEF Request, Kinds
<1> QED BY <1>2 DEF AsBegun

\* A request about an account arrives.
LEMMA ArriveForAccount ==
    ASSUME AInv, NEW h \in Handlers, Free(h), NEW actor \in Actors, NEW u \in Users,
           BeginUpdate(h, actor, u) \/ BeginDelete(h, actor, u) \/ BeginMakeKey(h, actor, u)
             \/ BeginDropKey(h, actor, u) \/ BeginMintLink(h, actor, u)
    PROVE  AInv'
<1>1. actor \in Actor /\ Setup \in Actor
    BY ActorsAreThere, IdleIsRequest DEF Idle, Request
<1>2. Exists(u)
    BY DEF BeginUpdate, BeginDelete, BeginMakeKey, BeginDropKey, BeginMintLink
<1>3. users[u] \in Row /\ u < nextId /\ (users[u].role = "Superuser" => u \in crowned)
    BY <1>2, SeenIsKnown
<1>4. CASE BeginUpdate(h, actor, u)
  <2>1. PICK want \in Edits(users[u]) :
          Begin(h, [Idle EXCEPT !.at = "update", !.actor = actor, !.id = u, !.seen = users[u], !.want = want])
      BY <1>4 DEF BeginUpdate
  <2>2. PICK r : r = [Idle EXCEPT !.at = "update", !.actor = actor, !.id = u, !.seen = users[u], !.want = want]
      OBVIOUS
  <2>3. want \in Row /\ want.key = users[u].key /\ want.link = users[u].link /\ want.pin = users[u].pin
      BY <1>3 DEF Edits, Row, Roles, Statuses
  <2>4. r = [at |-> "update", actor |-> actor, id |-> u, seen |-> users[u], want |-> want,
             rec |-> 0, kind |-> "open", alone |-> TRUE]
      BY <2>2 DEF Idle
  <2>5. /\ r \in Request /\ r.at = "update" /\ r.id = u /\ r.seen = users[u] /\ r.want = want
        /\ AsBegun(r, users, gate, records, cutShort)
      BY <1>1, <1>2, <2>3, <2>4, RowRequest
  <2>6. Knows(r, crowned, nextId)
      BY <1>3, <2>3, <2>5 DEF Knows
  <2> QED BY <2>1, <2>2, <2>5, <2>6, BeginKeeps
<1>5. CASE BeginDelete(h, actor, u)
  <2>1. PICK r : r = [Idle EXCEPT !.at = "delete", !.id = u]
      OBVIOUS
  <2>2. r = [at |-> "delete", actor |-> Setup, id |-> u, seen |-> Gone, want |-> Gone,
             rec |-> 0, kind |-> "open", alone |-> TRUE]
      BY <2>1 DEF Idle
  <2>3. r \in Request /\ r.at = "delete" /\ r.id = u /\ AsBegun(r, users, gate, records, cutShort)
      BY <1>1, <1>2, <2>2, RowRequest
  <2>4. Knows(r, crowned, nextId)
      BY <1>3, <2>3 DEF Knows, Rewriters
  <2> QED BY <1>5, <2>1, <2>3, <2>4, BeginKeeps DEF BeginDelete
<1>6. ASSUME NEW at \in {"make", "drop", "mint"}, at = "make" => users[u].key = 0,
             Begin(h, [Idle EXCEPT !.at = at, !.id = u, !.seen = users[u]])
      PROVE  AInv'
  <2>1. PICK r : r = [Idle EXCEPT !.at = at, !.id = u, !.seen = users[u]]
      OBVIOUS
  <2>2. r = [at |-> at, actor |-> Setup, id |-> u, seen |-> users[u], want |-> Gone,
             rec |-> 0, kind |-> "open", alone |-> TRUE]
      BY <2>1 DEF Idle
  <2>3. r \in Request /\ r.at = at /\ r.id = u /\ r.seen = users[u] /\ AsBegun(r, users, gate, records, cutShort)
      BY <1>1, <1>2, <2>2, RowRequest
  <2>4. Knows(r, crowned, nextId)
      BY <1>3, <1>6, <2>3 DEF Knows
  <2> QED BY <1>6, <2>1, <2>3, <2>4, BeginKeeps
<1>7. CASE BeginMakeKey(h, actor, u)
    BY <1>6, <1>7 DEF BeginMakeKey
<1>8. CASE BeginDropKey(h, actor, u)
    BY <1>6, <1>8 DEF BeginDropKey
<1>9. CASE BeginMintLink(h, actor, u)
    BY <1>6, <1>9 DEF BeginMintLink
<1> QED BY <1>4, <1>5, <1>7, <1>8, <1>9

\* A request by or for somebody about themselves arrives.
LEMMA ArriveForSelf ==
    ASSUME AInv, NEW h \in Handlers, Free(h),
           \/ \E actor \in Actors, e \in Emails : BeginProfile(h, actor, e)
           \/ \E u \in Users : BeginSpendLink(h, u) \/ BeginLogin(h, u) \/ BeginPin(h, u)
    PROVE  AInv'
<1>1. Setup \in Actor
    BY IdleIsRequest DEF Idle, Request
<1>2. ASSUME NEW actor \in Actors, NEW e \in Emails, BeginProfile(h, actor, e)
      PROVE  AInv'
  <2>1. PICK u : u = actor.id
      OBVIOUS
  <2>2. u \in Users /\ Exists(u)
      BY <1>2, <2>1, ActorsAreThere DEF BeginProfile
  <2>3. users[u] \in Row /\ u < nextId /\ (users[u].role = "Superuser" => u \in crowned)
      BY <2>2, SeenIsKnown
  <2>4. PICK want : want = [users[u] EXCEPT !.email = e]
      OBVIOUS
  <2>5. /\ want \in Row /\ want.key = users[u].key /\ want.link = users[u].link /\ want.pin = users[u].pin
        /\ want.role = users[u].role /\ want.status = users[u].status
      BY <2>3, <2>4 DEF Row
  <2>6. PICK r : r = [Idle EXCEPT !.at = "profile", !.id = u, !.seen = users[u], !.want = want]
      OBVIOUS
  <2>7. r = [at |-> "profile", actor |-> Setup, id |-> u, seen |-> users[u], want |-> want,
             rec |-> 0, kind |-> "open", alone |-> TRUE]
      BY <2>6 DEF Idle
  <2>8. /\ r \in Request /\ r.at = "profile" /\ r.id = u /\ r.seen = users[u] /\ r.want = want
        /\ AsBegun(r, users, gate, records, cutShort)
      BY <1>1, <2>2, <2>5, <2>7, RowRequest
  <2>9. Knows(r, crowned, nextId)
      BY <2>2, <2>3, <2>5, <2>8 DEF Knows
  <2>10. Begin(h, r)
      BY <1>2, <2>1, <2>4, <2>6 DEF BeginProfile
  <2> QED BY <2>8, <2>9, <2>10, BeginKeeps
<1>3. ASSUME NEW u \in Users, NEW at \in {"spend", "login", "pin"}, Exists(u), at = "login" => users[u].key # 0,
             Begin(h, [Idle EXCEPT !.at = at, !.id = u, !.seen = users[u]])
      PROVE  AInv'
  <2> at \in {"spend", "login", "pin"} /\ Exists(u)
      BY <1>3
  <2>1. users[u] \in Row /\ u < nextId /\ (users[u].role = "Superuser" => u \in crowned)
      BY SeenIsKnown
  <2>2. PICK r : r = [Idle EXCEPT !.at = at, !.id = u, !.seen = users[u]]
      OBVIOUS
  <2>3. r = [at |-> at, actor |-> Setup, id |-> u, seen |-> users[u], want |-> Gone,
             rec |-> 0, kind |-> "open", alone |-> TRUE]
      BY <2>2 DEF Idle
  <2>4. r \in Request /\ r.at = at /\ r.id = u /\ r.seen = users[u] /\ AsBegun(r, users, gate, records, cutShort)
      BY <1>1, <2>3, RowRequest
  <2>5. Knows(r, crowned, nextId)
      BY <2>1, <2>4 DEF Knows, OnAccount, Rewriters
  <2>6. at = "login" => Current(<<u, users[u].key>>)
    <3>1. users[u].key \in 0..MaxSecrets
        BY <2>1 DEF Row
    <3>2. at = "login" => users[u].key \in 1..MaxSecrets
        BY <1>3, <3>1, AccountsAssumption
    <3> QED BY <2>1, <3>2 DEF Current
  <2> QED BY <1>3, <2>2, <2>4, <2>5, <2>6, BeginKeeps
<1>4. ASSUME NEW u \in Users, BeginSpendLink(h, u) \/ BeginLogin(h, u) \/ BeginPin(h, u)
      PROVE  AInv'
    BY <1>3, <1>4 DEF BeginSpendLink, BeginLogin, BeginPin
<1> QED BY <1>2, <1>4

\* A request about the gate and its records, or the onboarding, arrives.
LEMMA ArriveForGate ==
    ASSUME AInv, NEW h \in Handlers, Free(h),
           \/ \E actor \in Actors, r \in Records :
                BeginDropRecord(h, actor, r) \/ \E kind \in Kinds : BeginEditRecord(h, actor, r, kind)
           \/ \E actor \in Actors, r \in Records \cup {0} : BeginSetGate(h, actor, r)
           \/ BeginOnboard(h)
    PROVE  AInv'
<1>1. ASSUME NEW at \in {"gate", "edit", "dropRecord", "first"}, NEW r \in 0..MaxRecords, NEW kind \in Kinds,
             NEW q, q = [at |-> at, actor |-> Setup, id |-> 0, seen |-> Gone, want |-> Gone,
                         rec |-> r, kind |-> kind, alone |-> TRUE],
             at = "gate" /\ r # 0 => records[r] # Gone,
             at = "dropRecord" => r \in Records \ {Builtin} /\ gate # r,
             at = "first" => InstallIsFresh,
             Begin(h, q)
      PROVE  AInv'
  <2>1. q \in Request /\ q.at = at /\ q.rec = r
      BY <1>1, IdleIsRequest DEF Idle, Request
  <2>2. Knows(q, crowned, nextId)
      BY <1>1, <2>1 DEF Knows, OnAccount, Rewriters
  <2>3. AsBegun(q, users, gate, records, cutShort)
      BY <1>1, <2>1 DEF AsBegun, InstallIsFresh, Exists
  <2> QED BY <1>1, <2>1, <2>2, <2>3, BeginKeeps
<1>2. "open" \in Kinds /\ 0 \in 0..MaxRecords /\ Records \subseteq 0..MaxRecords
    BY AccountsAssumption DEF Kinds, Records
<1>3. ASSUME NEW actor \in Actors, NEW r \in Records, BeginDropRecord(h, actor, r)
      PROVE  AInv'
  <2>1. PICK q : q = [Idle EXCEPT !.at = "dropRecord", !.rec = r]
      OBVIOUS
  <2>2. q = [at |-> "dropRecord", actor |-> Setup, id |-> 0, seen |-> Gone, want |-> Gone,
             rec |-> r, kind |-> "open", alone |-> TRUE]
      BY <2>1 DEF Idle
  <2> QED BY <1>1, <1>2, <1>3, <2>1, <2>2 DEF BeginDropRecord
<1>4. ASSUME NEW actor \in Actors, NEW r \in Records, NEW kind \in Kinds, BeginEditRecord(h, actor, r, kind)
      PROVE  AInv'
  <2>1. PICK q : q = [Idle EXCEPT !.at = "edit", !.rec = r, !.kind = kind]
      OBVIOUS
  <2>2. q = [at |-> "edit", actor |-> Setup, id |-> 0, seen |-> Gone, want |-> Gone,
             rec |-> r, kind |-> kind, alone |-> TRUE]
      BY <2>1 DEF Idle
  <2> QED BY <1>1, <1>2, <1>4, <2>1, <2>2 DEF BeginEditRecord
<1>5. ASSUME NEW actor \in Actors, NEW r \in Records \cup {0}, BeginSetGate(h, actor, r)
      PROVE  AInv'
  <2>1. PICK q : q = [Idle EXCEPT !.at = "gate", !.rec = r]
      OBVIOUS
  <2>2. q = [at |-> "gate", actor |-> Setup, id |-> 0, seen |-> Gone, want |-> Gone,
             rec |-> r, kind |-> "open", alone |-> TRUE]
      BY <2>1 DEF Idle
  <2>3. Begin(h, q) /\ (r # 0 => records[r] # Gone)
      BY <1>5, <2>1, GoneAssumption DEF BeginSetGate, Kinds
  <2> QED BY <1>1, <1>2, <2>2, <2>3
<1>6. CASE BeginOnboard(h)
  <2>1. PICK q : q = [Idle EXCEPT !.at = "first"]
      OBVIOUS
  <2>2. q = [at |-> "first", actor |-> Setup, id |-> 0, seen |-> Gone, want |-> Gone,
             rec |-> 0, kind |-> "open", alone |-> TRUE]
      BY <2>1 DEF Idle
  <2> QED BY <1>1, <1>2, <1>6, <2>1, <2>2 DEF BeginOnboard
<1> QED BY <1>3, <1>4, <1>5, <1>6

-----------------------------------------------------------------------------
(* Requests of one statement                                               *)

\* Others are no longer alone; what they know stays so.
LEMMA AtOnceKeeps ==
    ASSUME AInv, AtOnce, crowned \subseteq crowned', nextId' \in Nat, nextId <= nextId'
    PROVE  /\ RequestsAreRecords' /\ RequestsKnow' /\ AloneAsBegun' /\ made' \in 0..MaxRequests
           /\ At("clear") \subseteq At("clear")' /\ At("revoke") \subseteq At("revoke")' /\ Logins' \subseteq Logins
<1>1. made < MaxRequests /\ made' = made + 1 /\ req' = Crowded
    BY DEF AtOnce
<1>2. made' \in 0..MaxRequests
    BY <1>1, OneMoreRequest DEF AInv
<1>3. nextId \in Nat
    BY AccountsAssumption DEF AInv, TypeOK
<1>4. ASSUME NEW k \in Handlers PROVE Knows(req'[k], crowned', nextId')
  <2>1. Knows(Crowded[k], crowned, nextId)
      BY CrowdedAlike
  <2>2. Knows(Crowded[k], crowned', nextId')
      BY <1>3, <2>1, KnowsMore
  <2> QED BY <1>1, <2>2
<1>5. RequestsAreRecords' /\ RequestsKnow'
    BY <1>1, <1>4, CrowdedAlike DEF RequestsAreRecords, RequestsKnow
<1>6. AloneAsBegun'
    BY <1>1, CrowdedAlike DEF AloneAsBegun
<1>7. ASSUME NEW s, s # "idle" PROVE At(s) \subseteq At(s)'
  <2>1. ASSUME NEW k \in Handlers, req[k].at = s PROVE req'[k].at = s /\ req'[k].id = req[k].id
      BY <1>1, <1>7, <2>1, CrowdedAlike
  <2> QED BY <2>1 DEF At
<1>8. Logins' \subseteq Logins
  <2>1. ASSUME NEW s \in Logins' PROVE s \in Logins
    <3>1. PICK k \in Handlers : req'[k].at = "login" /\ s = <<req'[k].id, req'[k].seen.key>>
        BY <2>1 DEF Logins
    <3>2. req[k].at = "login" /\ req'[k].id = req[k].id /\ req'[k].seen = req[k].seen
        BY <1>1, <3>1, CrowdedAlike
    <3> QED BY <3>1, <3>2 DEF Logins
  <2> QED BY <2>1
<1> QED BY <1>2, <1>5, <1>6, <1>7, <1>8

\* An account is added: nobody signed in to it yet, and its row and its page say
\* the same.
LEMMA InsertKeeps ==
    ASSUME AInv, NEW row \in Row, Insert(row), crowned' \in SUBSET Users, crowned \subseteq crowned',
           row.role = "Superuser" => nextId \in crowned',
           UNCHANGED <<sessions, outlived, overlapped, cutShort>>,
           At("clear") \subseteq At("clear")', At("revoke") \subseteq At("revoke")', Logins' \subseteq Logins
    PROVE  /\ RowsHold' /\ nextId' \in 1..MaxUsers + 1 /\ nextId' \in Nat /\ nextId < nextId' /\ nextId \in Users
           /\ users' \in [Users -> Row \cup {Gone}] /\ book' \in [Users -> Row \cup {Gone}]
           /\ users'[nextId] = row /\ \A u \in Users \ {nextId} : users'[u] = users[u]
<1>1. PICK n : n = nextId
    OBVIOUS
<1>2. TypeOK /\ IdsInOrder /\ OnTheBooks /\ SuperusersWereCrowned /\ KeysEnd
    BY DEF AInv, RowsHold
<1>3. /\ n <= MaxUsers /\ users' = [users EXCEPT ![n] = row] /\ book' = [book EXCEPT ![n] = row] /\ nextId' = n + 1
    BY <1>1 DEF Insert
<1>4. n + 1 \in 1..MaxUsers + 1 /\ n \in Users /\ n < n + 1 /\ \A i \in Nat : i < n => i < n + 1 /\ i # n
    BY <1>1, <1>2, <1>3, OneMoreUser
<1>5. nextId' \in Nat
    BY <1>3, <1>4
<1>6. /\ users'[n] = row /\ book'[n] = row
      /\ \A u \in Users \ {n} : users'[u] = users[u] /\ book'[u] = book[u]
      /\ users' \in [Users -> Row \cup {Gone}] /\ book' \in [Users -> Row \cup {Gone}]
    BY <1>2, <1>3, <1>4 DEF TypeOK
<1>7. row # Gone
    BY GoneAssumption
<1>8. Users \subseteq Nat
    BY AccountsAssumption DEF Users
<1>13. Signed' \subseteq Signed
    BY DEF Signed
<1>9. IdsInOrder'
  <2>1. ASSUME NEW u \in Users, users'[u] # Gone PROVE u < nextId'
    <3>1. CASE u = n BY <1>3, <1>4, <3>1
    <3>2. CASE u # n
      <4>1. u < n
          BY <1>1, <1>2, <1>6, <2>1, <3>2 DEF IdsInOrder, Exists
      <4> QED BY <1>3, <1>4, <1>8, <4>1
    <3> QED BY <3>1, <3>2
  <2>2. ASSUME NEW s \in Signed' PROVE s \in Users \X (1..MaxSecrets) /\ s[1] < nextId'
    <3>1. s \in Users \X (1..MaxSecrets) /\ s[1] \in Users /\ s[1] < n
        BY <1>1, <1>2, <1>13 DEF IdsInOrder
    <3> QED BY <1>3, <1>4, <1>8, <3>1
  <2>3. ASSUME NEW u \in cutShort' PROVE u < nextId'
    <3>1. u \in Users /\ u < n
        BY <1>1, <1>2 DEF IdsInOrder, TypeOK
    <3> QED BY <1>3, <1>4, <1>8, <3>1
  <2> QED BY <2>1, <2>2, <2>3 DEF IdsInOrder, Exists
<1>10. OnTheBooks'
  <2>1. ASSUME NEW u \in Users
        PROVE  /\ users'[u] # Gone <=> book'[u] # Gone
               /\ users'[u] # Gone /\ u \notin overlapped' \cup cutShort' =>
                     /\ SameButPin(users'[u], book'[u])
                     /\ users'[u].pin = book'[u].pin \/ u \in At("clear")'
    <3>1. CASE u = n
        BY <1>6, <1>7, <3>1 DEF SameButPin
    <3>2. CASE u # n
        BY <1>2, <1>6, <3>2 DEF OnTheBooks, Exists, Undisturbed
    <3> QED BY <3>1, <3>2
  <2> QED BY <2>1 DEF OnTheBooks, Exists, Undisturbed
<1>11. SuperusersWereCrowned'
  <2>1. ASSUME NEW u \in Users, users'[u] # Gone, users'[u].role = "Superuser" PROVE u \in crowned'
    <3>1. CASE u = n BY <1>1, <1>6, <2>1, <3>1
    <3>2. CASE u # n BY <1>2, <1>6, <2>1, <3>2 DEF SuperusersWereCrowned, Exists
    <3> QED BY <3>1, <3>2
  <2> QED BY <2>1 DEF SuperusersWereCrowned, Exists
<1>12. KeysEnd'
  <2>1. ASSUME NEW s \in Signed' \ outlived', s[1] \notin overlapped' \cup cutShort', s[1] \notin At("revoke")',
               users'[s[1]] # Gone
        PROVE  users'[s[1]].key = s[2]
    <3>1. s \in Signed /\ s[1] \in Users /\ s[1] < n
        BY <1>1, <1>2, <1>13 DEF IdsInOrder
    <3>2. users'[s[1]] = users[s[1]]
        BY <1>4, <1>6, <1>8, <3>1
    <3> QED BY <1>2, <2>1, <3>1, <3>2 DEF KeysEnd, Exists, Undisturbed
  <2> QED BY <2>1 DEF KeysEnd, Exists, Undisturbed
<1> QED BY <1>1, <1>3, <1>4, <1>5, <1>6, <1>9, <1>10, <1>11, <1>12 DEF RowsHold

\* An account is created by whoever may create it.
LEMMA CreateUserKeeps ==
    ASSUME AInv, NEW actor \in Actors, NEW role \in Roles, NEW status \in {"Active", "Invited"}, NEW e \in Emails,
           CreateUser(actor, NewRow(role, status, e))
    PROVE  AInv'
<1>1. PICK row : row = NewRow(role, status, e)
    OBVIOUS
<1>2. row \in Row /\ row.role = role
    BY <1>1, AccountsAssumption DEF NewRow, Row, Statuses
<1>3. /\ AtOnce /\ Insert(row) /\ MayGrant(actor, row.role)
      /\ crowned' = IF actor.role = "Superuser" /\ row.role = "Superuser" THEN crowned \cup {nextId} ELSE crowned
      /\ UNCHANGED <<secrets, sessions, outlived, overlapped, cutShort, gates>>
    BY <1>1 DEF CreateUser
<1>4. TypeOK /\ nextId <= MaxUsers /\ nextId' = nextId + 1
    BY <1>3 DEF AInv, Insert
<1>5. nextId + 1 \in 1..MaxUsers + 1 /\ nextId \in Users /\ nextId < nextId + 1
    BY <1>4, OneMoreUser
<1>6. nextId' \in Nat /\ nextId <= nextId'
    BY <1>4, <1>5, AccountsAssumption DEF TypeOK
<1>7. crowned \subseteq crowned' /\ crowned' \in SUBSET Users /\ (row.role = "Superuser" => nextId \in crowned')
    BY <1>3, <1>4, <1>5 DEF TypeOK, MayGrant
<1>8. /\ RequestsAreRecords' /\ RequestsKnow' /\ AloneAsBegun' /\ made' \in 0..MaxRequests
      /\ At("clear") \subseteq At("clear")' /\ At("revoke") \subseteq At("revoke")' /\ Logins' \subseteq Logins
    BY <1>3, <1>6, <1>7, AtOnceKeeps
<1>9. /\ RowsHold' /\ nextId' \in 1..MaxUsers + 1
      /\ users' \in [Users -> Row \cup {Gone}] /\ book' \in [Users -> Row \cup {Gone}]
    BY <1>2, <1>3, <1>7, <1>8, InsertKeeps
<1>10. TypeOK'
    BY <1>3, <1>4, <1>7, <1>8, <1>9 DEF TypeOK, RequestsAreRecords, gates
<1>11. GatesHold'
    BY <1>3 DEF AInv, GatesHold, GateIsThere, gates
<1> QED BY <1>8, <1>9, <1>10, <1>11 DEF AInv

\* A record is created beside those that are there.
LEMMA CreateRecordKeeps ==
    ASSUME AInv, NEW actor \in Actors, NEW kind \in Kinds, CreateRecord(actor, kind)
    PROVE  AInv'
<1>1. /\ AtOnce /\ nextRecord <= MaxRecords
      /\ records' = [records EXCEPT ![nextRecord] = kind] /\ nextRecord' = nextRecord + 1
      /\ UNCHANGED <<rows, gate, mixed>>
    BY DEF CreateRecord
<1>2. TypeOK /\ GatesHold
    BY DEF AInv
<1>3. UNCHANGED <<users, nextId, secrets, sessions, outlived, book, overlapped, cutShort, crowned>>
    BY <1>1 DEF rows
<1>4. nextId' \in Nat /\ nextId <= nextId'
    BY <1>2, <1>3, AccountsAssumption DEF TypeOK
<1>5. /\ RequestsAreRecords' /\ RequestsKnow' /\ AloneAsBegun' /\ made' \in 0..MaxRequests
      /\ At("clear") \subseteq At("clear")' /\ At("revoke") \subseteq At("revoke")' /\ Logins' \subseteq Logins
    BY <1>1, <1>3, <1>4, AtOnceKeeps
<1>6. RowsHold'
    BY <1>1, <1>5, RowsStill
<1>7. nextRecord + 1 \in 1..MaxRecords + 1
    BY <1>1, <1>2, OneMoreRecord
<1>8. records' \in [Records -> Kinds \cup {Gone}]
    BY <1>1, <1>2 DEF TypeOK
<1>9. TypeOK'
    BY <1>1, <1>2, <1>3, <1>5, <1>7, <1>8 DEF TypeOK, RequestsAreRecords
<1>10. kind # Gone
    BY GoneAssumption
<1>11. \A r \in Records : records[r] # Gone => records'[r] # Gone
    BY <1>1, <1>2, <1>10 DEF TypeOK
<1>12. Builtin \in Records /\ (gate # 0 => gate \in Records)
    BY <1>2, AccountsAssumption DEF TypeOK, Builtin, Records
<1>13. GatesHold'
    BY <1>1, <1>2, <1>11, <1>12 DEF GatesHold, GateIsThere
<1> QED BY <1>5, <1>6, <1>9, <1>13 DEF AInv

-----------------------------------------------------------------------------
(* Rows that are written back                                              *)

\* A request goes on to another point, with all it knows.
LEMMA GoesOn ==
    ASSUME RequestsAreRecords, NEW h \in Handlers, NEW at \in {"keep", "move", "clear", "revoke", "firstgate"}, Goes(h, at)
    PROVE  /\ \E q \in Request :
                /\ req' = [req EXCEPT ![h] = q] /\ q.at = at /\ q.id = req[h].id /\ q.actor = req[h].actor
                /\ q.seen = req[h].seen /\ q.want = req[h].want /\ q.alone = req[h].alone
           /\ made' = made
<1>1. PICK r \in Request : r = req[h]
    BY DEF RequestsAreRecords
<1>2. PICK q : q = [r EXCEPT !.at = at]
    OBVIOUS
<1>3. /\ q \in Request /\ q.at = at /\ q.id = r.id /\ q.actor = r.actor /\ q.seen = r.seen /\ q.want = r.want
      /\ q.alone = r.alone
    BY <1>2 DEF Request
<1>4. req' = [req EXCEPT ![h] = q]
    BY <1>1, <1>2 DEF Goes
<1> QED BY <1>1, <1>3, <1>4 DEF Goes

\* What a request may leave behind when it goes on to its last statement.
LEMMA LastStatement ==
    ASSUME NEW q, q.at \in {"clear", "revoke"}, q.id \in Users, q.id < nextId', NEW us, NEW g, NEW rs, NEW cut
    PROVE  Knows(q, crowned', nextId') /\ AsBegun(q, us, g, rs, cut)
BY DEF Knows, OnAccount, Rewriters, AsBegun

\* What a request that will write knows of its account.
LEMMA Rewriting ==
    ASSUME AInv, NEW h \in Handlers, req[h].at \in Rewriters
    PROVE  /\ req[h].id \in Users /\ req[h].id < nextId /\ req[h].seen \in Row
           /\ req[h].seen.role = "Superuser" => req[h].id \in crowned
BY DEF AInv, RequestsKnow, Knows, OnAccount

\* What the book says of an account whose row is the one its request read.
LEMMA BookedAlike ==
    ASSUME AInv, NEW h \in Handlers, req[h].at \in Rewriters
    PROVE  /\ Booked(h) \in Row
           /\ users[req[h].id] = req[h].seen /\ Undisturbed(req[h].id) =>
                /\ SameButPin(req[h].seen, Booked(h))
                /\ req[h].seen.pin = Booked(h).pin \/ req[h].id \in At("clear")
<1>1. PICK u, seen : u = req[h].id /\ seen = req[h].seen
    OBVIOUS
<1>2. u \in Users /\ seen \in Row
    BY <1>1, Rewriting
<1>3. book[u] \in Row \cup {Gone} /\ Booked(h) = IF book[u] = Gone THEN seen ELSE book[u]
    BY <1>1, <1>2 DEF AInv, TypeOK, Booked
<1>4. ASSUME users[u] = seen, Undisturbed(u)
      PROVE  SameButPin(seen, Booked(h)) /\ (seen.pin = Booked(h).pin \/ u \in At("clear"))
  <2>1. Exists(u)
      BY <1>2, <1>4, GoneAssumption DEF Exists
  <2>2. book[u] # Gone /\ SameButPin(users[u], book[u]) /\ (users[u].pin = book[u].pin \/ u \in At("clear"))
      BY <1>2, <1>4, <2>1 DEF AInv, RowsHold, OnTheBooks
  <2> QED BY <1>3, <1>4, <2>2
<1> QED BY <1>1, <1>2, <1>3, <1>4

\* A row is written by a request that read it, or an earlier one: then its
\* account is marked.
LEMMA UpdateKeeps ==
    ASSUME AInv, NEW h \in Handlers, req[h].at \in Rewriters, NEW row \in Row, NEW meant \in Row,
           Update(req[h].id, row, meant, req[h].seen),
           crowned' \in SUBSET Users, crowned \subseteq crowned', row.role = "Superuser" => req[h].id \in crowned',
           UNCHANGED <<nextId, sessions, outlived, cutShort>>,
           At("clear") \subseteq At("clear")', At("revoke") \subseteq At("revoke")', Logins' \subseteq Logins,
           users[req[h].id] = req[h].seen /\ Undisturbed(req[h].id) =>
              SameButPin(row, meant) /\ (row.pin = meant.pin \/ req[h].id \in At("clear")'),
           row.key = req[h].seen.key \/ req[h].seen.key = 0 \/ req[h].id \in At("revoke")'
    PROVE  /\ RowsHold' /\ users' \in [Users -> Row \cup {Gone}] /\ book' \in [Users -> Row \cup {Gone}]
           /\ overlapped' \in SUBSET Users
           /\ (users[req[h].id] # Gone => users'[req[h].id] = row) /\ \A v \in Users \ {req[h].id} : users'[v] = users[v]
<1>1. PICK u, seen : u = req[h].id /\ seen = req[h].seen
    OBVIOUS
<1>2. TypeOK /\ IdsInOrder /\ OnTheBooks /\ SuperusersWereCrowned /\ KeysEnd
    BY DEF AInv, RowsHold
<1>3. u \in Users /\ seen \in Row
    BY <1>1, Rewriting
<1>4. /\ users' = [users EXCEPT ![u] = IF @ = Gone THEN Gone ELSE row]
      /\ book' = [book EXCEPT ![u] = IF @ = Gone THEN Gone ELSE meant]
      /\ overlapped' = overlapped \cup {v \in {u} : Exists(v) /\ users[v] # seen}
    BY <1>1 DEF Update
<1>5. row # Gone /\ meant # Gone
    BY GoneAssumption
<1>6. /\ users'[u] = (IF users[u] = Gone THEN Gone ELSE row) /\ book'[u] = (IF book[u] = Gone THEN Gone ELSE meant)
      /\ \A v \in Users \ {u} : users'[v] = users[v] /\ book'[v] = book[v]
      /\ users' \in [Users -> Row \cup {Gone}] /\ book' \in [Users -> Row \cup {Gone}]
    BY <1>2, <1>3, <1>4 DEF TypeOK
<1>7. /\ overlapped \subseteq overlapped' /\ overlapped' \in SUBSET Users
      /\ users[u] # Gone /\ u \notin overlapped' => users[u] = seen
    BY <1>2, <1>3, <1>4 DEF TypeOK, Exists
<1>8. \A v \in Users : users'[v] # Gone <=> users[v] # Gone
    BY <1>5, <1>6
<1>9. \A v : v \notin overlapped' \cup cutShort' => Undisturbed(v)
    BY <1>7 DEF Undisturbed
<1>14. Signed' \subseteq Signed
    BY DEF Signed
<1>10. IdsInOrder'
    BY <1>2, <1>8, <1>14 DEF IdsInOrder, Exists
<1>11. OnTheBooks'
  <2>1. ASSUME NEW v \in Users
        PROVE  /\ users'[v] # Gone <=> book'[v] # Gone
               /\ users'[v] # Gone /\ v \notin overlapped' \cup cutShort' =>
                     /\ SameButPin(users'[v], book'[v])
                     /\ users'[v].pin = book'[v].pin \/ v \in At("clear")'
    <3>1. CASE v = u
      <4>1. users[u] # Gone <=> book[u] # Gone
          BY <1>2, <1>3 DEF OnTheBooks, Exists
      <4>2. ASSUME users'[u] # Gone, u \notin overlapped' \cup cutShort'
            PROVE  SameButPin(row, meant) /\ (row.pin = meant.pin \/ u \in At("clear")')
          BY <1>1, <1>6, <1>7, <1>9, <4>2
      <4> QED BY <1>5, <1>6, <3>1, <4>1, <4>2
    <3>2. CASE v # u
        BY <1>2, <1>6, <1>9, <3>2 DEF OnTheBooks, Exists
    <3> QED BY <3>1, <3>2
  <2> QED BY <2>1 DEF OnTheBooks, Exists, Undisturbed
<1>12. SuperusersWereCrowned'
  <2>1. ASSUME NEW v \in Users, users'[v] # Gone, users'[v].role = "Superuser" PROVE v \in crowned'
    <3>1. CASE v = u BY <1>1, <1>6, <2>1, <3>1
    <3>2. CASE v # u BY <1>2, <1>6, <2>1, <3>2 DEF SuperusersWereCrowned, Exists
    <3> QED BY <3>1, <3>2
  <2> QED BY <2>1 DEF SuperusersWereCrowned, Exists
<1>13. KeysEnd'
  <2>1. ASSUME NEW s \in Signed' \ outlived', s[1] \notin overlapped' \cup cutShort', s[1] \notin At("revoke")',
               users'[s[1]] # Gone
        PROVE  users'[s[1]].key = s[2]
    <3>1. s \in Signed /\ s[1] \in Users /\ s[2] \in 1..MaxSecrets
        BY <1>2, <1>14 DEF IdsInOrder
    <3>2. users[s[1]].key = s[2]
        BY <1>2, <1>8, <1>9, <2>1, <3>1 DEF KeysEnd, Exists
    <3>3. CASE s[1] = u
      <4>1. users[u] = seen /\ users'[u] = row
          BY <1>6, <1>7, <1>8, <2>1, <3>1, <3>3
      <4>2. s[2] # 0
          BY <3>1, AccountsAssumption
      <4>3. seen.key # 0
          BY <3>2, <3>3, <4>1, <4>2
      <4>4. row.key = seen.key
          BY <1>1, <2>1, <3>3, <4>3
      <4> QED BY <3>2, <3>3, <4>1, <4>4
    <3>4. CASE s[1] # u
        BY <1>6, <3>1, <3>2, <3>4
    <3> QED BY <3>3, <3>4
  <2> QED BY <2>1 DEF KeysEnd, Exists, Undisturbed
<1> QED BY <1>1, <1>6, <1>7, <1>10, <1>11, <1>12, <1>13 DEF RowsHold

\* So a request that writes its row and goes on, or ends, keeps the invariant.
LEMMA RewriteKeeps ==
    ASSUME AInv, NEW h \in Handlers, req[h].at \in Rewriters, NEW row \in Row, NEW meant \in Row,
           Update(req[h].id, row, meant, req[h].seen),
           crowned' \in SUBSET Users, crowned \subseteq crowned', row.role = "Superuser" => req[h].id \in crowned',
           UNCHANGED <<nextId, sessions, outlived, cutShort, gates, made>>, secrets' \in 0..MaxSecrets,
           NEW q \in Request, req' = [req EXCEPT ![h] = q], Knows(q, crowned', nextId'),
           q.at # "login", q.at = "idle" \/ (q.alone => req[h].alone /\ AsBegun(q, users', gate', records', cutShort')),
           users[req[h].id] = req[h].seen /\ Undisturbed(req[h].id) =>
              SameButPin(row, meant) /\ (row.pin = meant.pin \/ req[h].id \in At("clear")'),
           row.key = req[h].seen.key \/ req[h].seen.key = 0 \/ req[h].id \in At("revoke")'
    PROVE  AInv'
<1>1. req[h].at \notin {"idle", "clear", "revoke"}
    BY DEF Rewriters
<1>2. TypeOK /\ nextId' \in Nat /\ nextId <= nextId'
    BY AccountsAssumption DEF AInv, TypeOK
<1>3. RequestsAreRecords' /\ RequestsKnow' /\ AloneAsBegun'
    BY <1>1, <1>2, RequestGoesOn
<1>4. At("clear") \subseteq At("clear")' /\ At("revoke") \subseteq At("revoke")' /\ Logins' \subseteq Logins
    BY <1>1, StandingMoves DEF AInv
<1>5. /\ RowsHold' /\ users' \in [Users -> Row \cup {Gone}] /\ book' \in [Users -> Row \cup {Gone}]
      /\ overlapped' \in SUBSET Users
    BY <1>4, UpdateKeeps
<1>6. TypeOK'
    BY <1>2, <1>3, <1>5 DEF TypeOK, RequestsAreRecords, gates
<1>7. GatesHold'
    BY DEF AInv, GatesHold, GateIsThere, gates
<1> QED BY <1>3, <1>5, <1>6, <1>7 DEF AInv

\* A request that leaves its row alone goes on to write it, or ends.
LEMMA LeavesRow ==
    ASSUME AInv, NEW h \in Handlers, req[h].at \notin {"idle", "clear", "revoke"},
           NEW q \in Request, req' = [req EXCEPT ![h] = q], Knows(q, crowned, nextId), q.at \in {"idle", "keep", "move"},
           q.at # "idle" /\ q.alone => req[h].alone, UNCHANGED <<rows, gates, made>>
    PROVE  AInv'
<1>1. UNCHANGED <<users, nextId, secrets, sessions, outlived, book, overlapped, cutShort, crowned>>
    BY DEF rows
<1>2. TypeOK /\ nextId' \in Nat /\ nextId <= nextId'
    BY <1>1, AccountsAssumption DEF AInv, TypeOK
<1>3. Knows(q, crowned', nextId') /\ AsBegun(q, users', gate', records', cutShort')
    BY <1>1 DEF AsBegun
<1>4. RequestsAreRecords' /\ RequestsKnow' /\ AloneAsBegun'
    BY <1>1, <1>2, <1>3, RequestGoesOn
<1>5. At("clear") \subseteq At("clear")' /\ At("revoke") \subseteq At("revoke")' /\ Logins' \subseteq Logins
    BY StandingMoves DEF AInv
<1>6. RowsHold'
    BY <1>5, RowsStill
<1>7. TypeOK'
    BY <1>1, <1>2, <1>4 DEF TypeOK, RequestsAreRecords, gates
<1>8. GatesHold'
    BY DEF AInv, GatesHold, GateIsThere, gates
<1> QED BY <1>4, <1>6, <1>7, <1>8 DEF AInv

\* A login under way opens its session, for whatever key it passed under; or
\* nothing comes of it.
LEMMA LoginStepsKeep ==
    ASSUME AInv, NEW h \in Handlers, OpenSession(h) \/ LoginLapses(h)
    PROVE  AInv'
<1>1. req[h].at = "login" /\ req' = [req EXCEPT ![h] = Idle] /\ made' = made /\ UNCHANGED gates
    BY DEF OpenSession, LoginLapses, Ends
<1>2. CASE LoginLapses(h)
    BY <1>1, <1>2, IdleIsRequest, LeavesRow DEF LoginLapses
<1>3. CASE OpenSession(h)
  <2>1. PICK p : p = <<req[h].id, req[h].seen.key>>
      OBVIOUS
  <2>2. /\ UNCHANGED <<users, nextId, secrets, outlived, book, overlapped, cutShort, crowned>>
        /\ sessions' = sessions \cup {p}
      BY <1>3, <2>1 DEF OpenSession
  <2>3. p \in Logins
      BY <1>1, <2>1 DEF Logins
  <2>4. TypeOK /\ RequestsAreRecords /\ IdsInOrder /\ OnTheBooks /\ SuperusersWereCrowned /\ KeysEnd
      BY DEF AInv, RowsHold
  <2>5. p \in Users \X (1..MaxSecrets)
      BY <2>3, <2>4 DEF IdsInOrder, Signed
  <2>6. nextId' \in Nat /\ nextId <= nextId'
      BY <2>2, <2>4, AccountsAssumption DEF TypeOK
  <2>7. RequestsAreRecords' /\ RequestsKnow' /\ AloneAsBegun'
      BY <1>1, <2>2, <2>6, IdleIsRequest, RequestGoesOn
  <2>8. At("clear") \subseteq At("clear")' /\ At("revoke") \subseteq At("revoke")' /\ Logins' \subseteq Logins
      BY <1>1, <2>4, IdleIsRequest, StandingMoves
  <2>9. Signed' \subseteq Signed
      BY <2>2, <2>3, <2>8 DEF Signed
  <2>10. \A v : Exists(v)' = Exists(v) /\ Undisturbed(v)' = Undisturbed(v)
      BY <2>2 DEF Exists, Undisturbed
  <2>11. IdsInOrder' /\ SuperusersWereCrowned'
      BY <2>2, <2>4, <2>9, <2>10 DEF IdsInOrder, SuperusersWereCrowned
  <2>12. OnTheBooks'
      BY <2>2, <2>4, <2>8, <2>10 DEF OnTheBooks
  <2>13. KeysEnd'
      BY <2>2, <2>4, <2>8, <2>9, <2>10 DEF KeysEnd
  <2>14. TypeOK'
      BY <1>1, <2>2, <2>4, <2>5, <2>7 DEF TypeOK, RequestsAreRecords, gates
  <2>15. GatesHold'
      BY <1>1 DEF AInv, GatesHold, GateIsThere, gates
  <2> QED BY <2>7, <2>11, <2>12, <2>13, <2>14, <2>15 DEF AInv, RowsHold
<1> QED BY <1>2, <1>3

\* core reads the row again and decides.
LEMMA CheckUpdateKeeps ==
    ASSUME AInv, NEW h \in Handlers, CheckUpdate(h)
    PROVE  AInv'
<1>1. RequestsAreRecords /\ Knows(req[h], crowned, nextId) /\ req[h].at = "update" /\ UNCHANGED <<rows, gates>>
    BY DEF AInv, RequestsKnow, CheckUpdate
<1>2. CASE Ends(h)
    BY <1>1, <1>2, IdleIsRequest, LeavesRow DEF Ends
<1>3. ASSUME NEW at \in {"keep", "move"}, Goes(h, at), MayGrant(req[h].actor, req[h].want.role)
      PROVE  AInv'
  <2>1. PICK q \in Request :
          /\ req' = [req EXCEPT ![h] = q] /\ q.at = at /\ q.id = req[h].id /\ q.actor = req[h].actor
          /\ q.seen = req[h].seen /\ q.want = req[h].want /\ q.alone = req[h].alone
      BY <1>1, <1>3, GoesOn
  <2>2. q.at \in {"keep", "move"} /\ MayGrant(q.actor, q.want.role)
      BY <1>3, <2>1
  <2>3. Knows(q, crowned, nextId)
      BY <1>1, <2>1, <2>2 DEF Knows, OnAccount, Rewriters
  <2>4. made' = made
      BY <1>3 DEF Goes
  <2> QED BY <1>1, <2>1, <2>2, <2>3, <2>4, LeavesRow
<1>4. \/ Ends(h)
      \/ \E at \in {"keep", "move"} : Goes(h, at) /\ MayGrant(req[h].actor, req[h].want.role)
  <2>1. PICK moved \in BOOLEAN :
          \/ Ends(h)
          \/ Goes(h, IF moved THEN "move" ELSE "keep") /\ MayGrant(req[h].actor, req[h].want.role)
      BY DEF CheckUpdate
  <2> QED BY <2>1
<1> QED BY <1>2, <1>3, <1>4

\* The row is written as it was asked for, unless somebody has the address; after
\* a move the pins are still to be cleared.
LEMMA WriteUpdateKeeps ==
    ASSUME AInv, NEW h \in Handlers, WriteUpdate(h)
    PROVE  AInv'
<1>1. PICK r \in Request : r = req[h]
    BY DEF AInv, RequestsAreRecords
<1>2. r.at \in {"keep", "move"} /\ Knows(r, crowned, nextId) /\ RequestsAreRecords /\ TypeOK
    BY <1>1 DEF AInv, RequestsKnow, WriteUpdate
<1>3. CASE Ends(h) /\ UNCHANGED <<rows, gates>>
    BY <1>1, <1>2, <1>3, IdleIsRequest, LeavesRow DEF Ends
<1>4. ASSUME NEW meant,
             meant = [Booked(h) EXCEPT !.role = r.want.role, !.status = r.want.status, !.email = r.want.email,
                                       !.pin = IF r.at = "move" THEN NoOne ELSE @],
             IF r.at = "move" THEN Goes(h, "clear") ELSE Ends(h),
             Update(r.id, r.want, meant, r.seen),
             crowned' = IF r.actor.role = "Superuser" /\ r.want.role = "Superuser" THEN crowned \cup {r.id} ELSE crowned,
             UNCHANGED <<nextId, secrets, sessions, outlived, cutShort, gates>>
      PROVE  AInv'
  <2>1. /\ r.id \in Users /\ r.id < nextId /\ r.seen \in Row /\ r.want \in Row
        /\ r.want.key = r.seen.key /\ r.want.link = r.seen.link /\ r.want.pin = r.seen.pin
        /\ MayGrant(r.actor, r.want.role)
      BY <1>2 DEF Knows, OnAccount, Rewriters
  <2>2. PICK b \in Row : b = Booked(h)
      BY <1>1, <1>2, BookedAlike DEF Rewriters
  <2>3. /\ meant \in Row /\ meant.role = r.want.role /\ meant.status = r.want.status /\ meant.email = r.want.email
        /\ meant.key = b.key /\ meant.link = b.link /\ (r.at # "move" => meant.pin = b.pin)
      BY <1>4, <2>1, <2>2 DEF Row
  <2>4. crowned' \in SUBSET Users /\ crowned \subseteq crowned' /\ (r.want.role = "Superuser" => r.id \in crowned')
      BY <1>2, <1>4, <2>1 DEF TypeOK, MayGrant
  <2>5. PICK q \in Request : /\ req' = [req EXCEPT ![h] = q] /\ made' = made /\ Knows(q, crowned', nextId')
                             /\ q.at \in {"clear", "idle"} /\ (r.at = "move" => q.at = "clear" /\ q.id = r.id)
                             /\ q.at = "idle" \/ (q.alone = r.alone /\ AsBegun(q, users', gate', records', cutShort'))
    <3>1. CASE r.at = "move"
      <4>1. Goes(h, "clear")
          BY <1>4, <3>1
      <4>2. PICK q \in Request : /\ req' = [req EXCEPT ![h] = q] /\ q.at = "clear" /\ q.id = r.id /\ q.alone = r.alone
                                 /\ made' = made
          BY <1>1, <1>2, <4>1, GoesOn
      <4>3. q.id \in Users /\ q.id < nextId'
          BY <1>4, <2>1, <4>2
      <4>4. Knows(q, crowned', nextId') /\ AsBegun(q, users', gate', records', cutShort')
          BY <4>2, <4>3, LastStatement
      <4> QED BY <4>2, <4>4
    <3>2. CASE r.at # "move"
        BY <1>4, <3>2, IdleIsRequest DEF Ends
    <3> QED BY <3>1, <3>2
  <2>6. users[r.id] = r.seen /\ Undisturbed(r.id) => SameButPin(r.seen, b) /\ (r.seen.pin = b.pin \/ r.id \in At("clear"))
      BY <1>1, <1>2, <2>2, BookedAlike DEF Rewriters
  <2>7. /\ At("clear") \subseteq At("clear")' /\ (r.at = "move" => r.id \in At("clear")')
    <3>1. /\ req[h].at # "clear" => At("clear") \subseteq At("clear")'
          /\ q.at = "clear" => q.id \in At("clear")'
        BY <1>2, <2>5, StandingMoves
    <3> QED BY <1>1, <1>2, <2>5, <3>1
  <2>8. users[r.id] = r.seen /\ Undisturbed(r.id) =>
          SameButPin(r.want, meant) /\ (r.want.pin = meant.pin \/ r.id \in At("clear")')
      BY <2>1, <2>3, <2>6, <2>7 DEF SameButPin
  <2>9. req[h].at \in Rewriters /\ secrets' \in 0..MaxSecrets
      BY <1>1, <1>2, <1>4 DEF Rewriters, TypeOK
  <2>10. UNCHANGED <<nextId, sessions, outlived, cutShort, gates, made>> /\ Update(r.id, r.want, meant, r.seen)
      BY <1>4, <2>5
  <2>11. r.want \in Row /\ meant \in Row /\ r.want.key = r.seen.key
      BY <2>1, <2>3
  <2>12. q.at # "login" /\ (q.at = "idle" \/ (q.alone => r.alone /\ AsBegun(q, users', gate', records', cutShort')))
      BY <2>5
  <2> QED BY <1>1, <2>4, <2>5, <2>8, <2>9, <2>10, <2>11, <2>12, RewriteKeeps
<1> QED BY <1>1, <1>3, <1>4 DEF WriteUpdate

\* A request that changes the key, the link, the address or the status on the row
\* it read, and on the page of the book alike, keeps the invariant: a new key goes
\* where none was, or sessions are to end.
LEMMA AlikeKeeps ==
    ASSUME AInv, NEW h \in Handlers, req[h].at \in Rewriters, NEW row \in Row, NEW meant \in Row,
           Update(req[h].id, row, meant, req[h].seen), row.role = req[h].seen.role, row.pin = req[h].seen.pin,
           SameButPin(req[h].seen, Booked(h)) => SameButPin(row, meant), meant.pin = Booked(h).pin,
           UNCHANGED <<nextId, sessions, outlived, cutShort, crowned, gates, made>>, secrets' \in 0..MaxSecrets,
           NEW q \in Request, req' = [req EXCEPT ![h] = q], Knows(q, crowned, nextId),
           q.at # "login", q.at = "idle" \/ (q.alone => req[h].alone /\ AsBegun(q, users', gate', records', cutShort')),
           row.key = req[h].seen.key \/ req[h].seen.key = 0 \/ (q.at = "revoke" /\ q.id = req[h].id)
    PROVE  AInv'
<1>1. req[h].seen.role = "Superuser" => req[h].id \in crowned
    BY Rewriting
<1>2. TypeOK /\ RequestsAreRecords
    BY DEF AInv
<1>3. crowned' \in SUBSET Users /\ crowned \subseteq crowned' /\ (row.role = "Superuser" => req[h].id \in crowned')
    BY <1>1, <1>2 DEF TypeOK
<1>4. Knows(q, crowned', nextId') /\ UNCHANGED <<nextId, sessions, outlived, cutShort, gates, made>>
    OBVIOUS
<1>5. At("clear") \subseteq At("clear")' /\ (q.at = "revoke" => q.id \in At("revoke")')
  <2>1. req[h].at # "clear" => At("clear") \subseteq At("clear")'
      BY <1>2, StandingMoves
  <2>2. q.at = "revoke" => q.id \in At("revoke")'
      BY <1>2, StandingMoves
  <2> QED BY <2>1, <2>2 DEF Rewriters
<1>6. row.key = req[h].seen.key \/ req[h].seen.key = 0 \/ req[h].id \in At("revoke")'
    BY <1>5
<1>7. users[req[h].id] = req[h].seen /\ Undisturbed(req[h].id) =>
         SameButPin(row, meant) /\ (row.pin = meant.pin \/ req[h].id \in At("clear")')
    BY <1>5, BookedAlike
<1> QED BY <1>3, <1>4, <1>6, <1>7, RewriteKeeps

\* Keys, links and addresses are put on a row and leave nothing to do.
LEMMA FieldKeeps ==
    ASSUME AInv, NEW h \in Handlers, MakeKey(h) \/ MintLink(h) \/ WriteProfile(h)
    PROVE  AInv'
<1>1. PICK r \in Request : r = req[h]
    BY DEF AInv, RequestsAreRecords
<1>2. r.at \in {"make", "mint", "profile"} /\ Ends(h) /\ UNCHANGED gates
    BY <1>1 DEF MakeKey, MintLink, WriteProfile
<1>3. req[h].at \in Rewriters /\ TypeOK /\ Knows(r, crowned, nextId)
    BY <1>1, <1>2 DEF Rewriters, AInv, RequestsKnow
<1>4. PICK b \in Row : b = Booked(h)
    BY <1>3, BookedAlike
<1>5. /\ r.seen \in Row /\ (r.at = "make" => r.seen.key = 0)
      /\ r.at = "profile" => /\ r.want \in Row /\ r.want.key = r.seen.key /\ r.want.link = r.seen.link
                             /\ r.want.pin = r.seen.pin /\ r.want.role = r.seen.role /\ r.want.status = r.seen.status
    BY <1>2, <1>3 DEF Knows, Rewriters
<1>6. Idle \in Request /\ req' = [req EXCEPT ![h] = Idle] /\ made' = made /\ Knows(Idle, crowned, nextId) /\ Idle.at = "idle"
    BY <1>2, IdleIsRequest DEF Ends
<1>7. ASSUME NEW row \in Row, NEW meant \in Row, Update(r.id, row, meant, r.seen), row.role = r.seen.role,
             row.pin = r.seen.pin, SameButPin(r.seen, b) => SameButPin(row, meant), meant.pin = b.pin,
             row.key = r.seen.key \/ r.seen.key = 0, secrets' \in 0..MaxSecrets,
             UNCHANGED <<nextId, sessions, outlived, cutShort, crowned>>
      PROVE  AInv'
  <2>1. UNCHANGED <<nextId, sessions, outlived, cutShort, crowned, gates, made>>
      BY <1>2, <1>6, <1>7
  <2> QED BY <1>1, <1>3, <1>4, <1>6, <1>7, <2>1, AlikeKeeps
<1>8. CASE MakeKey(h)
  <2>1. PICK k : k = secrets + 1
      OBVIOUS
  <2>2. k \in 0..MaxSecrets /\ secrets' = k
      BY <1>3, <1>8, <2>1, OneMoreSecret DEF MakeKey
  <2>3. PICK row, meant : row = [r.seen EXCEPT !.key = k] /\ meant = [b EXCEPT !.key = k]
      OBVIOUS
  <2>4. /\ row \in Row /\ meant \in Row /\ row.role = r.seen.role /\ row.pin = r.seen.pin /\ meant.pin = b.pin
        /\ SameButPin(r.seen, b) => SameButPin(row, meant)
      BY <1>4, <1>5, <2>2, <2>3 DEF Row, SameButPin
  <2>5. r.at = "make" /\ Update(r.id, row, meant, r.seen) /\ UNCHANGED <<nextId, sessions, outlived, cutShort, crowned>>
      BY <1>1, <1>4, <1>8, <2>2, <2>3 DEF MakeKey
  <2> QED BY <1>5, <1>7, <2>2, <2>4, <2>5
<1>9. CASE MintLink(h)
  <2>1. PICK k : k = secrets + 1
      OBVIOUS
  <2>2. k \in 0..MaxSecrets /\ secrets' = k
      BY <1>3, <1>9, <2>1, OneMoreSecret DEF MintLink
  <2>3. PICK row, meant : row = [r.seen EXCEPT !.link = k] /\ meant = [b EXCEPT !.link = k]
      OBVIOUS
  <2>4. /\ row \in Row /\ meant \in Row /\ row.role = r.seen.role /\ row.pin = r.seen.pin /\ meant.pin = b.pin
        /\ row.key = r.seen.key
        /\ SameButPin(r.seen, b) => SameButPin(row, meant)
      BY <1>4, <1>5, <2>2, <2>3 DEF Row, SameButPin
  <2>5. Update(r.id, row, meant, r.seen) /\ UNCHANGED <<nextId, sessions, outlived, cutShort, crowned>>
      BY <1>1, <1>4, <1>9, <2>2, <2>3 DEF MintLink
  <2> QED BY <1>7, <2>2, <2>4, <2>5
<1>10. CASE WriteProfile(h)
  <2>1. r.at = "profile"
      BY <1>1, <1>10 DEF WriteProfile
  <2>2. CASE AddressFree(r.id, r.want.email)
    <3>1. PICK meant : meant = [b EXCEPT !.email = r.want.email]
        OBVIOUS
    <3>2. meant \in Row /\ meant.pin = b.pin /\ (SameButPin(r.seen, b) => SameButPin(r.want, meant))
        BY <1>4, <1>5, <2>1, <3>1 DEF Row, SameButPin
    <3>3. Update(r.id, r.want, meant, r.seen) /\ UNCHANGED <<nextId, secrets, sessions, outlived, cutShort, crowned>>
        BY <1>1, <1>4, <1>10, <2>2, <3>1 DEF WriteProfile
    <3>4. secrets' \in 0..MaxSecrets
        BY <1>3, <3>3 DEF TypeOK
    <3> QED BY <1>5, <1>7, <2>1, <3>2, <3>3, <3>4
  <2>3. CASE ~AddressFree(r.id, r.want.email)
    <3>1. UNCHANGED <<rows, gates, made>>
        BY <1>1, <1>2, <1>6, <1>10, <2>3 DEF WriteProfile
    <3> QED BY <1>1, <1>2, <1>6, <3>1, LeavesRow
  <2> QED BY <2>2, <2>3
<1> QED BY <1>8, <1>9, <1>10

\* A key is deleted, or a passphrase link is spent: the sessions are still to end.
LEMMA EndsKeyKeeps ==
    ASSUME AInv, NEW h \in Handlers, DropKey(h) \/ SpendLink(h)
    PROVE  AInv'
<1>1. PICK r \in Request : r = req[h]
    BY DEF AInv, RequestsAreRecords
<1>2. r.at \in {"drop", "spend"} /\ Goes(h, "revoke") /\ UNCHANGED <<nextId, sessions, outlived, cutShort, crowned, gates>>
    BY <1>1 DEF DropKey, SpendLink
<1>3. req[h].at \in Rewriters /\ TypeOK /\ RequestsAreRecords
    BY <1>1, <1>2 DEF Rewriters, AInv
<1>4. PICK b \in Row : b = Booked(h)
    BY <1>3, BookedAlike
<1>5. r.seen \in Row /\ r.id \in Users /\ r.id < nextId
    BY <1>1, <1>3, Rewriting
<1>6. PICK q \in Request : req' = [req EXCEPT ![h] = q] /\ q.at = "revoke" /\ q.id = r.id /\ q.alone = r.alone /\ made' = made
    BY <1>1, <1>2, <1>3, GoesOn
<1>7. Knows(q, crowned, nextId) /\ AsBegun(q, users', gate', records', cutShort')
  <2>1. q.id \in Users /\ q.id < nextId'
      BY <1>2, <1>5, <1>6
  <2>2. Knows(q, crowned', nextId') /\ AsBegun(q, users', gate', records', cutShort')
      BY <1>6, <2>1, LastStatement
  <2> QED BY <1>2, <2>2
<1>8. ASSUME NEW row \in Row, NEW meant \in Row, Update(r.id, row, meant, r.seen), row.role = r.seen.role,
             row.pin = r.seen.pin, SameButPin(r.seen, b) => SameButPin(row, meant), meant.pin = b.pin,
             secrets' \in 0..MaxSecrets
      PROVE  AInv'
  <2>1. UNCHANGED <<nextId, sessions, outlived, cutShort, crowned, gates, made>>
      BY <1>2, <1>6
  <2>2. q.alone => req[h].alone /\ AsBegun(q, users', gate', records', cutShort')
      BY <1>1, <1>6, <1>7
  <2> QED BY <1>1, <1>3, <1>4, <1>6, <1>7, <1>8, <2>1, <2>2, AlikeKeeps
<1>9. CASE DropKey(h)
  <2>1. 0 \in 0..MaxSecrets /\ secrets' \in 0..MaxSecrets
      BY <1>3, <1>9, AccountsAssumption DEF DropKey, TypeOK
  <2>2. PICK row, meant : row = [r.seen EXCEPT !.key = 0] /\ meant = [b EXCEPT !.key = 0]
      OBVIOUS
  <2>3. /\ row \in Row /\ meant \in Row /\ row.role = r.seen.role /\ row.pin = r.seen.pin /\ meant.pin = b.pin
        /\ SameButPin(r.seen, b) => SameButPin(row, meant)
      BY <1>4, <1>5, <2>1, <2>2 DEF Row, SameButPin
  <2>4. Update(r.id, row, meant, r.seen)
      BY <1>1, <1>4, <1>9, <2>2 DEF DropKey
  <2> QED BY <1>8, <2>1, <2>3, <2>4
<1>10. CASE SpendLink(h)
  <2>1. PICK k : k = secrets + 1
      OBVIOUS
  <2>2. k \in 0..MaxSecrets /\ secrets' = k /\ 0 \in 0..MaxSecrets
      BY <1>3, <1>10, <2>1, OneMoreSecret, AccountsAssumption DEF SpendLink
  <2>3. PICK row, meant :
          /\ row = [r.seen EXCEPT !.key = k, !.link = 0, !.status = IF @ = "Invited" THEN "Active" ELSE @]
          /\ meant = [b EXCEPT !.key = k, !.link = 0, !.status = IF @ = "Invited" THEN "Active" ELSE @]
      OBVIOUS
  <2>4. /\ row \in Row /\ meant \in Row /\ row.role = r.seen.role /\ row.pin = r.seen.pin /\ meant.pin = b.pin
        /\ SameButPin(r.seen, b) => SameButPin(row, meant)
      BY <1>4, <1>5, <2>2, <2>3 DEF Row, SameButPin, Statuses
  <2>5. Update(r.id, row, meant, r.seen)
      BY <1>1, <1>4, <1>10, <2>2, <2>3 DEF SpendLink, Spent
  <2> QED BY <1>8, <2>2, <2>4, <2>5
<1> QED BY <1>9, <1>10

\* The first user's key: their row is as onboarding made it.
LEMMA FirstKeyKeeps ==
    ASSUME AInv, NEW h \in Handlers, FirstKey(h)
    PROVE  AInv'
<1>1. PICK r \in Request : r = req[h]
    BY DEF AInv, RequestsAreRecords
<1>2. /\ r.at = "firstkey" /\ Goes(h, "firstgate") /\ secrets < MaxSecrets /\ secrets' = secrets + 1
      /\ UNCHANGED <<nextId, sessions, outlived, cutShort, crowned, gates>>
    BY <1>1 DEF FirstKey
<1>3. req[h].at \in Rewriters /\ TypeOK /\ RequestsAreRecords /\ Knows(r, crowned, nextId)
    BY <1>1, <1>2 DEF Rewriters, AInv, RequestsKnow
<1>4. PICK b \in Row : b = Booked(h)
    BY <1>3, BookedAlike
<1>5. r.seen \in Row /\ r.id \in Users /\ r.id < nextId /\ r.seen.key = 0
    BY <1>2, <1>3 DEF Knows, OnAccount, Rewriters
<1>6. PICK q \in Request : req' = [req EXCEPT ![h] = q] /\ q.at = "firstgate" /\ q.id = r.id /\ q.alone = r.alone /\ made' = made
    BY <1>1, <1>2, <1>3, GoesOn
<1>7. Knows(q, crowned, nextId)
    BY <1>5, <1>6 DEF Knows, OnAccount, Rewriters
<1>8. PICK k : k = secrets + 1
    OBVIOUS
<1>9. k \in 0..MaxSecrets /\ k # 0 /\ secrets' = k
    BY <1>2, <1>3, <1>8, OneMoreSecret
<1>10. PICK row, meant : row = [r.seen EXCEPT !.key = k] /\ meant = [b EXCEPT !.key = k]
    OBVIOUS
<1>11. /\ row \in Row /\ meant \in Row /\ row.role = r.seen.role /\ row.pin = r.seen.pin /\ meant.pin = b.pin
       /\ row.key = k /\ (SameButPin(r.seen, b) => SameButPin(row, meant))
    BY <1>4, <1>5, <1>9, <1>10 DEF Row, SameButPin
<1>12. Update(r.id, row, meant, r.seen)
    BY <1>1, <1>4, <1>9, <1>10 DEF FirstKey
<1>13. /\ users' = [users EXCEPT ![r.id] = IF @ = Gone THEN Gone ELSE row]
       /\ users \in [Users -> Row \cup {Gone}]
    BY <1>3, <1>12 DEF Update, TypeOK
<1>14. (users[r.id] # Gone => users'[r.id] = row) /\ \A v \in Users \ {r.id} : users'[v] = users[v]
    BY <1>5, <1>13
<1>15. r.alone => AsBegun(r, users, gate, records, cutShort)
    BY <1>1, <1>2 DEF AInv, AloneAsBegun
<1>16. q.alone => r.alone /\ AsBegun(q, users', gate', records', cutShort')
  <2> SUFFICES ASSUME r.alone PROVE AsBegun(q, users', gate', records', cutShort')
      BY <1>6
  <2>1. gate' = gate /\ cutShort' = cutShort
      BY <1>2 DEF gates
  <2>2. /\ gate = 0 /\ r.id \notin cutShort /\ users[r.id] # Gone /\ r.seen.role = "Superuser"
        /\ \A u \in Users \ {r.id} : users[u] = Gone
      BY <1>2, <1>15 DEF AsBegun
  <2>3. users'[r.id] = row /\ row # Gone
      BY <1>11, <1>14, <2>2, GoneAssumption
  <2> QED BY <1>6, <1>9, <1>11, <1>14, <2>1, <2>2, <2>3 DEF AsBegun
<1>17. UNCHANGED <<nextId, sessions, outlived, cutShort, crowned, gates, made>> /\ secrets' \in 0..MaxSecrets
    BY <1>2, <1>6, <1>9
<1> QED BY <1>1, <1>3, <1>4, <1>5, <1>6, <1>7, <1>11, <1>12, <1>16, <1>17, AlikeKeeps

-----------------------------------------------------------------------------
(* Steps on a row as it is now                                             *)

\* Only the pin of a row changes, and of its page.
LEMMA PinsKeep ==
    ASSUME AInv, NEW u \in Users, NEW row \in Row \cup {Gone}, NEW page \in Row \cup {Gone},
           users' = [users EXCEPT ![u] = row], book' = [book EXCEPT ![u] = page],
           row = Gone <=> users[u] = Gone, page = Gone <=> book[u] = Gone,
           users[u] # Gone => SameButPin(row, users[u]), book[u] # Gone => SameButPin(page, book[u]),
           UNCHANGED <<nextId, sessions, outlived, cutShort, crowned>>, overlapped \subseteq overlapped',
           At("clear") \subseteq At("clear")' \cup {u}, At("revoke") \subseteq At("revoke")', Logins' \subseteq Logins,
           u \notin overlapped' \cup cutShort /\ users[u] # Gone => row.pin = page.pin \/ u \in At("clear")'
    PROVE  RowsHold' /\ users' \in [Users -> Row \cup {Gone}] /\ book' \in [Users -> Row \cup {Gone}]
<1>1. TypeOK /\ IdsInOrder /\ OnTheBooks /\ SuperusersWereCrowned /\ KeysEnd
    BY DEF AInv, RowsHold
<1>2. /\ users'[u] = row /\ book'[u] = page
      /\ \A v \in Users \ {u} : users'[v] = users[v] /\ book'[v] = book[v]
      /\ users' \in [Users -> Row \cup {Gone}] /\ book' \in [Users -> Row \cup {Gone}]
    BY <1>1 DEF TypeOK
<1>3. \A v \in Users : users'[v] # Gone <=> users[v] # Gone
    BY <1>2
<1>4. \A v : v \notin overlapped' \cup cutShort' => Undisturbed(v)
    BY DEF Undisturbed
<1>10. Signed' \subseteq Signed
    BY DEF Signed
<1>5. IdsInOrder'
    BY <1>1, <1>3, <1>10 DEF IdsInOrder, Exists
<1>6. \A v \in Users : users[v] # Gone => users'[v].role = users[v].role /\ users'[v].key = users[v].key
    BY <1>2 DEF SameButPin
<1>7. SuperusersWereCrowned'
    BY <1>1, <1>3, <1>6 DEF SuperusersWereCrowned, Exists
<1>8. KeysEnd'
  <2>1. ASSUME NEW s \in Signed' \ outlived', s[1] \notin overlapped' \cup cutShort', s[1] \notin At("revoke")',
               users'[s[1]] # Gone
        PROVE  users'[s[1]].key = s[2]
    <3>1. s \in Signed /\ s[1] \in Users
        BY <1>1, <1>10 DEF IdsInOrder
    <3>2. users[s[1]].key = s[2]
        BY <1>1, <1>3, <1>4, <2>1, <3>1 DEF KeysEnd, Exists
    <3> QED BY <1>3, <1>6, <2>1, <3>1, <3>2
  <2> QED BY <2>1 DEF KeysEnd, Exists, Undisturbed
<1>9. OnTheBooks'
  <2>1. ASSUME NEW v \in Users
        PROVE  /\ users'[v] # Gone <=> book'[v] # Gone
               /\ users'[v] # Gone /\ v \notin overlapped' \cup cutShort' =>
                     /\ SameButPin(users'[v], book'[v])
                     /\ users'[v].pin = book'[v].pin \/ v \in At("clear")'
    <3>1. CASE v = u
      <4>1. users[u] # Gone <=> book[u] # Gone
          BY <1>1 DEF OnTheBooks, Exists
      <4>2. ASSUME users'[u] # Gone, u \notin overlapped' \cup cutShort'
            PROVE  SameButPin(row, page) /\ (row.pin = page.pin \/ u \in At("clear")')
        <5>1. SameButPin(users[u], book[u])
            BY <1>1, <1>3, <1>4, <4>2 DEF OnTheBooks, Exists
        <5>2. SameButPin(row, users[u]) /\ SameButPin(page, book[u])
            BY <1>3, <4>1, <4>2
        <5>3. SameButPin(row, page)
            BY <5>1, <5>2 DEF SameButPin
        <5> QED BY <1>3, <4>2, <5>3
      <4> QED BY <1>2, <3>1, <4>1, <4>2
    <3>2. CASE v # u
        BY <1>1, <1>2, <1>4, <3>2 DEF OnTheBooks, Exists
    <3> QED BY <3>1, <3>2
  <2> QED BY <2>1 DEF OnTheBooks, Exists, Undisturbed
<1> QED BY <1>2, <1>5, <1>7, <1>8, <1>9 DEF RowsHold

\* The last statement of a move clears the pins; a sign-in at a provider pins
\* the account if none is pinned.
LEMMA PinStepsKeep ==
    ASSUME AInv, NEW h \in Handlers, ClearPins(h) \/ PinIdentity(h)
    PROVE  AInv'
<1>1. PICK r \in Request : r = req[h]
    BY DEF AInv, RequestsAreRecords
<1>2. PICK u : u = r.id
    OBVIOUS
<1>3. /\ r.at \in {"clear", "pin"} /\ req' = [req EXCEPT ![h] = Idle] /\ made' = made
      /\ UNCHANGED <<nextId, secrets, sessions, outlived, cutShort, crowned, gates>>
    BY <1>1 DEF ClearPins, PinIdentity, Ends
<1>4. TypeOK /\ RequestsAreRecords /\ Knows(r, crowned, nextId) /\ OnTheBooks
    BY <1>1 DEF AInv, RequestsKnow, RowsHold
<1>5. u \in Users /\ (r.at = "pin" => r.seen \in Row)
    BY <1>2, <1>3, <1>4 DEF Knows, OnAccount
<1>6. nextId' \in Nat /\ nextId <= nextId'
    BY <1>3, <1>4, AccountsAssumption DEF TypeOK
<1>7. RequestsAreRecords' /\ RequestsKnow' /\ AloneAsBegun'
    BY <1>1, <1>3, <1>6, IdleIsRequest, RequestGoesOn
<1>8. /\ At("clear") \subseteq At("clear")' \cup {u} /\ At("revoke") \subseteq At("revoke")' /\ Logins' \subseteq Logins
      /\ r.at = "pin" => At("clear") \subseteq At("clear")'
  <2>1. /\ req[h].at # "clear" => At("clear") \subseteq At("clear")'
        /\ At("clear") \subseteq At("clear")' \cup {req[h].id}
      BY <1>3, <1>4, StandingMoves
  <2>2. (req[h].at # "revoke" => At("revoke") \subseteq At("revoke")') /\ Logins' \subseteq Logins
      BY <1>3, <1>4, IdleIsRequest, StandingMoves
  <2> QED BY <1>1, <1>2, <1>3, <2>1, <2>2
<1>9. users[u] \in Row \cup {Gone} /\ book[u] \in Row \cup {Gone} /\ (users[u] = Gone <=> book[u] = Gone)
    BY <1>4, <1>5 DEF TypeOK, OnTheBooks, Exists
<1>10. \A one \in Row : one # Gone
    BY GoneAssumption
<1>11. /\ RowsHold' /\ users' \in [Users -> Row \cup {Gone}] /\ book' \in [Users -> Row \cup {Gone}]
       /\ overlapped' \in SUBSET Users
  <2>1. CASE ClearPins(h)
    <3> DEFINE unpinned(one) == IF one = Gone THEN Gone ELSE [one EXCEPT !.pin = NoOne]
    <3>1. \A one \in Row : /\ unpinned(one) \in Row /\ SameButPin(unpinned(one), one) /\ unpinned(one).pin = NoOne
                           /\ unpinned(one) # Gone
        BY <1>10 DEF Row, SameButPin
    <3>2. unpinned(Gone) = Gone
        OBVIOUS
    <3>3. PICK row, page : row = unpinned(users[u]) /\ page = unpinned(book[u])
        OBVIOUS
    <3>4. users' = [users EXCEPT ![u] = row] /\ book' = [book EXCEPT ![u] = page] /\ overlapped' = overlapped
        BY <1>1, <1>2, <2>1, <3>3 DEF ClearPins
    <3> HIDE DEF unpinned
    <3>5. /\ row \in Row \cup {Gone} /\ page \in Row \cup {Gone}
          /\ (row = Gone <=> users[u] = Gone) /\ (page = Gone <=> book[u] = Gone)
          /\ users[u] # Gone => SameButPin(row, users[u]) /\ row.pin = NoOne
          /\ book[u] # Gone => SameButPin(page, book[u]) /\ page.pin = NoOne
        BY <1>9, <3>1, <3>2, <3>3
    <3>6. overlapped' \in SUBSET Users
        BY <1>4, <3>4 DEF TypeOK
    <3> QED BY <1>3, <1>5, <1>8, <1>9, <3>4, <3>5, <3>6, PinsKeep
  <2>2. CASE PinIdentity(h)
    <3> DEFINE pinned(one) == IF one = Gone \/ one.pin # NoOne THEN one ELSE [one EXCEPT !.pin = r.seen.email]
    <3>0. r.at = "pin"
        BY <1>1, <2>2 DEF PinIdentity
    <3>1. \A one \in Row : /\ pinned(one) \in Row /\ SameButPin(pinned(one), one) /\ pinned(one) # Gone
                           /\ pinned(one).pin = IF one.pin # NoOne THEN one.pin ELSE r.seen.email
        BY <1>5, <1>10, <3>0 DEF Row, SameButPin
    <3>2. pinned(Gone) = Gone
        OBVIOUS
    <3>3. PICK row, page : row = pinned(users[u]) /\ page = pinned(book[u])
        OBVIOUS
    <3>4. /\ users' = [users EXCEPT ![u] = row] /\ book' = [book EXCEPT ![u] = page]
          /\ overlapped' = overlapped \cup {v \in {u} : Exists(v) /\ users[v] # r.seen}
        BY <1>1, <1>2, <2>2, <3>3 DEF PinIdentity
    <3> HIDE DEF pinned
    <3>5. /\ row \in Row \cup {Gone} /\ page \in Row \cup {Gone}
          /\ (row = Gone <=> users[u] = Gone) /\ (page = Gone <=> book[u] = Gone)
          /\ users[u] # Gone => SameButPin(row, users[u])
          /\ book[u] # Gone => SameButPin(page, book[u])
        BY <1>9, <3>1, <3>2, <3>3
    <3>6. overlapped' \in SUBSET Users /\ overlapped \subseteq overlapped'
        BY <1>4, <1>5, <3>4 DEF TypeOK
    <3>7. u \notin overlapped' \cup cutShort /\ users[u] # Gone => row.pin = page.pin \/ u \in At("clear")'
      <4> SUFFICES ASSUME u \notin overlapped' \cup cutShort, users[u] # Gone, u \notin At("clear")'
                   PROVE  row.pin = page.pin
          OBVIOUS
      <4>1. users[u].pin = book[u].pin
          BY <1>4, <1>5, <1>8, <3>0, <3>6 DEF OnTheBooks, Exists, Undisturbed
      <4> QED BY <1>9, <3>1, <3>3, <4>1
    <3> QED BY <1>3, <1>5, <1>8, <3>4, <3>5, <3>6, <3>7, PinsKeep
  <2> QED BY <2>1, <2>2
<1>12. TypeOK'
    BY <1>3, <1>4, <1>7, <1>11 DEF TypeOK, RequestsAreRecords, gates
<1>13. GatesHold'
    BY <1>3 DEF AInv, GatesHold, GateIsThere, gates
<1> QED BY <1>7, <1>11, <1>12, <1>13 DEF AInv

\* An account is deleted, or the first user is undone.
LEMMA DeleteKeeps ==
    ASSUME AInv, NEW h \in Handlers, DeleteUser(h) \/ UndoFirstUser(h)
    PROVE  AInv'
<1>1. PICK r \in Request : r = req[h]
    BY DEF AInv, RequestsAreRecords
<1>2. PICK u : u = r.id
    OBVIOUS
<1>3. /\ Goes(h, "revoke") \/ Ends(h)
      /\ users' = [users EXCEPT ![u] = Gone] /\ book' = [book EXCEPT ![u] = Gone]
      /\ UNCHANGED <<nextId, secrets, sessions, outlived, overlapped, cutShort, crowned, gates>>
    BY <1>1, <1>2 DEF DeleteUser, UndoFirstUser, Delete
<1>4. /\ TypeOK /\ RequestsAreRecords /\ Knows(r, crowned, nextId)
      /\ IdsInOrder /\ OnTheBooks /\ SuperusersWereCrowned /\ KeysEnd
    BY <1>1 DEF AInv, RequestsKnow, RowsHold
<1>5. r.at \in {"delete", "firstkey", "firstgate"}
    BY <1>1 DEF DeleteUser, UndoFirstUser
<1>6. u \in Users /\ u < nextId
    BY <1>2, <1>4, <1>5 DEF Knows, OnAccount, Rewriters
<1>7. PICK q \in Request : /\ req' = [req EXCEPT ![h] = q] /\ made' = made /\ Knows(q, crowned', nextId')
                           /\ q.at # "login"
                           /\ q.at = "idle" \/ (q.alone = r.alone /\ AsBegun(q, users', gate', records', cutShort'))
  <2>1. CASE Goes(h, "revoke")
    <3>1. PICK q \in Request : req' = [req EXCEPT ![h] = q] /\ q.at = "revoke" /\ q.id = u /\ q.alone = r.alone /\ made' = made
        BY <1>1, <1>2, <1>4, <2>1, GoesOn
    <3>2. q.id \in Users /\ q.id < nextId'
        BY <1>3, <1>6, <3>1
    <3>3. Knows(q, crowned', nextId') /\ AsBegun(q, users', gate', records', cutShort')
        BY <3>1, <3>2, LastStatement
    <3> QED BY <3>1, <3>3
  <2>2. CASE Ends(h)
      BY <2>2, IdleIsRequest DEF Ends
  <2> QED BY <1>3, <2>1, <2>2
<1>8. nextId' \in Nat /\ nextId <= nextId'
    BY <1>3, <1>4, AccountsAssumption DEF TypeOK
<1>9. RequestsAreRecords' /\ RequestsKnow' /\ AloneAsBegun'
    BY <1>1, <1>3, <1>5, <1>7, <1>8, RequestGoesOn
<1>10. At("clear") \subseteq At("clear")' /\ At("revoke") \subseteq At("revoke")' /\ Logins' \subseteq Logins
    BY <1>1, <1>4, <1>5, <1>7, StandingMoves
<1>11. /\ users'[u] = Gone /\ book'[u] = Gone
       /\ \A v \in Users \ {u} : users'[v] = users[v] /\ book'[v] = book[v]
       /\ users' \in [Users -> Row \cup {Gone}] /\ book' \in [Users -> Row \cup {Gone}]
    BY <1>3, <1>4, <1>6 DEF TypeOK
<1>12. \A v \in Users : Exists(v)' => v # u /\ Exists(v) /\ users'[v] = users[v] /\ book'[v] = book[v]
    BY <1>11 DEF Exists
<1>13. \A v : Undisturbed(v)' = Undisturbed(v)
    BY <1>3 DEF Undisturbed
<1>19. Signed' \subseteq Signed
    BY <1>3, <1>10 DEF Signed
<1>14. IdsInOrder' /\ SuperusersWereCrowned'
    BY <1>3, <1>4, <1>12, <1>19 DEF IdsInOrder, SuperusersWereCrowned
<1>15. KeysEnd'
  <2>1. outlived' = outlived /\ \A s \in Signed : s[1] \in Users
      BY <1>3, <1>4 DEF IdsInOrder
  <2> QED BY <1>4, <1>10, <1>12, <1>13, <1>19, <2>1 DEF KeysEnd
<1>16. OnTheBooks'
  <2>1. ASSUME NEW v \in Users
        PROVE  /\ Exists(v)' <=> book'[v] # Gone
               /\ Exists(v)' /\ Undisturbed(v)' =>
                     SameButPin(users'[v], book'[v]) /\ (users'[v].pin = book'[v].pin \/ v \in At("clear")')
    <3>1. CASE v = u
        BY <1>11, <3>1 DEF Exists
    <3>2. CASE v # u
        BY <1>4, <1>10, <1>11, <1>13, <3>2 DEF OnTheBooks, Exists
    <3> QED BY <3>1, <3>2
  <2> QED BY <2>1 DEF OnTheBooks
<1>17. TypeOK'
    BY <1>3, <1>4, <1>7, <1>9, <1>11 DEF TypeOK, RequestsAreRecords, gates
<1>18. GatesHold'
    BY <1>3 DEF AInv, GatesHold, GateIsThere, gates
<1> QED BY <1>9, <1>14, <1>15, <1>16, <1>17, <1>18 DEF AInv, RowsHold

\* The sessions end, or the last statement is refused: then the account is marked.
LEMMA LastStepKeeps ==
    ASSUME AInv, NEW h \in Handlers, Revoke(h) \/ LastStepFails(h)
    PROVE  AInv'
<1>1. PICK r \in Request : r = req[h]
    BY DEF AInv, RequestsAreRecords
<1>2. PICK u : u = r.id
    OBVIOUS
<1>3. /\ r.at \in {"clear", "revoke"} /\ req' = [req EXCEPT ![h] = Idle] /\ made' = made
      /\ UNCHANGED <<users, nextId, secrets, book, overlapped, crowned, gates>>
      /\ \/ /\ r.at = "revoke" /\ sessions' = {s \in sessions : s[1] # u} /\ cutShort' = cutShort
            /\ outlived' = IF Exists(u) THEN outlived \cup Pending(u) ELSE outlived
         \/ UNCHANGED <<sessions, outlived>> /\ cutShort' = cutShort \cup {u}
    BY <1>1, <1>2 DEF Revoke, LastStepFails, Ends
<1>4. /\ TypeOK /\ RequestsAreRecords /\ Knows(r, crowned, nextId)
      /\ IdsInOrder /\ OnTheBooks /\ SuperusersWereCrowned /\ KeysEnd
    BY <1>1 DEF AInv, RequestsKnow, RowsHold
<1>5. u \in Users /\ u < nextId
    BY <1>2, <1>3, <1>4 DEF Knows, OnAccount
<1>6. nextId' \in Nat /\ nextId <= nextId'
    BY <1>3, <1>4, AccountsAssumption DEF TypeOK
<1>7. RequestsAreRecords' /\ RequestsKnow' /\ AloneAsBegun'
    BY <1>1, <1>3, <1>6, IdleIsRequest, RequestGoesOn
<1>8. /\ r.at # "clear" => At("clear") \subseteq At("clear")'
      /\ r.at # "revoke" => At("revoke") \subseteq At("revoke")'
      /\ At("clear") \subseteq At("clear")' \cup {u} /\ At("revoke") \subseteq At("revoke")' \cup {u}
      /\ Logins' \subseteq Logins
  <2>1. /\ req[h].at # "clear" => At("clear") \subseteq At("clear")'
        /\ At("clear") \subseteq At("clear")' \cup {req[h].id}
      BY <1>3, <1>4, StandingMoves
  <2>2. /\ req[h].at # "revoke" => At("revoke") \subseteq At("revoke")'
        /\ At("revoke") \subseteq At("revoke")' \cup {req[h].id}
        /\ Logins' \subseteq Logins
      BY <1>3, <1>4, IdleIsRequest, StandingMoves
  <2> QED BY <1>1, <1>2, <2>1, <2>2
<1>9. \A v : Exists(v)' = Exists(v) /\ (Undisturbed(v)' => Undisturbed(v))
    BY <1>3 DEF Exists, Undisturbed
<1>16. \A p : p \in Pending(u) <=> p \in Logins /\ p[1] = u /\ p[2] # users[u].key
    BY DEF Pending, Logins
<1>10. /\ Signed' \subseteq Signed /\ outlived \subseteq outlived' /\ outlived' \subseteq Users \X (1..MaxSecrets)
       /\ cutShort' \subseteq cutShort \cup {u} /\ (u \in cutShort' \/ r.at = "revoke")
  <2>1. Pending(u) \subseteq Users \X (1..MaxSecrets) /\ outlived \subseteq Users \X (1..MaxSecrets)
      BY <1>4, <1>16 DEF IdsInOrder, Signed, TypeOK
  <2>2. Signed' \subseteq Signed
      BY <1>3, <1>8 DEF Signed
  <2> QED BY <1>3, <2>1, <2>2
<1>11. IdsInOrder' /\ SuperusersWereCrowned'
    BY <1>3, <1>4, <1>5, <1>9, <1>10 DEF IdsInOrder, SuperusersWereCrowned
<1>12. OnTheBooks'
  <2>1. \A v : Undisturbed(v)' /\ v \in At("clear") => v \in At("clear")'
      BY <1>8, <1>10 DEF Undisturbed
  <2> QED BY <1>3, <1>4, <1>9, <2>1 DEF OnTheBooks
<1>13. KeysEnd'
  <2> SUFFICES ASSUME NEW p \in Signed', p \notin outlived', Undisturbed(p[1])', p[1] \notin At("revoke")', Exists(p[1])
               PROVE  users[p[1]].key = p[2]
      BY <1>3, <1>9 DEF KeysEnd
  <2>1. p \in Signed /\ p \notin outlived /\ Undisturbed(p[1])
      BY <1>9, <1>10
  <2>2. CASE p[1] # u
    <3>1. p[1] \notin At("revoke")
        BY <1>8, <2>2
    <3> QED BY <1>4, <2>1, <3>1 DEF KeysEnd
  <2>3. CASE p[1] = u
    <3>1. /\ sessions' = {s \in sessions : s[1] # u} /\ Pending(u) \subseteq outlived'
        BY <1>3, <2>3 DEF Undisturbed
    <3>2. p \in Logins
        BY <1>8, <2>3, <3>1 DEF Signed
    <3> QED BY <1>16, <2>3, <3>1, <3>2
  <2> QED BY <2>2, <2>3
<1>14. TypeOK'
  <2>1. sessions' \subseteq sessions
      BY <1>3
  <2> QED BY <1>3, <1>4, <1>5, <1>7, <1>10, <2>1 DEF TypeOK, RequestsAreRecords, gates
<1>15. GatesHold'
    BY <1>3 DEF AInv, GatesHold, GateIsThere, gates
<1> QED BY <1>7, <1>11, <1>12, <1>13, <1>14, <1>15 DEF AInv, RowsHold

-----------------------------------------------------------------------------
(* Onboarding, the gate and restarts                                       *)

\* Onboarding creates the first Superuser.
LEMMA FirstUserKeeps ==
    ASSUME AInv, NEW h \in Handlers, NEW e \in Emails, FirstUser(h, e)
    PROVE  AInv'
<1>1. PICK r \in Request : r = req[h]
    BY DEF AInv, RequestsAreRecords
<1>2. PICK row : row = [role |-> "Superuser", status |-> "Active", email |-> e, key |-> 0, link |-> 0, pin |-> NoOne]
    OBVIOUS
<1>3. row \in Row /\ row.role = "Superuser" /\ row.key = 0
    BY <1>2, AccountsAssumption DEF Row, Roles, Statuses
<1>4. PICK q : q = [r EXCEPT !.at = "firstkey", !.id = nextId, !.seen = row]
    OBVIOUS
<1>5. /\ r.at = "first" /\ Insert(row) /\ crowned' = crowned \cup {nextId} /\ req' = [req EXCEPT ![h] = q]
      /\ UNCHANGED <<made, secrets, sessions, outlived, overlapped, cutShort, gates>>
    BY <1>1, <1>2, <1>4 DEF FirstUser
<1>6. TypeOK /\ IdsInOrder /\ RequestsAreRecords /\ nextId <= MaxUsers /\ nextId' = nextId + 1
    BY <1>5 DEF AInv, RowsHold, Insert
<1>7. nextId + 1 \in 1..MaxUsers + 1 /\ nextId \in Users /\ nextId < nextId + 1
    BY <1>6, OneMoreUser
<1>8. nextId \in 0..MaxUsers /\ nextId' \in Nat /\ nextId <= nextId' /\ ~(nextId < nextId)
    BY <1>6, <1>7, AccountsAssumption DEF Users
<1>9. /\ q \in Request /\ q.at = "firstkey" /\ q.id = nextId /\ q.seen = row /\ q.alone = r.alone
    BY <1>3, <1>4, <1>8 DEF Request
<1>10. crowned \subseteq crowned' /\ crowned' \in SUBSET Users /\ nextId \in crowned'
    BY <1>5, <1>6, <1>7 DEF TypeOK
<1>11. Knows(q, crowned', nextId')
    BY <1>3, <1>6, <1>7, <1>9, <1>10 DEF Knows, OnAccount, Rewriters
<1>12. At("clear") \subseteq At("clear")' /\ At("revoke") \subseteq At("revoke")' /\ Logins' \subseteq Logins
    BY <1>1, <1>5, <1>6, <1>9, StandingMoves
<1>13. /\ RowsHold' /\ nextId' \in 1..MaxUsers + 1
       /\ users' \in [Users -> Row \cup {Gone}] /\ book' \in [Users -> Row \cup {Gone}]
       /\ users'[nextId] = row /\ \A u \in Users \ {nextId} : users'[u] = users[u]
    BY <1>3, <1>5, <1>10, <1>12, InsertKeeps
<1>14. q.alone => req[h].alone /\ AsBegun(q, users', gate', records', cutShort')
  <2> SUFFICES ASSUME r.alone PROVE AsBegun(q, users', gate', records', cutShort')
      BY <1>1, <1>9
  <2>1. gate = 0 /\ \A u \in Users : users[u] = Gone
      BY <1>1, <1>5 DEF AInv, AloneAsBegun, AsBegun
  <2>2. gate' = gate /\ cutShort' = cutShort /\ nextId \notin cutShort
      BY <1>5, <1>6, <1>8 DEF IdsInOrder, gates
  <2>3. row # Gone
      BY <1>3, GoneAssumption
  <2> QED BY <1>3, <1>9, <1>13, <2>1, <2>2, <2>3 DEF AsBegun
<1>15. RequestsAreRecords' /\ RequestsKnow' /\ AloneAsBegun'
    BY <1>1, <1>5, <1>8, <1>9, <1>10, <1>11, <1>14, RequestGoesOn
<1>16. TypeOK'
    BY <1>5, <1>6, <1>10, <1>13, <1>15 DEF TypeOK, RequestsAreRecords, gates
<1>17. GatesHold'
    BY <1>5 DEF AInv, GatesHold, GateIsThere, gates
<1> QED BY <1>13, <1>15, <1>16, <1>17 DEF AInv

\* The gate is set, or a record is edited or deleted.
LEMMA GateStepsKeep ==
    ASSUME AInv, NEW h \in Handlers, SetGate(h) \/ FirstGate(h) \/ EditRecord(h) \/ DropRecord(h)
    PROVE  AInv'
<1>1. PICK r \in Request : r = req[h]
    BY DEF AInv, RequestsAreRecords
<1>2. /\ r.at \in {"gate", "firstgate", "edit", "dropRecord"} /\ req' = [req EXCEPT ![h] = Idle] /\ made' = made
      /\ UNCHANGED <<rows, nextRecord>>
    BY <1>1 DEF SetGate, FirstGate, EditRecord, DropRecord, Ends
<1>3. TypeOK /\ RequestsAreRecords /\ Knows(r, crowned, nextId) /\ GatesHold
    BY <1>1 DEF AInv, RequestsKnow
<1>4. UNCHANGED <<users, nextId, secrets, sessions, outlived, book, overlapped, cutShort, crowned>>
    BY <1>2 DEF rows
<1>5. nextId' \in Nat /\ nextId <= nextId'
    BY <1>3, <1>4, AccountsAssumption DEF TypeOK
<1>6. RequestsAreRecords' /\ RequestsKnow' /\ AloneAsBegun'
    BY <1>1, <1>2, <1>4, <1>5, IdleIsRequest, RequestGoesOn
<1>7. At("clear") \subseteq At("clear")' /\ At("revoke") \subseteq At("revoke")' /\ Logins' \subseteq Logins
    BY <1>1, <1>2, <1>3, IdleIsRequest, StandingMoves
<1>8. RowsHold'
    BY <1>2, <1>7, RowsStill
<1>9. r.alone => AsBegun(r, users, gate, records, cutShort)
    BY <1>1, <1>2 DEF AInv, AloneAsBegun
<1>10. Builtin \in Records /\ Builtin \in 0..MaxRecords /\ r.rec \in 0..MaxRecords /\ r.kind \in Kinds
       /\ \A i \in 0..MaxRecords : i # 0 => i \in Records
    BY AccountsAssumption DEF Builtin, Records, Request
<1>11. \A kind \in Kinds : kind # Gone
    BY GoneAssumption
<1>12. /\ records' \in [Records -> Kinds \cup {Gone}] /\ gate' \in 0..MaxRecords /\ mixed' \in BOOLEAN
       /\ GatesHold'
  <2>1. CASE SetGate(h)
    <3>1. gate' = r.rec /\ mixed' = (mixed \/ ~r.alone) /\ records' = records /\ r.at = "gate"
        BY <1>1, <2>1 DEF SetGate, Mixes
    <3>2. r.alone /\ r.rec # 0 => records[r.rec] # Gone
        BY <1>9, <3>1 DEF AsBegun
    <3>3. GatesHold'
        BY <1>3, <3>1, <3>2 DEF GatesHold, GateIsThere
    <3> QED BY <1>3, <1>10, <3>1, <3>3 DEF TypeOK
  <2>2. CASE FirstGate(h)
    <3>1. gate' = Builtin /\ mixed' = (mixed \/ ~r.alone) /\ records' = records
        BY <1>1, <2>2 DEF FirstGate, Mixes
    <3>2. GatesHold'
        BY <1>3, <3>1 DEF GatesHold, GateIsThere
    <3> QED BY <1>3, <1>10, <3>1, <3>2 DEF TypeOK
  <2>3. CASE EditRecord(h)
    <3>1. /\ gate' = gate /\ mixed' = mixed
          /\ records' = [records EXCEPT ![r.rec] = IF @ = Gone \/ r.rec = Builtin THEN @ ELSE r.kind]
        BY <1>1, <2>3 DEF EditRecord
    <3>2. records' \in [Records -> Kinds \cup {Gone}]
        BY <1>3, <1>10, <3>1 DEF TypeOK
    <3>3. \A i \in Records : records[i] # Gone => records'[i] # Gone
        BY <1>3, <1>10, <1>11, <3>1 DEF TypeOK
    <3>4. gate \in 0..MaxRecords /\ mixed \in BOOLEAN
        BY <1>3 DEF TypeOK
    <3>5. GatesHold'
        BY <1>3, <1>10, <3>1, <3>3, <3>4 DEF GatesHold, GateIsThere
    <3> QED BY <3>1, <3>2, <3>4, <3>5
  <2>4. CASE DropRecord(h)
    <3>1. /\ gate' = gate /\ mixed' = (mixed \/ ~r.alone) /\ r.at = "dropRecord"
          /\ records' = [records EXCEPT ![r.rec] = Gone]
        BY <1>1, <2>4 DEF DropRecord, Mixes
    <3>2. records' \in [Records -> Kinds \cup {Gone}]
        BY <1>3, <3>1 DEF TypeOK
    <3>3. \A i \in Records \ {r.rec} : records'[i] = records[i]
        BY <1>3, <3>1 DEF TypeOK
    <3>4. gate \in 0..MaxRecords /\ mixed \in BOOLEAN
        BY <1>3 DEF TypeOK
    <3>5. r.rec # Builtin /\ (r.alone => gate # r.rec)
        BY <1>3, <1>9, <3>1 DEF Knows, AsBegun
    <3>6. GatesHold'
        BY <1>3, <1>10, <3>1, <3>3, <3>4, <3>5 DEF GatesHold, GateIsThere
    <3> QED BY <3>1, <3>2, <3>4, <3>6
  <2> QED BY <2>1, <2>2, <2>3, <2>4
<1>13. TypeOK'
    BY <1>2, <1>3, <1>4, <1>6, <1>12 DEF TypeOK, RequestsAreRecords
<1> QED BY <1>6, <1>8, <1>12, <1>13 DEF AInv

\* The process dies: what requests had left to do marks their accounts.
LEMMA CrashKeeps ==
    ASSUME AInv, Crash
    PROVE  AInv'
<1>1. /\ req' = [h \in Handlers |-> Idle]
      /\ cutShort' = cutShort \cup {req[h].id : h \in {k \in Handlers :
                                                   req[k].at \in {"clear", "revoke", "firstkey", "firstgate"}}}
      /\ UNCHANGED <<users, nextId, secrets, sessions, outlived, book, overlapped, crowned, gates, made>>
    BY DEF Crash
<1>2. TypeOK /\ IdsInOrder /\ OnTheBooks /\ SuperusersWereCrowned /\ KeysEnd
    BY DEF AInv, RowsHold
<1>3. req' \in [Handlers -> Request] /\ \A h \in Handlers : req'[h] = Idle
    BY <1>1, IdleIsRequest
<1>4. RequestsAreRecords' /\ RequestsKnow' /\ AloneAsBegun'
    BY <1>3, IdleIsRequest DEF RequestsAreRecords, RequestsKnow, AloneAsBegun
<1>5. ASSUME NEW u \in cutShort' PROVE u \in Users /\ u < nextId
  <2>1. CASE u \in cutShort
      BY <1>2, <2>1 DEF TypeOK, IdsInOrder
  <2>2. CASE u \notin cutShort
    <3>1. PICK k \in Handlers : req[k].at \in {"clear", "revoke", "firstkey", "firstgate"} /\ u = req[k].id
        BY <1>1, <1>5, <2>2
    <3> QED BY <3>1 DEF AInv, RequestsKnow, Knows, OnAccount, Rewriters
  <2> QED BY <2>1, <2>2
<1>6. At("clear") \subseteq cutShort' /\ At("revoke") \subseteq cutShort' /\ cutShort \subseteq cutShort'
    BY <1>1 DEF At
<1>7. \A v : Exists(v)' = Exists(v) /\ (Undisturbed(v)' => Undisturbed(v) /\ v \notin At("clear") /\ v \notin At("revoke"))
    BY <1>1, <1>6 DEF Exists, Undisturbed
<1>13. Signed' \subseteq Signed
  <2>1. Logins' = {}
      BY <1>3, IdleIsRequest DEF Logins
  <2> QED BY <1>1, <2>1 DEF Signed
<1>8. IdsInOrder' /\ SuperusersWereCrowned'
    BY <1>1, <1>2, <1>5, <1>7, <1>13 DEF IdsInOrder, SuperusersWereCrowned
<1>9. OnTheBooks'
    BY <1>1, <1>2, <1>7 DEF OnTheBooks
<1>10. KeysEnd'
    BY <1>1, <1>2, <1>7, <1>13 DEF KeysEnd
<1>11. TypeOK'
    BY <1>1, <1>2, <1>4, <1>5 DEF TypeOK, RequestsAreRecords, gates
<1>12. GatesHold'
    BY <1>1 DEF AInv, GatesHold, GateIsThere, gates
<1> QED BY <1>4, <1>8, <1>9, <1>10, <1>11, <1>12 DEF AInv, RowsHold

-----------------------------------------------------------------------------
(* Theorems                                                                *)

\* A fresh install, and one with a gate, start as they should.
LEMMA InitHolds ==
    ASSUME Init
    PROVE  AInv
<1>1. PICK door \in 0..2, e \in Emails :
        LET owner == [role |-> "Superuser", status |-> "Active", email |-> e, key |-> 1, link |-> 0, pin |-> NoOne]
            other == [owner EXCEPT !.role = IF door = 1 THEN "Member" ELSE "Admin",
                                   !.status = IF door = 1 THEN "Invited" ELSE "Active",
                                   !.email = CHOOSE f \in Emails : f # e, !.key = 0] IN
        /\ users = [u \in Users |-> IF door = 0 \/ u > 2 THEN Gone ELSE <<owner, other>>[u]]
        /\ nextId = IF door = 0 THEN 1 ELSE 3
        /\ secrets = IF door = 0 THEN 0 ELSE 1
        /\ nextRecord = IF door = 0 THEN 2 ELSE 3
        /\ records = [r \in Records |-> IF r < nextRecord THEN "proves" ELSE Gone]
        /\ gate = door
        /\ crowned = IF door = 0 THEN {} ELSE {1}
    BY DEF Init
<1>2. /\ book = users /\ sessions = {} /\ outlived = {} /\ overlapped = {} /\ cutShort = {} /\ mixed = FALSE
      /\ req = [h \in Handlers |-> Idle] /\ made = 0
    BY DEF Init
<1>3. PICK owner : owner = [role |-> "Superuser", status |-> "Active", email |-> e, key |-> 1, link |-> 0, pin |-> NoOne]
    OBVIOUS
<1>4. PICK mail \in Emails : mail = CHOOSE f \in Emails : f # e
    BY AccountsAssumption
<1>5. PICK other : other = [owner EXCEPT !.role = IF door = 1 THEN "Member" ELSE "Admin",
                                         !.status = IF door = 1 THEN "Invited" ELSE "Active",
                                         !.email = mail, !.key = 0]
    OBVIOUS
<1>0. other = [owner EXCEPT !.role = IF door = 1 THEN "Member" ELSE "Admin",
                         !.status = IF door = 1 THEN "Invited" ELSE "Active",
                         !.email = CHOOSE f \in Emails : f # e, !.key = 0]
    BY <1>4, <1>5
<1>6. /\ users = [u \in Users |-> IF door = 0 \/ u > 2 THEN Gone ELSE <<owner, other>>[u]]
      /\ nextId = (IF door = 0 THEN 1 ELSE 3) /\ secrets = (IF door = 0 THEN 0 ELSE 1)
      /\ nextRecord = (IF door = 0 THEN 2 ELSE 3)
      /\ records = [r \in Records |-> IF r < nextRecord THEN "proves" ELSE Gone]
      /\ gate = door /\ crowned = IF door = 0 THEN {} ELSE {1}
  <2>1. users = [u \in Users |-> IF door = 0 \/ u > 2 THEN Gone ELSE <<owner, other>>[u]]
    <3> DEFINE one == [role |-> "Superuser", status |-> "Active", email |-> e, key |-> 1, link |-> 0, pin |-> NoOne]
               two == [one EXCEPT !.role = IF door = 1 THEN "Member" ELSE "Admin",
                                  !.status = IF door = 1 THEN "Invited" ELSE "Active",
                                  !.email = CHOOSE f \in Emails : f # e, !.key = 0]
    <3>1. users = [u \in Users |-> IF door = 0 \/ u > 2 THEN Gone ELSE <<one, two>>[u]]
        BY <1>1
    <3>2. owner = one /\ other = two
        BY <1>0, <1>3
    <3> HIDE DEF one, two
    <3> QED BY <3>1, <3>2
  <2> QED BY <1>1, <2>1
<1>7. 0 \in 0..MaxSecrets /\ 1 \in 0..MaxSecrets
    BY AccountsAssumption
<1>8. owner \in Row /\ owner.role = "Superuser" /\ owner # Gone
    BY <1>3, <1>7, GoneAssumption DEF Row, Roles, Statuses
<1>9. other \in Row /\ other.role # "Superuser" /\ other # Gone
    BY <1>3, <1>5, <1>7, GoneAssumption DEF Row, Roles, Statuses
<1>10. Users \subseteq Nat \ {0} /\ 1 \in Users /\ 2 \in Users
    BY AccountsAssumption DEF Users
<1>11. ASSUME NEW u \in Users
       PROVE  users[u] = IF door = 0 \/ u > 2 THEN Gone ELSE IF u = 1 THEN owner ELSE other
  <2>1. CASE door = 0 \/ u > 2
      BY <1>6, <1>10, <2>1
  <2>2. CASE ~(door = 0 \/ u > 2) /\ u = 1
      BY <1>6, <2>2
  <2>3. CASE ~(door = 0 \/ u > 2) /\ u # 1
    <3>1. u = 2
        BY <1>10, <2>3
    <3> QED BY <1>6, <2>3, <3>1
  <2> QED BY <2>1, <2>2, <2>3
<1>12. users \in [Users -> Row \cup {Gone}]
  <2>1. \A u \in Users : users[u] \in Row \cup {Gone}
      BY <1>8, <1>9, <1>11
  <2>2. users = [u \in Users |-> users[u]]
      BY <1>6
  <2> QED BY <2>1, <2>2
<1>13. req \in [Handlers -> Request] /\ \A h \in Handlers : req[h] = Idle
    BY <1>2, IdleIsRequest
<1>14. /\ nextId \in 1..MaxUsers + 1 /\ secrets \in 0..MaxSecrets /\ nextRecord \in 1..MaxRecords + 1
       /\ gate \in 0..MaxRecords /\ crowned \subseteq Users /\ made \in 0..MaxRequests
    BY <1>2, <1>6, <1>7, <1>10, AccountsAssumption
<1>15. records \in [Records -> Kinds \cup {Gone}]
    BY <1>6 DEF Kinds
<1>16. TypeOK /\ RequestsAreRecords
    BY <1>2, <1>12, <1>13, <1>14, <1>15 DEF TypeOK, RequestsAreRecords
<1>17. RequestsKnow /\ AloneAsBegun
    BY <1>13, IdleIsRequest DEF RequestsKnow, AloneAsBegun
<1>23. Signed = {}
    BY <1>2, <1>13, IdleIsRequest DEF Signed, Logins
<1>18. IdsInOrder
  <2>1. ASSUME NEW u \in Users, users[u] # Gone PROVE u < nextId
    <3>1. door # 0 /\ ~(u > 2)
        BY <1>11, <2>1
    <3> QED BY <1>6, <1>10, <3>1
  <2> QED BY <1>2, <1>23, <2>1 DEF IdsInOrder, Exists
<1>19. OnTheBooks
    BY <1>2 DEF OnTheBooks, Exists, SameButPin
<1>20. SuperusersWereCrowned
  <2>1. ASSUME NEW u \in Users, users[u] # Gone, users[u].role = "Superuser" PROVE u \in crowned
    <3>1. door # 0 /\ u = 1
        BY <1>9, <1>11, <2>1
    <3> QED BY <1>6, <3>1
  <2> QED BY <2>1 DEF SuperusersWereCrowned, Exists
<1>21. KeysEnd
    BY <1>23 DEF KeysEnd
<1>22. GatesHold
  <2>1. "proves" # Gone
      BY GoneAssumption DEF Kinds
  <2>2. 1 \in Records /\ 2 \in Records
      BY AccountsAssumption DEF Records
  <2>3. records[1] # Gone /\ (door # 0 => records[2] # Gone)
      BY <1>6, <2>1, <2>2
  <2>4. gate # 0 => gate \in {1, 2} /\ door # 0
      BY <1>6
  <2> QED BY <2>3, <2>4 DEF GatesHold, GateIsThere, Builtin
<1> QED BY <1>16, <1>17, <1>18, <1>19, <1>20, <1>21, <1>22 DEF AInv, RowsHold

\* A step of a request under way keeps the invariant.
LEMMA StepKeeps ==
    ASSUME AInv, NEW h \in Handlers, Step(h)
    PROVE  AInv'
<1>1. CASE CheckUpdate(h) \/ WriteUpdate(h)
    BY <1>1, CheckUpdateKeeps, WriteUpdateKeeps
<1>2. CASE MakeKey(h) \/ MintLink(h) \/ WriteProfile(h)
    BY <1>2, FieldKeeps
<1>3. CASE DropKey(h) \/ SpendLink(h)
    BY <1>3, EndsKeyKeeps
<1>4. CASE ClearPins(h) \/ PinIdentity(h)
    BY <1>4, PinStepsKeep
<1>5. CASE DeleteUser(h) \/ UndoFirstUser(h)
    BY <1>5, DeleteKeeps
<1>6. CASE Revoke(h) \/ LastStepFails(h)
    BY <1>6, LastStepKeeps
<1>7. CASE SetGate(h) \/ FirstGate(h) \/ EditRecord(h) \/ DropRecord(h)
    BY <1>7, GateStepsKeep
<1>8. CASE FirstKey(h)
    BY <1>8, FirstKeyKeeps
<1>9. CASE \E e \in Emails : FirstUser(h, e)
    BY <1>9, FirstUserKeeps
<1>10. CASE OpenSession(h) \/ LoginLapses(h)
    BY <1>10, LoginStepsKeep
<1> QED BY <1>1, <1>2, <1>3, <1>4, <1>5, <1>6, <1>7, <1>8, <1>9, <1>10 DEF Step

\* The invariant is inductive.
LEMMA NextKeeps ==
    ASSUME AInv, [Next]_vars
    PROVE  AInv'
<1>1. ASSUME NEW h \in Handlers, Free(h), NEW actor \in Actors, Arrive(h, actor) PROVE AInv'
    BY <1>1, ArriveForAccount, ArriveForSelf, ArriveForGate DEF Arrive
<1>2. ASSUME NEW h \in Handlers, Free(h),
             BeginOnboard(h) \/ \E u \in Users : BeginSpendLink(h, u) \/ BeginLogin(h, u) \/ BeginPin(h, u)
      PROVE  AInv'
    BY <1>2, ArriveForSelf, ArriveForGate
<1>3. ASSUME NEW actor \in Actors,
             \/ \E role \in Roles, status \in {"Active", "Invited"}, e \in Emails : CreateUser(actor, NewRow(role, status, e))
             \/ \E kind \in Kinds : CreateRecord(actor, kind)
      PROVE  AInv'
    BY <1>3, CreateUserKeeps, CreateRecordKeeps
<1>5. ASSUME NEW h \in Handlers, Step(h) PROVE AInv'
    BY <1>5, StepKeeps
<1>6. CASE Crash
    BY <1>6, CrashKeeps
<1>7. CASE UNCHANGED vars
  <2>1. UNCHANGED <<users, nextId, secrets, sessions, outlived, book, overlapped, cutShort, crowned,
                    records, nextRecord, gate, mixed, req, made>>
      BY <1>7 DEF vars, rows, gates
  <2>2. TypeOK' /\ RequestsAreRecords' /\ RequestsKnow' /\ AloneAsBegun' /\ GatesHold'
      BY <2>1 DEF AInv, TypeOK, RequestsAreRecords, RequestsKnow, AloneAsBegun, GatesHold, GateIsThere
  <2>3. At("clear")' = At("clear") /\ At("revoke")' = At("revoke") /\ Logins' = Logins
      BY <2>1 DEF At, Logins
  <2>4. RowsHold'
      BY <2>1, <2>3, RowsStill DEF rows
  <2> QED BY <2>2, <2>4 DEF AInv
<1> QED BY <1>1, <1>2, <1>3, <1>5, <1>6, <1>7 DEF Next

\* For any number of accounts and requests: an account whose writers did not
\* overlap is what its requests meant it to be.
THEOREM AccountsStayOnTheBooks == Spec => []AccountsFollowTheBook
<1>1. AInv => AccountsFollowTheBook
  <2> SUFFICES ASSUME AInv, NEW u \in Users, Undisturbed(u), u \notin At("clear")
               PROVE  users[u] = book[u]
      BY DEF AccountsFollowTheBook
  <2>1. users[u] \in Row \cup {Gone} /\ book[u] \in Row \cup {Gone} /\ (users[u] # Gone <=> book[u] # Gone)
      BY DEF AInv, TypeOK, RowsHold, OnTheBooks, Exists
  <2>2. users[u] # Gone => SameButPin(users[u], book[u]) /\ users[u].pin = book[u].pin
      BY DEF AInv, RowsHold, OnTheBooks, Exists
  <2> QED BY <2>1, <2>2, RowsAreFields
<1> QED BY <1>1, InitHolds, NextKeeps, PTL DEF Spec

\* Whatever overlaps, every Superuser was made one by somebody who may; a key that
\* ended has left no session, of accounts left undisturbed, but those of logins that
\* had passed under it and were redeemed when it had ended; and the gate names a
\* record that is there, unless requests about it were mixed.
THEOREM GatesAndKeysStay == Spec => []GatesAndKeysHold
<1>1. AInv => GatesAndKeysHold
  <2> SUFFICES ASSUME AInv PROVE GatesAndKeysHold
      OBVIOUS
  <2>1. EndedKeysLeaveNoSession
      BY DEF AInv, RowsHold, KeysEnd, Signed, EndedKeysLeaveNoSession
  <2> QED BY <2>1 DEF AInv, RowsHold, GatesHold, GatesAndKeysHold
<1> QED BY <1>1, InitHolds, NextKeeps, PTL DEF Spec

\* What onboarding may do to the gate and the install, in a step nothing came in
\* between of.
WholeStep(h) ==
    req[h].at \in {"firstkey", "firstgate"} /\ req[h].alone /\ cutShort' = cutShort =>
        /\ gate' # gate => \E u \in Users : users'[u] # Gone /\ users'[u].role = "Superuser" /\ users'[u].key # 0
        /\ req'[h].at = "idle" /\ gate' = gate => InstallIsFresh'

\* Any step of the system is such a step: while onboarding is alone, only its own
\* steps touch the gate and end it.
LEMMA StepsAreWhole ==
    ASSUME AInv, Next, NEW h \in Handlers
    PROVE  WholeStep(h)
<1> SUFFICES ASSUME req[h].at \in {"firstkey", "firstgate"}, req[h].alone, cutShort' = cutShort
             PROVE  /\ gate' # gate => \E u \in Users : users'[u] # Gone /\ users'[u].role = "Superuser" /\ users'[u].key # 0
                    /\ req'[h].at = "idle" /\ gate' = gate => InstallIsFresh'
    BY DEF WholeStep
<1>1. PICK r \in Request : r = req[h]
    BY DEF AInv, RequestsAreRecords
<1>2. /\ AsBegun(r, users, gate, records, cutShort) /\ TypeOK /\ RequestsAreRecords /\ Knows(r, crowned, nextId)
      /\ \A k \in Handlers \ {h} : req[k].at = "idle"
    BY <1>1 DEF AInv, AloneAsBegun, RequestsKnow
<1>3. /\ gate = 0 /\ r.id \in Users /\ r.id \notin cutShort /\ users[r.id] # Gone
      /\ \A u \in Users \ {r.id} : users[u] = Gone
      /\ r.at = "firstgate" => users[r.id].role = "Superuser" /\ users[r.id].key # 0
    BY <1>1, <1>2 DEF AsBegun, Knows, OnAccount, Rewriters
<1>4. ASSUME NEW k \in Handlers, Free(k), NEW q, Begin(k, q)
      PROVE  gate' = gate /\ req'[h].at # "idle"
  <2>1. k # h /\ UNCHANGED gates
      BY <1>4 DEF Free, Begin
  <2>2. req'[h].at = Crowded[h].at
      BY <1>4, <2>1, CrowdedAlike DEF Begin
  <2> QED BY <2>1, <2>2, CrowdedAlike DEF gates
<1>5. ASSUME NEW k \in Handlers, Free(k), NEW actor \in Actors, Arrive(k, actor)
      PROVE  \E q : Begin(k, q)
    BY <1>5 DEF Arrive, BeginUpdate, BeginDelete, BeginMakeKey, BeginDropKey, BeginMintLink, BeginProfile,
                BeginDropRecord, BeginEditRecord, BeginSetGate
<1>6. ASSUME NEW k \in Handlers, Free(k),
             BeginOnboard(k) \/ \E u \in Users : BeginSpendLink(k, u) \/ BeginLogin(k, u) \/ BeginPin(k, u)
      PROVE  \E q : Begin(k, q)
    BY <1>6 DEF BeginOnboard, BeginSpendLink, BeginLogin, BeginPin
<1>7. ASSUME AtOnce PROVE req'[h].at # "idle"
    BY <1>7, CrowdedAlike DEF AtOnce
<1>8. ASSUME NEW actor \in Actors,
             \/ \E role \in Roles, status \in {"Active", "Invited"}, e \in Emails : CreateUser(actor, NewRow(role, status, e))
             \/ \E kind \in Kinds : CreateRecord(actor, kind)
      PROVE  AtOnce /\ gate' = gate
    BY <1>8 DEF CreateUser, CreateRecord, gates
<1>10. ASSUME NEW k \in Handlers, req[k].at # "idle", Step(k)
       PROVE  \/ FirstKey(h) \/ FirstGate(h) \/ UndoFirstUser(h)
  <2>1. k = h
      BY <1>2, <1>10
  <2> QED BY <1>10, <2>1 DEF Step, CheckUpdate, WriteUpdate, ClearPins, DeleteUser, Revoke, LastStepFails, MakeKey, DropKey,
                             WriteProfile, MintLink, SpendLink, PinIdentity, OpenSession, LoginLapses, SetGate, EditRecord,
                             DropRecord, FirstUser
<1>11. CASE FirstKey(h)
  <2>1. Goes(h, "firstgate") /\ gate' = gate
      BY <1>11 DEF FirstKey, gates
  <2>2. req'[h].at = "firstgate"
      BY <1>1, <1>2, <2>1 DEF Goes, RequestsAreRecords, Request
  <2> QED BY <2>1, <2>2
<1>12. CASE FirstGate(h)
  <2>1. r.at = "firstgate" /\ gate' = Builtin /\ users' = users
      BY <1>1, <1>12 DEF FirstGate, rows
  <2>2. gate' # gate
      BY <1>3, <2>1 DEF Builtin
  <2> QED BY <1>3, <2>1, <2>2
<1>13. CASE UndoFirstUser(h)
  <2>1. users' = [users EXCEPT ![r.id] = Gone] /\ gate' = gate
      BY <1>1, <1>13 DEF UndoFirstUser, Delete, gates
  <2>2. \A u \in Users : users'[u] = Gone
      BY <1>2, <1>3, <2>1 DEF TypeOK
  <2>3. InstallIsFresh'
      BY <1>3, <2>1, <2>2 DEF InstallIsFresh, Exists
  <2> QED BY <2>1, <2>3
<1>14. CASE Crash
  <2>1. r.id \in cutShort'
      BY <1>1, <1>14 DEF Crash
  <2> QED BY <1>3, <2>1
<1> QED BY <1>4, <1>5, <1>6, <1>7, <1>8, <1>10, <1>11, <1>12, <1>13, <1>14 DEF Next

\* Onboarding that nothing came in between of sets the gate only with a
\* Superuser who has a key, and one that fails leaves the install fresh.
THEOREM OnboardingStaysWhole == Spec => OnboardingIsWhole
<1>1. AInv /\ [Next]_vars => [\A h \in Handlers : WholeStep(h)]_vars
    BY StepsAreWhole
<1>2. (\A h \in Handlers : WholeStep(h)) <=>
      \A h \in Handlers :
        req[h].at \in {"firstkey", "firstgate"} /\ req[h].alone /\ cutShort' = cutShort =>
            /\ gate' # gate => \E u \in Users : users'[u] # Gone /\ users'[u].role = "Superuser" /\ users'[u].key # 0
            /\ req'[h].at = "idle" /\ gate' = gate => InstallIsFresh'
    BY DEF WholeStep
<1> QED BY <1>1, <1>2, InitHolds, NextKeeps, PTL DEF Spec, OnboardingIsWhole

=============================================================================
