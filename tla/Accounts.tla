-------------------------------- MODULE Accounts --------------------------------
(***************************************************************************)
(* The control plane's own records: accounts with their roles, keys,       *)
(* passphrase links and pinned provider accounts; the auth records, the    *)
(* setting that names the admin gate; and the onboarding of a fresh        *)
(* install.                                                                *)
(*                                                                         *)
(* A request reads a row, decides by what it read, and later writes the    *)
(* WHOLE row back (db.UpdateUser), with what it read in the fields it did  *)
(* not mean to change.  Nothing locks the row in between.  One statement   *)
(* of the database is one step here.                                       *)
(***************************************************************************)
EXTENDS Naturals, FiniteSets

CONSTANTS
    Handlers,       \* requests in flight
    Emails,
    Gone,           \* a row that does not exist
    NoOne,          \* no pinned provider account
    MaxUsers, MaxRecords, MaxSecrets, MaxRequests   \* bounds of the model

ASSUME AccountsAssumption ==
    /\ NoOne \notin Emails /\ \E e, f \in Emails : e # f
    /\ MaxUsers \in Nat \ {0, 1} /\ MaxRecords \in Nat \ {0, 1} /\ MaxSecrets \in Nat \ {0}
    /\ MaxRequests \in Nat

VARIABLES
    users, nextId, secrets,
    records, nextRecord,
    gate,       \* admin_auth_service: a record, or 0 in setup mode
    sessions,   \* <<user, the key it was signed in with>>
    req,        \* what each handler is at
    made,
    \* history
    book,       \* the accounts, had every request changed only what it meant to
    overlapped, \* accounts written by a request that had read an earlier row
    cutShort,   \* accounts whose last request did not get to its end
    outlived,   \* sessions whose login was under way when their account's were ended
    crowned,    \* accounts made Superuser by somebody who may
    mixed       \* a request about the gate overlapped another request

rows == <<users, nextId, secrets, sessions, outlived, book, overlapped, cutShort, crowned>>
gates == <<records, nextRecord, gate, mixed>>
vars == <<rows, gates, req, made>>

-----------------------------------------------------------------------------
(* State                                                                   *)

Users == 1..MaxUsers
Records == 1..MaxRecords
Builtin == 1                \* the seeded ssh_key record
Roles == {"Superuser", "Admin", "Member"}   \* a Read-only account is a Member here
Statuses == {"Active", "Invited", "Suspended"}
AdminPlus == {"Superuser", "Admin"}

\* A row of users.  Keys and links are numbered in the order they are made, 0
\* is none; a provider account is named by the address it reports.
Row == [role: Roles, status: Statuses, email: Emails, key: 0..MaxSecrets, link: 0..MaxSecrets,
        pin: Emails \cup {NoOne}]

\* Whether a record's kind proves who is calling.
Kinds == {"proves", "open"}

ASSUME GoneAssumption == Gone \notin Row \cup Kinds

\* The user a request acts as.  Setup mode has an account of its own.
Actor == [id: 0..MaxUsers, role: Roles, fresh: BOOLEAN]
Setup == [id |-> 0, role |-> "Superuser", fresh |-> FALSE]

\* A request, with what it still needs: seen is the row it read, want the row
\* it was asked to write; alone, that no other request has come since.  At
\* "login" is a login between the passphrase check and the session.
Request == [at: {"idle", "update", "keep", "move", "clear", "delete", "make", "drop", "profile", "mint", "spend",
                 "revoke", "login", "pin", "first", "firstkey", "firstgate", "gate", "edit", "dropRecord"},
            actor: Actor, id: 0..MaxUsers, seen: Row \cup {Gone}, want: Row \cup {Gone},
            rec: 0..MaxRecords, kind: Kinds, alone: BOOLEAN]
Idle == [at |-> "idle", actor |-> Setup, id |-> 0, seen |-> Gone, want |-> Gone,
         rec |-> 0, kind |-> "open", alone |-> TRUE]

TypeOK ==
    /\ users \in [Users -> Row \cup {Gone}] /\ book \in [Users -> Row \cup {Gone}]
    /\ nextId \in 1..MaxUsers + 1 /\ secrets \in 0..MaxSecrets
    /\ records \in [Records -> Kinds \cup {Gone}] /\ nextRecord \in 1..MaxRecords + 1 /\ gate \in 0..MaxRecords
    /\ sessions \subseteq Users \X (1..MaxSecrets) /\ outlived \subseteq Users \X (1..MaxSecrets)
    /\ \A h \in Handlers : req[h] \in Request
    /\ made \in 0..MaxRequests
    /\ overlapped \subseteq Users /\ cutShort \subseteq Users /\ crowned \subseteq Users /\ mixed \in BOOLEAN

\* An install nobody has touched; or one whose gate is the builtin record, with
\* an invited Member; or a provider, with an Admin.
Init ==
    /\ \E door \in 0..2, e \in Emails :
        LET owner == [role |-> "Superuser", status |-> "Active", email |-> e, key |-> 1, link |-> 0, pin |-> NoOne]
            other == [owner EXCEPT !.role = IF door = 1 THEN "Member" ELSE "Admin",
                                   !.status = IF door = 1 THEN "Invited" ELSE "Active",
                                   !.email = CHOOSE f \in Emails : f # e, !.key = 0] IN
        /\ users = [u \in Users |-> IF door = 0 \/ u > 2 THEN Gone ELSE <<owner, other>>[u]]
        /\ nextId = IF door = 0 THEN 1 ELSE 3
        /\ secrets = IF door = 0 THEN 0 ELSE 1
        /\ nextRecord = IF door = 0 THEN 2 ELSE 3
        /\ records = [r \in Records |-> IF r < nextRecord THEN "proves" ELSE Gone]
        /\ gate = door
        /\ crowned = IF door = 0 THEN {} ELSE {1}
    /\ book = users /\ sessions = {} /\ outlived = {} /\ overlapped = {} /\ cutShort = {} /\ mixed = FALSE
    /\ req = [h \in Handlers |-> Idle] /\ made = 0

Exists(u) == users[u] # Gone

-----------------------------------------------------------------------------
(* Who may do what                                                         *)

\* authWrap and mcpUser: anybody in setup mode; else an Active account with a
\* token for the gate, which must still be a record.
Actors ==
    IF gate = 0 THEN {Setup}
    ELSE IF records[gate] = Gone THEN {}
    ELSE {[id |-> u, role |-> users[u].role, fresh |-> f] :
            u \in {v \in Users : Exists(v) /\ users[v].status = "Active"}, f \in BOOLEAN}

\* gateUserAccount: only a Superuser touches a Superuser.
MayManage(actor, row) ==
    /\ actor.role \in AdminPlus
    /\ row.role = "Superuser" => actor.role = "Superuser"

\* gateRoleGrant: only a Superuser makes Superusers.
MayGrant(actor, role) == role = "Superuser" => actor.role = "Superuser"

\* gateSelfOrAdmin.
SelfOrAdmin(actor, u, row) == actor.id = u \/ MayManage(actor, row)

\* gateFreshSignIn.
FreshSignIn(actor) == actor.id = 0 \/ actor.fresh

-----------------------------------------------------------------------------
(* Requests                                                                *)

\* Everybody else is no longer alone.
Crowded == [k \in Handlers |-> IF req[k].at = "idle" THEN Idle ELSE [req[k] EXCEPT !.alone = FALSE]]

Free(h) == req[h].at = "idle" /\ made < MaxRequests

\* A free handler takes a request as far as its first wait.
Begin(h, r) ==
    /\ made' = made + 1
    /\ req' = [Crowded EXCEPT ![h] = [r EXCEPT !.alone = \A k \in Handlers : req[k].at = "idle"]]
    /\ UNCHANGED <<rows, gates>>

Goes(h, at) == req' = [req EXCEPT ![h].at = at] /\ UNCHANGED made
Ends(h) == req' = [req EXCEPT ![h] = Idle] /\ UNCHANGED made

\* A request of one statement.
AtOnce == made < MaxRequests /\ made' = made + 1 /\ req' = Crowded

AddressFree(u, e) == \A v \in Users \ {u} : Exists(v) => users[v].email # e

\* db.UpdateUser: the whole row, if it is still there.  The request meant to
\* change the row to meant, and had seen an earlier one.
Update(u, row, meant, seen) ==
    /\ users' = [users EXCEPT ![u] = IF @ = Gone THEN Gone ELSE row]
    /\ book' = [book EXCEPT ![u] = IF @ = Gone THEN Gone ELSE meant]
    /\ overlapped' = overlapped \cup {v \in {u} : Exists(v) /\ users[v] # seen}

\* What is on the books of the account a handler writes; any row if it is gone.
Booked(h) == IF book[req[h].id] = Gone THEN req[h].seen ELSE book[req[h].id]

\* db.CreateUser: ids are not used again.
Insert(row) ==
    /\ nextId <= MaxUsers /\ AddressFree(0, row.email)
    /\ users' = [users EXCEPT ![nextId] = row] /\ book' = [book EXCEPT ![nextId] = row]
    /\ nextId' = nextId + 1

\* db.DeleteUser; the memberships are in Access.
Delete(u) == users' = [users EXCEPT ![u] = Gone] /\ book' = [book EXCEPT ![u] = Gone]

\* coreCreateUser: checks and inserts.
CreateUser(actor, row) ==
    /\ AtOnce
    /\ actor.role \in AdminPlus /\ MayGrant(actor, row.role)
    /\ Insert(row)
    /\ crowned' = IF actor.role = "Superuser" /\ row.role = "Superuser" THEN crowned \cup {nextId} ELSE crowned
    /\ UNCHANGED <<secrets, sessions, outlived, overlapped, cutShort, gates>>

\* One field of a row, as update_user and the panel's form send it.
Edits(row) ==
    {[row EXCEPT !.role = r] : r \in Roles} \cup {[row EXCEPT !.status = s] : s \in {"Active", "Suspended"}}
        \cup {[row EXCEPT !.email = e] : e \in Emails}

\* The handler reads the row for the fields it was not sent, then core reads
\* it again to decide.
BeginUpdate(h, actor, u) ==
    /\ Exists(u) /\ actor.role \in AdminPlus
    /\ \E want \in Edits(users[u]) :
        Begin(h, [Idle EXCEPT !.at = "update", !.actor = actor, !.id = u, !.seen = users[u], !.want = want])

CheckUpdate(h) ==
    /\ req[h].at = "update"
    /\ LET r == req[h]
           target == users[r.id]
           moved == target # Gone /\ r.want.email # target.email IN
       IF target # Gone /\ MayManage(r.actor, target) /\ MayGrant(r.actor, r.want.role) /\ (moved => FreshSignIn(r.actor))
       THEN Goes(h, IF moved THEN "move" ELSE "keep")
       ELSE Ends(h)
    /\ UNCHANGED <<rows, gates>>

WriteUpdate(h) ==
    /\ req[h].at \in {"keep", "move"}
    /\ LET r == req[h] IN
       IF ~AddressFree(r.id, r.want.email)
       THEN Ends(h) /\ UNCHANGED rows
       ELSE /\ IF r.at = "move" THEN Goes(h, "clear") ELSE Ends(h)
            /\ Update(r.id, r.want,
                      [Booked(h) EXCEPT !.role = r.want.role, !.status = r.want.status, !.email = r.want.email,
                                        !.pin = IF r.at = "move" THEN NoOne ELSE @], r.seen)
            /\ crowned' = IF r.actor.role = "Superuser" /\ r.want.role = "Superuser" THEN crowned \cup {r.id} ELSE crowned
            /\ UNCHANGED <<nextId, secrets, sessions, outlived, cutShort>>
    /\ UNCHANGED gates

\* ClearUserIdentities: the new address links afresh.
ClearPins(h) ==
    /\ req[h].at = "clear" /\ Ends(h)
    /\ LET unpinned(row) == IF row = Gone THEN Gone ELSE [row EXCEPT !.pin = NoOne] IN
       /\ users' = [users EXCEPT ![req[h].id] = unpinned(@)]
       /\ book' = [book EXCEPT ![req[h].id] = unpinned(@)]
    /\ UNCHANGED <<nextId, secrets, sessions, outlived, overlapped, cutShort, crowned, gates>>

\* coreDeleteUser: by the row the handler read; then the sessions.
BeginDelete(h, actor, u) ==
    /\ Exists(u) /\ MayManage(actor, users[u])
    /\ Begin(h, [Idle EXCEPT !.at = "delete", !.id = u])

DeleteUser(h) ==
    /\ req[h].at = "delete" /\ Goes(h, "revoke")
    /\ Delete(req[h].id)
    /\ UNCHANGED <<nextId, secrets, sessions, outlived, overlapped, cutShort, crowned, gates>>

\* The sessions that logins under way will open for an account with a key that
\* is no longer its own.
Pending(u) ==
    {<<u, req[k].seen.key>> : k \in {l \in Handlers :
        req[l].at = "login" /\ req[l].id = u /\ req[l].seen.key # users[u].key}}

\* RevokeUserRefreshFamilies: the sessions there are.
Revoke(h) ==
    /\ req[h].at = "revoke" /\ Ends(h)
    /\ sessions' = {s \in sessions : s[1] # req[h].id}
    /\ outlived' = IF Exists(req[h].id) THEN outlived \cup Pending(req[h].id) ELSE outlived
    /\ UNCHANGED <<users, nextId, secrets, book, overlapped, cutShort, crowned, gates>>

\* The database refuses the last statement of a request.
LastStepFails(h) ==
    /\ req[h].at \in {"clear", "revoke"} /\ Ends(h)
    /\ cutShort' = cutShort \cup {req[h].id}
    /\ UNCHANGED <<users, nextId, secrets, sessions, outlived, book, overlapped, crowned, gates>>

-----------------------------------------------------------------------------
(* Keys, links and provider accounts                                       *)

\* coreGenerateSSHKey: one's own, or as an admin; not over another key.
BeginMakeKey(h, actor, u) ==
    /\ Exists(u) /\ SelfOrAdmin(actor, u, users[u]) /\ FreshSignIn(actor)
    /\ users[u].key = 0
    /\ Begin(h, [Idle EXCEPT !.at = "make", !.id = u, !.seen = users[u]])

MakeKey(h) ==
    /\ req[h].at = "make" /\ secrets < MaxSecrets /\ Ends(h)
    /\ secrets' = secrets + 1
    /\ Update(req[h].id, [req[h].seen EXCEPT !.key = secrets'], [Booked(h) EXCEPT !.key = secrets'], req[h].seen)
    /\ UNCHANGED <<nextId, sessions, outlived, cutShort, crowned, gates>>

\* coreDeleteSSHKey: sessions signed in with it end.
BeginDropKey(h, actor, u) ==
    /\ Exists(u) /\ SelfOrAdmin(actor, u, users[u]) /\ FreshSignIn(actor)
    /\ users[u].key # 0
    /\ Begin(h, [Idle EXCEPT !.at = "drop", !.id = u, !.seen = users[u]])

\* Mutant: the sessions stay.
DropKeyOnly(h) ==
    /\ req[h].at = "drop" /\ Ends(h)
    /\ Update(req[h].id, [req[h].seen EXCEPT !.key = 0], [Booked(h) EXCEPT !.key = 0], req[h].seen)
    /\ UNCHANGED <<nextId, secrets, sessions, outlived, cutShort, crowned, gates>>

DropKey(h) ==
    /\ req[h].at = "drop" /\ Goes(h, "revoke")
    /\ Update(req[h].id, [req[h].seen EXCEPT !.key = 0], [Booked(h) EXCEPT !.key = 0], req[h].seen)
    /\ UNCHANGED <<nextId, secrets, sessions, outlived, cutShort, crowned, gates>>

\* coreUpdateProfile: one's own name and address.
BeginProfile(h, actor, e) ==
    /\ actor.id # 0
    /\ e # users[actor.id].email => FreshSignIn(actor)
    /\ Begin(h, [Idle EXCEPT !.at = "profile", !.id = actor.id, !.seen = users[actor.id],
                             !.want = [users[actor.id] EXCEPT !.email = e]])

WriteProfile(h) ==
    /\ req[h].at = "profile" /\ Ends(h)
    /\ IF AddressFree(req[h].id, req[h].want.email)
       THEN /\ Update(req[h].id, req[h].want, [Booked(h) EXCEPT !.email = req[h].want.email], req[h].seen)
            /\ UNCHANGED <<nextId, secrets, sessions, outlived, cutShort, crowned>>
       ELSE UNCHANGED rows
    /\ UNCHANGED gates

\* coreCreatePassphraseLink: replaces an earlier one.
BeginMintLink(h, actor, u) ==
    /\ Exists(u) /\ MayManage(actor, users[u]) /\ FreshSignIn(actor)
    /\ Begin(h, [Idle EXCEPT !.at = "mint", !.id = u, !.seen = users[u]])

MintLink(h) ==
    /\ req[h].at = "mint" /\ secrets < MaxSecrets /\ Ends(h)
    /\ secrets' = secrets + 1
    /\ Update(req[h].id, [req[h].seen EXCEPT !.link = secrets'], [Booked(h) EXCEPT !.link = secrets'], req[h].seen)
    /\ UNCHANGED <<nextId, sessions, outlived, cutShort, crowned, gates>>

\* coreSetPassphraseByLink: a new key under the new passphrase, an invited
\* user becomes active, the link and the sessions end.
BeginSpendLink(h, u) ==
    /\ Exists(u) /\ users[u].link # 0
    /\ Begin(h, [Idle EXCEPT !.at = "spend", !.id = u, !.seen = users[u]])

\* Mutant: any account the link is for becomes active.
SpentActive(row, key) == [row EXCEPT !.key = key, !.link = 0, !.status = "Active"]

Spent(row, key) == [row EXCEPT !.key = key, !.link = 0, !.status = IF @ = "Invited" THEN "Active" ELSE @]

SpendLink(h) ==
    /\ req[h].at = "spend" /\ secrets < MaxSecrets /\ Goes(h, "revoke")
    /\ secrets' = secrets + 1
    /\ Update(req[h].id, Spent(req[h].seen, secrets'),
              [Booked(h) EXCEPT !.key = secrets', !.link = 0, !.status = IF @ = "Invited" THEN "Active" ELSE @],
              req[h].seen)
    /\ UNCHANGED <<nextId, sessions, outlived, cutShort, crowned, gates>>

\* A passphrase login: the row is read, and the passphrase checked against the
\* key in it.  What a login reads and when is in LoginFlow.
BeginLogin(h, u) ==
    /\ Exists(u) /\ users[u].status = "Active" /\ users[u].key # 0
    /\ Begin(h, [Idle EXCEPT !.at = "login", !.id = u, !.seen = users[u]])

\* The code is redeemed, and the account is not looked at again.
OpenSession(h) ==
    /\ req[h].at = "login" /\ Ends(h)
    /\ sessions' = sessions \cup {<<req[h].id, req[h].seen.key>>}
    /\ UNCHANGED <<users, nextId, secrets, outlived, book, overlapped, cutShort, crowned, gates>>

\* The passphrase is wrong, or the code is never redeemed.
LoginLapses(h) ==
    /\ req[h].at = "login" /\ Ends(h)
    /\ UNCHANGED <<rows, gates>>

\* mintSubject at a provider's gate: finds the account by its address, then
\* pins the provider account unless one is pinned (a transaction).
BeginPin(h, u) ==
    /\ Exists(u) /\ gate # 0 /\ gate # Builtin
    /\ Begin(h, [Idle EXCEPT !.at = "pin", !.id = u, !.seen = users[u]])

PinIdentity(h) ==
    /\ req[h].at = "pin" /\ Ends(h)
    /\ LET pinned(row) == IF row = Gone \/ row.pin # NoOne THEN row ELSE [row EXCEPT !.pin = req[h].seen.email] IN
       /\ users' = [users EXCEPT ![req[h].id] = pinned(users[req[h].id])]
       /\ book' = [book EXCEPT ![req[h].id] = pinned(@)]
    /\ overlapped' = overlapped \cup {u \in {req[h].id} : Exists(u) /\ users[u] # req[h].seen}
    /\ UNCHANGED <<nextId, secrets, sessions, outlived, cutShort, crowned, gates>>

-----------------------------------------------------------------------------
(* The admin gate                                                          *)

\* coreUpdateSettings: a record that proves who is calling, or none.
BeginSetGate(h, actor, r) ==
    /\ actor.role = "Superuser"
    /\ r # 0 => records[r] = "proves"
    /\ Begin(h, [Idle EXCEPT !.at = "gate", !.rec = r])

Mixes(h) == mixed' = (mixed \/ ~req[h].alone)

SetGate(h) ==
    /\ req[h].at = "gate" /\ Ends(h)
    /\ gate' = req[h].rec /\ Mixes(h)
    /\ UNCHANGED <<rows, records, nextRecord>>

\* coreCreateAuth.
CreateRecord(actor, kind) ==
    /\ AtOnce
    /\ actor.role \in AdminPlus /\ nextRecord <= MaxRecords
    /\ records' = [records EXCEPT ![nextRecord] = kind] /\ nextRecord' = nextRecord + 1
    /\ UNCHANGED <<rows, gate, mixed>>

\* coreUpdateAuth: only a Superuser changes the gate; a builtin keeps its kind.
BeginEditRecord(h, actor, r, kind) ==
    /\ actor.role \in AdminPlus /\ records[r] # Gone
    /\ gate = r => actor.role = "Superuser"
    /\ Begin(h, [Idle EXCEPT !.at = "edit", !.rec = r, !.kind = kind])

EditRecord(h) ==
    /\ req[h].at = "edit" /\ Ends(h)
    /\ records' = [records EXCEPT ![req[h].rec] = IF @ = Gone \/ req[h].rec = Builtin THEN @ ELSE req[h].kind]
    /\ UNCHANGED <<rows, nextRecord, gate, mixed>>

\* coreDeleteAuth: not the gate; and DeleteAuthRecord, not a builtin.
BeginDropRecord(h, actor, r) ==
    /\ actor.role \in AdminPlus /\ records[r] # Gone
    /\ gate # r /\ r # Builtin
    /\ Begin(h, [Idle EXCEPT !.at = "dropRecord", !.rec = r])

DropRecord(h) ==
    /\ req[h].at = "dropRecord" /\ Ends(h)
    /\ records' = [records EXCEPT ![req[h].rec] = Gone] /\ Mixes(h)
    /\ UNCHANGED <<rows, nextRecord, gate>>

-----------------------------------------------------------------------------
(* Onboarding                                                              *)

\* installIsFresh: no gate, nobody to sign in as.
InstallIsFresh == gate = 0 /\ \A u \in Users : ~Exists(u)

\* coreOnboard creates the first Superuser, makes its key, sets the gate.
BeginOnboard(h) ==
    /\ InstallIsFresh
    /\ Begin(h, [Idle EXCEPT !.at = "first"])

FirstUser(h, e) ==
    /\ req[h].at = "first"
    /\ LET row == [role |-> "Superuser", status |-> "Active", email |-> e, key |-> 0, link |-> 0, pin |-> NoOne] IN
       /\ Insert(row)
       /\ req' = [req EXCEPT ![h].at = "firstkey", ![h].id = nextId, ![h].seen = row]
    /\ crowned' = crowned \cup {nextId}
    /\ UNCHANGED <<made, secrets, sessions, outlived, overlapped, cutShort, gates>>

FirstKey(h) ==
    /\ req[h].at = "firstkey" /\ secrets < MaxSecrets /\ Goes(h, "firstgate")
    /\ secrets' = secrets + 1
    /\ Update(req[h].id, [req[h].seen EXCEPT !.key = secrets'], [Booked(h) EXCEPT !.key = secrets'], req[h].seen)
    /\ UNCHANGED <<nextId, sessions, outlived, cutShort, crowned, gates>>

FirstGate(h) ==
    /\ req[h].at = "firstgate" /\ Ends(h)
    /\ gate' = Builtin /\ Mixes(h)
    /\ UNCHANGED <<rows, records, nextRecord>>

\* Mutant: nothing is undone.
LeaveFirstUser(h) ==
    /\ req[h].at \in {"firstkey", "firstgate"} /\ Ends(h)
    /\ UNCHANGED <<rows, gates>>

\* Making the key or setting the gate fails: what was done is undone.
UndoFirstUser(h) ==
    /\ req[h].at \in {"firstkey", "firstgate"} /\ Ends(h)
    /\ Delete(req[h].id)
    /\ UNCHANGED <<nextId, secrets, sessions, outlived, overlapped, cutShort, crowned, gates>>

\* The process dies; the rows are what they were.
Crash ==
    /\ req' = [h \in Handlers |-> Idle]
    /\ cutShort' = cutShort \cup {req[h].id : h \in {k \in Handlers :
                                                 req[k].at \in {"clear", "revoke", "firstkey", "firstgate"}}}
    /\ UNCHANGED <<users, nextId, secrets, sessions, outlived, book, overlapped, crowned, gates, made>>

-----------------------------------------------------------------------------
(* Specification                                                           *)

NewRow(role, status, e) ==
    [role |-> role, status |-> status, email |-> e, key |-> 0, link |-> 0, pin |-> NoOne]

Arrive(h, actor) ==
    \/ \E u \in Users :
        \/ BeginUpdate(h, actor, u) \/ BeginDelete(h, actor, u) \/ BeginMakeKey(h, actor, u)
        \/ BeginDropKey(h, actor, u) \/ BeginMintLink(h, actor, u)
    \/ \E e \in Emails : BeginProfile(h, actor, e)
    \/ \E r \in Records :
        BeginDropRecord(h, actor, r) \/ \E kind \in Kinds : BeginEditRecord(h, actor, r, kind)
    \/ \E r \in Records \cup {0} : BeginSetGate(h, actor, r)

Step(h) ==
    \/ CheckUpdate(h) \/ WriteUpdate(h) \/ ClearPins(h) \/ DeleteUser(h) \/ Revoke(h) \/ LastStepFails(h)
    \/ MakeKey(h) \/ DropKey(h) \/ WriteProfile(h) \/ MintLink(h) \/ SpendLink(h) \/ PinIdentity(h)
    \/ OpenSession(h) \/ LoginLapses(h)
    \/ SetGate(h) \/ EditRecord(h) \/ DropRecord(h)
    \/ FirstKey(h) \/ FirstGate(h) \/ UndoFirstUser(h)
    \/ \E e \in Emails : FirstUser(h, e)

Next ==
    \/ \E h \in Handlers : Free(h) /\ \E actor \in Actors : Arrive(h, actor)
    \/ \E h \in Handlers : Free(h) /\
        (BeginOnboard(h) \/ \E u \in Users : BeginSpendLink(h, u) \/ BeginLogin(h, u) \/ BeginPin(h, u))
    \/ made < MaxRequests /\ \E actor \in Actors :
        \/ \E role \in Roles, status \in {"Active", "Invited"}, e \in Emails : CreateUser(actor, NewRow(role, status, e))
        \/ \E kind \in Kinds : CreateRecord(actor, kind)
    \/ \E h \in Handlers : req[h].at # "idle" /\ Step(h)
    \/ Crash

Spec == Init /\ [][Next]_vars

-----------------------------------------------------------------------------
(* Properties                                                              *)

At(step) == {req[h].id : h \in {k \in Handlers : req[k].at = step}}
Undisturbed(u) == u \notin overlapped \cup cutShort

\* An account whose writers never overlapped is what its requests meant it to
\* be: each has changed its own fields and put the others back as they were.
AccountsFollowTheBook == \A u \in Users : Undisturbed(u) /\ u \notin At("clear") => users[u] = book[u]

\* Whatever overlaps, nobody is a Superuser whom no Superuser, setup mode or
\* onboarding has made one: a stale row brings back no role that was never given.
SuperusersWereCrowned == \A u \in Users : Exists(u) /\ users[u].role = "Superuser" => u \in crowned

\* A session was signed in with the key that is on its account, unless the
\* request that ended the key was cut short or overlapped another; or its login
\* had passed under the key, and had yet to be redeemed when the sessions of the
\* account were ended: that one is opened after all, and nothing ends it.
EndedKeysLeaveNoSession ==
    \A s \in sessions \ outlived :
        Undisturbed(s[1]) /\ s[1] \notin At("revoke") /\ Exists(s[1]) => users[s[1]].key = s[2]

\* "the setting would name a record that isn't there": not while requests
\* about the gate have the server to themselves.
GateIsThere == gate # 0 /\ ~mixed => records[gate] # Gone

\* "never left gated with nobody able to get in": onboarding that nothing
\* came in between of sets the gate with a Superuser who has a key, and one
\* that fails leaves the install as fresh as it was.
OnboardingIsWhole ==
    [][\A h \in Handlers :
        req[h].at \in {"firstkey", "firstgate"} /\ req[h].alone /\ cutShort' = cutShort =>
            /\ gate' # gate => \E u \in Users : users'[u] # Gone /\ users'[u].role = "Superuser" /\ users'[u].key # 0
            /\ req'[h].at = "idle" /\ gate' = gate => InstallIsFresh']_vars

\* Roles, sessions and the gate name what is there and what was given.
GatesAndKeysHold ==
    /\ TypeOK
    /\ SuperusersWereCrowned
    /\ EndedKeysLeaveNoSession
    /\ GateIsThere

=============================================================================
