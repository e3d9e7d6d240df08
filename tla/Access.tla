---------------------------------- MODULE Access ----------------------------------
(***************************************************************************)
(* Who reaches what: the members of apps and of services, the services each *)
(* app is linked to, and the doors that read them.                          *)
(*                                                                         *)
(* A list is rewritten whole, in one transaction, by a request that checked *)
(* its entries before; a deletion is several statements.  Ids and nonces    *)
(* are never given out again, so what is gone stays gone.                   *)
(***************************************************************************)
EXTENDS Naturals, FiniteSets

CONSTANTS
    Handlers,       \* requests in flight
    Users, Apps, Services,
    Gone,           \* the role of an account that was deleted
    MaxRequests     \* bound of the model

ASSUME AccessAssumption ==
    /\ MaxRequests \in Nat
    /\ Users \cap Apps = {} /\ Users \cap Services = {} /\ Apps \cap Services = {}
    /\ Gone \notin {"Admin", "Member", "Read-only"} /\ Gone \notin Users

VARIABLES
    role,           \* of each user
    apps, services, \* those that exist
    appMembers, serviceMembers, links,
    req, made,
    \* history
    staffed, linked,    \* what the last decision about each pair was
    approved,           \* links somebody entitled to has asked for, ever
    crossed             \* users, apps and services of requests that shared one

things == <<role, apps, services>>
lists == <<appMembers, serviceMembers, links>>
books == <<staffed, linked, approved>>
vars == <<things, lists, req, made, books, crossed>>

-----------------------------------------------------------------------------
(* State                                                                   *)

Roles == {"Admin", "Member", "Read-only"}
assignableMemberRoles == {"Member", "Read-only"}
Things == Users \cup Apps \cup Services
There == {u \in Users : role[u] # Gone} \cup apps \cup services

\* A request: what it works on, and the list it will write.
Request == [at: {"idle", "app members", "user apps", "service members", "app services", "delete user",
                 "user leaves services", "delete user row", "delete service", "unlink service",
                 "delete service row", "delete app", "unlink app", "delete app row"},
            of: Things \cup {Gone}, list: SUBSET Things, by: Users \cup {Gone}, about: SUBSET Things]
Idle == [at |-> "idle", of |-> Gone, list |-> {}, by |-> Gone, about |-> {}]

TypeOK ==
    /\ role \in [Users -> Roles \cup {Gone}] /\ apps \subseteq Apps /\ services \subseteq Services
    /\ appMembers \subseteq Apps \X Users /\ serviceMembers \subseteq Services \X Users
    /\ links \subseteq Apps \X Services
    /\ \A h \in Handlers : req[h] \in Request
    /\ made \in 0..MaxRequests
    /\ staffed \subseteq Apps \X Users /\ linked \subseteq Apps \X Services /\ approved \subseteq Apps \X Services
    /\ crossed \subseteq Things

\* An install whose accounts, one of them a Member, share the apps and a
\* service, which may be the one the apps are linked to.
Init ==
    /\ \E u \in Users : role = [v \in Users |-> IF v = u THEN "Member" ELSE "Read-only"]
    /\ apps = Apps /\ services = Services
    /\ appMembers = Apps \X Users
    /\ \E s \in Services : serviceMembers = {s} \X Users
    /\ \E s \in Services : links = Apps \X {s}
    /\ req = [h \in Handlers |-> Idle] /\ made = 0
    /\ staffed = appMembers /\ linked = links /\ approved = links /\ crossed = {}

-----------------------------------------------------------------------------
(* The doors                                                               *)

\* gateApp, and the membership check of requireAppServiceAccess.
MayOpen(u, a) == role[u] = "Admin" \/ (role[u] # Gone /\ <<a, u>> \in appMembers)

\* The link check of both doors: handleServiceProxy, requireAppServiceAccess.
MayUse(a, s) == a \in apps /\ s \in services /\ <<a, s>> \in links

\* A user's request, through an app, for a service.
Passes(u, a, s) == MayOpen(u, a) /\ MayUse(a, s)

-----------------------------------------------------------------------------
(* Requests                                                                *)

Free(h) == req[h].at = "idle" /\ made < MaxRequests

\* What requests under way about one of these things, and one about these, may
\* leave otherwise than decided; and what one names that is already gone.
Crossing(about) ==
    (about \ There) \cup UNION {about \cup req[k].about : k \in {k \in Handlers : about \cap req[k].about # {}}}

\* A free handler takes a request as far as its first write.
Begin(h, at, of, list, by, about) ==
    /\ made' = made + 1
    /\ req' = [req EXCEPT ![h] = [at |-> at, of |-> of, list |-> list, by |-> by, about |-> about]]
    /\ crossed' = crossed \cup Crossing(about)
    /\ UNCHANGED <<things, lists, staffed, linked>>

Goes(h, at) == req' = [req EXCEPT ![h].at = at, ![h].list = {}]
Ends(h) == req' = [req EXCEPT ![h] = Idle]

\* resolveMembers, once all of them were found: Admins are left out.
resolveMembers(list) == {u \in list : role[u] \in assignableMemberRoles}

\* coreSetAppMembers; nothing looks whether the app is there.
BeginSetAppMembers(h, a) ==
    \E list \in SUBSET {u \in Users : role[u] # Gone} :
        Begin(h, "app members", a, resolveMembers(list), Gone, {a} \cup list) /\ UNCHANGED approved

SetAppMembers(h) ==
    /\ req[h].at = "app members" /\ Ends(h)
    /\ LET of(book) == {p \in book : p[1] # req[h].of} \cup ({req[h].of} \X req[h].list) IN
       /\ appMembers' = of(appMembers) /\ staffed' = of(staffed)
    /\ UNCHANGED <<things, serviceMembers, links, made, linked, approved, crossed>>

\* coreSetUserApps; neither the role nor the apps are looked at.
BeginSetUserApps(h, u) ==
    \E list \in SUBSET Apps :
        role[u] # Gone /\ Begin(h, "user apps", u, list, Gone, {u} \cup list) /\ UNCHANGED approved

SetUserApps(h) ==
    /\ req[h].at = "user apps" /\ Ends(h)
    /\ LET of(book) == {p \in book : p[2] # req[h].of} \cup (req[h].list \X {req[h].of}) IN
       /\ appMembers' = of(appMembers) /\ staffed' = of(staffed)
    /\ UNCHANGED <<things, serviceMembers, links, made, linked, approved, crossed>>

\* coreSetServiceMembers.
BeginSetServiceMembers(h, s) ==
    \E list \in SUBSET {u \in Users : role[u] # Gone} :
        /\ s \in services
        /\ Begin(h, "service members", s, resolveMembers(list), Gone, {s} \cup list) /\ UNCHANGED approved

SetServiceMembers(h) ==
    /\ req[h].at = "service members" /\ Ends(h)
    /\ serviceMembers' = {p \in serviceMembers : p[1] # req[h].of} \cup ({req[h].of} \X req[h].list)
    /\ UNCHANGED <<things, appMembers, links, made, books, crossed>>

-----------------------------------------------------------------------------
(* The services of an app                                                  *)

\* coreSetAppServices by an Admin: the list as it is.
BeginSetAppServices(h, a) ==
    \E list \in SUBSET Services :
        /\ Begin(h, "app services", a, list, Gone, {a} \cup list)
        /\ approved' = approved \cup ({a} \X list)

\* The services of which u is a member.
Mine(u) == {s \in Services : <<s, u>> \in serviceMembers}

\* Mutant: every service counts as linked, allowed or not.
Joined(a) == services

\* The links of a to services that exist (GetAppServiceLinks).
Linked(a) == {s \in services : <<a, s>> \in links}

\* Mutant: a Member's list is their own share only.
OwnLinks(u, a, asked) == asked \cap Mine(u)

\* memberServiceLinks: everybody else's links, and the asked of their own.
memberServiceLinks(u, a, asked) == (Linked(a) \ Mine(u)) \cup (asked \cap Mine(u))

\* coreSetAppServices by a Member.
BeginSetOwnServices(h, u, a) ==
    /\ role[u] = "Member" /\ <<a, u>> \in appMembers
    /\ \E asked \in SUBSET Services :
        LET list == memberServiceLinks(u, a, asked) IN
        /\ asked \subseteq Linked(a) \cup Mine(u)       \* or it is refused
        /\ Begin(h, "app services", a, list, u, {a, u} \cup list \cup Mine(u) \cup asked)
        /\ approved' = approved \cup ({a} \X (asked \cap Mine(u)))

\* SetAppServiceLinks.  Decided were an Admin's whole list, or a Member's own.
SetAppServices(h) ==
    /\ req[h].at = "app services" /\ Ends(h)
    /\ LET a == req[h].of
           u == req[h].by
           list == {a} \X req[h].list
           decided == IF u = Gone THEN Services ELSE Mine(u) IN
       /\ links' = {p \in links : p[1] # a} \cup list
       /\ linked' = {p \in linked : ~(p[1] = a /\ p[2] \in decided)} \cup {p \in list : p[2] \in decided}
    /\ UNCHANGED <<things, appMembers, serviceMembers, made, staffed, approved, crossed>>

-----------------------------------------------------------------------------
(* Roles and deletions                                                     *)

\* A role is changed, in one write.
SetRole(h, u, r) ==
    /\ role[u] \notin {Gone, r} /\ role' = [role EXCEPT ![u] = r]
    /\ made' = made + 1 /\ crossed' = crossed \cup Crossing({u})
    /\ UNCHANGED <<apps, services, lists, req, books>>

BeginDeleteUser(h, u) ==
    role[u] # Gone /\ Begin(h, "delete user", u, {}, Gone, {u}) /\ UNCHANGED approved

\* db.DeleteUser, statement by statement; the row is last.
LeaveApps(h) ==
    /\ req[h].at = "delete user" /\ Goes(h, "user leaves services")
    /\ appMembers' = {p \in appMembers : p[2] # req[h].of}
    /\ staffed' = {p \in staffed : p[2] # req[h].of}
    /\ UNCHANGED <<things, serviceMembers, links, made, linked, approved, crossed>>

LeaveServices(h) ==
    /\ req[h].at = "user leaves services" /\ Goes(h, "delete user row")
    /\ serviceMembers' = {p \in serviceMembers : p[2] # req[h].of}
    /\ UNCHANGED <<things, appMembers, links, made, books, crossed>>

DeleteUserRow(h) ==
    /\ req[h].at = "delete user row" /\ Ends(h)
    /\ role' = [role EXCEPT ![req[h].of] = Gone]
    /\ UNCHANGED <<apps, services, lists, made, books, crossed>>

BeginDeleteService(h, s) ==
    s \in services /\ Begin(h, "delete service", s, {}, Gone, {s}) /\ UNCHANGED approved

\* db.DeleteService: members, links, row.
DropMembers(h) ==
    /\ req[h].at = "delete service" /\ Goes(h, "unlink service")
    /\ serviceMembers' = {p \in serviceMembers : p[1] # req[h].of}
    /\ UNCHANGED <<things, appMembers, links, made, books, crossed>>

Unlink(h) ==
    /\ req[h].at = "unlink service" /\ Goes(h, "delete service row")
    /\ links' = {p \in links : p[2] # req[h].of} /\ linked' = {p \in linked : p[2] # req[h].of}
    /\ UNCHANGED <<things, appMembers, serviceMembers, made, staffed, approved, crossed>>

DeleteServiceRow(h) ==
    /\ req[h].at = "delete service row" /\ Ends(h)
    /\ services' = services \ {req[h].of}
    /\ UNCHANGED <<role, apps, lists, made, books, crossed>>

BeginDeleteApp(h, a) ==
    a \in apps /\ Begin(h, "delete app", a, {}, Gone, {a}) /\ UNCHANGED approved

\* db.DeleteApp: members, links, row.
Dismiss(h) ==
    /\ req[h].at = "delete app" /\ Goes(h, "unlink app")
    /\ appMembers' = {p \in appMembers : p[1] # req[h].of} /\ staffed' = {p \in staffed : p[1] # req[h].of}
    /\ UNCHANGED <<things, serviceMembers, links, made, linked, approved, crossed>>

UnlinkApp(h) ==
    /\ req[h].at = "unlink app" /\ Goes(h, "delete app row")
    /\ links' = {p \in links : p[1] # req[h].of} /\ linked' = {p \in linked : p[1] # req[h].of}
    /\ UNCHANGED <<things, appMembers, serviceMembers, made, staffed, approved, crossed>>

DeleteAppRow(h) ==
    /\ req[h].at = "delete app row" /\ Ends(h)
    /\ apps' = apps \ {req[h].of}
    /\ UNCHANGED <<role, services, lists, made, books, crossed>>

\* A restart: the migrations clear what names a deleted service.
Crash ==
    /\ req' = [h \in Handlers |-> Idle]
    /\ links' = {p \in links : p[2] \in services} /\ linked' = {p \in linked : p[2] \in services}
    /\ serviceMembers' = {p \in serviceMembers : p[1] \in services}
    /\ crossed' = crossed \ (Services \ services)
    /\ UNCHANGED <<things, appMembers, made, staffed, approved>>

-----------------------------------------------------------------------------
(* Specification                                                           *)

Arrive(h) ==
    \/ \E a \in Apps :
        \/ BeginSetAppMembers(h, a) \/ BeginSetAppServices(h, a) \/ BeginDeleteApp(h, a)
        \/ \E u \in Users : BeginSetOwnServices(h, u, a)
    \/ \E u \in Users : BeginSetUserApps(h, u) \/ BeginDeleteUser(h, u) \/ (\E r \in Roles : SetRole(h, u, r))
    \/ \E s \in Services : BeginSetServiceMembers(h, s) \/ BeginDeleteService(h, s)

Step(h) ==
    \/ SetAppMembers(h) \/ SetUserApps(h) \/ SetServiceMembers(h) \/ SetAppServices(h)
    \/ LeaveApps(h) \/ LeaveServices(h) \/ DeleteUserRow(h)
    \/ DropMembers(h) \/ Unlink(h) \/ DeleteServiceRow(h)
    \/ Dismiss(h) \/ UnlinkApp(h) \/ DeleteAppRow(h)

Next ==
    \/ \E h \in Handlers : Free(h) /\ Arrive(h)
    \/ \E h \in Handlers : req[h].at # "idle" /\ Step(h)
    \/ Crash

Spec == Init /\ [][Next]_vars

-----------------------------------------------------------------------------
(* Properties                                                              *)

InFlight == UNION {req[h].about : h \in Handlers}
Settled(x) == x \notin InFlight \cup crossed

\* However requests interleave, an app reaches only services that an Admin, or
\* a member of the service, once asked for it to have.
NothingUnapprovedIsLinked ==
    \A a \in Apps, s \in Services : MayUse(a, s) => <<a, s>> \in approved

\* A door opens to exactly those the last decisions let in: "links to every
\* other service stay as they are" when a Member rewrites their share.
DoorsFollowDecisions ==
    \A u \in Users, a \in Apps, s \in Services : Settled(u) /\ Settled(a) /\ Settled(s) =>
        (Passes(u, a, s) <=>
            /\ {u, a, s} \subseteq There
            /\ role[u] = "Admin" \/ <<a, u>> \in staffed
            /\ <<a, s>> \in linked)

\* No list names what has been deleted, wherever a deletion was cut short, but
\* for lists that were written while it went or that named it afterwards.
ListsNameWhatExists ==
    \A p \in appMembers \cup serviceMembers \cup links :
        Settled(p[1]) /\ Settled(p[2]) => {p[1], p[2]} \subseteq There

\* The lists say what the last decisions said, of what is still there.
ListsFollowDecisions ==
    /\ TypeOK
    /\ DoorsFollowDecisions
    /\ ListsNameWhatExists

=============================================================================
