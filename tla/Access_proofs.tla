------------------------------ MODULE Access_proofs ------------------------------
(***************************************************************************)
(* Proofs about Access: for any number of users, apps, services and        *)
(* requests in flight, an app reaches only services somebody entitled to   *)
(* asked for, and the lists say what the last decisions said, of what is   *)
(* still there.                                                            *)
(***************************************************************************)
EXTENDS Access, FiniteSetTheorems, TLAPS

\* The invariant behind NothingUnapprovedIsLinked.  A Member's rewrite carries
\* links read before, so what a request is about to write has to be approved
\* already, in links that may have changed since.
LinksAreApproved ==
    \A a \in Apps, s \in Services : <<a, s>> \in links => <<a, s>> \in approved
WritesAreApproved ==
    \A h \in Handlers : req[h].at = "app services" =>
        \A s \in req[h].list \cap Services : <<req[h].of, s>> \in approved
RequestsAreRecords == req \in [Handlers -> Request]
ServicesAreKnown == services \subseteq Services

IInv == ServicesAreKnown /\ RequestsAreRecords /\ LinksAreApproved /\ WritesAreApproved

-----------------------------------------------------------------------------
(* Requests                                                                *)

\* A request with nothing to do is a request like any other.
LEMMA IdleIsRequest == Idle \in Request
BY DEF Idle, Request, Things

\* What a step changes of the invariant: nothing but that a request goes on to a
\* write of another list, or ends, and that links go.
Onward(h) ==
    /\ \/ Ends(h)
       \/ \E at \in {"user leaves services", "delete user row", "unlink service", "delete service row",
                     "unlink app", "delete app row"} : Goes(h, at)
    /\ links' \subseteq links
    /\ approved' = approved /\ services' \subseteq services

\* Such a step keeps the invariant.
LEMMA OnwardKeeps ==
    ASSUME IInv, NEW h \in Handlers, Onward(h)
    PROVE  IInv'
<1>1. PICK r \in Request : req' = [req EXCEPT ![h] = r] /\ r.at # "app services"
  <2>1. CASE Ends(h) BY <2>1, IdleIsRequest DEF Ends, Idle
  <2>2. ASSUME NEW at \in {"user leaves services", "delete user row", "unlink service",
                            "delete service row", "unlink app", "delete app row"},
               Goes(h, at)
        PROVE  \E r \in Request : req' = [req EXCEPT ![h] = r] /\ r.at # "app services"
    <3> DEFINE r == [req[h] EXCEPT !.at = at, !.list = {}]
    <3>1. req[h] \in Request BY DEF IInv, RequestsAreRecords
    <3>2. r \in Request /\ r.at # "app services" BY <3>1 DEF Request
    <3>3. req' = [req EXCEPT ![h] = r] BY <2>2 DEF Goes
    <3> QED BY <3>2, <3>3
  <2> QED BY <2>1, <2>2 DEF Onward
<1>2. ASSUME NEW k \in Handlers, req'[k].at = "app services"
      PROVE  req[k].at = "app services" /\ req'[k] = req[k]
      BY <1>1, <1>2 DEF IInv, RequestsAreRecords
<1>3. LinksAreApproved' BY DEF IInv, LinksAreApproved, Onward
<1>4. WritesAreApproved' BY <1>2 DEF IInv, WritesAreApproved, Onward
<1> QED BY <1>1, <1>3, <1>4 DEF IInv, RequestsAreRecords, ServicesAreKnown, Onward

\* A request that takes up a list keeps the invariant when all of the list that
\* an app is to be linked to is approved.
LEMMA BeginKeeps ==
    ASSUME IInv, NEW h \in Handlers,
           NEW at, NEW of, NEW list, NEW by, NEW about,
           [at |-> at, of |-> of, list |-> list, by |-> by, about |-> about] \in Request,
           Begin(h, at, of, list, by, about),
           approved \subseteq approved',
           at = "app services" => \A s \in list \cap Services : <<of, s>> \in approved'
    PROVE  IInv'
<1>1. req' \in [Handlers -> Request] BY DEF IInv, RequestsAreRecords, Begin
<1>2. LinksAreApproved' BY DEF IInv, LinksAreApproved, Begin, lists
<1>3. ASSUME NEW k \in Handlers, req'[k].at = "app services", NEW s \in req'[k].list \cap Services
      PROVE  <<req'[k].of, s>> \in approved'
  <2>1. CASE k = h BY <1>3, <2>1 DEF IInv, RequestsAreRecords, Begin
  <2>2. CASE k # h BY <1>3, <2>2 DEF IInv, RequestsAreRecords, WritesAreApproved, Begin
  <2> QED BY <2>1, <2>2
<1>4. WritesAreApproved' BY <1>3 DEF WritesAreApproved
<1> QED BY <1>1, <1>2, <1>4 DEF IInv, RequestsAreRecords, ServicesAreKnown, Begin, things

-----------------------------------------------------------------------------
(* The steps                                                               *)

\* A list of an app's services is written: it was approved before.
LEMMA WriteKeeps ==
    ASSUME IInv, NEW h \in Handlers, SetAppServices(h)
    PROVE  IInv'
<1>1. req' \in [Handlers -> Request]
      BY IdleIsRequest DEF IInv, RequestsAreRecords, SetAppServices, Ends
<1>2. ASSUME NEW a \in Apps, NEW s \in Services, <<a, s>> \in links'
      PROVE  <<a, s>> \in approved'
  <2>1. CASE <<a, s>> \in links BY <2>1 DEF IInv, LinksAreApproved, SetAppServices
  <2>2. CASE a = req[h].of /\ s \in req[h].list
        BY <2>2 DEF IInv, WritesAreApproved, SetAppServices
  <2> QED BY <1>2, <2>1, <2>2 DEF SetAppServices
<1>3. LinksAreApproved' BY <1>2 DEF LinksAreApproved
<1>4. WritesAreApproved'
      BY DEF IInv, RequestsAreRecords, WritesAreApproved, SetAppServices, Ends, Idle
<1> QED BY <1>1, <1>3, <1>4 DEF IInv, RequestsAreRecords, ServicesAreKnown, SetAppServices, things

\* Every step of a request under way keeps the invariant.
LEMMA StepKeeps ==
    ASSUME IInv, NEW h \in Handlers, Step(h)
    PROVE  IInv'
<1> USE DEF things, lists, books, Onward
<1>1. CASE SetAppMembers(h) \/ SetUserApps(h) \/ SetServiceMembers(h)
      BY <1>1, OnwardKeeps DEF SetAppMembers, SetUserApps, SetServiceMembers
<1>2. CASE SetAppServices(h) BY <1>2, WriteKeeps
<1>3. CASE LeaveApps(h) \/ LeaveServices(h) \/ DeleteUserRow(h)
      BY <1>3, OnwardKeeps DEF LeaveApps, LeaveServices, DeleteUserRow
<1>4. CASE DropMembers(h) \/ Unlink(h) \/ DeleteServiceRow(h)
      BY <1>4, OnwardKeeps DEF DropMembers, Unlink, DeleteServiceRow
<1>5. CASE Dismiss(h) \/ UnlinkApp(h) \/ DeleteAppRow(h)
      BY <1>5, OnwardKeeps DEF Dismiss, UnlinkApp, DeleteAppRow
<1> QED BY <1>1, <1>2, <1>3, <1>4, <1>5 DEF Step

\* So does every request that arrives; a Member's list is links that are there,
\* hence approved, and services of their own, which it approves.
LEMMA ArriveKeeps ==
    ASSUME IInv, NEW h \in Handlers, Arrive(h)
    PROVE  IInv'
<1>1. ASSUME NEW a \in Apps, BeginSetAppMembers(h, a)
      PROVE  IInv'
  <2>1. PICK list \in SUBSET {u \in Users : role[u] # Gone} :
          Begin(h, "app members", a, resolveMembers(list), Gone, {a} \cup list) /\ approved' = approved
        BY <1>1 DEF BeginSetAppMembers
  <2> DEFINE members == resolveMembers(list)
             about == {a} \cup list
  <2>2. [at |-> "app members", of |-> a, list |-> members, by |-> Gone, about |-> about] \in Request
        BY DEF Request, Things, resolveMembers
  <2>3. Begin(h, "app members", a, members, Gone, about) /\ approved \subseteq approved' BY <2>1
  <2> HIDE DEF members, about
  <2> QED BY <2>2, <2>3, BeginKeeps
<1>2. ASSUME NEW a \in Apps, BeginSetAppServices(h, a)
      PROVE  IInv'
  <2>1. PICK list \in SUBSET Services :
          /\ Begin(h, "app services", a, list, Gone, {a} \cup list)
          /\ approved' = approved \cup ({a} \X list)
        BY <1>2 DEF BeginSetAppServices
  <2>2. [at |-> "app services", of |-> a, list |-> list, by |-> Gone, about |-> {a} \cup list] \in Request
        BY DEF Request, Things
  <2>3. \A s \in list \cap Services : <<a, s>> \in approved' BY <2>1
  <2>4. approved \subseteq approved' BY <2>1
  <2> QED BY <2>1, <2>2, <2>3, <2>4, BeginKeeps
<1>3. ASSUME NEW a \in Apps, BeginDeleteApp(h, a)
      PROVE  IInv'
  <2>1. Begin(h, "delete app", a, {}, Gone, {a}) /\ approved' = approved
        BY <1>3 DEF BeginDeleteApp
  <2>2. [at |-> "delete app", of |-> a, list |-> {}, by |-> Gone, about |-> {a}] \in Request
        BY DEF Request, Things
  <2> QED BY <2>1, <2>2, BeginKeeps
<1>4. ASSUME NEW a \in Apps, NEW u \in Users, BeginSetOwnServices(h, u, a)
      PROVE  IInv'
  <2>1. PICK asked \in SUBSET Services :
          /\ asked \subseteq Linked(a) \cup Mine(u)
          /\ Begin(h, "app services", a, memberServiceLinks(u, a, asked), u,
                   {a, u} \cup memberServiceLinks(u, a, asked) \cup Mine(u) \cup asked)
          /\ approved' = approved \cup ({a} \X (asked \cap Mine(u)))
        BY <1>4 DEF BeginSetOwnServices
  <2> DEFINE list == memberServiceLinks(u, a, asked)
             about == {a, u} \cup list \cup Mine(u) \cup asked
  <2>2. list \subseteq Services /\ Mine(u) \subseteq Services
        BY DEF memberServiceLinks, Linked, Mine, IInv, ServicesAreKnown
  <2>3. [at |-> "app services", of |-> a, list |-> list, by |-> u, about |-> about] \in Request
        BY <2>2 DEF Request, Things
  <2>4. ASSUME NEW s \in list \cap Services
        PROVE  <<a, s>> \in approved'
    <3>1. CASE s \in Linked(a) BY <2>1, <3>1 DEF Linked, IInv, LinksAreApproved
    <3>2. CASE s \in asked \cap Mine(u) BY <2>1, <3>2
    <3> QED BY <2>4, <3>1, <3>2 DEF memberServiceLinks
  <2>5. Begin(h, "app services", a, list, u, about) /\ approved \subseteq approved' BY <2>1
  <2> HIDE DEF list, about
  <2> QED BY <2>3, <2>4, <2>5, BeginKeeps
<1>5. ASSUME NEW u \in Users, BeginSetUserApps(h, u)
      PROVE  IInv'
  <2>1. PICK list \in SUBSET Apps :
          Begin(h, "user apps", u, list, Gone, {u} \cup list) /\ approved' = approved
        BY <1>5 DEF BeginSetUserApps
  <2> DEFINE about == {u} \cup list
  <2>2. [at |-> "user apps", of |-> u, list |-> list, by |-> Gone, about |-> about] \in Request
        BY DEF Request, Things
  <2>3. Begin(h, "user apps", u, list, Gone, about) /\ approved \subseteq approved' BY <2>1
  <2> HIDE DEF about
  <2> QED BY <2>2, <2>3, BeginKeeps
<1>6. ASSUME NEW u \in Users, BeginDeleteUser(h, u)
      PROVE  IInv'
  <2>1. Begin(h, "delete user", u, {}, Gone, {u}) /\ approved' = approved
        BY <1>6 DEF BeginDeleteUser
  <2>2. [at |-> "delete user", of |-> u, list |-> {}, by |-> Gone, about |-> {u}] \in Request
        BY DEF Request, Things
  <2> QED BY <2>1, <2>2, BeginKeeps
<1>7. ASSUME NEW u \in Users, NEW r \in Roles, SetRole(h, u, r)
      PROVE  IInv'
  BY <1>7 DEF SetRole, IInv, RequestsAreRecords, ServicesAreKnown, LinksAreApproved, WritesAreApproved,
              lists, books
<1>8. ASSUME NEW s \in Services, BeginSetServiceMembers(h, s)
      PROVE  IInv'
  <2>1. PICK list \in SUBSET {u \in Users : role[u] # Gone} :
          Begin(h, "service members", s, resolveMembers(list), Gone, {s} \cup list) /\ approved' = approved
        BY <1>8 DEF BeginSetServiceMembers
  <2> DEFINE members == resolveMembers(list)
             about == {s} \cup list
  <2>2. [at |-> "service members", of |-> s, list |-> members, by |-> Gone, about |-> about] \in Request
        BY DEF Request, Things, resolveMembers
  <2>3. Begin(h, "service members", s, members, Gone, about) /\ approved \subseteq approved' BY <2>1
  <2> HIDE DEF members, about
  <2> QED BY <2>2, <2>3, BeginKeeps
<1>9. ASSUME NEW s \in Services, BeginDeleteService(h, s)
      PROVE  IInv'
  <2>1. Begin(h, "delete service", s, {}, Gone, {s}) /\ approved' = approved
        BY <1>9 DEF BeginDeleteService
  <2>2. [at |-> "delete service", of |-> s, list |-> {}, by |-> Gone, about |-> {s}] \in Request
        BY DEF Request, Things
  <2> QED BY <2>1, <2>2, BeginKeeps
<1> QED BY <1>1, <1>2, <1>3, <1>4, <1>5, <1>6, <1>7, <1>8, <1>9 DEF Arrive

\* So does a restart, which forgets the requests and only drops links.
LEMMA CrashKeeps == ASSUME IInv, Crash PROVE IInv'
BY IdleIsRequest
DEF IInv, Crash, RequestsAreRecords, ServicesAreKnown, LinksAreApproved, WritesAreApproved, Idle, things

-----------------------------------------------------------------------------
(* Theorem: only approved links                                            *)

\* However requests interleave, are cut short or write over each other, an app
\* reaches only services an Admin, or a member of the service, asked for it.
THEOREM OnlyApprovedLinks == Spec => []NothingUnapprovedIsLinked
<1>1. Init => IInv
  <2>1. Init => RequestsAreRecords BY IdleIsRequest DEF Init, RequestsAreRecords
  <2>2. Init => ServicesAreKnown /\ LinksAreApproved
        BY DEF Init, ServicesAreKnown, LinksAreApproved
  <2>3. ASSUME Init PROVE WritesAreApproved
    <3>1. \A h \in Handlers : req[h] = Idle BY <2>3 DEF Init
    <3>2. Idle.at # "app services" BY DEF Idle
    <3> QED BY <3>1, <3>2 DEF WritesAreApproved
  <2> QED BY <2>1, <2>2, <2>3 DEF IInv
<1>2. IInv /\ [Next]_vars => IInv'
  <2> SUFFICES ASSUME IInv, [Next]_vars PROVE IInv'
      OBVIOUS
  <2>1. ASSUME NEW h \in Handlers, Arrive(h) PROVE IInv' BY <2>1, ArriveKeeps
  <2>2. ASSUME NEW h \in Handlers, Step(h) PROVE IInv' BY <2>2, StepKeeps
  <2>3. CASE Crash BY <2>3, CrashKeeps
  <2>4. CASE UNCHANGED vars
        BY <2>4 DEF vars, things, lists, books, IInv, RequestsAreRecords, ServicesAreKnown,
                    LinksAreApproved, WritesAreApproved
  <2> QED BY <2>1, <2>2, <2>3, <2>4 DEF Next
<1>3. IInv => NothingUnapprovedIsLinked
  BY DEF IInv, LinksAreApproved, NothingUnapprovedIsLinked, MayUse
<1> QED BY <1>1, <1>2, <1>3, PTL DEF Spec

-----------------------------------------------------------------------------
(* What the lists say                                                      *)

\* Requests that write a list.
Writers == {"app members", "user apps", "service members", "app services"}

\* What a request is for, and that it is about all that it names.
Fits(r) ==
    /\ r.at = "app members" => r.of \in Apps /\ r.list \subseteq Users
    /\ r.at = "user apps" => r.of \in Users /\ r.list \subseteq Apps
    /\ r.at = "service members" => r.of \in Services /\ r.list \subseteq Users
    /\ r.at = "app services" => r.of \in Apps /\ r.list \subseteq Services
    /\ r.at \in {"delete user", "user leaves services", "delete user row"} => r.of \in Users
    /\ r.at \in {"delete service", "unlink service", "delete service row"} => r.of \in Services
    /\ r.at \in {"delete app", "unlink app", "delete app row"} => r.of \in Apps
    /\ r.by \in Users => r.by \in r.about
    /\ r.at # "idle" => r.of \in r.about /\ r.list \subseteq r.about
RequestsFit == \A h \in Handlers : Fits(req[h])

\* Requests that share a thing have crossed, in everything they are about.
SharedIsCrossed ==
    \A h, k \in Handlers : h # k /\ req[h].about \cap req[k].about # {} =>
        req[h].about \cup req[k].about \subseteq crossed

\* What a request is going to name is there.
WrittenIsThere == \A h \in Handlers : req[h].at \in Writers => req[h].about \subseteq There \cup crossed

\* A Member's rewrite is about their services, and has the others' links as they are.
KeepsShares(r, crew, joined, mixed) ==
    r.at = "app services" /\ r.by # Gone /\ r.of \notin mixed =>
        /\ \A s \in Services : <<s, r.by>> \in crew => s \in r.about
        /\ \A s \in Services : <<s, r.by>> \notin crew /\ s \notin mixed => (s \in r.list <=> <<r.of, s>> \in joined)
SharesAreKept == \A h \in Handlers : KeepsShares(req[h], serviceMembers, links, crossed)

\* The lists are what was decided.
AsDecided ==
    /\ appMembers = staffed
    /\ \A a \in Apps, s \in Services : a \notin crossed /\ s \notin crossed => (<<a, s>> \in links <=> <<a, s>> \in linked)

\* What lists name is there.
NamedIsThere == \A p \in appMembers \cup serviceMembers \cup links : {p[1], p[2]} \subseteq There \cup crossed

\* The lists a deletion has been through no longer name what is deleted.
Through(r, staff, crew, joined) ==
    /\ r.at \in {"user leaves services", "delete user row"} => \A p \in staff : p[2] # r.of
    /\ r.at = "delete user row" => \A p \in crew : p[2] # r.of
    /\ r.at \in {"unlink service", "delete service row"} => \A p \in crew : p[1] # r.of
    /\ r.at = "delete service row" => \A p \in joined : p[2] # r.of
    /\ r.at \in {"unlink app", "delete app row"} => \A p \in staff : p[1] # r.of
    /\ r.at = "delete app row" => \A p \in joined : p[1] # r.of
DeletionsGoThrough ==
    \A h \in Handlers : req[h].of \in crossed \/ Through(req[h], appMembers, serviceMembers, links)

LInv ==
    /\ TypeOK /\ RequestsAreRecords
    /\ RequestsFit
    /\ SharedIsCrossed
    /\ WrittenIsThere
    /\ SharesAreKept
    /\ AsDecided
    /\ NamedIsThere
    /\ DeletionsGoThrough

\* Who is there, by their kinds, which share nothing.
LEMMA ThereByKind ==
    ASSUME TypeOK
    PROVE  /\ \A s \in Services : s \in There <=> s \in services
           /\ \A a \in Apps : a \in There <=> a \in apps
           /\ \A u \in Users : u \in There <=> role[u] # Gone
<1>1. apps \subseteq Apps /\ services \subseteq Services
    BY DEF TypeOK
<1> QED BY <1>1, AccessAssumption DEF There

\* A list grows by what a request is about, and loses what it is for.
Grows(old, new, r) == \A p \in new : p \in old \/ (r.at \in Writers /\ p[1] \in r.about /\ p[2] \in r.about)
Shrinks(old, new, r) == \A p \in old : p \in new \/ r.of = p[1] \/ r.of = p[2]
Alters(old, new, r) == Grows(old, new, r) /\ Shrinks(old, new, r)

\* A step of a request that stays with what it is about keeps the lists as
\* decided, if it does so where it writes.
LEMMA AboutKeeps ==
    ASSUME LInv, NEW h \in Handlers, req[h].at # "idle",
           NEW r \in Request, req' = [req EXCEPT ![h] = r], Fits(r), r.at \notin Writers, r.about \subseteq req[h].about,
           UNCHANGED <<made, approved, crossed>>,
           role' \in [Users -> Roles \cup {Gone}], apps' \subseteq Apps, services' \subseteq Services,
           appMembers' \subseteq Apps \X Users, serviceMembers' \subseteq Services \X Users, links' \subseteq Apps \X Services,
           staffed' \subseteq Apps \X Users, linked' \subseteq Apps \X Services,
           Alters(appMembers, appMembers', req[h]), Alters(serviceMembers, serviceMembers', req[h]),
           Alters(links, links', req[h]),
           There \ {req[h].of} \subseteq There',
           \/ There' = There
           \/ /\ req[h].at \notin Writers
              /\ \/ req[h].of \in crossed
                 \/ \A p \in appMembers' \cup serviceMembers' \cup links' : req[h].of # p[1] /\ req[h].of # p[2],
           r.of \in crossed \/ Through(r, appMembers', serviceMembers', links'),
           AsDecided'
    PROVE  LInv'
<1>1. PICK q : q = req[h]
    OBVIOUS
<1>2. /\ req' \in [Handlers -> Request] /\ req'[h] = r /\ \A k \in Handlers \ {h} : req'[k] = req[k]
    BY DEF LInv, RequestsAreRecords
<1>3. TypeOK' /\ RequestsAreRecords'
    BY <1>2 DEF LInv, TypeOK, RequestsAreRecords
<1>4. RequestsFit'
    BY <1>2 DEF LInv, RequestsFit
<1>5. q.of \in q.about
    BY <1>1 DEF LInv, RequestsFit, Fits
<1>6. ASSUME NEW k \in Handlers \ {h}, NEW x, x \in q.about, x \in req[k].about
      PROVE  q.about \subseteq crossed /\ req[k].about \subseteq crossed
    BY <1>1, <1>6 DEF LInv, SharedIsCrossed
<1>7. SharedIsCrossed'
  <2>1. ASSUME NEW i \in Handlers, NEW k \in Handlers, i # k, NEW x, x \in req'[i].about, x \in req'[k].about
        PROVE  req'[i].about \subseteq crossed /\ req'[k].about \subseteq crossed
    <3>1. req'[i].about \subseteq req[i].about /\ req'[k].about \subseteq req[k].about
        BY <1>2
    <3>2. req[i].about \subseteq crossed /\ req[k].about \subseteq crossed
        BY <2>1, <3>1 DEF LInv, SharedIsCrossed
    <3> QED BY <3>1, <3>2
  <2> QED BY <2>1 DEF SharedIsCrossed
<1>8. WrittenIsThere'
  <2>1. ASSUME NEW k \in Handlers, req'[k].at \in Writers, NEW x \in req'[k].about
        PROVE  x \in There' \cup crossed
    <3>1. k # h /\ req'[k] = req[k]
        BY <1>2, <2>1
    <3>2. x \in There \cup crossed
        BY <2>1, <3>1 DEF LInv, WrittenIsThere
    <3>3. CASE x = q.of
        BY <1>5, <1>6, <2>1, <3>1, <3>3
    <3>4. CASE x # q.of
        BY <1>1, <3>2, <3>4
    <3> QED BY <3>3, <3>4
  <2> QED BY <2>1 DEF WrittenIsThere
<1>9. ASSUME NEW old, NEW new, Grows(old, new, q), NEW k \in Handlers \ {h}, NEW p \in new, p \notin old,
             p[1] \in req[k].about \/ p[2] \in req[k].about
      PROVE  req[k].about \subseteq crossed
    BY <1>6, <1>9 DEF Grows
<1>10. SharesAreKept'
  <2> SUFFICES ASSUME NEW k \in Handlers \ {h}, req[k].at = "app services", req[k].by # Gone, req[k].of \notin crossed
               PROVE  KeepsShares(req[k], serviceMembers', links', crossed)
      BY <1>2 DEF SharesAreKept, KeepsShares, Writers
  <2>1. PICK m, u, a : m = req[k] /\ u = m.by /\ a = m.of
      OBVIOUS
  <2>2. /\ m.at = "app services" /\ u \in Users /\ a \in Apps /\ a \in m.about /\ u \in m.about
        /\ m.list \subseteq m.about /\ a \notin crossed
      BY <2>1 DEF LInv, RequestsAreRecords, Request, RequestsFit, Fits
  <2>3. ASSUME NEW x, x \in m.about
        PROVE  x \notin q.about
      BY <1>6, <2>1, <2>2, <2>3
  <2>4. q.of \notin m.about
      BY <1>5, <2>3
  <2>5. ASSUME NEW s \in Services
        PROVE  /\ <<s, u>> \in serviceMembers => s \in m.about
               /\ <<s, u>> \notin serviceMembers /\ s \notin crossed => (s \in m.list <=> <<a, s>> \in links)
      BY <2>1, <2>2 DEF LInv, SharesAreKept, KeepsShares
  <2>6. Alters(serviceMembers, serviceMembers', q) /\ Alters(links, links', q)
      BY <1>1
  <2>7. ASSUME NEW s \in Services
        PROVE  <<s, u>> \in serviceMembers' <=> <<s, u>> \in serviceMembers
    <3>1. <<s, u>>[1] = s /\ <<s, u>>[2] = u
        OBVIOUS
    <3>2. <<s, u>> \in serviceMembers' => <<s, u>> \in serviceMembers
        BY <2>2, <2>3, <2>6, <3>1 DEF Alters, Grows
    <3>3. <<s, u>> \in serviceMembers => <<s, u>> \in serviceMembers'
        BY <2>2, <2>4, <2>5, <2>6, <3>1 DEF Alters, Shrinks
    <3> QED BY <3>2, <3>3
  <2>8. ASSUME NEW s \in Services, <<s, u>> \notin serviceMembers, s \notin crossed
        PROVE  s \in m.list <=> <<a, s>> \in links'
    <3>1. <<a, s>>[1] = a /\ <<a, s>>[2] = s
        OBVIOUS
    <3>2. <<a, s>> \in links' => <<a, s>> \in links
        BY <2>2, <2>3, <2>6, <3>1 DEF Alters, Grows
    <3>3. s \in m.list /\ <<a, s>> \in links => <<a, s>> \in links'
        BY <2>2, <2>4, <2>6, <3>1 DEF Alters, Shrinks
    <3> QED BY <2>5, <2>8, <3>2, <3>3
  <2> QED BY <2>1, <2>2, <2>5, <2>7, <2>8 DEF KeepsShares
<1>11. NamedIsThere'
  <2>1. ASSUME NEW old, NEW new, Grows(old, new, q), NEW p \in new,
               \A o \in old : {o[1], o[2]} \subseteq There \cup crossed,
               There' # There => q.of \in crossed \/ (q.of # p[1] /\ q.of # p[2])
        PROVE  {p[1], p[2]} \subseteq There' \cup crossed
    <3>1. CASE p \in old
        BY <1>1, <2>1, <3>1
    <3>2. CASE p \notin old
      <4>1. q.at \in Writers /\ p[1] \in q.about /\ p[2] \in q.about
          BY <2>1, <3>2 DEF Grows
      <4> QED BY <1>1, <4>1 DEF LInv, WrittenIsThere
    <3> QED BY <3>1, <3>2
  <2>2. \A p \in appMembers \cup serviceMembers \cup links : {p[1], p[2]} \subseteq There \cup crossed
      BY DEF LInv, NamedIsThere
  <2>3. ASSUME NEW p \in appMembers' \cup serviceMembers' \cup links'
        PROVE  There' # There => q.of \in crossed \/ (q.of # p[1] /\ q.of # p[2])
      BY <1>1
  <2>4. ASSUME NEW p \in appMembers' \cup serviceMembers' \cup links'
        PROVE  {p[1], p[2]} \subseteq There' \cup crossed
    <3>1. CASE p \in appMembers'
        BY <1>1, <2>1, <2>2, <2>3, <3>1 DEF Alters
    <3>2. CASE p \in serviceMembers'
        BY <1>1, <2>1, <2>2, <2>3, <3>2 DEF Alters
    <3>3. CASE p \in links'
        BY <1>1, <2>1, <2>2, <2>3, <3>3 DEF Alters
    <3> QED BY <3>1, <3>2, <3>3
  <2> QED BY <2>4 DEF NamedIsThere
<1>12. DeletionsGoThrough'
  <2>1. ASSUME NEW k \in Handlers \ {h}, req[k].of \notin crossed
        PROVE  Through(req[k], appMembers', serviceMembers', links')
    <3>1. Through(req[k], appMembers, serviceMembers, links)
        BY <2>1 DEF LInv, DeletionsGoThrough
    <3>2. req[k].at # "idle" => req[k].of \in req[k].about
        BY DEF LInv, RequestsFit, Fits
    <3>3. ASSUME NEW old, NEW new, Grows(old, new, q), NEW p \in new, p \notin old, req[k].at # "idle"
          PROVE  p[1] # req[k].of /\ p[2] # req[k].of
        BY <1>9, <2>1, <3>2, <3>3
    <3>4. Grows(appMembers, appMembers', q) /\ Grows(serviceMembers, serviceMembers', q) /\ Grows(links, links', q)
        BY <1>1 DEF Alters
    <3>5. req[k].at # "idle" =>
            /\ \A p \in appMembers' : p \in appMembers \/ (p[1] # req[k].of /\ p[2] # req[k].of)
            /\ \A p \in serviceMembers' : p \in serviceMembers \/ (p[1] # req[k].of /\ p[2] # req[k].of)
            /\ \A p \in links' : p \in links \/ (p[1] # req[k].of /\ p[2] # req[k].of)
        BY <3>3, <3>4
    <3> QED BY <3>1, <3>5 DEF Through
  <2> QED BY <1>2, <2>1 DEF DeletionsGoThrough
<1> QED BY <1>3, <1>4, <1>7, <1>8, <1>10, <1>11, <1>12 DEF LInv

\* One more request.
LEMMA OneMore ==
    ASSUME TypeOK, made < MaxRequests, made' = made + 1
    PROVE  made' \in 0..MaxRequests
BY AccessAssumption DEF TypeOK

\* What a request may be when it begins.
Opening == Writers \cup {"delete user", "delete service", "delete app"}

\* A request that arrives shows in crossed what it shares, and what it names
\* that is not there.
LEMMA ArrivalKeeps ==
    ASSUME LInv, NEW h \in Handlers, Free(h),
           NEW at \in Opening, NEW of, NEW list, NEW by, NEW about, NEW r, r \in Request, Fits(r),
           r = [at |-> at, of |-> of, list |-> list, by |-> by, about |-> about],
           Begin(h, at, of, list, by, about), approved' \subseteq Apps \X Services,
           at = "app services" /\ by # Gone =>
             /\ \A s \in Services : <<s, by>> \in serviceMembers => s \in about
             /\ \A s \in Services : <<s, by>> \notin serviceMembers => (s \in list <=> <<of, s>> \in links /\ s \in services)
    PROVE  LInv'
<1>1. /\ made < MaxRequests /\ made' = made + 1 /\ req' = [req EXCEPT ![h] = r]
      /\ crossed' = crossed \cup Crossing(about)
      /\ UNCHANGED <<role, apps, services, appMembers, serviceMembers, links, staffed, linked>>
    BY DEF Begin, Free, things, lists
<1>2. /\ req' \in [Handlers -> Request] /\ req'[h] = r /\ \A k \in Handlers \ {h} : req'[k] = req[k]
    BY <1>1 DEF LInv, RequestsAreRecords
<1>3. r.at = at /\ r.of = of /\ r.list = list /\ r.by = by /\ r.about = about /\ about \subseteq Things
  <2>1. r.at = at /\ r.of = of /\ r.list = list /\ r.by = by /\ r.about = about
      OBVIOUS
  <2> QED BY <2>1 DEF Request
<1>4. \A k \in Handlers : req[k].about \subseteq Things
    BY DEF LInv, RequestsAreRecords, Request
<1>5. /\ about \ There \subseteq crossed'
      /\ \A k \in Handlers : about \cap req[k].about # {} => about \cup req[k].about \subseteq crossed'
      /\ crossed \subseteq crossed'
    BY <1>1 DEF Crossing
<1>6. crossed' \subseteq Things
    BY <1>1, <1>3, <1>4 DEF Crossing, LInv, TypeOK
<1>7. There' = There
    BY <1>1 DEF There
<1>8. TypeOK' /\ RequestsAreRecords'
  <2>1. made' \in 0..MaxRequests
      BY <1>1, OneMore DEF LInv
  <2> QED BY <1>1, <1>2, <1>6, <2>1 DEF LInv, TypeOK, RequestsAreRecords
<1>9. RequestsFit'
    BY <1>2 DEF LInv, RequestsFit
<1>10. SharedIsCrossed'
  <2>1. ASSUME NEW i \in Handlers, NEW k \in Handlers, i # k, req'[i].about \cap req'[k].about # {}
        PROVE  req'[i].about \cup req'[k].about \subseteq crossed'
    <3>1. CASE i = h
        BY <1>2, <1>3, <1>5, <2>1, <3>1
    <3>2. CASE k = h
        BY <1>2, <1>3, <1>5, <2>1, <3>2
    <3>3. CASE i # h /\ k # h
        BY <1>2, <1>5, <2>1, <3>3 DEF LInv, SharedIsCrossed
    <3> QED BY <3>1, <3>2, <3>3
  <2> QED BY <2>1 DEF SharedIsCrossed
<1>11. WrittenIsThere'
  <2>1. ASSUME NEW k \in Handlers, req'[k].at \in Writers
        PROVE  req'[k].about \subseteq There \cup crossed'
    <3>1. CASE k = h
        BY <1>2, <1>3, <1>5, <3>1
    <3>2. CASE k # h
        BY <1>2, <1>5, <2>1, <3>2 DEF LInv, WrittenIsThere
    <3> QED BY <3>1, <3>2
  <2> QED BY <1>7, <2>1 DEF WrittenIsThere
<1>12. SharesAreKept'
  <2>1. ASSUME NEW k \in Handlers \ {h}
        PROVE  KeepsShares(req[k], serviceMembers, links, crossed')
    <3>1. KeepsShares(req[k], serviceMembers, links, crossed)
        BY DEF LInv, SharesAreKept
    <3> QED BY <1>5, <3>1 DEF KeepsShares
  <2>2. KeepsShares(r, serviceMembers, links, crossed')
    <3> SUFFICES ASSUME at = "app services", by # Gone
                 PROVE  /\ \A s \in Services : <<s, by>> \in serviceMembers => s \in about
                        /\ \A s \in Services : <<s, by>> \notin serviceMembers /\ s \notin crossed' =>
                              (s \in list <=> <<of, s>> \in links)
        BY <1>3 DEF KeepsShares
    <3>1. ASSUME NEW s \in Services, <<of, s>> \in links, s \notin crossed'
          PROVE  s \in services
      <4>1. <<of, s>>[2] = s
          OBVIOUS
      <4>2. s \in There
          BY <1>5, <3>1, <4>1 DEF LInv, NamedIsThere
      <4> QED BY <4>2, ThereByKind DEF LInv
    <3> QED BY <3>1
  <2> QED BY <1>1, <1>2, <2>1, <2>2 DEF SharesAreKept
<1>13. AsDecided' /\ NamedIsThere'
    BY <1>1, <1>5, <1>7 DEF LInv, AsDecided, NamedIsThere
<1>14. DeletionsGoThrough'
  <2>1. Through(r, appMembers, serviceMembers, links)
      BY <1>3 DEF Opening, Writers, Through
  <2>2. ASSUME NEW k \in Handlers \ {h}
        PROVE  req[k].of \in crossed' \/ Through(req[k], appMembers, serviceMembers, links)
      BY <1>5 DEF LInv, DeletionsGoThrough
  <2> QED BY <1>1, <1>2, <2>1, <2>2 DEF DeletionsGoThrough
<1> QED BY <1>8, <1>9, <1>10, <1>11, <1>12, <1>13, <1>14 DEF LInv

\* Requests that arrive keep the lists as decided.
LEMMA ArriveAsDecided ==
    ASSUME LInv, NEW h \in Handlers, Free(h), Arrive(h)
    PROVE  LInv'
<1>1. ASSUME NEW a \in Apps, BeginSetAppMembers(h, a)
      PROVE  LInv'
  <2>1. PICK list \in SUBSET {u \in Users : role[u] # Gone} :
          Begin(h, "app members", a, resolveMembers(list), Gone, {a} \cup list) /\ approved' = approved
        BY <1>1 DEF BeginSetAppMembers
  <2>2. PICK members, about, r :
          /\ members = resolveMembers(list) /\ about = {a} \cup list
          /\ r = [at |-> "app members", of |-> a, list |-> members, by |-> Gone, about |-> about]
        OBVIOUS
  <2>3. members \subseteq list /\ list \subseteq Users
        BY <2>2 DEF resolveMembers
  <2>4. r \in Request /\ Fits(r)
        BY <2>2, <2>3, AccessAssumption DEF Request, Things, Fits
  <2>5. Begin(h, "app members", a, members, Gone, about) /\ approved' \subseteq Apps \X Services
        BY <2>1, <2>2 DEF LInv, TypeOK
  <2> QED BY <2>2, <2>4, <2>5, ArrivalKeeps DEF Opening, Writers
<1>2. ASSUME NEW a \in Apps, BeginSetAppServices(h, a)
      PROVE  LInv'
  <2>1. PICK list \in SUBSET Services :
          /\ Begin(h, "app services", a, list, Gone, {a} \cup list)
          /\ approved' = approved \cup ({a} \X list)
        BY <1>2 DEF BeginSetAppServices
  <2>2. PICK about, r : /\ about = {a} \cup list
                        /\ r = [at |-> "app services", of |-> a, list |-> list, by |-> Gone, about |-> about]
        OBVIOUS
  <2>3. r \in Request /\ Fits(r)
        BY <2>2, AccessAssumption DEF Request, Things, Fits
  <2>4. Begin(h, "app services", a, list, Gone, about) /\ approved' \subseteq Apps \X Services
        BY <2>1, <2>2 DEF LInv, TypeOK
  <2> QED BY <2>2, <2>3, <2>4, ArrivalKeeps DEF Opening, Writers
<1>3. ASSUME NEW a \in Apps, BeginDeleteApp(h, a)
      PROVE  LInv'
  <2>1. Begin(h, "delete app", a, {}, Gone, {a}) /\ approved' \subseteq Apps \X Services
        BY <1>3 DEF BeginDeleteApp, LInv, TypeOK
  <2>2. PICK r : r = [at |-> "delete app", of |-> a, list |-> {}, by |-> Gone, about |-> {a}]
        OBVIOUS
  <2>3. r \in Request /\ Fits(r)
        BY <2>2, AccessAssumption DEF Request, Things, Fits
  <2> QED BY <2>1, <2>2, <2>3, ArrivalKeeps DEF Opening
<1>4. ASSUME NEW a \in Apps, NEW u \in Users, BeginSetOwnServices(h, u, a)
      PROVE  LInv'
  <2>1. PICK asked \in SUBSET Services :
          /\ asked \subseteq Linked(a) \cup Mine(u)
          /\ Begin(h, "app services", a, memberServiceLinks(u, a, asked), u,
                   {a, u} \cup memberServiceLinks(u, a, asked) \cup Mine(u) \cup asked)
          /\ approved' = approved \cup ({a} \X (asked \cap Mine(u)))
        BY <1>4 DEF BeginSetOwnServices
  <2>2. PICK list, about, r :
          /\ list = memberServiceLinks(u, a, asked) /\ about = {a, u} \cup list \cup Mine(u) \cup asked
          /\ r = [at |-> "app services", of |-> a, list |-> list, by |-> u, about |-> about]
        OBVIOUS
  <2>3. list \subseteq Services /\ Mine(u) \subseteq Services
        BY <2>2 DEF memberServiceLinks, Linked, Mine, LInv, TypeOK
  <2>4. r \in Request /\ Fits(r)
        BY <2>2, <2>3 DEF Request, Things, Fits
  <2>5. Begin(h, "app services", a, list, u, about) /\ approved' \subseteq Apps \X Services
        BY <2>1, <2>2 DEF LInv, TypeOK
  <2>6. \A s \in Services : <<s, u>> \in serviceMembers => s \in about
        BY <2>2 DEF Mine
  <2>7. \A s \in Services : <<s, u>> \notin serviceMembers => (s \in list <=> <<a, s>> \in links /\ s \in services)
        BY <2>2 DEF memberServiceLinks, Linked, Mine
  <2> QED BY <2>2, <2>4, <2>5, <2>6, <2>7, ArrivalKeeps DEF Opening, Writers
<1>5. ASSUME NEW u \in Users, BeginSetUserApps(h, u)
      PROVE  LInv'
  <2>1. PICK list \in SUBSET Apps :
          Begin(h, "user apps", u, list, Gone, {u} \cup list) /\ approved' = approved
        BY <1>5 DEF BeginSetUserApps
  <2>2. PICK about, r : /\ about = {u} \cup list
                        /\ r = [at |-> "user apps", of |-> u, list |-> list, by |-> Gone, about |-> about]
        OBVIOUS
  <2>3. r \in Request /\ Fits(r)
        BY <2>2, AccessAssumption DEF Request, Things, Fits
  <2>4. Begin(h, "user apps", u, list, Gone, about) /\ approved' \subseteq Apps \X Services
        BY <2>1, <2>2 DEF LInv, TypeOK
  <2> QED BY <2>2, <2>3, <2>4, ArrivalKeeps DEF Opening, Writers
<1>6. ASSUME NEW u \in Users, BeginDeleteUser(h, u)
      PROVE  LInv'
  <2>1. Begin(h, "delete user", u, {}, Gone, {u}) /\ approved' \subseteq Apps \X Services
        BY <1>6 DEF BeginDeleteUser, LInv, TypeOK
  <2>2. PICK r : r = [at |-> "delete user", of |-> u, list |-> {}, by |-> Gone, about |-> {u}]
        OBVIOUS
  <2>3. r \in Request /\ Fits(r)
        BY <2>2, AccessAssumption DEF Request, Things, Fits
  <2> QED BY <2>1, <2>2, <2>3, ArrivalKeeps DEF Opening
<1>7. ASSUME NEW u \in Users, NEW w \in Roles, SetRole(h, u, w)
      PROVE  LInv'
  <2>1. /\ role[u] # Gone /\ role' = [role EXCEPT ![u] = w] /\ made' = made + 1 /\ crossed' = crossed \cup Crossing({u})
        /\ UNCHANGED <<apps, services, appMembers, serviceMembers, links, req, staffed, linked, approved>>
        BY <1>7 DEF SetRole, lists, books
  <2>2. role' \in [Users -> Roles \cup {Gone}] /\ made' \in 0..MaxRequests
    <3>1. made < MaxRequests
        BY DEF Free
    <3> QED BY <2>1, <3>1, AccessAssumption DEF LInv, TypeOK
  <2>3. There' = There
        BY <2>1, AccessAssumption DEF There, Roles, LInv, TypeOK
  <2>4. Crossing({u}) \subseteq Things
        BY DEF Crossing, LInv, RequestsAreRecords, Request, Things
  <2>5. /\ TypeOK' /\ RequestsAreRecords' /\ RequestsFit' /\ SharedIsCrossed' /\ WrittenIsThere'
        BY <2>1, <2>2, <2>3, <2>4 DEF LInv, TypeOK, RequestsAreRecords, RequestsFit, SharedIsCrossed, WrittenIsThere
  <2>6. SharesAreKept'
        BY <2>1 DEF LInv, SharesAreKept, KeepsShares
  <2>7. AsDecided' /\ NamedIsThere' /\ DeletionsGoThrough'
        BY <2>1, <2>3 DEF LInv, AsDecided, NamedIsThere, DeletionsGoThrough
  <2> QED BY <2>5, <2>6, <2>7 DEF LInv
<1>8. ASSUME NEW s \in Services, BeginSetServiceMembers(h, s)
      PROVE  LInv'
  <2>1. PICK list \in SUBSET {u \in Users : role[u] # Gone} :
          Begin(h, "service members", s, resolveMembers(list), Gone, {s} \cup list) /\ approved' = approved
        BY <1>8 DEF BeginSetServiceMembers
  <2>2. PICK members, about, r :
          /\ members = resolveMembers(list) /\ about = {s} \cup list
          /\ r = [at |-> "service members", of |-> s, list |-> members, by |-> Gone, about |-> about]
        OBVIOUS
  <2>3. members \subseteq list /\ list \subseteq Users
        BY <2>2 DEF resolveMembers
  <2>4. r \in Request /\ Fits(r)
        BY <2>2, <2>3, AccessAssumption DEF Request, Things, Fits
  <2>5. Begin(h, "service members", s, members, Gone, about) /\ approved' \subseteq Apps \X Services
        BY <2>1, <2>2 DEF LInv, TypeOK
  <2> QED BY <2>2, <2>4, <2>5, ArrivalKeeps DEF Opening, Writers
<1>9. ASSUME NEW s \in Services, BeginDeleteService(h, s)
      PROVE  LInv'
  <2>1. Begin(h, "delete service", s, {}, Gone, {s}) /\ approved' \subseteq Apps \X Services
        BY <1>9 DEF BeginDeleteService, LInv, TypeOK
  <2>2. PICK r : r = [at |-> "delete service", of |-> s, list |-> {}, by |-> Gone, about |-> {s}]
        OBVIOUS
  <2>3. r \in Request /\ Fits(r)
        BY <2>2, AccessAssumption DEF Request, Things, Fits
  <2> QED BY <2>1, <2>2, <2>3, ArrivalKeeps DEF Opening
<1> QED BY <1>1, <1>2, <1>3, <1>4, <1>5, <1>6, <1>7, <1>8, <1>9 DEF Arrive

\* A request that goes on to its next statement.
LEMMA GoesOnward ==
    ASSUME LInv, NEW h \in Handlers, NEW at, Goes(h, at),
           at \in {"user leaves services", "delete user row", "unlink service", "delete service row",
                   "unlink app", "delete app row"},
           at \in {"user leaves services", "delete user row"} => req[h].of \in Users,
           at \in {"unlink service", "delete service row"} => req[h].of \in Services,
           at \in {"unlink app", "delete app row"} => req[h].of \in Apps,
           req[h].at # "idle"
    PROVE  \E r \in Request : /\ req' = [req EXCEPT ![h] = r] /\ Fits(r) /\ r.at = at /\ r.of = req[h].of
                              /\ r.about = req[h].about
<1>1. PICK q : q = req[h]
    OBVIOUS
<1>2. q \in Request /\ Fits(q) /\ q.at # "idle"
    BY <1>1 DEF LInv, RequestsAreRecords, RequestsFit
<1> DEFINE r == [q EXCEPT !.at = at, !.list = {}]
<1>3. /\ r \in Request /\ r.at = at /\ r.of = q.of /\ r.about = q.about /\ r.by = q.by /\ r.list = {}
    BY <1>2 DEF Request
<1>4. req' = [req EXCEPT ![h] = r]
    BY <1>1 DEF Goes
<1> HIDE DEF r
<1>5. Fits(r)
    BY <1>1, <1>2, <1>3 DEF Fits
<1> QED BY <1>1, <1>3, <1>4, <1>5

\* A request that ends; it is about nothing.
LEMMA EndsQuiet ==
    /\ Idle \in Request /\ Fits(Idle) /\ Idle.at = "idle" /\ Idle.about = {}
    /\ \A staff, crew, joined : Through(Idle, staff, crew, joined)
<1>1. Idle \in Request /\ Idle.at = "idle" /\ Idle.about = {} /\ Idle.by = Gone
    BY DEF Idle, Request, Things
<1>2. Gone \notin Users
    BY AccessAssumption
<1> HIDE DEF Idle
<1> QED BY <1>1, <1>2 DEF Fits, Through

\* Nothing else of a list, and who is there, changes when it stays as it is.
LEMMA SameAlters == \A old, r : Alters(old, old, r)
BY DEF Alters, Grows, Shrinks

\* The pairs of a request's thing with its list replace those that were there.
LEMMA RewriteAlters ==
    ASSUME NEW old, NEW r, r.at \in Writers, r.of \in r.about, r.list \subseteq r.about
    PROVE  /\ Alters(old, {p \in old : p[1] # r.of} \cup ({r.of} \X r.list), r)
           /\ Alters(old, {p \in old : p[2] # r.of} \cup (r.list \X {r.of}), r)
<1>1. \A p \in {r.of} \X r.list : p[1] = r.of /\ p[2] \in r.list
    OBVIOUS
<1>2. \A p \in r.list \X {r.of} : p[2] = r.of /\ p[1] \in r.list
    OBVIOUS
<1> QED BY <1>1, <1>2 DEF Alters, Grows, Shrinks

\* Pairs with a request's thing go.
LEMMA DropAlters ==
    \A old, r : Alters(old, {p \in old : p[1] # r.of}, r) /\ Alters(old, {p \in old : p[2] # r.of}, r)
BY DEF Alters, Grows, Shrinks

\* The members of an app, or the apps of a user, are written.
LEMMA MembersAsDecided ==
    ASSUME LInv, NEW h \in Handlers, SetAppMembers(h) \/ SetUserApps(h) \/ SetServiceMembers(h)
    PROVE  LInv'
<1>1. PICK q : q = req[h]
    OBVIOUS
<1>2. q \in Request /\ Fits(q) /\ TypeOK /\ AsDecided
    BY <1>1 DEF LInv, RequestsAreRecords, RequestsFit
<1>3. /\ q.at \in Writers /\ q.at # "idle" /\ req' = [req EXCEPT ![h] = Idle]
      /\ UNCHANGED <<role, apps, services, links, made, linked, approved, crossed>>
    BY <1>1 DEF SetAppMembers, SetUserApps, SetServiceMembers, Writers, Ends, things, books
<1>4. q.of \in q.about /\ q.list \subseteq q.about
    BY <1>2, <1>3 DEF Fits
<1>5. There' = There
    BY <1>3 DEF There
<1>6. /\ appMembers' \subseteq Apps \X Users /\ serviceMembers' \subseteq Services \X Users
      /\ staffed' = appMembers'
      /\ Alters(appMembers, appMembers', q) /\ Alters(serviceMembers, serviceMembers', q)
  <2>1. CASE SetAppMembers(h)
    <3>1. /\ q.of \in Apps /\ q.list \subseteq Users /\ serviceMembers' = serviceMembers
          /\ appMembers' = {p \in appMembers : p[1] # q.of} \cup ({q.of} \X q.list)
          /\ staffed' = {p \in staffed : p[1] # q.of} \cup ({q.of} \X q.list)
        BY <1>1, <1>2, <2>1 DEF SetAppMembers, Fits
    <3> QED BY <1>2, <1>3, <1>4, <3>1, RewriteAlters, SameAlters DEF TypeOK, AsDecided
  <2>2. CASE SetUserApps(h)
    <3>1. /\ q.of \in Users /\ q.list \subseteq Apps /\ serviceMembers' = serviceMembers
          /\ appMembers' = {p \in appMembers : p[2] # q.of} \cup (q.list \X {q.of})
          /\ staffed' = {p \in staffed : p[2] # q.of} \cup (q.list \X {q.of})
        BY <1>1, <1>2, <2>2 DEF SetUserApps, Fits
    <3> QED BY <1>2, <1>3, <1>4, <3>1, RewriteAlters, SameAlters DEF TypeOK, AsDecided
  <2>3. CASE SetServiceMembers(h)
    <3>1. /\ q.of \in Services /\ q.list \subseteq Users /\ appMembers' = appMembers /\ staffed' = staffed
          /\ serviceMembers' = {p \in serviceMembers : p[1] # q.of} \cup ({q.of} \X q.list)
        BY <1>1, <1>2, <2>3 DEF SetServiceMembers, Fits, books
    <3> QED BY <1>2, <1>3, <1>4, <3>1, RewriteAlters, SameAlters DEF TypeOK, AsDecided
  <2> QED BY <2>1, <2>2, <2>3
<1>7. AsDecided'
    BY <1>2, <1>3, <1>6 DEF AsDecided
<1>8. Alters(links, links', q)
    BY <1>3, SameAlters
<1>9. /\ role' \in [Users -> Roles \cup {Gone}] /\ apps' \subseteq Apps /\ services' \subseteq Services
      /\ links' \subseteq Apps \X Services /\ staffed' \subseteq Apps \X Users /\ linked' \subseteq Apps \X Services
    BY <1>2, <1>3, <1>6 DEF TypeOK
<1>10. Idle.at \notin Writers /\ Idle.about \subseteq q.about
    BY EndsQuiet DEF Writers
<1> QED BY <1>1, <1>3, <1>5, <1>6, <1>7, <1>8, <1>9, <1>10, EndsQuiet, AboutKeeps

\* The services of an app are written: all of them, or a Member's own, with the
\* others as they are.
LEMMA ServicesAsDecided ==
    ASSUME LInv, NEW h \in Handlers, SetAppServices(h)
    PROVE  LInv'
<1>1. PICK q, a, u : q = req[h] /\ a = q.of /\ u = q.by
    OBVIOUS
<1>2. q \in Request /\ Fits(q) /\ TypeOK /\ AsDecided /\ KeepsShares(q, serviceMembers, links, crossed)
    BY <1>1 DEF LInv, RequestsAreRecords, RequestsFit, SharesAreKept
<1>3. PICK decided : decided = IF u = Gone THEN Services ELSE Mine(u)
    OBVIOUS
<1>4. /\ q.at = "app services" /\ req' = [req EXCEPT ![h] = Idle]
      /\ UNCHANGED <<role, apps, services, appMembers, serviceMembers, made, staffed, approved, crossed>>
      /\ links' = {p \in links : p[1] # a} \cup ({a} \X q.list)
      /\ linked' = {p \in linked : ~(p[1] = a /\ p[2] \in decided)} \cup {p \in {a} \X q.list : p[2] \in decided}
    BY <1>1, <1>3 DEF SetAppServices, Ends, things
<1>5. a \in Apps /\ q.list \subseteq Services /\ q.at \in Writers /\ q.at # "idle" /\ q.of \in q.about /\ q.list \subseteq q.about
    BY <1>1, <1>2, <1>4 DEF Fits, Writers
<1>6. There' = There
    BY <1>4 DEF There
<1>7. links' \subseteq Apps \X Services /\ linked' \subseteq Apps \X Services
    BY <1>2, <1>4, <1>5 DEF TypeOK
<1>8. AsDecided'
  <2>1. ASSUME NEW b \in Apps, NEW s \in Services, b \notin crossed, s \notin crossed
        PROVE  <<b, s>> \in links' <=> <<b, s>> \in linked'
    <3>1. <<b, s>> \in links <=> <<b, s>> \in linked
        BY <1>2, <2>1 DEF AsDecided
    <3>2. CASE b # a
        BY <1>4, <3>1, <3>2
    <3>3. CASE b = a
      <4>1. /\ <<b, s>> \in links' <=> s \in q.list
            /\ <<b, s>> \in linked' <=> IF s \in decided THEN s \in q.list ELSE <<b, s>> \in linked
          BY <1>4, <3>3
      <4>2. s \notin decided => u # Gone /\ <<s, u>> \notin serviceMembers
          BY <1>3 DEF Mine
      <4>3. s \notin decided => (s \in q.list <=> <<a, s>> \in links)
          BY <1>1, <1>2, <1>4, <2>1, <3>3, <4>2 DEF KeepsShares
      <4> QED BY <3>1, <3>3, <4>1, <4>3
    <3> QED BY <3>2, <3>3
  <2> QED BY <1>2, <1>4, <2>1 DEF AsDecided
<1>9. Alters(appMembers, appMembers', q) /\ Alters(serviceMembers, serviceMembers', q) /\ Alters(links, links', q)
    BY <1>1, <1>4, <1>5, SameAlters, RewriteAlters
<1>10. /\ role' \in [Users -> Roles \cup {Gone}] /\ apps' \subseteq Apps /\ services' \subseteq Services
       /\ appMembers' \subseteq Apps \X Users /\ serviceMembers' \subseteq Services \X Users /\ staffed' \subseteq Apps \X Users
    BY <1>2, <1>4 DEF TypeOK
<1>11. Idle.at \notin Writers /\ Idle.about \subseteq q.about
    BY EndsQuiet DEF Writers
<1> QED BY <1>1, <1>4, <1>5, <1>6, <1>7, <1>8, <1>9, <1>10, <1>11, EndsQuiet, AboutKeeps

\* A deletion goes on to its next list; links and what was decided lose the same.
LEMMA DeletionAsDecided ==
    ASSUME LInv, NEW h \in Handlers,
           LeaveApps(h) \/ LeaveServices(h) \/ DropMembers(h) \/ Unlink(h) \/ Dismiss(h) \/ UnlinkApp(h)
    PROVE  LInv'
<1>1. PICK q : q = req[h]
    OBVIOUS
<1>2. q \in Request /\ Fits(q) /\ TypeOK /\ AsDecided
    BY <1>1 DEF LInv, RequestsAreRecords, RequestsFit
<1>3. q.of \in crossed \/ Through(q, appMembers, serviceMembers, links)
    BY <1>1 DEF LInv, DeletionsGoThrough
<1>4. PICK at \in {"user leaves services", "delete user row", "unlink service", "delete service row",
                   "unlink app", "delete app row"} :
      /\ Goes(h, at) /\ q.at # "idle"
      /\ UNCHANGED <<role, apps, services, made, approved, crossed>>
      /\ at \in {"user leaves services", "delete user row"} => q.of \in Users
      /\ at \in {"unlink service", "delete service row"} => q.of \in Services
      /\ at \in {"unlink app", "delete app row"} => q.of \in Apps
      /\ at = "user leaves services" =>
            /\ appMembers' = {p \in appMembers : p[2] # q.of} /\ staffed' = {p \in staffed : p[2] # q.of}
            /\ UNCHANGED <<serviceMembers, links, linked>>
      /\ at = "delete user row" =>
            /\ q.at = "user leaves services"
            /\ serviceMembers' = {p \in serviceMembers : p[2] # q.of}
            /\ UNCHANGED <<appMembers, staffed, links, linked>>
      /\ at = "unlink service" =>
            /\ serviceMembers' = {p \in serviceMembers : p[1] # q.of}
            /\ UNCHANGED <<appMembers, staffed, links, linked>>
      /\ at = "delete service row" =>
            /\ q.at = "unlink service"
            /\ links' = {p \in links : p[2] # q.of} /\ linked' = {p \in linked : p[2] # q.of}
            /\ UNCHANGED <<appMembers, staffed, serviceMembers>>
      /\ at = "unlink app" =>
            /\ appMembers' = {p \in appMembers : p[1] # q.of} /\ staffed' = {p \in staffed : p[1] # q.of}
            /\ UNCHANGED <<serviceMembers, links, linked>>
      /\ at = "delete app row" =>
            /\ q.at = "unlink app"
            /\ links' = {p \in links : p[1] # q.of} /\ linked' = {p \in linked : p[1] # q.of}
            /\ UNCHANGED <<appMembers, staffed, serviceMembers>>
  <2> USE DEF things, lists, books
  <2>1. CASE LeaveApps(h)
      BY <1>1, <1>2, <2>1 DEF LeaveApps, Fits
  <2>2. CASE LeaveServices(h)
      BY <1>1, <1>2, <2>2 DEF LeaveServices, Fits
  <2>3. CASE DropMembers(h)
      BY <1>1, <1>2, <2>3 DEF DropMembers, Fits
  <2>4. CASE Unlink(h)
      BY <1>1, <1>2, <2>4 DEF Unlink, Fits
  <2>5. CASE Dismiss(h)
      BY <1>1, <1>2, <2>5 DEF Dismiss, Fits
  <2>6. CASE UnlinkApp(h)
      BY <1>1, <1>2, <2>6 DEF UnlinkApp, Fits
  <2> QED BY <2>1, <2>2, <2>3, <2>4, <2>5, <2>6
<1>5. PICK r \in Request : /\ req' = [req EXCEPT ![h] = r] /\ Fits(r) /\ r.at = at /\ r.of = q.of /\ r.about = q.about
  <2>1. /\ Goes(h, at) /\ req[h].at # "idle"
        /\ at \in {"user leaves services", "delete user row"} => req[h].of \in Users
        /\ at \in {"unlink service", "delete service row"} => req[h].of \in Services
        /\ at \in {"unlink app", "delete app row"} => req[h].of \in Apps
      BY <1>1, <1>4
  <2>2. \E r \in Request : /\ req' = [req EXCEPT ![h] = r] /\ Fits(r) /\ r.at = at /\ r.of = req[h].of
                           /\ r.about = req[h].about
      BY <2>1, GoesOnward
  <2> QED BY <1>1, <2>2
<1>6. There' = There
    BY <1>4 DEF There
<1>7. /\ appMembers' \subseteq appMembers /\ serviceMembers' \subseteq serviceMembers /\ links' \subseteq links
      /\ staffed' = appMembers' /\ linked' \subseteq linked
    BY <1>2, <1>4 DEF AsDecided
<1>8. /\ role' \in [Users -> Roles \cup {Gone}] /\ apps' \subseteq Apps /\ services' \subseteq Services
      /\ appMembers' \subseteq Apps \X Users /\ serviceMembers' \subseteq Services \X Users /\ links' \subseteq Apps \X Services
      /\ staffed' \subseteq Apps \X Users /\ linked' \subseteq Apps \X Services
    BY <1>2, <1>4, <1>7 DEF TypeOK
<1>9. Alters(appMembers, appMembers', q) /\ Alters(serviceMembers, serviceMembers', q) /\ Alters(links, links', q)
    BY <1>4, SameAlters, DropAlters
<1>10. AsDecided'
  <2>1. ASSUME NEW a \in Apps, NEW s \in Services
        PROVE  \/ (<<a, s>> \in links' <=> <<a, s>> \in links) /\ (<<a, s>> \in linked' <=> <<a, s>> \in linked)
               \/ <<a, s>> \notin links' /\ <<a, s>> \notin linked'
    <3>1. <<a, s>>[1] = a /\ <<a, s>>[2] = s
        OBVIOUS
    <3> QED BY <1>4, <3>1
  <2> QED BY <1>2, <1>4, <1>7, <2>1 DEF AsDecided
<1>11. r.of \in crossed \/ Through(r, appMembers', serviceMembers', links')
    BY <1>3, <1>4, <1>5 DEF Through
<1>12. r.at \notin Writers
    BY <1>5 DEF Writers
<1> QED BY <1>1, <1>4, <1>5, <1>6, <1>8, <1>9, <1>10, <1>11, <1>12, AboutKeeps

\* A row goes, and no list names it.
LEMMA RowAsDecided ==
    ASSUME LInv, NEW h \in Handlers, DeleteUserRow(h) \/ DeleteServiceRow(h) \/ DeleteAppRow(h)
    PROVE  LInv'
<1>1. PICK q : q = req[h]
    OBVIOUS
<1>2. q \in Request /\ Fits(q) /\ TypeOK /\ AsDecided
    BY <1>1 DEF LInv, RequestsAreRecords, RequestsFit
<1>3. q.of \in crossed \/ Through(q, appMembers, serviceMembers, links)
    BY <1>1 DEF LInv, DeletionsGoThrough
<1>4. /\ q.at \in {"delete user row", "delete service row", "delete app row"} /\ req' = [req EXCEPT ![h] = Idle]
      /\ UNCHANGED <<appMembers, serviceMembers, links, made, staffed, linked, approved, crossed>>
      /\ role' = IF q.at = "delete user row" THEN [role EXCEPT ![q.of] = Gone] ELSE role
      /\ services' = IF q.at = "delete service row" THEN services \ {q.of} ELSE services
      /\ apps' = IF q.at = "delete app row" THEN apps \ {q.of} ELSE apps
    BY <1>1 DEF DeleteUserRow, DeleteServiceRow, DeleteAppRow, Ends, lists, books
<1>5. /\ q.at = "delete user row" => q.of \in Users
      /\ q.at = "delete service row" => q.of \in Services
      /\ q.at = "delete app row" => q.of \in Apps
    BY <1>2 DEF Fits
<1>6. /\ role' \in [Users -> Roles \cup {Gone}] /\ apps' \subseteq Apps /\ services' \subseteq Services
    BY <1>2, <1>4 DEF TypeOK
<1>7. There \ {q.of} \subseteq There'
    BY <1>2, <1>4, <1>5 DEF There, TypeOK
<1>8. \/ q.of \in crossed
      \/ \A p \in appMembers' \cup serviceMembers' \cup links' : q.of # p[1] /\ q.of # p[2]
  <2> SUFFICES ASSUME q.of \notin crossed, NEW p \in appMembers \cup serviceMembers \cup links
               PROVE  q.of # p[1] /\ q.of # p[2]
      BY <1>4
  <2>1. Through(q, appMembers, serviceMembers, links)
      BY <1>3
  <2>2. CASE p \in appMembers
    <3>1. p[1] \in Apps /\ p[2] \in Users
        BY <1>2, <2>2 DEF TypeOK
    <3> QED BY <1>4, <1>5, <2>1, <2>2, <3>1, AccessAssumption DEF Through
  <2>3. CASE p \in serviceMembers
    <3>1. p[1] \in Services /\ p[2] \in Users
        BY <1>2, <2>3 DEF TypeOK
    <3> QED BY <1>4, <1>5, <2>1, <2>3, <3>1, AccessAssumption DEF Through
  <2>4. CASE p \in links
    <3>1. p[1] \in Apps /\ p[2] \in Services
        BY <1>2, <2>4 DEF TypeOK
    <3> QED BY <1>4, <1>5, <2>1, <2>4, <3>1, AccessAssumption DEF Through
  <2> QED BY <2>2, <2>3, <2>4
<1>9. AsDecided'
    BY <1>2, <1>4 DEF AsDecided
<1>10. Alters(appMembers, appMembers', q) /\ Alters(serviceMembers, serviceMembers', q) /\ Alters(links, links', q)
    BY <1>4, SameAlters
<1>11. /\ appMembers' \subseteq Apps \X Users /\ serviceMembers' \subseteq Services \X Users /\ links' \subseteq Apps \X Services
       /\ staffed' \subseteq Apps \X Users /\ linked' \subseteq Apps \X Services
    BY <1>2, <1>4 DEF TypeOK
<1>12. Idle.at \notin Writers /\ Idle.about \subseteq q.about /\ q.at \notin Writers /\ q.at # "idle"
    BY <1>4, EndsQuiet DEF Writers
<1> QED BY <1>1, <1>4, <1>6, <1>7, <1>8, <1>9, <1>10, <1>11, <1>12, EndsQuiet, AboutKeeps

\* A restart clears what names a deleted service, so it need not count as crossed.
LEMMA CrashAsDecided ==
    ASSUME LInv, Crash
    PROVE  LInv'
<1>1. /\ req' = [h \in Handlers |-> Idle]
      /\ links' = {p \in links : p[2] \in services} /\ linked' = {p \in linked : p[2] \in services}
      /\ serviceMembers' = {p \in serviceMembers : p[1] \in services}
      /\ crossed' = crossed \ (Services \ services)
      /\ UNCHANGED <<role, apps, services, appMembers, made, staffed, approved>>
    BY DEF Crash, things
<1>2. req' \in [Handlers -> Request] /\ \A h \in Handlers : req'[h] = Idle
    BY <1>1, EndsQuiet
<1>3. TypeOK /\ AsDecided /\ NamedIsThere
    BY DEF LInv
<1>4. There' = There
    BY <1>1 DEF There
<1>5. TypeOK' /\ RequestsAreRecords'
    BY <1>1, <1>2, <1>3 DEF TypeOK, RequestsAreRecords
<1>6. RequestsFit' /\ SharedIsCrossed' /\ WrittenIsThere' /\ DeletionsGoThrough'
  <2>1. RequestsFit' /\ WrittenIsThere'
      BY <1>2, EndsQuiet DEF RequestsFit, WrittenIsThere, Writers
  <2>2. SharedIsCrossed'
      BY <1>2, EndsQuiet DEF SharedIsCrossed
  <2>3. DeletionsGoThrough'
      BY <1>2, EndsQuiet DEF DeletionsGoThrough
  <2> QED BY <2>1, <2>2, <2>3
<1>7. SharesAreKept'
    BY <1>2, EndsQuiet DEF SharesAreKept, KeepsShares
<1>8. AsDecided'
  <2>1. ASSUME NEW a \in Apps, NEW s \in Services, a \notin crossed', s \notin crossed'
        PROVE  <<a, s>> \in links' <=> <<a, s>> \in linked'
    <3>1. a \notin crossed
        BY <1>1, <2>1, AccessAssumption
    <3>2. /\ <<a, s>> \in links' <=> <<a, s>> \in links /\ s \in services
          /\ <<a, s>> \in linked' <=> <<a, s>> \in linked /\ s \in services
        BY <1>1
    <3>3. s \in services => s \notin crossed
        BY <1>1, <2>1
    <3> QED BY <1>3, <3>1, <3>2, <3>3 DEF AsDecided
  <2> QED BY <1>1, <1>3, <2>1 DEF AsDecided
<1>9. NamedIsThere'
  <2>1. ASSUME NEW p \in appMembers' \cup serviceMembers' \cup links', NEW x \in {p[1], p[2]}
        PROVE  x \in There \cup crossed'
    <3>1. p \in appMembers \cup serviceMembers \cup links
        BY <1>1
    <3>2. x \in There \cup crossed
        BY <1>3, <3>1 DEF NamedIsThere
    <3>3. x \notin Services \ services
      <4>1. CASE p \in appMembers
        <5>1. p[1] \in Apps /\ p[2] \in Users
            BY <1>3, <4>1 DEF TypeOK
        <5> QED BY <5>1, AccessAssumption
      <4>2. CASE p \in serviceMembers'
        <5>1. p[1] \in services /\ p[2] \in Users
            BY <1>1, <1>3, <4>2 DEF TypeOK
        <5> QED BY <5>1, AccessAssumption
      <4>3. CASE p \in links'
        <5>1. p[1] \in Apps /\ p[2] \in services
            BY <1>1, <1>3, <4>3 DEF TypeOK
        <5> QED BY <5>1, AccessAssumption
      <4> QED BY <1>1, <4>1, <4>2, <4>3
    <3> QED BY <1>1, <3>2, <3>3
  <2> QED BY <1>4, <2>1 DEF NamedIsThere
<1> QED BY <1>5, <1>6, <1>7, <1>8, <1>9 DEF LInv

\* It starts as decided.
LEMMA InitAsDecided ==
    ASSUME Init
    PROVE  LInv
<1>1. req \in [Handlers -> Request] /\ \A h \in Handlers : req[h] = Idle
    BY EndsQuiet DEF Init
<1>2. /\ role \in [Users -> Roles \cup {Gone}] /\ (\A u \in Users : role[u] # Gone)
      /\ apps = Apps /\ services = Services
    BY AccessAssumption DEF Init, Roles
<1>3. /\ appMembers \subseteq Apps \X Users /\ serviceMembers \subseteq Services \X Users /\ links \subseteq Apps \X Services
      /\ staffed = appMembers /\ linked = links /\ approved = links /\ crossed = {}
    BY DEF Init
<1>4. made \in 0..MaxRequests
    BY AccessAssumption DEF Init
<1>5. TypeOK /\ RequestsAreRecords
    BY <1>1, <1>2, <1>3, <1>4 DEF TypeOK, RequestsAreRecords
<1>6. RequestsFit /\ SharedIsCrossed /\ WrittenIsThere /\ DeletionsGoThrough
  <2>1. RequestsFit /\ WrittenIsThere
      BY <1>1, EndsQuiet DEF RequestsFit, WrittenIsThere, Writers
  <2>2. SharedIsCrossed
      BY <1>1, EndsQuiet DEF SharedIsCrossed
  <2>3. DeletionsGoThrough
      BY <1>1, EndsQuiet DEF DeletionsGoThrough
  <2> QED BY <2>1, <2>2, <2>3
<1>7. SharesAreKept
    BY <1>1, EndsQuiet DEF SharesAreKept, KeepsShares
<1>8. AsDecided
    BY <1>3 DEF AsDecided
<1>9. NamedIsThere
  <2>1. Users \cup Apps \cup Services \subseteq There
      BY <1>2 DEF There
  <2>2. ASSUME NEW p \in appMembers \cup serviceMembers \cup links
        PROVE  p[1] \in Users \cup Apps \cup Services /\ p[2] \in Users \cup Apps \cup Services
      BY <1>3
  <2> QED BY <2>1, <2>2 DEF NamedIsThere
<1> QED BY <1>5, <1>6, <1>7, <1>8, <1>9 DEF LInv

\* Of users, apps and services that no two requests shared at once: the doors
\* open to those the last decisions let in, however a Member's rewrite and an
\* Admin's change of another service fall together, and no list names what has
\* been deleted, wherever a deletion was cut short.
THEOREM ListsSayWhatWasDecided == Spec => []ListsFollowDecisions
<1>1. LInv /\ [Next]_vars => LInv'
  <2> SUFFICES ASSUME LInv, [Next]_vars PROVE LInv'
      OBVIOUS
  <2>1. ASSUME NEW h \in Handlers, Free(h), Arrive(h) PROVE LInv'
      BY <2>1, ArriveAsDecided
  <2>2. ASSUME NEW h \in Handlers, Step(h) PROVE LInv'
      BY <2>2, MembersAsDecided, ServicesAsDecided, DeletionAsDecided, RowAsDecided DEF Step
  <2>3. CASE Crash
      BY <2>3, CrashAsDecided
  <2>4. CASE UNCHANGED vars
      BY <2>4 DEF vars, things, lists, books, There, LInv, TypeOK, RequestsAreRecords, RequestsFit, SharedIsCrossed,
                  WrittenIsThere, SharesAreKept, AsDecided, NamedIsThere, DeletionsGoThrough
  <2> QED BY <2>1, <2>2, <2>3, <2>4 DEF Next
<1>2. LInv => ListsFollowDecisions
  <2> SUFFICES ASSUME LInv PROVE ListsFollowDecisions
      OBVIOUS
  <2>1. ASSUME NEW u \in Users, NEW a \in Apps, NEW s \in Services, Settled(u), Settled(a), Settled(s)
        PROVE  Passes(u, a, s) <=> /\ {u, a, s} \subseteq There
                                   /\ role[u] = "Admin" \/ <<a, u>> \in staffed
                                   /\ <<a, s>> \in linked
    <3>1. <<a, s>> \in links <=> <<a, s>> \in linked
        BY <2>1 DEF LInv, AsDecided, Settled
    <3>2. appMembers = staffed /\ "Admin" # Gone
        BY AccessAssumption DEF LInv, AsDecided
    <3> QED BY <3>1, <3>2, ThereByKind DEF LInv, Passes, MayOpen, MayUse
  <2>2. ListsNameWhatExists
      BY DEF LInv, NamedIsThere, ListsNameWhatExists, Settled
  <2>3. TypeOK
      BY DEF LInv
  <2>4. DoorsFollowDecisions
      BY <2>1 DEF DoorsFollowDecisions
  <2> QED BY <2>2, <2>3, <2>4 DEF ListsFollowDecisions
<1> QED BY <1>1, <1>2, InitAsDecided, PTL DEF Spec

=============================================================================
