---------------------------------- MODULE Hosts ----------------------------------
(***************************************************************************)
(* The DNS names this server answers to, the apps published under them, and *)
(* the table in memory that requests are routed and gated by.               *)
(*                                                                         *)
(* A request checks, writes a row, and then rebuilds the table from every   *)
(* row and installs it.  Nothing is held between those steps.  All apps     *)
(* here ask for the same slug, so a host name is an address.                *)
(***************************************************************************)
EXTENDS Naturals, FiniteSets

CONSTANTS
    Handlers,       \* requests in flight
    Names,          \* host names
    Hosts,          \* ids of hosts
    Records,        \* auth records that can be a gate
    NoGate,         \* an empty slot: inherit
    Here,           \* an app's place that is on no host name
    Gone,           \* a row that does not exist
    MaxApps, MaxChanges     \* bounds of the model

ASSUME HostsAssumption ==
    /\ NoGate \notin Records \cup Names /\ Here \notin Names \cup Records
    /\ Names \cap Records = {}
    /\ MaxApps \in Nat \ {0} /\ MaxChanges \in Nat

VARIABLES
    apps, nextApp, dirs,    \* rows of apps, and the apps with a slot directory
    hosts, records,
    table,      \* host name -> what is served there
    req, begun,
    \* history
    crossed,    \* names and records two requests at once were about
    stale,      \* the table was not installed by a rebuild that ran alone
    doubled,    \* names two apps took while no host was listed there
    placed      \* apps that were given a listed host's address

rows == <<apps, nextApp, dirs, hosts, records>>
memory == <<table, stale>>
hostsVars == <<rows, memory, req, begun, crossed, doubled, placed>>

-----------------------------------------------------------------------------
(* State                                                                   *)

Nonces == 1..MaxApps            \* in the order the apps are made
Gates == Records \cup {NoGate}
App == [at: Names \cup {Here}, gate: Gates]
Host == [name: Names, gate: Gates, open: BOOLEAN]   \* open: the Member may publish there
Entry == [gate: Gates, app: 0..MaxApps]
Table == [Names -> Entry \cup {Gone}]

ASSUME GoneAssumption == Gone \notin App \cup Host

\* A request: what it will write, what it is about, the table it has built;
\* checked, that its address was compared with the other apps'; alone, that no
\* other rebuild has run beside its own.
Request == [at: {"idle", "insert", "join", "update", "delete", "addHost", "setHost", "dropHost", "dropRecord",
                 "rebuild", "install"},
            app: 0..MaxApps, row: App \cup {Gone}, member: BOOLEAN, checked: BOOLEAN,
            id: Hosts \cup {Gone}, host: Host \cup {Gone}, rec: Gates,
            about: SUBSET (Names \cup Records), built: Table \cup {Gone}, alone: BOOLEAN]
NoRequest == [at |-> "idle", app |-> 0, row |-> Gone, member |-> FALSE, checked |-> FALSE, id |-> Gone,
              host |-> Gone, rec |-> NoGate, about |-> {}, built |-> Gone, alone |-> TRUE]

HostsTypeOK ==
    /\ apps \in [Nonces -> App \cup {Gone}] /\ nextApp \in 1..MaxApps + 1 /\ dirs \subseteq Nonces
    /\ hosts \in [Hosts -> Host \cup {Gone}] /\ records \subseteq Records
    /\ table \in Table
    /\ \A h \in Handlers : req[h] \in Request
    /\ begun \in 0..MaxChanges
    /\ crossed \subseteq Names \cup Records
    /\ stale \in BOOLEAN /\ doubled \subseteq Names /\ placed \subseteq Nonces

Exists(a) == apps[a] # Gone
On(n) == {a \in Nonces : Exists(a) /\ apps[a].at = n}           \* appsOnHost
Listed(n) == \E i \in Hosts : hosts[i] # Gone /\ hosts[i].name = n
HostNamed(n) == hosts[CHOOSE i \in Hosts : hosts[i] # Gone /\ hosts[i].name = n]
Last(S) == IF S = {} THEN 0 ELSE CHOOSE a \in S : \A b \in S : b <= a

\* rebuildHostedRoutes: every listed host, and on it the apps that have files.
Build ==
    [n \in Names |-> IF Listed(n) THEN [gate |-> HostNamed(n).gate, app |-> Last(On(n) \cap dirs)] ELSE Gone]

\* An install with one host, and no app or one.
HostsInit ==
    /\ \E n \in Names, g \in Gates, i \in Hosts :
        /\ hosts = [j \in Hosts |-> IF j = i THEN [name |-> n, gate |-> g, open |-> TRUE] ELSE Gone]
        /\ \E at \in {n, Here}, first \in 0..1 :
            /\ apps = [a \in Nonces |-> IF a = first THEN [at |-> at, gate |-> NoGate] ELSE Gone]
            /\ placed = {a \in {first} \ {0} : at = n}
            /\ nextApp = first + 1 /\ dirs = {first} \ {0}
    /\ records = Records
    /\ table = Build
    /\ req = [h \in Handlers |-> NoRequest] /\ begun = 0
    /\ crossed = {} /\ stale = FALSE /\ doubled = {}

-----------------------------------------------------------------------------
(* Requests                                                                *)

Free(h) == req[h].at = "idle" /\ begun < MaxChanges
InFlight == UNION {req[k].about : k \in Handlers}

\* A free handler takes a request as far as its first write.  What another
\* request is about at that moment is crossed.
Begin(h, r) ==
    /\ begun' = begun + 1
    /\ req' = [req EXCEPT ![h] = r]
    /\ crossed' = crossed \cup (r.about \cap InFlight)
    /\ UNCHANGED <<rows, memory, doubled, placed>>

GoesTo(h, at) == req' = [req EXCEPT ![h] = [NoRequest EXCEPT !.at = at]]
Ends(h) == req' = [req EXCEPT ![h] = NoRequest]
Concerns(n, g) == {n, g} \ {Here, NoGate}

\* validateAuthSlot.
ValidSlot(g) == g = NoGate \/ g \in records

\* normalizeHostURL: no other app is at the address.
FreeOf(n, self) == On(n) \subseteq {self}

\* normalizeAppURL: a URL on a host the TABLE lists is checked, any other is
\* an app running elsewhere.
Checks(n) == n \in Names /\ table[n] # Gone
Address(n, self) == Checks(n) => FreeOf(n, self)

\* memberHostFor: one of the Member's hosts, by the rows.
MemberHost(n) == \E i \in Hosts : hosts[i] # Gone /\ hosts[i].name = n /\ hosts[i].open

\* coreCreateApp, as far as its checks.  A Member's app has no gate of its own.
BeginCreateApp(h, member, n, g) ==
    /\ nextApp <= MaxApps
    /\ Address(n, 0)
    /\ IF member THEN MemberHost(n) /\ g = NoGate ELSE ValidSlot(g)
    /\ Begin(h, [NoRequest EXCEPT !.at = "insert", !.row = [at |-> n, gate |-> g], !.member = member,
                                  !.checked = Checks(n), !.about = Concerns(n, g)])

\* App a's row is written with address n.
Lands(h, a, n) ==
    /\ doubled' = IF n # Here /\ ~req[h].checked /\ On(n) \ {a} # {} THEN doubled \cup {n} ELSE doubled
    /\ placed' = IF n # Here /\ Listed(n) THEN placed \cup {a} ELSE placed \ {a}

\* db.CreateAppWithNonce.
InsertApp(h) ==
    /\ req[h].at = "insert" /\ nextApp <= MaxApps
    /\ GoesTo(h, IF req[h].member THEN "join" ELSE "rebuild")
    /\ apps' = [apps EXCEPT ![nextApp] = req[h].row]
    /\ nextApp' = nextApp + 1 /\ Lands(h, nextApp, req[h].row.at)
    /\ UNCHANGED <<dirs, hosts, records, memory, begun, crossed>>

\* The Member becomes a member of the app (the row is in Access); or that
\* fails, and the request ends with the app there.
Join(h) == req[h].at = "join" /\ GoesTo(h, "rebuild") /\ UNCHANGED <<rows, memory, begun, crossed, doubled, placed>>

JoinFails(h) ==
    /\ req[h].at = "join" /\ Ends(h)
    /\ UNCHANGED <<rows, memory, begun, crossed, doubled, placed>>

\* coreUpdateApp.
BeginUpdateApp(h, a, n, g) ==
    /\ Exists(a)
    /\ Address(n, a) /\ ValidSlot(g)
    /\ Begin(h, [NoRequest EXCEPT !.at = "update", !.app = a, !.row = [at |-> n, gate |-> g], !.checked = Checks(n),
                                  !.about = Concerns(n, g) \cup Concerns(apps[a].at, NoGate)])

\* db.UpdateApp, of a row that may have gone.
UpdateApp(h) ==
    /\ req[h].at = "update" /\ GoesTo(h, "rebuild")
    /\ IF Exists(req[h].app)
       THEN apps' = [apps EXCEPT ![req[h].app] = req[h].row] /\ Lands(h, req[h].app, req[h].row.at)
       ELSE UNCHANGED <<apps, doubled, placed>>
    /\ UNCHANGED <<nextApp, dirs, hosts, records, memory, begun, crossed>>

\* coreDeleteApp: the row, its members and links (in Access), its directory.
BeginDeleteApp(h, a) ==
    /\ Exists(a)
    /\ Begin(h, [NoRequest EXCEPT !.at = "delete", !.app = a, !.about = Concerns(apps[a].at, NoGate)])

DeleteApp(h) ==
    /\ req[h].at = "delete" /\ GoesTo(h, "rebuild")
    /\ apps' = [apps EXCEPT ![req[h].app] = Gone] /\ dirs' = dirs \ {req[h].app}
    /\ placed' = placed \ {req[h].app}
    /\ UNCHANGED <<nextApp, hosts, records, memory, begun, crossed, doubled>>

\* Files land in an app's slot (AppSlots has the steps), and the table is
\* rebuilt.
Publish(h, a) ==
    /\ Exists(a) /\ a \notin dirs
    /\ dirs' = dirs \cup {a} /\ begun' = begun + 1
    /\ req' = [req EXCEPT ![h].at = "rebuild"]
    /\ UNCHANGED <<apps, nextApp, hosts, records, memory, crossed, doubled, placed>>

-----------------------------------------------------------------------------
(* Hosts and records                                                       *)

\* checkHost, and coreCreateHost.
BeginCreateHost(h, i, row) ==
    /\ hosts[i] = Gone /\ ValidSlot(row.gate)
    /\ (\A k \in Handlers : ~(req[k].at = "addHost" /\ req[k].id = i))
    /\ Begin(h, [NoRequest EXCEPT !.at = "addHost", !.id = i, !.host = row, !.about = Concerns(row.name, row.gate)])

\* The unique index on host names.
NameFree(n, self) == \A i \in Hosts \ {self} : hosts[i] # Gone => hosts[i].name # n

\* A name the host was given after this request read the row is crossed too.
Unlists(h) == crossed' = crossed \cup {n \in Names \ req[h].about : Listed(n) /\ ~Listed(n)'}

\* db.writeHost: rewrites the row, or refuses a name that is taken.
WriteHost(h) ==
    /\ req[h].at \in {"addHost", "setHost"}
    /\ LET i == req[h].id IN
       IF NameFree(req[h].host.name, i)
       THEN /\ hosts' = [hosts EXCEPT ![i] = IF @ = Gone /\ req[h].at = "setHost" THEN Gone ELSE req[h].host]
            /\ GoesTo(h, "rebuild")
       ELSE Ends(h) /\ UNCHANGED hosts
    /\ Unlists(h)
    /\ UNCHANGED <<apps, nextApp, dirs, records, memory, begun, doubled, placed>>

\* refuseIfInUse.
InUse(n) == On(n) # {}

\* coreUpdateHost: renaming one that apps are on is refused.
BeginUpdateHost(h, i, row) ==
    /\ hosts[i] # Gone /\ ValidSlot(row.gate)
    /\ row.name # hosts[i].name => ~InUse(hosts[i].name)
    /\ Begin(h, [NoRequest EXCEPT !.at = "setHost", !.id = i, !.host = row,
                                  !.about = Concerns(row.name, row.gate) \cup {hosts[i].name}])

\* coreDeleteHost.
BeginDeleteHost(h, i) ==
    /\ hosts[i] # Gone /\ ~InUse(hosts[i].name)
    /\ Begin(h, [NoRequest EXCEPT !.at = "dropHost", !.id = i, !.about = {hosts[i].name}])

\* Mutant: the table is left as it is.
DeleteHostOnly(h) ==
    /\ req[h].at = "dropHost" /\ Ends(h)
    /\ hosts' = [hosts EXCEPT ![req[h].id] = Gone] /\ Unlists(h)
    /\ UNCHANGED <<apps, nextApp, dirs, records, memory, begun, doubled, placed>>

DeleteHost(h) ==
    /\ req[h].at = "dropHost" /\ GoesTo(h, "rebuild")
    /\ hosts' = [hosts EXCEPT ![req[h].id] = Gone] /\ Unlists(h)
    /\ UNCHANGED <<apps, nextApp, dirs, records, memory, begun, doubled, placed>>

\* Mutant: hosts' slots are not counted.
RefsOfApps(g) == \E a \in Nonces : Exists(a) /\ apps[a].gate = g

\* DeleteAuthRecord counts the slots that name a record (the services' too, in
\* Services).
Refs(g) ==
    \/ \E a \in Nonces : Exists(a) /\ apps[a].gate = g
    \/ \E i \in Hosts : hosts[i] # Gone /\ hosts[i].gate = g

BeginDropRecord(h, g) ==
    /\ g \in records /\ ~Refs(g)
    /\ Begin(h, [NoRequest EXCEPT !.at = "dropRecord", !.rec = g, !.about = {g}])

DropRecord(h) ==
    /\ req[h].at = "dropRecord" /\ Ends(h)
    /\ records' = records \ {req[h].rec}
    /\ UNCHANGED <<apps, nextApp, dirs, hosts, memory, begun, crossed, doubled, placed>>

-----------------------------------------------------------------------------
(* What is derived in memory                                               *)

\* The other rebuilds that have read and not installed yet.
Beside(h) == {k \in Handlers \ {h} : req[k].at = "install"}
Crowded(h) == [k \in Handlers |-> IF k \in Beside(h) THEN [req[k] EXCEPT !.alone = FALSE] ELSE req[k]]

\* rebuildHostedRoutes reads the rows and the disk.
Rebuild(h) ==
    /\ req[h].at = "rebuild"
    /\ req' = [Crowded(h) EXCEPT ![h].at = "install", ![h].built = Build, ![h].alone = Beside(h) = {}]
    /\ UNCHANGED <<rows, memory, begun, crossed, doubled, placed>>

InstallTable(h) ==
    /\ req[h].at = "install" /\ Ends(h)
    /\ table' = req[h].built /\ stale' = ~req[h].alone
    /\ UNCHANGED <<rows, begun, crossed, doubled, placed>>

\* The rows cannot be read: the table stays, and a line is logged.
RebuildFails(h) ==
    /\ req[h].at = "rebuild"
    /\ req' = [Crowded(h) EXCEPT ![h] = NoRequest]
    /\ stale' = TRUE
    /\ UNCHANGED <<rows, table, begun, crossed, doubled, placed>>

\* A restart: SetupRoutes starts from the rows.
Crash ==
    /\ req' = [h \in Handlers |-> NoRequest]
    /\ table' = Build /\ stale' = FALSE
    /\ UNCHANGED <<rows, begun, crossed, doubled, placed>>

-----------------------------------------------------------------------------
(* Specification                                                           *)

Arrive(h) ==
    \/ \E n \in Names \cup {Here}, g \in Gates :
        \/ \E member \in BOOLEAN : BeginCreateApp(h, member, n, g)
        \/ \E a \in Nonces : BeginUpdateApp(h, a, n, g)
    \/ \E a \in Nonces : BeginDeleteApp(h, a) \/ Publish(h, a)
    \/ \E i \in Hosts :
        \/ \E row \in Host : BeginCreateHost(h, i, row) \/ BeginUpdateHost(h, i, row)
        \/ BeginDeleteHost(h, i)
    \/ \E g \in Records : BeginDropRecord(h, g)

Step(h) ==
    \/ InsertApp(h) \/ Join(h) \/ JoinFails(h) \/ UpdateApp(h) \/ DeleteApp(h)
    \/ WriteHost(h) \/ DeleteHost(h) \/ DropRecord(h)
    \/ Rebuild(h) \/ InstallTable(h) \/ RebuildFails(h)

HostsNext ==
    \/ \E h \in Handlers : Free(h) /\ Arrive(h)
    \/ \E h \in Handlers : req[h].at # "idle" /\ Step(h)
    \/ Crash

HostsSpec == HostsInit /\ [][HostsNext]_hostsVars

-----------------------------------------------------------------------------
(* Properties                                                              *)

\* Once every write has been followed by its rebuild, the table is what the
\* rows and the disk say, unless rebuilds ran side by side and none has run
\* alone since: a host's new gate governs, a host taken off the list is gone.
TableFollowsTheRows ==
    (\A h \in Handlers : req[h].at \notin {"rebuild", "install"}) /\ ~stale => table = Build

\* "no other app at it": two apps share a listed host's address only if they took it
\* before the host was listed, or two requests about the name ran at once.
OneAppPerAddress ==
    \A n \in Names : Listed(n) /\ n \notin crossed \cup doubled => Cardinality(On(n)) <= 1

\* "they'd quietly stop being served": the host an app was put on stays
\* listed, unless requests about its name ran at once.
UsedHostsStay ==
    \A a \in placed : Exists(a) /\ apps[a].at # Here /\ apps[a].at \notin crossed => Listed(apps[a].at)

\* A gate that a row names is a record, unless the record was deleted while a
\* request that names it was running.
GatesAreRecords ==
    /\ \A a \in Nonces : Exists(a) /\ apps[a].gate \notin crossed => ValidSlot(apps[a].gate)
    /\ \A i \in Hosts : hosts[i] # Gone /\ hosts[i].gate \notin crossed => ValidSlot(hosts[i].gate)

\* Addresses, hosts and gates keep their references.
AddressesHold ==
    /\ HostsTypeOK
    /\ OneAppPerAddress
    /\ UsedHostsStay
    /\ GatesAreRecords

=============================================================================
