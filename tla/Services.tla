--------------------------------- MODULE Services ---------------------------------
(***************************************************************************)
(* Registered services: their rows, the definition files of task and       *)
(* virtual services, and the MCP servers mounted for them in memory.        *)
(*                                                                         *)
(* A definition lies under the service's NAME, a mount under the slug of    *)
(* its URL, and a mount answers under the gate of the row it was made from. *)
(* A request reads the row, writes the row or the file, and then mounts the *)
(* service it read or wrote; nothing is held between those steps.           *)
(***************************************************************************)
EXTENDS Naturals, FiniteSets

CONSTANTS
    Handlers,       \* requests in flight
    Names,          \* names of services
    Slugs,
    Gates,          \* what protected_by may hold
    Contents,       \* definitions that parse
    Bad,            \* a definition that does not
    Away,           \* the URL of a service elsewhere
    Gone,           \* a row, file or mount that is not there
    MaxServices, MaxRequests    \* bounds of the model

ASSUME ServicesAssumption ==
    /\ Bad \notin Contents /\ Gone \notin Contents \cup {Bad}
    /\ MaxServices \in Nat \ {0} /\ MaxRequests \in Nat
    /\ Names \cap Slugs = {} /\ (Names \cup Slugs) \cap 1..MaxServices = {}

VARIABLES
    services, nextId,
    files,      \* <<kind, name>> -> its definition
    mounts,     \* slug -> the MCP server there
    req, made,
    \* history
    crossed,    \* services, names and slugs of requests that shared one of them
    behind,     \* services that could not be mounted when last written
    shared      \* slugs that a task and a virtual service both have had

rows == <<services, nextId>>
history == <<crossed, behind, shared>>
servicesVars == <<rows, files, mounts, req, made, history>>

-----------------------------------------------------------------------------
(* State                                                                   *)

Ids == 1..MaxServices
Defined == {"tasks", "virtual"}         \* the types with a definition
Kinds == Defined \cup {"direct"}
Doors == {"tasks", "mcp"}               \* tasks://<slug> and /mcp/<slug>
Urls == (Doors \X Slugs) \cup {Away}
Row == [name: Names, url: Urls, kind: Kinds, gate: Gates]
Keys == Defined \X Names
Mounted == [id: Ids, gate: Gates, tools: Contents \cup {Bad}]

ASSUME GoneAssumption == Gone \notin Row \cup Mounted

\* A request: the service it works on and as what; old, the URL its row had;
\* tools, the definition it has read.
Request == [at: {"idle", "insert", "update", "load", "register", "delete", "unmount", "write", "erase"},
            id: 0..MaxServices, row: Row \cup {Gone}, old: Urls, tools: Contents \cup {Bad, Gone},
            about: SUBSET (Ids \cup Names \cup Slugs)]
NoRequest == [at |-> "idle", id |-> 0, row |-> Gone, old |-> Away, tools |-> Gone, about |-> {}]

ServicesTypeOK ==
    /\ services \in [Ids -> Row \cup {Gone}] /\ nextId \in 1..MaxServices + 1
    /\ files \in [Keys -> Contents \cup {Bad, Gone}]
    /\ mounts \in [Slugs -> Mounted \cup {Gone}]
    /\ \A h \in Handlers : req[h] \in Request
    /\ made \in 0..MaxRequests
    /\ crossed \subseteq Ids \cup Names \cup Slugs /\ behind \subseteq Ids /\ shared \subseteq Slugs

Exists(i) == services[i] # Gone
SlugOf(url) == {s \in Slugs : \E d \in Doors : url = <<d, s>>}     \* mcpSlug
Definition(row) == IF row.kind \in Defined THEN files[<<row.kind, row.name>>] ELSE Gone

\* Whether the registry's add makes a mount of a definition: the file is there
\* and, for a virtual service, parses.
Loads(row, tools) == row.kind \in Defined /\ tools # Gone /\ ~(row.kind = "virtual" /\ tools = Bad)

\* One virtual service with a definition, mounted.
ServicesInit ==
    /\ \E n \in Names, s \in Slugs, g \in Gates, c \in Contents :
        LET row == [name |-> n, url |-> <<"mcp", s>>, kind |-> "virtual", gate |-> g] IN
        /\ services = [i \in Ids |-> IF i = 1 THEN row ELSE Gone]
        /\ files = [k \in Keys |-> IF k = <<"virtual", n>> THEN c ELSE Gone]
        /\ mounts = [t \in Slugs |-> IF t = s THEN [id |-> 1, gate |-> g, tools |-> c] ELSE Gone]
    /\ nextId = 2
    /\ req = [h \in Handlers |-> NoRequest] /\ made = 0
    /\ crossed = {} /\ behind = {} /\ shared = {}

-----------------------------------------------------------------------------
(* Requests                                                                *)

Free(h) == req[h].at = "idle" /\ made < MaxRequests
About(i, row) == ({i} \ {0}) \cup {row.name} \cup SlugOf(row.url)
InFlight == UNION {req[k].about : k \in Handlers}

\* What a request about these things, and those under way about one of them,
\* may leave out of step.
Crossing(about) == UNION {about \cup req[k].about : k \in {k \in Handlers : about \cap req[k].about # {}}}

\* A free handler takes a request as far as its first write.
Begin(h, r) ==
    /\ made' = made + 1
    /\ req' = [req EXCEPT ![h] = r]
    /\ crossed' = crossed \cup Crossing(r.about)
    /\ UNCHANGED <<rows, files, mounts, behind, shared>>

Goes(h, at) == req' = [req EXCEPT ![h].at = at]
Ends(h) == req' = [req EXCEPT ![h] = NoRequest]

\* The unique columns of services.
Unique(i, row) == \A j \in Ids \ {i} : Exists(j) => services[j].name # row.name /\ services[j].url # row.url

\* A slug both doors lead to, to two services.
Shares == shared' = shared \cup {s \in Slugs : Cardinality({i \in Ids : services'[i] # Gone /\ s \in SlugOf(services'[i].url)}) > 1}

\* coreCreateService: checks and RegisterService.
CreateService(h, row) ==
    /\ nextId <= MaxServices /\ Unique(nextId, row)
    /\ services' = [services EXCEPT ![nextId] = row] /\ nextId' = nextId + 1
    /\ made' = made + 1 /\ Shares
    /\ LET about == About(nextId, row) IN
       /\ req' = [req EXCEPT ![h] = [NoRequest EXCEPT !.at = "load", !.id = nextId, !.row = row, !.old = row.url, !.about = about]]
       /\ crossed' = crossed \cup Crossing(about)
    /\ UNCHANGED <<files, mounts, behind>>

\* One field of a row, the rest as it was read (update_service).
Edits(row) ==
    {[row EXCEPT !.name = n] : n \in Names} \cup {[row EXCEPT !.url = u] : u \in Urls}
        \cup {[row EXCEPT !.kind = k] : k \in Kinds} \cup {[row EXCEPT !.gate = g] : g \in Gates}

\* coreUpdateService, as far as its checks.
BeginUpdateService(h, i) ==
    /\ Exists(i)
    /\ \E row \in Edits(services[i]) :
        Begin(h, [NoRequest EXCEPT !.at = "update", !.id = i, !.row = row, !.old = services[i].url,
                                   !.about = About(i, services[i]) \cup About(i, row)])

\* db.UpdateService: no error when the row has gone.
UpdateService(h) ==
    /\ req[h].at = "update"
    /\ LET i == req[h].id IN
       IF Unique(i, req[h].row)
       THEN /\ services' = [services EXCEPT ![i] = IF @ = Gone THEN Gone ELSE req[h].row]
            /\ Goes(h, "load")
       ELSE Ends(h) /\ UNCHANGED services
    /\ Shares
    /\ UNCHANGED <<nextId, files, mounts, made, crossed, behind>>

Unmounted(url) == [s \in Slugs |-> IF s \in SlugOf(url) THEN Gone ELSE mounts[s]]

\* Mutant: a service that moved keeps its old mount.
LoadOnly(h) ==
    /\ req[h].at = "load"
    /\ LET row == req[h].row
           tools == Definition(row) IN
       IF SlugOf(row.url) # {} /\ Loads(row, tools)
       THEN req' = [req EXCEPT ![h].at = "register", ![h].tools = tools] /\ UNCHANGED behind
       ELSE Ends(h) /\ behind' = behind \cup {req[h].id}
    /\ UNCHANGED <<rows, files, mounts, made, crossed, shared>>

\* syncMCPMount, and the first half of the registry's add: the old slug is left
\* behind, the definition read.  One that cannot be mounted changes nothing.
Load(h) ==
    /\ req[h].at = "load"
    /\ mounts' = IF req[h].old # req[h].row.url THEN Unmounted(req[h].old) ELSE mounts
    /\ LET row == req[h].row
           tools == Definition(row) IN
       IF SlugOf(row.url) # {} /\ Loads(row, tools)
       THEN req' = [req EXCEPT ![h].at = "register", ![h].tools = tools] /\ UNCHANGED behind
       ELSE Ends(h) /\ behind' = behind \cup {req[h].id}
    /\ UNCHANGED <<rows, files, made, crossed, shared>>

\* The second half of add: the entry replaces whatever is at the slug.
Register(h) ==
    /\ req[h].at = "register" /\ Ends(h)
    /\ mounts' = [s \in Slugs |-> IF s \in SlugOf(req[h].row.url)
                                  THEN [id |-> req[h].id, gate |-> req[h].row.gate, tools |-> req[h].tools] ELSE mounts[s]]
    /\ behind' = behind \ {req[h].id}
    /\ UNCHANGED <<rows, files, made, crossed, shared>>

\* coreDeleteService.  Members and links are in Access; the definition stays.
BeginDeleteService(h, i) ==
    /\ Exists(i)
    /\ Begin(h, [NoRequest EXCEPT !.at = "delete", !.id = i, !.row = services[i], !.about = About(i, services[i])])

DeleteService(h) ==
    /\ req[h].at = "delete" /\ Goes(h, "unmount")
    /\ services' = [services EXCEPT ![req[h].id] = Gone]
    /\ UNCHANGED <<nextId, files, mounts, made, history>>

\* The registry's remove.
Unmount(h) ==
    /\ req[h].at = "unmount" /\ Ends(h)
    /\ mounts' = Unmounted(req[h].row.url)
    /\ behind' = behind \ {req[h].id}
    /\ UNCHANGED <<rows, files, made, crossed, shared>>

-----------------------------------------------------------------------------
(* Definition files                                                        *)

\* definitionService: the row is read, and decides the path.
BeginWriteFile(h, i, c) ==
    /\ Exists(i) /\ services[i].kind \in Defined
    /\ Begin(h, [NoRequest EXCEPT !.at = "write", !.id = i, !.row = services[i], !.old = services[i].url, !.tools = c,
                                  !.about = About(i, services[i])])

\* coreWriteServiceFile, coreUploadServiceFiles: the file is written as it is,
\* and the service mounted.
WriteFile(h) ==
    /\ req[h].at = "write"
    /\ req' = [req EXCEPT ![h].at = "load", ![h].tools = Gone]
    /\ files' = [files EXCEPT ![<<req[h].row.kind, req[h].row.name>>] = req[h].tools]
    /\ UNCHANGED <<rows, mounts, made, history>>

BeginEraseFile(h, i) ==
    /\ Exists(i) /\ services[i].kind \in Defined
    /\ Begin(h, [NoRequest EXCEPT !.at = "erase", !.id = i, !.row = services[i], !.about = About(i, services[i])])

\* coreDeleteServiceFiles.
EraseFile(h) ==
    /\ req[h].at = "erase" /\ Goes(h, "unmount")
    /\ files' = [files EXCEPT ![<<req[h].row.kind, req[h].row.name>>] = Gone]
    /\ UNCHANGED <<rows, mounts, made, history>>

\* A restart: mountAllMCP mounts what the rows and the files say.  Of two
\* services at one slug the last by name is mounted: either of them.
Crash ==
    LET at(s) == {i \in Ids : Exists(i) /\ s \in SlugOf(services[i].url) /\ Loads(services[i], Definition(services[i]))} IN
    /\ req' = [h \in Handlers |-> NoRequest]
    /\ \E pick \in [Slugs -> Ids] :
        /\ \A s \in Slugs : pick[s] = 1 \/ pick[s] \in at(s)
        /\ mounts' = [s \in Slugs |->
             IF pick[s] \in at(s)
             THEN [id |-> pick[s], gate |-> services[pick[s]].gate, tools |-> Definition(services[pick[s]])]
             ELSE Gone]
        /\ \A s \in Slugs : at(s) # {} => pick[s] \in at(s)
    /\ behind' = {} /\ crossed' = {}
    /\ UNCHANGED <<rows, files, made, shared>>

-----------------------------------------------------------------------------
(* Specification                                                           *)

Arrive(h) ==
    \/ \E row \in Row : CreateService(h, row)
    \/ \E i \in Ids :
        \/ BeginUpdateService(h, i) \/ BeginDeleteService(h, i) \/ BeginEraseFile(h, i)
        \/ \E c \in Contents \cup {Bad} : BeginWriteFile(h, i, c)

Step(h) ==
    \/ UpdateService(h) \/ Load(h) \/ Register(h) \/ DeleteService(h) \/ Unmount(h)
    \/ WriteFile(h) \/ EraseFile(h)

ServicesNext ==
    \/ \E h \in Handlers : Free(h) /\ Arrive(h)
    \/ \E h \in Handlers : req[h].at # "idle" /\ Step(h)
    \/ Crash

ServicesSpec == ServicesInit /\ [][ServicesNext]_servicesVars

-----------------------------------------------------------------------------
(* Properties                                                              *)

\* Nothing about service i, its name or its slug is under way, or was while
\* another request about it was.
Settled(i) == Exists(i) /\ About(i, services[i]) \cap (InFlight \cup crossed \cup shared) = {}

\* What a service answers with is its definition, under its gate, and nothing
\* answers for one without a definition; unless its last write could not be
\* mounted, which leaves what was there.
MountsAreInStep ==
    \A i \in Ids : Settled(i) /\ i \notin behind =>
        \A s \in SlugOf(services[i].url) :
            mounts[s] = IF Loads(services[i], Definition(services[i]))
                        THEN [id |-> i, gate |-> services[i].gate, tools |-> Definition(services[i])]
                        ELSE Gone

\* "a renamed service leaves its old /mcp/ slug behind": what is mounted at a
\* slug is a service that exists and has that slug, unless requests about it
\* ran at once.  A deleted service does not go on answering.
MountsHaveAService ==
    \A s \in Slugs : mounts[s] # Gone /\ ({s, mounts[s].id} \cap (InFlight \cup crossed \cup shared)) = {} =>
        Exists(mounts[s].id) /\ s \in SlugOf(services[mounts[s].id].url)

\* What answers at a slug is what the rows and the definitions say.
MountsFollowTheRows ==
    /\ ServicesTypeOK
    /\ MountsAreInStep
    /\ MountsHaveAService

=============================================================================
