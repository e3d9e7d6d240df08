------------------------------- MODULE AppSlots -------------------------------
(***************************************************************************)
(* One app's deployment slots: the directories web (dev), staging and      *)
(* production on disk, web.bak behind a feed's payload, the row with its   *)
(* report of what was uploaded and deployed, and the route table.          *)
(*                                                                         *)
(* Uploads, deploys, file edits, feed payloads, packing and the app's own  *)
(* deletion each run through their handler one file operation at a time,   *)
(* with no lock between them: a job reads the row at its start and writes  *)
(* its report at its end, and the route table is computed from the disk    *)
(* and installed in two steps.  Any file operation may fail and end its    *)
(* job where it stands.                                                    *)
(***************************************************************************)
EXTENDS Naturals, FiniteSets, FiniteSetsExt

CONSTANTS
    Jobs,           \* requests that run at the same time
    Kinds,          \* what they may ask for
    Paths, Index,   \* the files of a site, walked in order, and its entry page
    Folder,         \* the files in a folder of it
    NoDir,          \* a directory that is not there
    None, Torn,     \* no file, and a file whose copy stopped halfway
    MaxVersions, MaxFaults, MaxRequests   \* bounds of the model

ASSUME SlotsAssumption ==
    /\ Paths \subseteq Nat /\ Index \in Paths \ Folder /\ Folder \subseteq Paths /\ IsFiniteSet(Paths)
    /\ Kinds \subseteq {"upload", "folder", "write", "remove", "clear", "deploy", "apply", "pack", "delete", "create"}
    /\ MaxVersions \in Nat /\ MaxFaults \in Nat /\ MaxRequests \in Nat
    /\ None # Torn /\ {None, Torn} \cap Nat = {} /\ NoDir \notin [Paths -> 1..MaxVersions \cup {None, Torn}]

VARIABLES
    exists,     \* the app has a row
    details,    \* the slots its details blob has a time for
    disk,       \* the directories
    routed,     \* the route table in use has the app
    jobs,
    made,       \* versions of files that have been sent in
    faults, asked,  \* failures and requests so far
    inDev,      \* history: versions that have been in the dev slot,
    filled      \* and slots that a job has filled to its end

vars == <<exists, details, disk, routed, jobs, made, faults, asked, inDev, filled>>

-----------------------------------------------------------------------------
(* State                                                                   *)

\* deploySlotDirs; web.bak is nobody's slot.
Slots == {"web", "staging", "production"}
Dirs == Slots \cup {"bak"}

Content == 1..MaxVersions \cup {None, Torn}
Files == [Paths -> Content]
Empty == [p \in Paths |-> None]

\* input: the files that came with the request; todo: files still to write;
\* report and route: what was read of the row and the disk; out: an archive.
\* For the properties, alone: nothing else has run since the job started; had
\* and want: its directory then, and what should be there at the end.
Job == [pc: {"idle", "clear", "backup", "rename", "open", "fill", "wipe", "save", "list", "install", "done", "failed"},
        kind: Kinds \cup {"none"}, from: Slots \cup {"input"}, to: Slots \cup {"out"},
        input: Files, todo: SUBSET Paths, report: SUBSET Slots, route: BOOLEAN, out: Files,
        alone: BOOLEAN, had: Files \cup {NoDir}, want: Files \cup {NoDir}]
Idle == [pc |-> "idle", kind |-> "none", from |-> "input", to |-> "web", input |-> Empty, todo |-> {},
         report |-> {}, route |-> FALSE, out |-> Empty, alone |-> FALSE, had |-> NoDir, want |-> NoDir]

TypeOK ==
    /\ exists \in BOOLEAN /\ details \subseteq Slots /\ routed \in BOOLEAN
    /\ disk \in [Dirs -> Files \cup {NoDir}]
    /\ jobs \in [Jobs -> Job]
    /\ made \in 0..MaxVersions /\ faults \in 0..MaxFaults /\ asked \in 0..MaxRequests
    /\ inDev \subseteq 1..MaxVersions /\ filled \subseteq Slots

\* An app that was just created.
Init ==
    /\ exists = TRUE /\ details = {} /\ routed = FALSE
    /\ disk = [d \in Dirs |-> NoDir]
    /\ jobs = [j \in Jobs |-> Idle]
    /\ made = 0 /\ faults = 0 /\ asked = 0
    /\ inDev = {} /\ filled = {}

Ready(j) == jobs[j].pc \in {"idle", "done", "failed"}

\* A folder that is not there has no files.
In(dir) == IF disk[dir] = NoDir THEN Empty ELSE disk[dir]
Present(files) == {p \in Paths : files[p] # None}

\* appHasSlotDir, of an app that is listed.
Routable == exists /\ \E s \in Slots : disk[s] # NoDir

\* slot says "dev", or "staging" in archives built before payloads landed in dev.
ApplyTarget(slot) == "web"

-----------------------------------------------------------------------------
(* Requests                                                                *)

\* A job starts: those that are running are no longer alone, and the records
\* of those that ended are dropped.
Starts(j, job) ==
    LET alone == \A k \in Jobs : Ready(k) IN
    /\ asked < MaxRequests /\ asked' = asked + 1
    /\ jobs' = [k \in Jobs |->
        IF k = j THEN [job EXCEPT !.alone = alone, !.want = IF alone THEN @ ELSE NoDir,
                                  !.had = IF alone THEN disk[IF job.to = "out" THEN "web" ELSE job.to] ELSE NoDir]
        ELSE IF Ready(k) THEN Idle ELSE [jobs[k] EXCEPT !.alone = FALSE, !.want = NoDir, !.had = NoDir]]

\* Files of a version of their own.
Sent(ps) == [p \in Paths |-> IF p \in ps THEN made + 1 ELSE None]

NewVersion == made < MaxVersions /\ made' = made + 1

\* coreUploadAppWeb: a bundle always has an entry page; with a dir, only that
\* folder is replaced.
Upload(j) ==
    /\ "upload" \in Kinds /\ Ready(j) /\ exists /\ NewVersion
    /\ \E ps \in SUBSET Paths :
        /\ Index \in ps
        /\ Starts(j, [Idle EXCEPT !.pc = "clear", !.kind = "upload", !.input = Sent(ps), !.todo = ps,
                                  !.report = details, !.want = Sent(ps)])
    /\ UNCHANGED <<exists, details, disk, routed, faults, inDev, filled>>

UploadFolder(j) ==
    /\ "folder" \in Kinds /\ Ready(j) /\ exists /\ NewVersion
    /\ \E ps \in (SUBSET Folder) \ {{}} :
        Starts(j, [Idle EXCEPT !.pc = "clear", !.kind = "folder", !.input = Sent(ps), !.todo = ps, !.report = details,
            !.want = [p \in Paths |-> IF p \in Folder THEN Sent(ps)[p] ELSE In("web")[p]]])
    /\ UNCHANGED <<exists, details, disk, routed, faults, inDev, filled>>

\* coreWriteAppFile on the web area: the whole file, or a patch of one that is
\* there (which ends the request before it has written anything).
Write(j) ==
    /\ "write" \in Kinds /\ Ready(j) /\ exists /\ NewVersion
    /\ \E p \in Paths :
        Starts(j, [Idle EXCEPT !.pc = "fill", !.kind = "write", !.input = Sent({p}), !.todo = {p},
                               !.report = details, !.want = [In("web") EXCEPT ![p] = made + 1]])
    /\ UNCHANGED <<exists, details, disk, routed, faults, inDev, filled>>

\* coreDeleteAppFile: the file goes, and the report stays as it is.
RemoveFile(j) ==
    /\ "remove" \in Kinds /\ Ready(j) /\ exists
    /\ \E p \in Present(In("web")) :
        /\ disk' = [disk EXCEPT !["web"][p] = None]
        /\ Starts(j, [Idle EXCEPT !.pc = "list", !.kind = "remove", !.want = [disk["web"] EXCEPT ![p] = None]])
    /\ UNCHANGED <<exists, details, routed, made, faults, inDev, filled>>

\* coreDeleteAppWeb.
ClearWeb(j) ==
    /\ "clear" \in Kinds /\ Ready(j) /\ exists
    /\ Starts(j, [Idle EXCEPT !.pc = "clear", !.kind = "clear", !.report = details])
    /\ UNCHANGED <<exists, details, disk, routed, made, faults, inDev, filled>>

\* coreDeployApp: from dev or staging, onto another slot, if there is anything.
Deploy(j) ==
    /\ "deploy" \in Kinds /\ Ready(j) /\ exists
    /\ \E from \in {"web", "staging"}, to \in Slots :
        /\ from # to /\ disk[from] # NoDir
        /\ Starts(j, [Idle EXCEPT !.pc = "clear", !.kind = "deploy", !.from = from, !.to = to,
                                  !.report = details, !.want = disk[from]])
    /\ UNCHANGED <<exists, details, disk, routed, made, faults, inDev, filled>>

\* executeUpdateOp on an app, by a feed or an import.
Apply(j) ==
    /\ "apply" \in Kinds /\ Ready(j) /\ exists /\ NewVersion
    /\ \E ps \in (SUBSET Paths) \ {{}}, slot \in {"dev", "staging"} :
        Starts(j, [Idle EXCEPT !.pc = IF disk[ApplyTarget(slot)] = NoDir THEN "open" ELSE "backup", !.kind = "apply",
                               !.to = ApplyTarget(slot), !.input = Sent(ps), !.want = Sent(ps)])
    /\ UNCHANGED <<exists, details, disk, routed, faults, inDev, filled>>

\* packArchive, for a feed's archive or a transfer: the dev slot as it is found.
Pack(j) ==
    /\ "pack" \in Kinds /\ Ready(j) /\ exists
    /\ Starts(j, [Idle EXCEPT !.pc = "open", !.kind = "pack", !.from = "web", !.to = "out", !.want = disk["web"]])
    /\ UNCHANGED <<exists, details, disk, routed, made, faults, inDev, filled>>

\* coreDeleteApp: the row first, then every directory.
Delete(j) ==
    /\ "delete" \in Kinds /\ Ready(j) /\ exists
    /\ exists' = FALSE /\ details' = {}
    /\ Starts(j, [Idle EXCEPT !.pc = "wipe", !.kind = "delete"])
    /\ UNCHANGED <<disk, routed, made, faults, inDev, filled>>

\* coreCreateAppWithNonce, for an import of an app that is not here (any more).
Create(j) ==
    /\ "create" \in Kinds /\ Ready(j) /\ ~exists
    /\ exists' = TRUE /\ details' = {}
    /\ Starts(j, [Idle EXCEPT !.pc = "list", !.kind = "create", !.want = disk["web"]])
    /\ UNCHANGED <<disk, routed, made, faults, inDev, filled>>

-----------------------------------------------------------------------------
(* Steps of a running request                                              *)

Goes(j, pc) == jobs' = [jobs EXCEPT ![j].pc = pc]

\* Mutant: The request's files are written over the old ones.
ClearNothing(j) ==
    /\ jobs[j].pc = "clear"
    /\ Goes(j, CASE jobs[j].kind = "deploy" -> "open" [] jobs[j].kind = "clear" -> "save" [] OTHER -> "fill")
    /\ UNCHANGED <<exists, details, disk, routed, made, faults, asked, inDev, filled>>

\* The directory, or the folder, is cleared.
Clear(j) ==
    LET to == jobs[j].to IN
    /\ jobs[j].pc = "clear"
    /\ disk' = [disk EXCEPT ![to] =
          IF jobs[j].kind # "folder" THEN NoDir
          ELSE IF @ = NoDir THEN NoDir ELSE [p \in Paths |-> IF p \in Folder THEN None ELSE @[p]]]
    /\ Goes(j, CASE jobs[j].kind = "deploy" -> "open" [] jobs[j].kind = "clear" -> "save" [] OTHER -> "fill")
    /\ UNCHANGED <<exists, details, routed, made, faults, asked, inDev, filled>>

\* The last backup makes room for this one,
Backup(j) ==
    /\ jobs[j].pc = "backup"
    /\ disk' = [disk EXCEPT !["bak"] = NoDir]
    /\ Goes(j, "rename")
    /\ UNCHANGED <<exists, details, routed, made, faults, asked, inDev, filled>>

\* Mutant: The backup is never made.
RenameOver(j) ==
    /\ jobs[j].pc = "rename"
    /\ Goes(j, "open")
    /\ UNCHANGED <<exists, details, disk, routed, made, faults, asked, inDev, filled>>

\* which a rename cannot land on if another op's is there by now.
Rename(j) ==
    /\ jobs[j].pc = "rename"
    /\ IF disk[jobs[j].to] # NoDir /\ (disk["bak"] = NoDir \/ Present(disk["bak"]) = {})
       THEN /\ disk' = [disk EXCEPT ![jobs[j].to] = NoDir, !["bak"] = disk[jobs[j].to]]
            /\ Goes(j, "open")
       ELSE Goes(j, "failed") /\ UNCHANGED disk
    /\ UNCHANGED <<exists, details, routed, made, faults, asked, inDev, filled>>

\* copyDir and packArchive walk the directory as it is listed now; a deploy's
\* source, or a pack's, may be gone.
Open(j) ==
    LET job == jobs[j]
        found == IF job.from = "input" THEN job.input ELSE In(job.from) IN
    /\ job.pc = "open"
    /\ IF job.from # "input" /\ disk[job.from] = NoDir
       THEN Goes(j, "failed") /\ UNCHANGED disk
       ELSE /\ jobs' = [jobs EXCEPT ![j].pc = "fill", ![j].todo = Present(found)]
            /\ disk' = IF job.to \in Slots THEN [disk EXCEPT ![job.to] = In(job.to)] ELSE disk
    /\ UNCHANGED <<exists, details, routed, made, faults, asked, inDev, filled>>

\* One file.  What came with a request is written into directories made as
\* needed; a copy needs its target's directory and the file it was told of.
Fill(j) ==
    LET job == jobs[j]
        p == Min(job.todo)
        new == IF job.from = "input" THEN job.input[p] ELSE In(job.from)[p] IN
    /\ job.pc = "fill" /\ job.todo # {}
    /\ IF new = None \/ (job.kind \in {"deploy", "apply"} /\ disk[job.to] = NoDir)
       THEN Goes(j, "failed") /\ UNCHANGED <<disk, inDev>>
       ELSE IF job.to = "out"
       THEN jobs' = [jobs EXCEPT ![j].todo = @ \ {p}, ![j].out[p] = new] /\ UNCHANGED <<disk, inDev>>
       ELSE /\ disk' = [disk EXCEPT ![job.to] = [In(job.to) EXCEPT ![p] = new]]
            /\ inDev' = IF job.to = "web" /\ new # Torn THEN inDev \cup {new} ELSE inDev
            /\ jobs' = [jobs EXCEPT ![j].todo = @ \ {p}]
    /\ UNCHANGED <<exists, details, routed, made, faults, asked, filled>>

\* Everything is written.  An archive with no files is refused.
Filled(j) ==
    LET job == jobs[j] IN
    /\ job.pc = "fill" /\ job.todo = {}
    /\ Goes(j, IF job.kind # "pack" THEN "save" ELSE IF Present(job.out) = {} THEN "failed" ELSE "done")
    /\ filled' = IF job.to \in Slots THEN filled \cup {job.to} ELSE filled
    /\ UNCHANGED <<exists, details, disk, routed, made, faults, asked, inDev>>

Wipe(j) ==
    /\ jobs[j].pc = "wipe"
    /\ disk' = [d \in Dirs |-> NoDir]
    /\ Goes(j, "list")
    /\ UNCHANGED <<exists, details, routed, made, faults, asked, inDev, filled>>

\* UpdateAppDetails with the blob read at the start (an op's is read here),
\* on the row that has the nonce now.
Save(j) ==
    LET job == jobs[j]
        old == IF job.kind = "apply" THEN details ELSE job.report IN
    /\ job.pc = "save"
    /\ details' = IF ~exists THEN details ELSE IF job.kind = "clear" THEN old \ {"web"} ELSE old \cup {job.to}
    /\ Goes(j, "list")
    /\ UNCHANGED <<exists, disk, routed, made, faults, asked, inDev, filled>>

\* rebuildHostedRoutes: what the rows and the disk say,
List(j) ==
    /\ jobs[j].pc = "list"
    /\ jobs' = [jobs EXCEPT ![j].pc = "install", ![j].route = Routable]
    /\ UNCHANGED <<exists, details, disk, routed, made, faults, asked, inDev, filled>>

\* put in place under the lock.
Install(j) ==
    /\ jobs[j].pc = "install"
    /\ routed' = jobs[j].route
    /\ Goes(j, "done")
    /\ UNCHANGED <<exists, details, disk, made, faults, asked, inDev, filled>>

\* Mutant: The error of a copy is dropped.
FailsQuietly(j) ==
    /\ faults < MaxFaults /\ faults' = faults + 1
    /\ jobs[j].pc = "open" /\ Goes(j, "save")
    /\ UNCHANGED <<exists, details, disk, routed, made, asked, inDev, filled>>

\* A file operation fails: a clearing leaves some of the files, a copy half of
\* one; the rest of the handler does not run.
Fails(j) ==
    LET job == jobs[j] IN
    /\ faults < MaxFaults /\ faults' = faults + 1
    /\ \/ /\ job.pc = "clear" /\ disk[job.to] # NoDir
          /\ \E left \in SUBSET Paths :
                disk' = [disk EXCEPT ![job.to] = [p \in Paths |->
                    IF p \in left \/ (job.kind = "folder" /\ p \notin Folder) THEN @[p] ELSE None]]
       \/ /\ job.pc = "fill" /\ job.todo # {} /\ job.to \in Slots /\ disk[job.to] # NoDir
          /\ disk' = [disk EXCEPT ![job.to][Min(job.todo)] = Torn]
       \/ job.pc \in {"backup", "rename", "open"} /\ UNCHANGED disk
       \/ job.pc = "save" /\ job.kind # "apply" /\ UNCHANGED disk
    /\ Goes(j, "failed")
    /\ UNCHANGED <<exists, details, routed, made, asked, inDev, filled>>

\* rebuildHostedRoutes of New.
Restart ==
    /\ \E j \in Jobs : ~Ready(j)
    /\ faults < MaxFaults /\ faults' = faults + 1
    /\ jobs' = [j \in Jobs |-> Idle]
    /\ routed' = Routable
    /\ UNCHANGED <<exists, details, disk, made, asked, inDev, filled>>

Asks(j) ==
    \/ Upload(j) \/ UploadFolder(j) \/ Write(j) \/ RemoveFile(j) \/ ClearWeb(j)
    \/ Deploy(j) \/ Apply(j) \/ Pack(j) \/ Delete(j) \/ Create(j)

Runs(j) ==
    \/ Clear(j) \/ Backup(j) \/ Rename(j) \/ Open(j) \/ Fill(j) \/ Filled(j)
    \/ Wipe(j) \/ Save(j) \/ List(j) \/ Install(j) \/ Fails(j)

Next == (\E j \in Jobs : Asks(j) \/ Runs(j)) \/ Restart

Spec == Init /\ [][Next]_vars

-----------------------------------------------------------------------------
(* Properties                                                              *)

\* A job that ran alone and to its end leaves exactly what it was asked for in
\* its directory, nothing of what was there before; the report has its slot;
\* and the app is in the route table iff a slot directory is on disk.
AloneLeavesWhole ==
    \A j \in Jobs : jobs[j].pc = "done" /\ jobs[j].alone =>
        LET job == jobs[j] IN
        /\ IF job.kind = "pack" THEN job.out = job.want ELSE disk[job.to] = job.want
        /\ job.kind \in {"upload", "folder", "write", "deploy", "apply"} => job.to \in details
        /\ job.kind # "pack" => routed = Routable

\* A feed's or an import's op has the slot it replaces whole in the backup
\* from its first new file on, also when it fails over them ("stays one rename
\* away", updates_core.go:444).
ReplacedSlotIsKept ==
    \A j \in Jobs :
        /\ jobs[j].kind = "apply" /\ jobs[j].alone /\ jobs[j].had # NoDir
        /\ jobs[j].pc \in {"fill", "save", "list", "install", "done", "failed"}
        => jobs[j].had \in {disk["bak"], disk[jobs[j].to]}

\* Staging and production only ever have files that have been in dev: deploys
\* promote, and no payload lands past dev, whatever slot its manifest says.
PromotedThroughDev ==
    \A s \in {"staging", "production"}, p \in Paths :
        disk[s] # NoDir => disk[s][p] \in inDev \cup {None, Torn}

\* The report never has a slot that no job has filled to its end, whichever
\* jobs write it over one another.
ReportedWasFilled == details \subseteq filled

\* Where the files of a slot come from, and what the report may say of it.
SlotsAreEarned ==
    /\ TypeOK
    /\ PromotedThroughDev
    /\ ReportedWasFilled

=============================================================================
